--------------------------- MODULE ScriptMeaning ---------------------------
(***************************************************************************)
(* What scripts mean: a direct evaluation of the items of a script, one    *)
(* after the other, in which nothing is interleaved and there is no stack. *)
(*                                                                         *)
(* Scripts call each other, so the evaluation is recursive.  The operators *)
(* that recur are parameters; the definitions MeaningOf, GroupMeaningOf    *)
(* and LoopMeaningOf are the right-hand sides of their equations.          *)
(***************************************************************************)
EXTENDS SakuraThread

CONSTANTS
    Meaning(_, _, _),       \* = MeaningOf
    GroupMeaning(_, _, _),  \* = GroupMeaningOf
    LoopMeaning(_, _, _, _) \* = LoopMeaningOf

\* A part of a script fails, or turns the items into others.
Bad == [ok |-> FALSE, env |-> <<>>]
Good(env) == [ok |-> TRUE, env |-> env]

\* The items env with the values of those in new; their names stay.
Updated(env, new) ==
    [k \in DOMAIN env |-> IF k \in DOMAIN new THEN new[k] ELSE env[k]]

\* The items env and one more, a counter variable.
WithVariable(env, name, d) == With([k \in {name} |-> d], env)

\* A called tree sees its own values and those of the call.
CallMeaning(path, values, env) ==
    IF ~CanFillInput(values, env) THEN Bad
    ELSE LET given == With(FillInputValueItemMap(values, env),
                           Tree[path].values)
             called == Meaning(Tree[path].childs, Items(given), path)
         IN IF \/ \E k \in DOMAIN given : given[k].item = Uninitialized
               \/ ~called.ok
               \/ \E k \in Outputs(given) :
                    NameIn(given[k].item) \notin DOMAIN called.env
            THEN Bad
            ELSE Good(Updated(env, Items(FillOutputValueItemMap(given,
                                                        called.env))))

\* The blossoms of a group with the values of the group, up to a resource.
GroupMeaningOf(blossoms, values, env) ==
    IF blossoms = <<>> THEN Good(env)
    ELSE LET b == Head(blossoms)
             all == With(b.values, values)
             filled == FillInputValueItemMap(all, env)
             grown == Grow(b.type, Items(filled))
         IN IF b.type \in DOMAIN Resource
            THEN CallMeaning(Resource[b.type], values, env)
            ELSE IF ~CanFillInput(all, env) \/ ~grown.ok THEN Bad
            ELSE GroupMeaning(Tail(blossoms), values,
                    Updated(env, Items(FillOutputValueItemMap(filled,
                                                        grown.output))))

\* The iterations of loop item c over the positions left.
LoopMeaningOf(c, left, env, path) ==
    IF left = <<>> THEN Good(env)
    ELSE LET once == Meaning(c.content,
                             WithVariable(env, c.tempVarName, Head(left)),
                             path)
         IN IF ~once.ok THEN Bad
            ELSE LoopMeaning(c, Tail(left), once.env, path)

\* All branches start from the same items, and the last one wins.
ParallelMeaning(parts, env, path) ==
    LET each == [i \in DOMAIN parts |-> Meaning(<<parts[i]>>, env, path)]
    IN IF \E i \in DOMAIN each : ~each[i].ok THEN Bad
       ELSE IF parts = <<>> THEN Good(env)
       ELSE Last(each)

\* Every iteration of a parallel loop starts from the same items.
ParallelLoopMeaning(c, env, path) ==
    LET left == Iterations(c, env)
        each == [i \in DOMAIN left |->
                    Meaning(c.content,
                            WithVariable(env, c.tempVarName, left[i]), path)]
        aggregated == Aggregate(c.values, [i \in DOMAIN left |-> each[i].env])
    IN IF (\E i \in DOMAIN left : ~each[i].ok) \/ ~aggregated.ok THEN Bad
       ELSE IF DOMAIN left = {} THEN Good(env)
       ELSE Good(Updated(env, Items(aggregated.values)))

IfMeaning(c, env, path) ==
    IF ~CanFill(c.leftSide, env) \/ ~CanFill(c.rightSide, env) THEN Bad
    ELSE LET same == Text(FillValueItem(c.leftSide, env).item)
                        = Text(FillValueItem(c.rightSide, env).item)
         IN Meaning(IF same = c.equal THEN c.ifContent ELSE c.elseContent,
                    env, path)

ItemMeaning(c, env, path) ==
    CASE c.kind = "group" ->
            IF Convert(c.name, env).ok
            THEN GroupMeaning(c.blossoms, c.values, env) ELSE Bad
      [] c.kind = "subtree" ->
            LET called == Front(path) \o c.name
            IN IF called \in DOMAIN Tree
               THEN CallMeaning(called, c.values, env) ELSE Bad
      [] c.kind = "if" -> IfMeaning(c, env, path)
      [] c.kind = "parallel" -> ParallelMeaning(c.parts, env, path)
      [] c.kind \in {"for", "foreach"} ->
            IF ~CanIterate(c, env) THEN Bad
            ELSE IF c.parallel THEN ParallelLoopMeaning(c, env, path)
            ELSE LET looped == LoopMeaning(c, Iterations(c, env),
                                           With(Items(c.values), env), path)
                 IN IF looped.ok THEN Good(Updated(env, looped.env)) ELSE Bad

\* What the items seq of the file path make of the items env.
MeaningOf(seq, env, path) ==
    IF seq = <<>> THEN Good(env)
    ELSE LET first == ItemMeaning(Code[Head(seq)], env, path)
         IN IF first.ok THEN Meaning(Tail(seq), first.env, path) ELSE Bad

-----------------------------------------------------------------------------
\* Whatever the interleaving, triggerTree returns what the script means: it
\* fails if and only if an item of the script fails, and otherwise its result
\* is the values of the tree's outputs.  This needs forks that announce what
\* they can count: a plan that forks a second time does not wait.
RunsAsWritten ==
    orderly /\ returned # "none" =>
        LET meant == Meaning(Tree[call.id].childs, InitialItems(call), call.id)
            typed == \A k \in Outputs(Tree[call.id].values) :
                        TypeOf(meant.env[k]) = Tree[call.id].values[k].fieldType
        IN IF Accepts(call) /\ meant.ok
           THEN /\ returned = IF typed THEN "ok" ELSE "failed"
                /\ result = [k \in Outputs(Tree[call.id].values) |->
                                meant.env[k]]
           ELSE returned = "failed"
=============================================================================
