---------------------------- MODULE SakuraThread ----------------------------
(***************************************************************************)
(* What a script does: the recursive descent of SakuraThread through the   *)
(* items of a tree, the maps of items it works on, the subtrees and        *)
(* resources it calls, and the merge of parallel branches and loops.       *)
(*                                                                         *)
(* The descent of one plan is a stack of things to do.  A caller triggers  *)
(* one tree (m_lock allows one at a time).  Plans wait in a queue until a  *)
(* worker of the pool takes them, and the worker of a plan that waits for  *)
(* its children does nothing else.  It waits until a counter equals the    *)
(* number it has announced, and the counter is never reset: module         *)
(* SubtreeQueue has the steps of queue, counter and flags one by one.      *)
(*                                                                         *)
(* Items of scripts are identifiers with a description Code[i], as the     *)
(* nodes of the parsed tree are pointers.  Paths are sequences of names    *)
(* below the root directory.                                               *)
(***************************************************************************)
EXTENDS ItemMaps, FiniteSets, SequencesExt

CONSTANTS
    Item,           \* the items of all scripts
    Code,           \* Code[i]: what item i is and what it consists of
    Home,           \* Home[i]: the path of the file item i is written in
    Tree,           \* m_trees: path -> [values, childs]
    Resource,       \* m_resources: name -> path of its tree in Tree
    Grow(_, _),     \* what a blossom makes of its input: [ok, output]
    Text(_),        \* DataItem::toString
    Calls,          \* calls of triggerTree: [id, initialValues]
    Word,           \* 2^64 in the code: positions are uint64_t
    CounterRange,   \* 2^32 in the code: counters are uint32_t
    NumberOfThreads \* the size of the pool

ASSUME PoolAssumption ==
    /\ NumberOfThreads \in Nat
    /\ CounterRange \in Nat \ {0}
    /\ Word \in Nat \ {0}

\* A list of items that is written in the file path.
InFile(seq, path) == seq \in Seq(Item) /\ \A i \in ToSet(seq) : Home[i] = path

\* What the parser builds: a tree, an item and what it consists of are in one
\* file.
ASSUME ScriptAssumption ==
    /\ \A path \in DOMAIN Tree : InFile(Tree[path].childs, path)
    /\ \A i \in Item :
        /\ Code[i].kind = "if" => /\ InFile(Code[i].ifContent, Home[i])
                                 /\ InFile(Code[i].elseContent, Home[i])
        /\ Code[i].kind \in {"for", "foreach"} =>
                InFile(Code[i].content, Home[i])
        /\ Code[i].kind = "parallel" => InFile(Code[i].parts, Home[i])
    /\ \A name \in DOMAIN Resource : Resource[name] \in DOMAIN Tree

VARIABLES
    call,           \* the call of triggerTree
    returned,       \* what it has returned: "none", "ok" or "failed"
    result,         \* its result map
    status,         \* status[p]: "run", "wait", "ok" or "failed"
    todo,           \* todo[p]: the stack of frames
    items,          \* GrowthPlan::items
    filePath,       \* GrowthPlan::filePath
    queue,          \* the plans that no worker has taken yet
    earlier,        \* earlier[p]: what p's former children have counted
    orderly         \* history: every fork has announced what it can count

callVars == <<call, returned, result>>
planVars == <<status, todo, items, filePath>>
forkVars == <<earlier, orderly>>
vars == <<callVars, planVars, queue, forkVars>>

\* A plan is named by its way from the plan of the triggered tree.
Root == <<>>
Live == DOMAIN status
Childs(p) == {c \in Live : c # <<>> /\ Front(c) = p}
Below(p) == {c \in Live : Len(p) < Len(c) /\ SubSeq(c, 1, Len(p)) = p}
Ended(p) == status[p] \in {"ok", "failed"}

\* ActiveCounter::isCounter of p: its children, present and former ones, that
\* have ended.
IsCounter(p) ==
    (earlier[p] + Cardinality({c \in Childs(p) : Ended(c)})) % CounterRange

\* Frames of the stack: items, and what is left of blossom groups, loops and
\* calls that have been entered.
ItemFrames(seq) == [i \in DOMAIN seq |-> [kind |-> "item", item |-> seq[i]]]

Top(p) == Head(todo[p])
Rest(p) == Tail(todo[p])
At(p, kind) ==
    /\ p \in Live \ queue
    /\ status[p] = "run"
    /\ todo[p] # <<>>
    /\ Top(p).kind = "item"
    /\ Code[Top(p).item].kind = kind
AtFrame(p, kind) ==
    /\ p \in Live \ queue
    /\ status[p] = "run"
    /\ todo[p] # <<>>
    /\ Top(p).kind = kind

\* The code of the item on top of the stack.
Current(p) == Code[Top(p).item]

-----------------------------------------------------------------------------
\* The next thing to do for p, with its items and its file path.
Continue(p, stack, map, path) ==
    /\ todo' = [todo EXCEPT ![p] = stack]
    /\ items' = [items EXCEPT ![p] = map]
    /\ filePath' = [filePath EXCEPT ![p] = path]
    /\ UNCHANGED <<callVars, status, queue, forkVars>>

\* Every caller of a method that returns false returns false itself.
Fail(p) ==
    /\ todo' = [todo EXCEPT ![p] = <<>>]
    /\ status' = [status EXCEPT ![p] = "failed"]
    /\ UNCHANGED <<callVars, items, filePath, queue, forkVars>>

\* A caller triggers a tree with values for some of its items.
Init ==
    /\ call \in Calls
    /\ returned = "none"
    /\ result = <<>>
    /\ status = <<>>
    /\ todo = <<>>
    /\ items = <<>>
    /\ filePath = <<>>
    /\ queue = {}
    /\ earlier = <<>>
    /\ orderly = TRUE

InitialItems(c) ==
    OverrideItems(c.initialValues, Items(Tree[c.id].values),
                  "ONLY_NON_EXISTING")

\* What has to be right before the tree is spawned, and what the worker
\* checks first.
Accepts(c) ==
    /\ c.id \in DOMAIN Tree
    /\ CheckTreeValues(Tree[c.id].values, InitialItems(c), "INPUT")
    /\ CheckInput(Tree[c.id].values, InitialItems(c)) = {}
    /\ CheckItems(InitialItems(c)) = {}

TriggerTree ==
    /\ returned = "none"
    /\ Live = {}
    /\ IF Accepts(call)
       THEN /\ status' = [p \in {Root} |-> "run"]
            /\ todo' = [p \in {Root} |-> ItemFrames(Tree[call.id].childs)]
            /\ items' = [p \in {Root} |-> InitialItems(call)]
            /\ filePath' = [p \in {Root} |-> call.id]
            /\ queue' = {Root}
            /\ earlier' = [p \in {Root} |-> 0]
            /\ UNCHANGED <<callVars, orderly>>
       ELSE /\ returned' = "failed"
            /\ UNCHANGED <<call, result, planVars, queue, forkVars>>

\* The items that the tree declares as outputs.
Collected(map) ==
    [k \in Outputs(Tree[call.id].values) \cap DOMAIN map |-> map[k]]

ReturnTrigger ==
    /\ returned = "none"
    /\ Live = {Root}
    /\ Ended(Root)
    /\ result' = IF status[Root] = "ok" THEN Collected(items[Root]) ELSE result
    /\ returned' = IF /\ status[Root] = "ok"
                      /\ CheckTreeValues(Tree[call.id].values, result',
                                         "OUTPUT")
                   THEN "ok" ELSE "failed"
    /\ UNCHANGED <<call, planVars, queue, forkVars>>

\* A worker takes a plan from the queue.  Plans are spawned in one step here,
\* so the order in which those of two parents are queued is left open.
Busy == {p \in Live \ queue : status[p] \in {"run", "wait"}}

Start(p) ==
    /\ p \in queue
    /\ Cardinality(Busy) < NumberOfThreads
    /\ queue' = queue \ {p}
    /\ UNCHANGED <<callVars, planVars, forkVars>>

-----------------------------------------------------------------------------
\* The items of a list one after the other, and then the rest of the stack.
Sequence(seq, rest) == ItemFrames(seq) \o rest

\* A tree is called with values: it runs on a map of its own that starts with
\* the tree's values and those of the call; the map of p is kept for later.
RunSubtreeCall(p, path, values) ==
    LET filled == FillInputValueItemMap(values, items[p])
        merged == OverrideItems(Tree[path].values, filled, "ALL")
        frame == [kind |-> "return", values |-> merged, backup |-> items[p],
                  path |-> filePath[p]]
    IN IF CanFillInput(values, items[p]) /\ CheckItems(Items(merged)) = {}
       THEN Continue(p, Sequence(Tree[path].childs, <<frame>> \o Rest(p)),
                     Items(merged), path)
       ELSE Fail(p)

\* A subtree is looked up relative to the file of the item that calls it.
GetRelativePath(path, name) == Front(path) \o name

ProcessSubtree(p) ==
    /\ At(p, "subtree")
    /\ LET path == GetRelativePath(filePath[p], Current(p).name)
       IN IF path \in DOMAIN Tree
          THEN RunSubtreeCall(p, path, Current(p).values)
          ELSE Fail(p)

\* Mutant of ReturnFromSubtree: the file path of the caller is not restored.
ReturnFromSubtreeThere(p) ==
    /\ AtFrame(p, "return")
    /\ LET written == FillOutputValueItemMap(Top(p).values, items[p])
       IN IF CanFillOutput(Top(p).values, items[p])
          THEN Continue(p, Rest(p),
                        OverrideItems(Top(p).backup, Items(written),
                                      "ONLY_EXISTING"),
                        filePath[p])
          ELSE Fail(p)

\* The called tree has come to its end: its outputs go to the caller's items.
ReturnFromSubtree(p) ==
    /\ AtFrame(p, "return")
    /\ LET written == FillOutputValueItemMap(Top(p).values, items[p])
       IN IF CanFillOutput(Top(p).values, items[p])
          THEN Continue(p, Rest(p),
                        OverrideItems(Top(p).backup, Items(written),
                                      "ONLY_EXISTING"),
                        Top(p).path)
          ELSE Fail(p)

Blossoms(values, blossoms) ==
    [kind |-> "group", values |-> values, blossoms |-> blossoms]

\* The name of a group, too, is a template.
ProcessBlossomGroup(p) ==
    /\ At(p, "group")
    /\ IF Convert(Current(p).name, items[p]).ok
       THEN Continue(p, <<Blossoms(Current(p).values, Current(p).blossoms)>>
                            \o Rest(p),
                     items[p], filePath[p])
       ELSE Fail(p)

\* The next blossom of a group runs on its own values and those of the group.
\* All its values, inputs too, are written back to the items they name.
ProcessBlossom(p) ==
    /\ AtFrame(p, "group")
    /\ Top(p).blossoms # <<>>
    /\ LET blossom == Head(Top(p).blossoms)
           values == OverrideItems(blossom.values, Top(p).values,
                                   "ONLY_NON_EXISTING")
           filled == FillInputValueItemMap(values, items[p])
           grown == Grow(blossom.type, Items(filled))
           written == FillOutputValueItemMap(filled, grown.output)
       IN /\ blossom.type \notin DOMAIN Resource
          /\ IF CanFillInput(values, items[p]) /\ grown.ok
             THEN Continue(p, <<Blossoms(Top(p).values,
                                         Tail(Top(p).blossoms))>> \o Rest(p),
                           OverrideItems(items[p], Items(written),
                                         "ONLY_EXISTING"),
                           filePath[p])
             ELSE Fail(p)

\* A blossom that is a resource: its tree is called with the group's values,
\* and the group is over.
ProcessResource(p) ==
    /\ AtFrame(p, "group")
    /\ Top(p).blossoms # <<>>
    /\ LET type == Head(Top(p).blossoms).type
       IN /\ type \in DOMAIN Resource
          /\ RunSubtreeCall(p, Resource[type], Top(p).values)

EndBlossomGroup(p) ==
    /\ AtFrame(p, "group")
    /\ Top(p).blossoms = <<>>
    /\ Continue(p, Rest(p), items[p], filePath[p])

ProcessIf(p) ==
    /\ At(p, "if")
    /\ LET c == Current(p)
           left == FillValueItem(c.leftSide, items[p]).item
           right == FillValueItem(c.rightSide, items[p]).item
           ifMatch == (Text(left) = Text(right)) = c.equal
       IN IF CanFill(c.leftSide, items[p]) /\ CanFill(c.rightSide, items[p])
          THEN Continue(p, Sequence(IF ifMatch THEN c.ifContent
                                    ELSE c.elseContent, Rest(p)),
                        items[p], filePath[p])
          ELSE Fail(p)

-----------------------------------------------------------------------------
\* A loop item c can be entered with items map, and what its counter variable
\* takes one after the other.
CanIterate(c, map) ==
    IF c.kind = "for" THEN CanFill(c.start, map) /\ CanFill(c.end, map)
    ELSE CanFill(c.array, map)

Position(v, map) == Long(FillValueItem(v, map).item) % Word

\* A position that is cast back to long.
Signed(n) == IF n >= Word \div 2 THEN n - Word ELSE n

Iterations(c, map) ==
    IF c.kind = "for"
    THEN LET start == Position(c.start, map)
             end == Position(c.end, map)
         IN [i \in 1 .. end - start |-> <<"int", Signed(start + i - 1)>>]
    ELSE FillValueItem(c.array, map).item[2]

Loop(i, left, backup) ==
    [kind |-> "loop", item |-> i, left |-> left, backup |-> backup]

\* A sequential loop starts with its own values in addition to p's items.
RunLoop(p) ==
    /\ At(p, "for") \/ At(p, "foreach")
    /\ ~Current(p).parallel
    /\ IF CanIterate(Current(p), items[p])
       THEN Continue(p, <<Loop(Top(p).item, Iterations(Current(p), items[p]),
                               items[p])>> \o Rest(p),
                     OverrideItems(items[p], Items(Current(p).values), "ALL"),
                     filePath[p])
       ELSE Fail(p)

\* Mutant of NextIteration: the counter is not increased.
NextIterationAgain(p) ==
    /\ AtFrame(p, "loop")
    /\ Top(p).left # <<>>
    /\ Continue(p, Sequence(Current(p).content, <<Top(p)>> \o Rest(p)),
                Insert(items[p], Current(p).tempVarName, Head(Top(p).left)),
                filePath[p])

\* The next position of the loop goes to its counter variable.
NextIteration(p) ==
    /\ AtFrame(p, "loop")
    /\ Top(p).left # <<>>
    /\ Continue(p, Sequence(Current(p).content,
                            <<Loop(Top(p).item, Tail(Top(p).left),
                                   Top(p).backup)>> \o Rest(p)),
                Insert(items[p], Current(p).tempVarName, Head(Top(p).left)),
                filePath[p])

\* Mutant of EndLoop: the items of the loop stay.
EndLoopKeeping(p) ==
    /\ AtFrame(p, "loop")
    /\ Top(p).left = <<>>
    /\ Continue(p, Rest(p), items[p], filePath[p])

\* After the loop p has the names it had before, with the values of the loop.
EndLoop(p) ==
    /\ AtFrame(p, "loop")
    /\ Top(p).left = <<>>
    /\ Continue(p, Rest(p),
                OverrideItems(Top(p).backup, items[p], "ONLY_EXISTING"),
                filePath[p])

-----------------------------------------------------------------------------
\* Function f with the values of function new in addition.
With(new, f) ==
    [x \in DOMAIN new \cup DOMAIN f |->
        IF x \in DOMAIN new THEN new[x] ELSE f[x]]

\* The counter of p reaches number when exactly the plans in new have ended:
\* none of p's children has ended before, and there are as many new ones.
CanCount(p, number, new) ==
    /\ earlier[p] = 0
    /\ IsFiniteSet(new) /\ number = Cardinality(new) /\ number < CounterRange

\* One child plan for every stack, with the items given for it; p waits in the
\* frame of the join for as many of them as the frame says.
Spawn(p, stacks, maps, frame) ==
    LET new == {Append(p, i) : i \in DOMAIN stacks}
    IN /\ status' = With([q \in new |-> "run"], [status EXCEPT ![p] = "wait"])
       /\ todo' = With([q \in new |-> stacks[Last(q)]],
                       [todo EXCEPT ![p] = <<frame>> \o Rest(p)])
       /\ items' = With([q \in new |-> maps[Last(q)]], items)
       /\ filePath' = With([q \in new |-> filePath[p]], filePath)
       /\ queue' = queue \cup new
       /\ earlier' = With([q \in new |-> 0], earlier)
       /\ orderly' = (orderly /\ CanCount(p, frame.shouldCount, new))
       /\ UNCHANGED callVars

ProcessParallelPart(p) ==
    /\ At(p, "parallel")
    /\ LET parts == Current(p).parts
       IN Spawn(p, [i \in DOMAIN parts |-> ItemFrames(<<parts[i]>>)],
                [i \in DOMAIN parts |-> items[p]],
                [kind |-> "join", loop |-> FALSE, values |-> <<>>,
                 shouldCount |-> Len(parts) % CounterRange])

\* The number of iterations, as an unsigned difference.
LoopSize(c, map) ==
    (IF c.kind = "for" THEN Position(c.end, map) - Position(c.start, map)
     ELSE Len(Iterations(c, map))) % CounterRange

\* One child plan per iteration; there are none if the end of the loop is
\* before its start, but a number of them is announced.
ProcessParallelLoop(p) ==
    /\ At(p, "for") \/ At(p, "foreach")
    /\ Current(p).parallel
    /\ IF CanIterate(Current(p), items[p])
       THEN LET iterations == Iterations(Current(p), items[p])
            IN Spawn(p, [i \in DOMAIN iterations |->
                            ItemFrames(Current(p).content)],
                     [i \in DOMAIN iterations |->
                            Insert(items[p], Current(p).tempVarName,
                                   iterations[i])],
                     [kind |-> "join", loop |-> TRUE,
                      values |-> Current(p).values,
                      shouldCount |-> LoopSize(Current(p), items[p])])
       ELSE Fail(p)

\* The plans that have item k, and the one of them that was spawned first, or
\* last.
Having(plans, k) == {c \in plans : k \in DOMAIN items[c]}
First(plans) == CHOOSE c \in plans : \A d \in plans : Last(c) <= Last(d)
Latest(plans) == CHOOSE c \in plans : \A d \in plans : Last(d) <= Last(c)

\* The names p and its children have.
MergedNames(p) == DOMAIN items[p] \cup UNION {DOMAIN items[c] : c \in Childs(p)}

\* Mutant of Merged: the branches are merged in the opposite order.
MergedBackwards(p) ==
    [k \in MergedNames(p) |->
        IF Having(Childs(p), k) = {} THEN items[p][k]
        ELSE items[First(Having(Childs(p), k))][k]]

\* Parallel branches: every child's items replace those of p, in order; the
\* value of a name is that of the last child which has it.
Merged(p) ==
    [k \in MergedNames(p) |->
        IF Having(Childs(p), k) = {} THEN items[p][k]
        ELSE items[Latest(Having(Childs(p), k))][k]]

\* The numbers of the child plans, in the order in which they were spawned.
Numbers(p) == {Last(c) : c \in Childs(p)}

\* Values that are filled from one map after the other.
Aggregate(values, maps) ==
    FoldLeft(LAMBDA a, map :
                [ok |-> a.ok /\ CanFillInput(a.values, map),
                 values |-> IF CanFillInput(a.values, map)
                            THEN FillInputValueItemMap(a.values, map)
                            ELSE a.values],
             [ok |-> TRUE, values |-> values], maps)

\* Parallel loops: the loop's values are filled from the items of every child,
\* in order, and replace the items of p they name.
Aggregated(p) ==
    Aggregate(Top(p).values, [i \in Numbers(p) |-> items[Append(p, i)]])

\* The counter of p equals the announced number: p takes over what its children
\* did, or fails with them, and deletes them with all below them.  After an
\* earlier fork of p that may be before they have ended; what workers do with
\* deleted plans is undefined and left out.
Join(p) ==
    /\ p \in Live
    /\ status[p] = "wait"
    /\ IsCounter(p) = Top(p).shouldCount
    /\ LET kept == Live \ Below(p)
           ended == {c \in Childs(p) : Ended(c)}
           failed == \E c \in Childs(p) : status[c] = "failed"
           loop == Top(p).loop
           ok == ~failed /\ (loop => Aggregated(p).ok)
           map == IF ~loop THEN Merged(p)
                  ELSE IF Childs(p) = {} THEN items[p]
                  ELSE OverrideItems(items[p], Items(Aggregated(p).values),
                                     "ONLY_EXISTING")
       IN /\ status' = [Restrict(status, kept) EXCEPT
                            ![p] = IF ok THEN "run" ELSE "failed"]
          /\ todo' = [Restrict(todo, kept) EXCEPT
                            ![p] = IF ok THEN Rest(p) ELSE <<>>]
          /\ items' = [Restrict(items, kept) EXCEPT
                            ![p] = IF ok THEN map ELSE @]
          /\ filePath' = Restrict(filePath, kept)
          /\ queue' = queue \cap kept
          /\ earlier' = [Restrict(earlier, kept) EXCEPT
                            ![p] = @ + Cardinality(ended)]
    /\ UNCHANGED <<callVars, orderly>>

Finish(p) ==
    /\ p \in Live \ queue
    /\ status[p] = "run"
    /\ todo[p] = <<>>
    /\ status' = [status EXCEPT ![p] = "ok"]
    /\ UNCHANGED <<callVars, todo, items, filePath, queue, forkVars>>

\* The caller has its answer.
Idle ==
    /\ returned # "none"
    /\ UNCHANGED vars

\* processSakuraItem and the methods it calls for the item on top.
ProcessSakuraItem(p) ==
    \/ ProcessSubtree(p) \/ ReturnFromSubtree(p)
    \/ ProcessBlossomGroup(p) \/ EndBlossomGroup(p)
    \/ ProcessBlossom(p) \/ ProcessResource(p)
    \/ ProcessIf(p)
    \/ RunLoop(p) \/ NextIteration(p) \/ EndLoop(p)
    \/ ProcessParallelPart(p) \/ ProcessParallelLoop(p)

Next ==
    \/ TriggerTree
    \/ ReturnTrigger
    \/ \E p \in queue : Start(p)
    \/ \E p \in Live : ProcessSakuraItem(p)
    \/ \E p \in Live : Join(p)
    \/ \E p \in Live : Finish(p)
    \/ Idle

Spec == Init /\ [][Next]_vars

\* The threads go on as long as one of them can, and every blossom comes to an
\* end.
FairSpec == Spec /\ WF_vars(Next)

-----------------------------------------------------------------------------
\* An item is processed with the path of the file it is written in, whatever
\* was called before: its relative paths mean what its author wrote.
RelativeToOwnFile ==
    \A p \in Live : status[p] = "run" /\ todo[p] # <<>> =>
        (Top(p).kind \in {"item", "loop"} => filePath[p] = Home[Top(p).item])

\* No name of a loop, a branch or a called tree gets into the items of the
\* tree around it: a tree ends with the names it has begun with.  This needs
\* forks that announce what they can count: a wait that ends early takes over
\* items of children that are still within their loops.
NoNameLeaks ==
    orderly => \A p \in Live :
        /\ (status[p] = "run" /\ todo[p] # <<>> /\ Top(p).kind = "return")
                => DOMAIN items[p] = DOMAIN Top(p).values
        /\ (p = Root /\ status[p] = "ok")
                => DOMAIN items[p] = DOMAIN InitialItems(call)

\* A call of triggerTree returns, if its forks announce what they can count
\* and the pool has a worker more than there are plans waiting at a time.
TriggerReturns == <>(returned # "none" \/ ~orderly)

\* What one parallel branch alone has written is there after the join.
\* (spawnParallelSubtrees: "write result back for output".)
BranchWritesSurvive ==
    [][\A p \in Live \cap DOMAIN status' :
        (status[p] = "wait" /\ status'[p] = "run" /\ ~Top(p).loop) =>
            \A k \in DOMAIN items[p], c \in Childs(p) :
                {d \in Childs(p) : items[d][k] # items[p][k]} = {c}
                    => items'[p][k] = items[c][k]]_vars
=============================================================================
