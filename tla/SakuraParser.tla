---------------------------- MODULE SakuraParser ----------------------------
(***************************************************************************)
(* The parser: it reads a text line by line, builds the tree with the      *)
(* actions of the grammar, and hands out a copy.  One object parses many   *)
(* texts, one after the other.                                             *)
(*                                                                         *)
(* A tree is kept flat: the sequence of its parts in the order of the text,*)
(* each with the branches and loops around it.  "within" names them by the *)
(* number of the part that opened them.  A line that the grammar does not  *)
(* accept ends the parse, and so does an action that returns 1.            *)
(***************************************************************************)
EXTENDS ValueItemMaps, FiniteSets

CONSTANTS
    Name,       \* identifiers of scripts
    Literal,    \* values and JSON values: [data, json]
    Arguments,  \* sets of identifiers that a function is called with
    MaxLines    \* bound on the length of a text

VARIABLES
    phase,      \* "idle", "reading", "failed" or "handed"
    keys,       \* m_registeredKeys
    parts,      \* parts of the tree so far
    levels,     \* open braces of branches and loops
    sets,       \* the item set that is being read, and the ones open within it
    closed,     \* the brace that was closed by the last line, or NoLevel
    output,     \* m_output, or <<>> for nullptr
    handed,     \* what parseTreeString returned, or <<>> for nullptr
    written     \* the items of the text

vars == <<phase, keys, parts, levels, sets, closed, output, handed, written>>

Loops == {"for", "wrong for", "for each"}
Kinds == Loops \cup {"tree", "group", "blossom", "subtree", "if", "parallel"}

NoLevel == [kind |-> "none", owner |-> 0]

\* The last element, and a sequence without it.
LastOf(s) == s[Len(s)]
Front(s) == SubSeq(s, 1, Len(s) - 1)

TypeOK ==
    /\ phase \in {"idle", "reading", "failed", "handed"}
    /\ keys \subseteq Name \cup {"blossom_output"}
    /\ \A i \in DOMAIN parts :
        /\ parts[i].kind \in Kinds
        /\ \A j \in DOMAIN parts[i].within : parts[i].within[j].owner \in 1..(i - 1)
    /\ \A j \in DOMAIN levels : levels[j].owner \in DOMAIN parts
    /\ sets # <<>> => parts # <<>>
    /\ closed.owner \in 0..Len(parts)
    /\ handed # <<>> => handed = output

Init ==
    /\ phase = "idle"
    /\ keys = {} /\ written = {}
    /\ parts = <<>> /\ levels = <<>> /\ sets = <<>>
    /\ closed = NoLevel
    /\ output = <<>> /\ handed = <<>>

-----------------------------------------------------------------------------
\* Mutant of FreshKeys: the names of the last text stay known.
KeptKeys(old) == old \cup {"blossom_output"}

\* What parse puts into m_registeredKeys before it reads a text.
FreshKeys(old) == {"blossom_output"}

Parse ==
    /\ phase # "reading"
    /\ phase' = "reading"
    /\ keys' = FreshKeys(keys)
    /\ parts' = <<>> /\ levels' = <<>> /\ sets' = <<>>
    /\ closed' = NoLevel
    /\ output' = <<>> /\ handed' = <<>>
    /\ written' = {}

ParseTreeString(success, tree) == IF success THEN tree ELSE <<>>

\* The parser stops with an error; m_output is "tree".
Stop(tree) ==
    /\ phase' = "failed"
    /\ output' = tree
    /\ handed' = ParseTreeString(FALSE, tree)
    /\ UNCHANGED <<parts, levels, sets, closed>>

Reading ==
    /\ phase = "reading"
    /\ Len(parts) + Cardinality(written) + Len(levels) < MaxLines

IsRegistered(names) == names \subseteq keys

-----------------------------------------------------------------------------
(* Lines of an item set.  An item of the set itself or of a map within it. *)

Current == LastOf(sets).map

\* The line as it is in the text: where it is, and what it says.
Line(name, item) ==
    [part  |-> Len(parts),
     place |-> <<[i \in 1..(Len(sets) - 1) |-> sets[i + 1].name], name>>,
     item  |-> item]

ItemSet(name, map) == [name |-> name, map |-> map]

Add(map) == [sets EXCEPT ![Len(sets)] = ItemSet(@.name, map)]

Continue ==
    /\ closed' = NoLevel
    /\ UNCHANGED <<phase, parts, levels, output, handed>>

IdentifiersIn(v) ==
    (IF v.isIdentifier THEN {v.item[2]} ELSE {}) \cup v.arguments

\* The end of all item lines: the name is free in its map, and is entered.
Enter(name, v) ==
    IF Contains(Current, name)
    THEN Stop(output) /\ UNCHANGED written
    ELSE /\ sets' = Add(InsertValue(Current, name, v))
         /\ written' = written \cup {Line(name, v.item)}
         /\ Continue

\* - name = value
\* The name is known before the value is read.
ReadValue(name, v) ==
    /\ Reading /\ sets # <<>>
    /\ keys' = keys \cup {name}
    /\ IF IdentifiersIn(v) \subseteq keys'
       THEN Enter(name, v)
       ELSE Stop(output) /\ UNCHANGED written

\* - name = [ ... ] or { ... : ... }
\* Only the first item of a set gets a type.
ReadJson(name, data) ==
    /\ Reading /\ sets # <<>>
    /\ keys' = keys \cup {name}
    /\ Enter(name, ValueItem(data, IF Current = EmptyMap THEN data[1]
                                   ELSE "undefined"))

\* - name = ? [type]  and  - name = >> [type]
ReadDeclaration(name, fieldType, direction) ==
    /\ Reading /\ sets # <<>>
    /\ keys' = keys \cup {name}
    /\ Enter(name, [ValueItem(<<"str", IF direction = "INPUT" THEN "?" ELSE "">>,
                              fieldType) EXCEPT !.type = direction])

\* Mutant of ReadOutput: the name of the field is looked for, not the key.
ReadOutputByField(field, name) ==
    /\ Reading /\ sets # <<>>
    /\ UNCHANGED keys
    /\ LET v == [Identifier(field, {}) EXCEPT !.type = "OUTPUT"]
       IN  IF ~IsRegistered({name}) \/ Contains(Current, field)
           THEN Stop(output) /\ UNCHANGED written
           ELSE /\ sets' = Add(InsertValue(Current, name, v))
                /\ written' = written \cup {Line(name, v.item)}
                /\ Continue

\* - field >> name
ReadOutput(field, name) ==
    /\ Reading /\ sets # <<>>
    /\ UNCHANGED keys
    /\ IF IsRegistered({name})
       THEN Enter(name, [Identifier(field, {}) EXCEPT !.type = "OUTPUT"])
       ELSE Stop(output) /\ UNCHANGED written

\* - name == value, and the other comparisons
ReadCompare(name, compare, v) ==
    /\ Reading /\ sets # <<>>
    /\ UNCHANGED keys
    /\ IF IsRegistered(IdentifiersIn(v))
       THEN Enter(name, [v EXCEPT !.type = IF compare \in {"==", "!="}
                                           THEN "COMPARE_EQUAL" ELSE v.type])
       ELSE Stop(output) /\ UNCHANGED written

\* - name = {
OpenSet(name) ==
    /\ Reading /\ sets # <<>>
    /\ keys' = keys \cup {name}
    /\ sets' = Append(sets, ItemSet(name, EmptyMap))
    /\ written' = written \cup {Line(name, <<"map">>)}
    /\ Continue

\* }
\* Without an item it would be an empty JSON value.
CloseSet ==
    /\ phase = "reading"
    /\ Len(sets) > 1
    /\ Current # EmptyMap
    /\ LET name == LastOf(sets).name
           outer == sets[Len(sets) - 1].map
       IN  IF Contains(outer, name)
           THEN Stop(output)
           ELSE /\ sets' = [Front(sets) EXCEPT ![Len(sets) - 1] =
                                ItemSet(@.name, InsertMap(outer, name, Current))]
                /\ Continue
    /\ UNCHANGED <<keys, written>>

-----------------------------------------------------------------------------
(* Lines between item sets. *)

\* The parts, with the items of the last one.
Finished ==
    IF sets = <<>> THEN parts
    ELSE [parts EXCEPT ![Len(parts)].values = sets[1].map]

\* A loop still waits for its opening brace.
AwaitsBrace == sets # <<>> /\ LastOf(parts).kind \in Loops

\* The item set of the last part, if any, may end here.
SetMayEnd == parts # <<>> /\ Len(sets) <= 1 /\ ~AwaitsBrace

\* A part begins; braces are the ones that are open behind its header.
Begin(kind, name, uses, takesItems, braces) ==
    /\ parts' = Append(Finished, [kind |-> kind, name |-> name, uses |-> uses,
                                  within |-> levels, values |-> EmptyMap])
    /\ sets' = IF takesItems THEN <<ItemSet("", EmptyMap)>> ELSE <<>>
    /\ levels' = braces
    /\ closed' = NoLevel
    /\ UNCHANGED <<phase, output, handed, written>>

\* [name]
ReadTree ==
    /\ Reading
    /\ parts = <<>>
    /\ Begin("tree", "", {}, TRUE, levels)
    /\ UNCHANGED keys

\* type(name)  and  subtree(name)
ReadGroup(kind) ==
    /\ Reading /\ SetMayEnd
    /\ Begin(kind, "", {}, TRUE, levels)
    /\ UNCHANGED keys

\* -> type  or  -> type:
\* It belongs to the group before it, with no brace in between.
ReadBlossom(takesItems) ==
    /\ Reading /\ SetMayEnd
    /\ LastOf(parts).kind \in {"group", "blossom"}
    /\ LastOf(parts).within = levels
    /\ Begin("blossom", "", {}, takesItems, levels)
    /\ UNCHANGED keys

\* Mutant of Open: off by one.
OpenAhead(kind) == Append(levels, [kind |-> kind, owner |-> Len(parts) + 2])

Open(kind) == Append(levels, [kind |-> kind, owner |-> Len(parts) + 1])

\* if(value == value) {
ReadIf(left, right) ==
    /\ Reading /\ SetMayEnd
    /\ UNCHANGED keys
    /\ LET uses == IdentifiersIn(left) \cup IdentifiersIn(right)
       IN  IF IsRegistered(uses)
           THEN Begin("if", "", uses, FALSE, Open("if"))
           ELSE Stop(output) /\ UNCHANGED written

\* } else {
ReadElse ==
    /\ Reading
    /\ closed.kind = "if"
    /\ levels' = Append(levels, [kind |-> "else", owner |-> closed.owner])
    /\ closed' = NoLevel
    /\ UNCHANGED <<phase, keys, parts, sets, output, handed, written>>

\* parallel() {
ReadParallel ==
    /\ Reading /\ SetMayEnd
    /\ Begin("parallel", "", {}, FALSE, Open("parallel"))
    /\ UNCHANGED keys

\* for(name : value)  and  parallel_for(name : value)
ReadForEach(name, v) ==
    /\ Reading /\ SetMayEnd
    /\ keys' = keys \cup {name}
    /\ IF IdentifiersIn(v) \subseteq keys'
       THEN Begin("for each", name, IdentifiersIn(v), TRUE, levels)
       ELSE Stop(output) /\ UNCHANGED written

\* for(name = start; test < end; step++)  and parallel_for.  Only behind the
\* closing brace of the loop it is checked that the three names agree.
ReadFor(name, start, end, agree) ==
    /\ Reading /\ SetMayEnd
    /\ keys' = keys \cup {name}
    /\ LET uses == IdentifiersIn(start) \cup IdentifiersIn(end)
       IN  IF uses \subseteq keys'
           THEN Begin(IF agree THEN "for" ELSE "wrong for", name, uses, TRUE, levels)
           ELSE Stop(output) /\ UNCHANGED written

\* { of a loop
OpenBrace ==
    /\ phase = "reading"
    /\ AwaitsBrace /\ Len(sets) = 1
    /\ parts' = Finished
    /\ sets' = <<>>
    /\ levels' = Append(levels, [kind |-> "loop", owner |-> Len(parts)])
    /\ closed' = NoLevel
    /\ UNCHANGED <<phase, keys, output, handed, written>>

\* The last part is behind the last opening brace.
BranchHasContent ==
    LET within == LastOf(parts).within
    IN  Len(within) >= Len(levels) /\ within[Len(levels)] = LastOf(levels)

\* } of a branch or loop
CloseBrace ==
    /\ phase = "reading"
    /\ levels # <<>> /\ SetMayEnd /\ BranchHasContent
    /\ IF parts[LastOf(levels).owner].kind = "wrong for"
       THEN Stop(output)
       ELSE /\ parts' = Finished
            /\ sets' = <<>>
            /\ levels' = Front(levels)
            /\ closed' = LastOf(levels)
            /\ UNCHANGED <<phase, output, handed>>
    /\ UNCHANGED <<keys, written>>

-----------------------------------------------------------------------------
TreeIsComplete == Len(parts) > 1 /\ levels = <<>> /\ SetMayEnd

Refused == [part |-> 0, place |-> Place("refused"), item |-> <<"str", "">>]

\* A line that does not fit.  If what came before is a tree, the parser has
\* handed it to setOutput by the time it finds out.
ReadGarbage(afterTree) ==
    /\ phase = "reading"
    /\ afterTree => TreeIsComplete
    /\ Stop(IF afterTree THEN Finished ELSE output)
    /\ written' = written \cup {Refused}
    /\ UNCHANGED keys

EndOfText ==
    /\ phase = "reading"
    /\ IF TreeIsComplete
       THEN /\ output' = Finished
            /\ handed' = ParseTreeString(TRUE, Finished)
            /\ phase' = "handed"
            /\ UNCHANGED <<parts, levels, sets, closed>>
       ELSE Stop(output)
    /\ UNCHANGED <<keys, written>>

Values ==
    {ValueItem(l.data, l.data[1]) : l \in {k \in Literal : ~k.json}}
        \cup {Identifier(n, a) : n \in Name, a \in Arguments}

ReadItem ==
    \E name \in Name :
        \/ \E v \in Values : ReadValue(name, v)
        \/ \E l \in Literal : l.json /\ ReadJson(name, l.data)
        \/ \E direction \in {"INPUT", "OUTPUT"} :
                ReadDeclaration(name, "int", direction)
        \/ \E field \in Name : ReadOutput(field, name)
        \/ \E v \in Values, compare \in {"==", "<"} : ReadCompare(name, compare, v)
        \/ OpenSet(name)

ReadHeader ==
    \/ ReadTree
    \/ \E kind \in {"group", "subtree"} : ReadGroup(kind)
    \/ \E takesItems \in BOOLEAN : ReadBlossom(takesItems)
    \/ \E left, right \in Values : ReadIf(left, right)
    \/ ReadParallel
    \/ \E name \in Name, v \in Values : ReadForEach(name, v)
    \/ \E name \in Name, start, end \in Values, agree \in BOOLEAN :
            ReadFor(name, start, end, agree)

Next ==
    \/ Parse
    \/ ReadItem
    \/ CloseSet
    \/ ReadHeader
    \/ OpenBrace
    \/ ReadElse
    \/ CloseBrace
    \/ \E afterTree \in BOOLEAN : ReadGarbage(afterTree)
    \/ EndOfText

Spec == Init /\ [][Next]_vars

-----------------------------------------------------------------------------
\* The identifiers that the items of a map use, and the names they declare.
UsedAt(p, v) ==
    IF v.type = "OUTPUT" /\ v.isIdentifier THEN {p[2]} ELSE IdentifiersIn(v)

UsedIn(map) == UNION {UsedAt(p, map.values[p]) : p \in DOMAIN map.values}

Declares(v) ==
    v.type \in {"INPUT", "OUTPUT"} /\ (v.type = "OUTPUT" => ~v.isIdentifier)

DeclaredIn(map) ==
    {p[2] : p \in {q \in DOMAIN map.values : Declares(map.values[q])} \cup map.maps}

UsedBy(part) == part.uses \cup UsedIn(part.values)

DeclaredBy(part) ==
    DeclaredIn(part.values)
        \cup (IF part.kind \in Loops THEN {part.name} ELSE {})

Known(tree, i) ==
    {"blossom_output"} \cup UNION {DeclaredBy(tree[j]) : j \in 1..i}

\* Every identifier that a tree uses, when it is handed out, is declared in
\* the same text, in the same part or an earlier one, and a loop counts the
\* variable that it declares: what an earlier text, or one that failed, has
\* registered does not count.
IdentifiersAreDeclared ==
    \A i \in DOMAIN handed :
        /\ UsedBy(handed[i]) \subseteq Known(handed, i)
        /\ handed[i].kind # "wrong for"

Kept(tree) ==
    UNION {{[part |-> i, place |-> p, item |-> tree[i].values.values[p].item] :
                p \in DOMAIN tree[i].values.values}
           \cup {[part |-> i, place |-> p, item |-> <<"map">>] :
                p \in tree[i].values.maps} : i \in DOMAIN tree}

\* A tree that is handed out holds all items of its text, each at its place,
\* and nothing else; no name stands for two of them.  In particular, nothing
\* is handed out of a text with a line that was refused.
EveryItemIsKept ==
    handed # <<>> =>
        /\ Kept(handed) = written
        /\ \A i \in DOMAIN handed :
            DOMAIN handed[i].values.values \cap handed[i].values.maps = {}
=============================================================================
