--------------------------- MODULE ExecutionTree ---------------------------
(***************************************************************************)
(* The memory of execution trees: who owns the items of a tree, what works *)
(* on copies, and what deletes them.                                       *)
(*                                                                         *)
(* An item is executed in place: its values are filled with those of the   *)
(* run, so it can be executed once only.  The garden therefore hands out   *)
(* copies, a loop copies its content for every iteration, and every child  *)
(* plan gets a copy of its own.                                            *)
(*                                                                         *)
(* An object is a pair <<c, i>>: the copy() that has made it, by number,   *)
(* and the item of the text that it stands for.  Whether an execution      *)
(* fails, and which way a branch goes, is left open.                       *)
(*                                                                         *)
(* A plan waits for its child plans by polling a counter that is never     *)
(* reset.  A fork after one with children therefore deletes child plans    *)
(* that workers still execute: from there on nothing is claimed (orderly). *)
(***************************************************************************)
EXTENDS Integers, Sequences, FiniteSets, SequencesExt

CONSTANTS
    Item,           \* items of all texts, numbered in the order of the text
    Kind,           \* Kind[i]: type of an item
    Parts,          \* Parts[i]: the items that item i owns
    End,            \* End[i]: the last item within item i
    Target,         \* Target[i]: tree or resource that item i names
    Text,           \* Text[t]: kind, id and root item of text t
    CounterRange,   \* 2^32 in the code: counters are uint32_t
    MaxIterations,  \* bound on the iterations of a loop
    MaxCalls        \* bound on the calls of the library

\* What a text nests is nested: an item and all that is within it follow each
\* other, its parts one after another.
ASSUME ItemAssumption ==
    /\ Item \subseteq Nat
    /\ \A i \in Item :
        /\ End[i] \in Nat /\ i <= End[i]
        /\ \A j \in i..End[i] : j \in Item /\ End[j] <= End[i]
        /\ Parts[i] \in Seq((i + 1)..End[i])
        /\ \A k, l \in DOMAIN Parts[i] : k < l => End[Parts[i][k]] < Parts[i][l]
        /\ \A j \in (i + 1)..End[i] :
            \E k \in DOMAIN Parts[i] : j \in Parts[i][k]..End[Parts[i][k]]

\* By the grammar these have content.
ASSUME TextAssumption ==
    /\ \A t \in DOMAIN Text : Text[t].root \in Item
    /\ \A i \in Item :
        Kind[i] \in {"tree", "group", "loop", "parallel loop", "parallel"} =>
            Parts[i] # <<>>

ASSUME BoundAssumption ==
    MaxIterations \in Nat /\ MaxCalls \in Nat /\ CounterRange \in Nat \ {0}

VARIABLES
    heap,           \* objects that exist: parts, and whether they were filled
    copies,         \* number of copies made so far
    output,         \* the parser's m_output, or NoObject
    trees,          \* m_trees of the garden
    resources,      \* m_resources of the garden
    plans,          \* growth plans of the triggerTree that holds m_lock
    earlier,        \* earlier[p]: what p's former children have counted
    orderly,        \* history: every fork has announced what it can count
    calls           \* number of calls so far

forkVars == <<earlier, orderly>>

vars == <<heap, copies, output, trees, resources, plans, forkVars, calls>>

NoObject == <<0, 0>>

\* The objects that n leads to, itself included.
Reach(h, n) ==
    LET below[m \in DOMAIN h] ==
            {m} \cup UNION {below[x] : x \in ToSet(h[m].parts) \cap DOMAIN h}
    IN  IF n \in DOMAIN h THEN below[n] ELSE {n}

Init ==
    /\ heap = <<>> /\ copies = 0
    /\ output = NoObject
    /\ trees = <<>> /\ resources = <<>>
    /\ plans = <<>>
    /\ earlier = <<>>
    /\ orderly = TRUE
    /\ calls = 0

-----------------------------------------------------------------------------
(* copy() and delete, on a memory [heap, copies, made]; made are the roots *)
(* of the last copies.                                                     *)

Memory == [heap |-> heap, copies |-> copies, made |-> <<>>]

\* Memory h with new objects.
With(h, new) ==
    [m \in DOMAIN h \cup DOMAIN new |-> IF m \in DOMAIN h THEN h[m] ELSE new[m]]

\* Mutant of Copy: the pointers to the parts are copied.
CopyShallow(mem, n) ==
    LET c == mem.copies + 1
    IN  [heap |-> With(mem.heap, [m \in {<<c, n[2]>>} |-> mem.heap[n]]),
         copies |-> c,
         made |-> << <<c, n[2]>> >>]

\* Each object is copied with all its parts, as they are: filled or not.  All
\* objects of a tree have been made by the same copy().
CopyAll(mem, objects) ==
    LET Number(k) == mem.copies + k
        new == [m \in UNION {{<<Number(k), o[2]>> : o \in Reach(mem.heap, objects[k])} :
                                k \in DOMAIN objects} |->
                    LET from == objects[m[1] - mem.copies][1]
                        o == mem.heap[<<from, m[2]>>]
                    IN  [parts |-> [k \in DOMAIN o.parts |-> <<m[1], o.parts[k][2]>>],
                         filled |-> o.filled]]
    IN  [heap |-> With(mem.heap, new),
         copies |-> mem.copies + Len(objects),
         made |-> [k \in DOMAIN objects |-> <<Number(k), objects[k][2]>>]]

Copy(mem, n) == CopyAll(mem, <<n>>)

\* The destructors delete the parts.
Without(h, objects) ==
    [m \in DOMAIN h \ UNION {Reach(h, n) : n \in objects} |-> h[m]]

Use(mem) == heap' = mem.heap /\ copies' = mem.copies

-----------------------------------------------------------------------------
(* addTree and addResource. *)

ItemsOf(root) == root..End[root]

\* The actions of the grammar build the tree of a text; m_output is deleted
\* before, and the new tree is m_output until the next call.
Parsed(root) ==
    LET c == copies + 1
        new == [m \in {<<c, i>> : i \in ItemsOf(root)} |->
                    [parts |-> [k \in DOMAIN Parts[m[2]] |-> <<c, Parts[m[2]][k]>>],
                     filled |-> FALSE]]
    IN  [heap |-> With(Without(heap, {output} \ {NoObject}), new),
         copies |-> c,
         made |-> << <<c, root>> >>]

\* The resources that the validator meets in a text up to item last.  It looks
\* at copies that nobody deletes.
ResourcesMet(root, last) ==
    LET met == SetToSeq({i \in root..last : Kind[i] = "blossom"
                                                /\ Target[i] \in DOMAIN resources})
    IN  [j \in DOMAIN met |-> resources[Target[met[j]]]]

\* The lock is free.
MayCall == plans = <<>> /\ calls < MaxCalls

\* The text has no tree, or has one with something behind it.
AddFailing(t) ==
    /\ MayCall
    /\ calls' = calls + 1
    /\ \E afterTree \in BOOLEAN :
        IF afterTree
        THEN Use(Parsed(Text[t].root)) /\ output' = Parsed(Text[t].root).made[1]
        ELSE /\ heap' = Without(heap, {output} \ {NoObject})
             /\ output' = NoObject
             /\ UNCHANGED copies
    /\ UNCHANGED <<trees, resources, plans, forkVars>>

\* Parser, validator and garden.  The tree is lost when a blossom is refused,
\* the last item that the validator looks at, and when the id is taken.
Add(t, last, valid) ==
    /\ MayCall
    /\ calls' = calls + 1
    /\ valid => last = End[Text[t].root]
    /\ LET parsed == Parsed(Text[t].root)
           copied == Copy(parsed, parsed.made[1])
           tree == copied.made[1]
           Entered(map, kind) ==
                IF valid /\ Text[t].kind = kind
                THEN With(map, [id \in {Text[t].id} |-> tree])
                ELSE map
       IN  /\ Use(CopyAll(copied, ResourcesMet(Text[t].root, last)))
           /\ output' = parsed.made[1]
           /\ trees' = Entered(trees, "tree")
           /\ resources' = Entered(resources, "resource")
    /\ UNCHANGED <<plans, forkVars>>

\* Mutant of GetTree: the registered tree itself is handed out.
GetTreeItself(mem, map, id) == [mem EXCEPT !.made = <<map[id]>>]

\* The garden hands out copies, of trees and of resources.
GetTree(mem, map, id) == Copy(mem, map[id])

\* Does not take the lock, and does not delete its copy.
GetTreeValidMap(id) ==
    /\ calls < MaxCalls
    /\ calls' = calls + 1
    /\ id \in DOMAIN trees
    /\ Use(GetTree(Memory, trees, id))
    /\ UNCHANGED <<output, trees, resources, plans, forkVars>>

-----------------------------------------------------------------------------
(* A growth plan has a stack of frames: what is left to do, innermost      *)
(* first.  It has ended when there is none.  A child plan that its parent  *)
(* has deleted has no parent and no root any more.                         *)

Frame(op, n, at) == [op |-> op, object |-> n, at |-> at]
Do(n) == Frame("do", n, 0)

\* Waits until the counter of the plan is shouldCount.
Join(shouldCount) == Frame("join", NoObject, shouldCount)

\* n is deleted whatever happens until then, or only if nothing fails.
Delete(n) == Frame("delete", n, 0)
DeleteOnSuccess(n) == Frame("delete on success", n, 0)

Plan(parent, root, stack) ==
    [parent |-> parent, root |-> root, stack |-> stack, failed |-> FALSE]

Deleted == Plan(0, NoObject, <<>>)
IsDeleted(p) == p # 1 /\ plans[p].root = NoObject

Top(p) == Head(plans[p].stack)
IsAt(p, op) == plans[p].stack # <<>> /\ Top(p).op = op

\* The frames of plan p when the innermost one is replaced.
Replaced(p, frames) == [plans EXCEPT ![p].stack = frames \o Tail(@)]

\* triggerTree works on a copy, and deletes it on every way out.
TriggerTree(id) ==
    /\ MayCall
    /\ calls' = calls + 1
    /\ id \in DOMAIN trees
    /\ LET mem == GetTree(Memory, trees, id)
           tree == mem.made[1]
       IN  /\ Use(mem)
           /\ plans' = <<Plan(0, NoObject, <<Frame("run", tree, 0), Delete(tree)>>)>>
    /\ earlier' = <<0>>
    /\ UNCHANGED <<output, trees, resources, orderly>>

ReturnTrigger ==
    /\ plans # <<>> /\ plans[1].stack = <<>>
    /\ plans' = <<>>
    /\ earlier' = <<>>
    /\ UNCHANGED <<heap, copies, output, trees, resources, orderly, calls>>

Unchanged == UNCHANGED <<output, trees, resources, calls>>

\* Plan p goes on with other frames, in memory mem.
Continue(p, mem, frames) ==
    /\ Use(mem)
    /\ plans' = Replaced(p, frames)
    /\ UNCHANGED forkVars
    /\ Unchanged

\* For the history: shouldCount is the number of the children, and no children
\* of an earlier fork are left in the counter, which is never reset.
CanCount(p, objects, shouldCount) ==
    earlier[p] = 0 /\ shouldCount = Len(objects) /\ shouldCount < CounterRange

\* Plan p gives each child plan a copy of its own, and waits for them.
Spawn(p, mem, objects, shouldCount) ==
    LET all == CopyAll(mem, objects)
    IN  /\ Use(all)
        /\ plans' = Replaced(p, <<Join(shouldCount)>>)
                        \o [k \in DOMAIN objects |->
                                Plan(p, all.made[k], <<Do(all.made[k])>>)]
        /\ earlier' = With(earlier, [c \in DOMAIN plans' \ DOMAIN plans |-> 0])
        /\ orderly' = (orderly /\ CanCount(p, objects, shouldCount))
        /\ Unchanged

\* The tree is the only child of the plan of triggerTree.
RunProcess(p) ==
    /\ IsAt(p, "run")
    /\ Spawn(p, Memory, <<Top(p).object>>, 1)

\* Plan p is to execute an object of that kind.
Starts(p, kinds) == IsAt(p, "do") /\ Kind[Top(p).object[2]] \in kinds

PartsOf(p) == heap[Top(p).object].parts

\* The memory when the values of the object of p are filled.
WithFilled(n) == [Memory EXCEPT !.heap[n].filled = TRUE]

ProcessSequentiellPart(p) ==
    /\ Starts(p, {"sequence"})
    /\ Continue(p, Memory, [k \in DOMAIN PartsOf(p) |-> Do(PartsOf(p)[k])])

ProcessTree(p) ==
    /\ Starts(p, {"tree"})
    /\ Continue(p, Memory, <<Do(PartsOf(p)[1])>>)

ProcessIf(p) ==
    /\ Starts(p, {"if"})
    /\ \E branch \in ToSet(PartsOf(p)) :
        Continue(p, WithFilled(Top(p).object), <<Do(branch)>>)

ProcessSubtree(p) ==
    /\ Starts(p, {"subtree"})
    /\ LET n == Top(p).object
           mem == GetTree(WithFilled(n), trees, Target[n[2]])
           tree == mem.made[1]
       IN  /\ Target[n[2]] \in DOMAIN trees
           /\ Continue(p, mem, <<Do(tree), Delete(tree)>>)

\* The group gets its name.
ProcessBlossomGroup(p) ==
    /\ Starts(p, {"group"})
    /\ Continue(p, WithFilled(Top(p).object), <<Frame("blossom", Top(p).object, 1)>>)

\* The next blossom of a group.  After a resource the group ends.
ProcessBlossom(p) ==
    /\ IsAt(p, "blossom")
    /\ LET group == Top(p).object
           k == Top(p).at
           blossom == PartsOf(p)[k]
           id == Target[blossom[2]]
           mem == GetTree(Memory, resources, id)
       IN  IF id \in DOMAIN resources
           THEN Continue(p, mem, <<Do(mem.made[1]), Delete(mem.made[1])>>)
           ELSE Continue(p, WithFilled(blossom),
                         IF k = Len(PartsOf(p)) THEN <<>>
                         ELSE <<Frame("blossom", group, k + 1)>>)

\* for and for-each
ProcessLoop(p) ==
    /\ Starts(p, {"loop"})
    /\ \E iterations \in 0..MaxIterations :
        Continue(p, WithFilled(Top(p).object),
                 <<Frame("loop", PartsOf(p)[1], iterations)>>)

\* Mutant of RunLoop: every iteration executes the content itself.
RunLoopInPlace(p) ==
    /\ IsAt(p, "loop")
    /\ LET content == Top(p).object
       IN  Continue(p, Memory,
                    IF Top(p).at = 0 THEN <<>>
                    ELSE <<Do(content), Frame("loop", content, Top(p).at - 1)>>)

\* Mutant of RunLoop: what is deleted is the content.
RunLoopDeleting(p) ==
    /\ IsAt(p, "loop")
    /\ LET content == Top(p).object
           mem == Copy(Memory, content)
       IN  IF Top(p).at = 0 THEN Continue(p, Memory, <<>>)
           ELSE Continue(p, mem, <<Do(mem.made[1]), DeleteOnSuccess(content),
                                   Frame("loop", content, Top(p).at - 1)>>)

\* Mutant of RunLoop: the copies are not deleted.
RunLoopKeeping(p) ==
    /\ IsAt(p, "loop")
    /\ LET content == Top(p).object
           mem == Copy(Memory, content)
       IN  IF Top(p).at = 0 THEN Continue(p, Memory, <<>>)
           ELSE Continue(p, mem, <<Do(mem.made[1]),
                                   Frame("loop", content, Top(p).at - 1)>>)

\* An iteration works on a copy of the content, which is deleted after it.
RunLoop(p) ==
    /\ IsAt(p, "loop")
    /\ LET content == Top(p).object
           mem == Copy(Memory, content)
       IN  IF Top(p).at = 0 THEN Continue(p, Memory, <<>>)
           ELSE Continue(p, mem, <<Do(mem.made[1]), DeleteOnSuccess(mem.made[1]),
                                   Frame("loop", content, Top(p).at - 1)>>)

\* One child plan for each iteration.  The difference between the borders is
\* negative when the loop descends: it has no iteration, but announces some.
SpawnParallelSubtreesLoop(p) ==
    /\ Starts(p, {"parallel loop"})
    /\ \E difference \in -1..MaxIterations :
        Spawn(p, WithFilled(Top(p).object),
              [k \in 1..difference |-> PartsOf(p)[1]], difference % CounterRange)

\* One child plan for each part.
ProcessParallelPart(p) ==
    /\ Starts(p, {"parallel"})
    /\ LET parts == heap[PartsOf(p)[1]].parts
       IN  Spawn(p, Memory, parts, Len(parts) % CounterRange)

DeleteObject(p) ==
    /\ IsAt(p, "delete") \/ IsAt(p, "delete on success")
    /\ Continue(p, [Memory EXCEPT !.heap = Without(heap, {Top(p).object})], <<>>)

\* What plan p deletes while it returns from all its calls with an error.
Unwound(p) ==
    {f.object : f \in {g \in ToSet(plans[p].stack) : g.op = "delete"}}

\* What plan p executes, or the check behind it, fails.
Fail(p) ==
    /\ \E op \in {"run", "do", "blossom", "delete"} : IsAt(p, op)
    /\ heap' = Without(heap, Unwound(p))
    /\ plans' = [plans EXCEPT ![p].stack = <<>>, ![p].failed = TRUE]
    /\ UNCHANGED <<copies, forkVars>>
    /\ Unchanged

Childs(p) == {c \in DOMAIN plans : plans[c].parent = p}

\* The child plans of p, their child plans, and so on.
Below(p) ==
    LET isBelow[c \in DOMAIN plans] ==
            LET parent == plans[c].parent
            IN  parent = p \/ (parent \in DOMAIN plans /\ isBelow[parent])
    IN  {c \in DOMAIN plans : isBelow[c]}

EndedChilds(p) == {c \in Childs(p) : plans[c].stack = <<>>}

\* isCounter: every child counts when it ends.
IsCounter(p) == (earlier[p] + Cardinality(EndedChilds(p))) % CounterRange

\* Deleting plans deletes their trees.
TreesOf(deleted) == {plans[c].root : c \in deleted}

\* The counter is what was announced: p takes over the results of its child
\* plans, which may fail, or the error of one, and deletes them and their child
\* plans.  After an earlier fork of p that may be before they have ended; what
\* workers do with deleted plans is undefined, and left out.
WaitUntilFinish(p) ==
    /\ IsAt(p, "join")
    /\ IsCounter(p) = Top(p).at
    /\ LET deleted == Below(p)
       IN  \E ok \in BOOLEAN :
            /\ ok => \A c \in Childs(p) : ~plans[c].failed
            /\ heap' = Without(heap, TreesOf(deleted)
                                        \cup (IF ok THEN {} ELSE Unwound(p)))
            /\ plans' = [c \in DOMAIN plans |->
                            IF c \in deleted THEN Plan(0, NoObject, plans[c].stack)
                            ELSE IF c # p THEN plans[c]
                            ELSE [plans[p] EXCEPT !.stack = IF ok THEN Tail(@) ELSE <<>>,
                                                  !.failed = ~ok]]
    /\ earlier' = [earlier EXCEPT ![p] = @ + Cardinality(EndedChilds(p))]
    /\ UNCHANGED <<copies, orderly>>
    /\ Unchanged

PlanStep(p) ==
    \/ RunProcess(p)
    \/ ProcessSequentiellPart(p) \/ ProcessTree(p) \/ ProcessIf(p)
    \/ ProcessSubtree(p)
    \/ ProcessBlossomGroup(p) \/ ProcessBlossom(p)
    \/ ProcessLoop(p) \/ RunLoop(p)
    \/ SpawnParallelSubtreesLoop(p) \/ ProcessParallelPart(p)
    \/ DeleteObject(p) \/ Fail(p) \/ WaitUntilFinish(p)

Next ==
    \/ \E t \in DOMAIN Text :
        \/ AddFailing(t)
        \/ \E last \in ItemsOf(Text[t].root), valid \in BOOLEAN : Add(t, last, valid)
    \/ \E id \in DOMAIN trees : GetTreeValidMap(id) \/ TriggerTree(id)
    \/ ReturnTrigger
    \/ \E p \in DOMAIN plans : ~IsDeleted(p) /\ PlanStep(p)

Spec == Init /\ [][Next]_vars

-----------------------------------------------------------------------------
\* Who deletes an object sooner or later: m_output and the registries, which
\* keep theirs, the child plans, and the frames of calls and loops.
Owners ==
    {<<"output", 0, 0, output>>}
        \cup {<<"tree", id, 0, trees[id]>> : id \in DOMAIN trees}
        \cup {<<"resource", id, 0, resources[id]>> : id \in DOMAIN resources}
        \cup {<<"plan", p, 0, plans[p].root>> : p \in DOMAIN plans}
        \cup UNION {{<<"frame", p, Len(plans[p].stack) - k, plans[p].stack[k].object>> :
                        k \in {j \in DOMAIN plans[p].stack :
                                plans[p].stack[j].op \in {"delete", "delete on success"}}} :
                    p \in DOMAIN plans}

Owned == {o \in Owners : o[4] # NoObject}

Used == (UNION {{f.object : f \in ToSet(plans[p].stack)} : p \in DOMAIN plans})
            \ {NoObject}

\* While every fork counts what it has announced, no pointer leads to an object
\* that was deleted: not those of the parts, not those of the registries and
\* plans, and not those of the running calls.
NothingDangles ==
    orderly =>
        /\ \A n \in DOMAIN heap : ToSet(heap[n].parts) \subseteq DOMAIN heap
        /\ {o[4] : o \in Owned} \cup Used \subseteq DOMAIN heap

\* All that leads to an object and deletes it.
Pointers ==
    Owned \cup UNION {{<<"part", n, k, heap[n].parts[k]>> :
                        k \in DOMAIN heap[n].parts} : n \in DOMAIN heap}

\* Nothing is deleted twice: no two owners, and no two objects, share a part.
OneOwner ==
    orderly => Cardinality({q[4] : q \in Pointers}) = Cardinality(Pointers)

\* What is about to be executed has its values as they were written, in the
\* second iteration of a loop, in the second call of a tree, and in every
\* child plan: nothing in it has been filled by an execution before.
ExecutedAsWritten ==
    orderly => \A p \in DOMAIN plans :
        IsAt(p, "do") => \A n \in Reach(heap, Top(p).object) : ~heap[n].filled

Registered ==
    (UNION {Reach(heap, trees[id]) : id \in DOMAIN trees})
        \cup UNION {Reach(heap, resources[id]) : id \in DOMAIN resources}

\* No object of a registered tree or resource is changed or deleted, whatever
\* runs: that is why getters may read them without the lock.
SourcesStay ==
    [][orderly' => \A n \in Registered :
            n \in DOMAIN heap' /\ heap'[n] = heap[n]]_vars

Lost == DOMAIN heap \ UNION {Reach(heap, o[4]) : o \in Owned}

Failing ==
    \E p \in DOMAIN plans \cap DOMAIN plans' : plans'[p].failed /\ ~plans[p].failed

\* A script that runs loses no memory, except where something fails: every
\* copy that is made for it is deleted again.
LosesOnlyOnFailure ==
    [][orderly' /\ plans' # plans /\ ~Failing => Lost' \subseteq Lost]_vars
=============================================================================
