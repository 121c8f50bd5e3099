------------------------ MODULE ExecutionTree_proofs ------------------------
(***************************************************************************)
(* For any texts, calls and failures: the memory of trees and their        *)
(* copies has one owner for everything, and no pointer dangles, as long as *)
(* every fork has announced what the counter of its plan can reach.        *)
(*                                                                         *)
(* Items are numbered in the order of the text, so the objects below an    *)
(* object are an interval of one copy (Span).  What is owned is a whole    *)
(* copy (IsWhole), and no two owners have the same one.  A join deletes    *)
(* what nobody executes any more because its counter, which equals the     *)
(* announced number, counts exactly the child plans of the plan (CountInv).*)
(***************************************************************************)
EXTENDS ExecutionTree, SequenceTheorems, FiniteSetTheorems, WellFoundedInduction,
        TLAPS

-----------------------------------------------------------------------------
(* The inductive invariant. *)

IsSeq(s) == s \in Seq(Range(s))

\* The objects of a copy that are below n, itself included.
Span(n) == {<<n[1], j>> : j \in n[2]..End[n[2]]}

PartsIn(n) == [k \in DOMAIN Parts[n[2]] |-> <<n[1], Parts[n[2]][k]>>]

Object == (Nat \ {0}) \X Item

\* A memory with objects of the copies 1..c.
Shaped(h, c) ==
    /\ c \in Nat
    /\ \A n \in DOMAIN h :
        /\ n \in (1..c) \X Item
        /\ h[n] = [parts |-> PartsIn(n), filled |-> h[n].filled]
        /\ h[n].filled \in BOOLEAN
        /\ Span(n) \subseteq DOMAIN h

\* The items of a memory have a bound.
Bounded(h) == \E M \in Nat : \A n \in DOMAIN h : n[2] <= M

\* n is the root of its copy.
IsWhole(h, n) ==
    /\ n \in DOMAIN h
    /\ \A m \in DOMAIN h : m[1] = n[1] => m \in Span(n)

HeapInv == Shaped(heap, copies) /\ Bounded(heap)

\* What is owned is a copy of its own.
OwnInv ==
    /\ \A o \in Owned : IsWhole(heap, o[4])
    /\ \A o, q \in Owned : o[4][1] = q[4][1] => o = q

IsFrame(f) ==
    /\ f = [op |-> f.op, object |-> f.object, at |-> f.at]
    /\ f.op \in {"run", "do", "blossom", "loop", "join", "delete",
                 "delete on success"}
    /\ f.op # "join" => f.object \in Object
    /\ f.op = "join" => f.object = NoObject
    /\ f.at \in Nat

Deletes(f) == f.op \in {"delete", "delete on success"}
Works(f) == f.op \in {"run", "do", "blossom", "loop"}

\* Frames that will execute their object, or copies of it.
Executes(f) == f.op \in {"run", "do", "loop"}

Unfilled(h, n) == \A m \in Span(n) : ~h[m].filled

\* A stack of frames works on what is below objects that a frame further out
\* deletes, or below the root of the plan.  No two frames work on the same
\* objects, and what is to be executed has not been filled.
StackInv(h, root, s) ==
    /\ \A k \in DOMAIN s : IsFrame(s[k])
    /\ \A k \in DOMAIN s : Works(s[k]) =>
        \/ root # NoObject /\ s[k].object \in Span(root)
        \/ \E l \in DOMAIN s :
            k < l /\ Deletes(s[l]) /\ s[k].object \in Span(s[l].object)
    /\ \A k, l \in DOMAIN s : k < l /\ Works(s[k]) /\ Works(s[l]) =>
        Span(s[k].object) \cap Span(s[l].object) = {}
    /\ \A k \in DOMAIN s :
        /\ Executes(s[k]) => Unfilled(h, s[k].object)
        /\ s[k].op = "blossom" =>
            /\ Kind[s[k].object[2]] = "group"
            /\ s[k].at \in DOMAIN Parts[s[k].object[2]]

IsPlan(r) ==
    /\ r = [parent |-> r.parent, root |-> r.root, stack |-> r.stack,
            failed |-> r.failed]
    /\ r.parent \in Nat
    /\ r.root = NoObject \/ r.root \in Object
    /\ IsSeq(r.stack)
    /\ r.failed \in BOOLEAN
    /\ r.failed => r.stack = <<>>

\* Plan 1 is that of triggerTree.  A plan that is not deleted belongs to one
\* that waits for it.
PlanInv ==
    /\ IsSeq(plans)
    /\ \A p \in DOMAIN plans :
        /\ IsPlan(plans[p])
        /\ StackInv(heap, plans[p].root, plans[p].stack)
        /\ p = 1 => plans[p].parent = 0 /\ plans[p].root = NoObject
        /\ p # 1 => plans[p] = Deleted
                        \/ /\ plans[p].root # NoObject
                           /\ plans[p].parent \in 1..(p - 1)
                           /\ IsAt(plans[p].parent, "join")

\* What is registered was never executed.
RegisteredInv ==
    /\ \A id \in DOMAIN trees :
        trees[id] # NoObject /\ Unfilled(heap, trees[id])
    /\ \A id \in DOMAIN resources :
        resources[id] # NoObject /\ Unfilled(heap, resources[id])

IInv == HeapInv /\ OwnInv /\ PlanInv /\ RegisteredInv

\* A plan waits in its innermost frame, for as many child plans as it has, and
\* none has counted before.
CountInv ==
    /\ DOMAIN earlier = DOMAIN plans
    /\ \A p \in DOMAIN plans : \A k \in DOMAIN plans[p].stack :
        plans[p].stack[k].op = "join" =>
            /\ k = 1 /\ earlier[p] = 0
            /\ IsFiniteSet(Childs(p))
            /\ plans[p].stack[k].at = Cardinality(Childs(p))
            /\ plans[p].stack[k].at < CounterRange

\* Once a fork has announced what it cannot count, a plan may go on too early,
\* and nothing is claimed any more.
OrderlyInv == orderly => IInv /\ CountInv

-----------------------------------------------------------------------------
(* Items and what is below an object.                                      *)

LEMMA LeastExists ==
    ASSUME NEW S, S # {}, S \subseteq Nat
    PROVE  \E x \in S : \A y \in S : x <= y
<1>1. PICK x \in S : \A y \in S : <<y, x>> \notin OpToRel(<, Nat)
    BY NatLessThanWellFounded, WFMin, Zenon
<1>2. \A y \in S : ~(y < x)
    BY <1>1 DEF OpToRel
<1> QED
    BY <1>2

LEMMA PartsAreWithin ==
    ASSUME NEW i \in Item
    PROVE  /\ i \in Nat /\ End[i] \in Nat /\ i <= End[i]
           /\ Parts[i] \in Seq((i + 1)..End[i])
           /\ \E n \in Nat : DOMAIN Parts[i] = 1..n
           /\ \A j \in i..End[i] : j \in Item /\ End[j] \in Nat /\ j <= End[j]
                                    /\ End[j] <= End[i]
           /\ \A k \in DOMAIN Parts[i] :
                /\ Parts[i][k] \in (i + 1)..End[i]
                /\ Parts[i][k] \in Item /\ End[Parts[i][k]] \in Nat
                /\ Parts[i][k] <= End[Parts[i][k]]
                /\ End[Parts[i][k]] <= End[i]
<1>1. i \in Nat /\ End[i] \in Nat /\ i <= End[i]
    BY ItemAssumption
<1>2. Parts[i] \in Seq((i + 1)..End[i])
    BY ItemAssumption
<1>3. \A j \in i..End[i] : j \in Item /\ End[j] \in Nat /\ j <= End[j]
                                /\ End[j] <= End[i]
    BY ItemAssumption
<1>5. DOMAIN Parts[i] = 1..Len(Parts[i]) /\ Len(Parts[i]) \in Nat
    BY <1>2, LenProperties
<1>4. \A k \in DOMAIN Parts[i] : Parts[i][k] \in (i + 1)..End[i]
    BY <1>2, <1>5, ElementOfSeq
<1>6. (i + 1)..End[i] \subseteq i..End[i]
    BY <1>1
<1> QED
    BY <1>1, <1>2, <1>3, <1>4, <1>5, <1>6

\* No item is part of two others, or twice of one.
LEMMA PartsAreUnique ==
    ASSUME NEW i \in Item, NEW j \in Item,
           NEW k \in DOMAIN Parts[i], NEW l \in DOMAIN Parts[j],
           Parts[i][k] = Parts[j][l]
    PROVE  i = j /\ k = l
<1>1. ASSUME NEW a \in Item, NEW b \in Item, NEW x \in DOMAIN Parts[a],
             NEW y \in DOMAIN Parts[b], Parts[a][x] = Parts[b][y], a < b
      PROVE  FALSE
    <2>1. /\ a \in Nat /\ b \in Nat /\ End[a] \in Nat /\ End[b] \in Nat
          /\ Parts[b][y] \in (b + 1)..End[b]
          /\ Parts[a][x] \in (a + 1)..End[a]
        BY PartsAreWithin
    <2>2. b \in (a + 1)..End[a]
        BY <1>1, <2>1
    <2>3. PICK z \in DOMAIN Parts[a] : b \in Parts[a][z]..End[Parts[a][z]]
        BY <2>2, ItemAssumption
    <2>4. /\ Parts[a][z] \in Item /\ Parts[a][z] \in Nat
          /\ End[Parts[a][z]] \in Nat
          /\ Parts[a][z] \in (a + 1)..End[a]
        BY PartsAreWithin
    <2>5. End[b] <= End[Parts[a][z]]
        BY <2>3, <2>4, ItemAssumption
    <2>6. Parts[a][z] < Parts[a][x]
        BY <1>1, <2>1, <2>3, <2>4
    <2>7. /\ z \in Nat /\ x \in Nat
          /\ \E n \in Nat : DOMAIN Parts[a] = 1..n
        <3>1. PICK n \in Nat : DOMAIN Parts[a] = 1..n
            BY PartsAreWithin
        <3> QED
            BY <3>1
    <2>8. z < x
        <3>1. CASE x < z
            <4>1. End[Parts[a][x]] < Parts[a][z]
                BY <3>1, ItemAssumption
            <4>2. Parts[a][x] <= End[Parts[a][x]] /\ End[Parts[a][x]] \in Nat
                BY PartsAreWithin
            <4> QED
                BY <4>1, <4>2, <2>6, <2>4, <2>1
        <3>2. CASE x = z
            BY <3>2, <2>6, <2>4, <2>1
        <3> QED
            BY <3>1, <3>2, <2>7
    <2>9. End[Parts[a][z]] < Parts[a][x]
        BY <2>8, ItemAssumption
    <2> QED
        BY <2>1, <2>4, <2>5, <2>9, <1>1
<1>2. i \in Nat /\ j \in Nat
    BY PartsAreWithin
<1>3. i = j
    BY <1>1, <1>2
<1>4. ASSUME NEW x \in DOMAIN Parts[i], NEW y \in DOMAIN Parts[i], x < y
      PROVE  Parts[i][x] # Parts[i][y]
    <2>1. End[Parts[i][x]] < Parts[i][y]
        BY <1>4, ItemAssumption
    <2>2. Parts[i][x] <= End[Parts[i][x]] /\ End[Parts[i][x]] \in Nat
          /\ Parts[i][x] \in (i + 1)..End[i] /\ Parts[i][y] \in (i + 1)..End[i]
        BY PartsAreWithin
    <2> QED
        BY <2>1, <2>2, <1>2
<1>5. PICK n \in Nat : DOMAIN Parts[i] = 1..n
    BY PartsAreWithin
<1> QED
    BY <1>3, <1>4, <1>5

LEMMA SpanIs ==
    ASSUME NEW n
    PROVE  \A m : m \in Span(n) <=>
                /\ m = <<m[1], m[2]>> /\ m[1] = n[1] /\ m[2] \in n[2]..End[n[2]]
BY DEF Span

LEMMA SpanIsWithin ==
    ASSUME NEW n, n[2] \in Item, NEW m \in Span(n)
    PROVE  m[2] \in Item /\ m[1] = n[1] /\ Span(m) \subseteq Span(n)
<1>1. m = <<m[1], m[2]>> /\ m[1] = n[1] /\ m[2] \in n[2]..End[n[2]]
    BY SpanIs
<1>2. /\ m[2] \in Item /\ End[m[2]] <= End[n[2]] /\ End[m[2]] \in Nat
      /\ n[2] \in Nat /\ End[n[2]] \in Nat /\ n[2] <= End[n[2]]
    BY <1>1, PartsAreWithin
<1>3. ASSUME NEW x \in Span(m) PROVE x \in Span(n)
    <2>1. x = <<x[1], x[2]>> /\ x[1] = m[1] /\ x[2] \in m[2]..End[m[2]]
        BY SpanIs
    <2>2. x[2] \in n[2]..End[n[2]]
        BY <2>1, <1>1, <1>2
    <2> QED
        BY <2>1, <2>2, <1>1, SpanIs
<1> QED
    BY <1>1, <1>2, <1>3

LEMMA InOwnSpan ==
    ASSUME NEW n, n[2] \in Item, n = <<n[1], n[2]>>
    PROVE  n \in Span(n)
<1>1. n[2] \in n[2]..End[n[2]]
    BY PartsAreWithin
<1> QED
    BY <1>1, SpanIs

\* The parts of an object, what is below them, and what is not.
LEMMA PartsBelow ==
    ASSUME NEW n, n[2] \in Item
    PROVE  /\ \A k \in DOMAIN PartsIn(n) :
                /\ PartsIn(n)[k] = <<n[1], Parts[n[2]][k]>>
                /\ PartsIn(n)[k] \in Span(n)
                /\ PartsIn(n)[k][2] \in Item
                /\ Span(PartsIn(n)[k]) \subseteq Span(n)
                /\ n \notin Span(PartsIn(n)[k])
           /\ \A k, l \in DOMAIN PartsIn(n) :
                k # l => Span(PartsIn(n)[k]) \cap Span(PartsIn(n)[l]) = {}
           /\ \A m \in Span(n) : m[2] # n[2] =>
                \E k \in DOMAIN PartsIn(n) : m \in Span(PartsIn(n)[k])
           /\ DOMAIN PartsIn(n) = DOMAIN Parts[n[2]]
<1> DEFINE i == n[2]
<1>1. /\ i \in Nat /\ End[i] \in Nat
      /\ \A k \in DOMAIN Parts[i] :
            /\ Parts[i][k] \in (i + 1)..End[i]
            /\ Parts[i][k] \in Item /\ End[Parts[i][k]] \in Nat
            /\ Parts[i][k] <= End[Parts[i][k]]
            /\ End[Parts[i][k]] <= End[i]
    BY PartsAreWithin
<1>2. DOMAIN PartsIn(n) = DOMAIN Parts[i]
      /\ \A k \in DOMAIN Parts[i] : PartsIn(n)[k] = <<n[1], Parts[i][k]>>
    BY DEF PartsIn
<1>3. ASSUME NEW k \in DOMAIN Parts[i]
      PROVE  /\ <<n[1], Parts[i][k]>> \in Span(n)
             /\ Span(<<n[1], Parts[i][k]>>) \subseteq Span(n)
             /\ n \notin Span(<<n[1], Parts[i][k]>>)
    <2>1. Parts[i][k] \in i..End[i]
        BY <1>1
    <2>2. <<n[1], Parts[i][k]>> \in Span(n)
        BY <2>1 DEF Span
    <2>3. i \notin Parts[i][k]..End[Parts[i][k]]
        BY <1>1
    <2> QED
        BY <2>2, <2>3, SpanIsWithin, SpanIs
<1>4. ASSUME NEW k \in DOMAIN Parts[i], NEW l \in DOMAIN Parts[i], k # l
      PROVE  Span(<<n[1], Parts[i][k]>>) \cap Span(<<n[1], Parts[i][l]>>) = {}
    <2>1. ASSUME NEW x \in DOMAIN Parts[i], NEW y \in DOMAIN Parts[i], x < y,
                 NEW j, j \in Parts[i][x]..End[Parts[i][x]],
                 j \in Parts[i][y]..End[Parts[i][y]]
          PROVE  FALSE
        <3>1. End[Parts[i][x]] < Parts[i][y]
            BY <2>1, ItemAssumption
        <3> QED
            BY <3>1, <2>1, <1>1
    <2>2. PICK s \in Nat : DOMAIN Parts[i] = 1..s
        BY PartsAreWithin
    <2>3. k < l \/ l < k
        BY <1>4, <2>2
    <2>4. ASSUME NEW m \in Span(<<n[1], Parts[i][k]>>),
                 m \in Span(<<n[1], Parts[i][l]>>)
          PROVE  FALSE
        <3>1. /\ m[2] \in Parts[i][k]..End[Parts[i][k]]
              /\ m[2] \in Parts[i][l]..End[Parts[i][l]]
            BY <2>4, SpanIs
        <3> QED
            BY <3>1, <2>3, <2>1
    <2> QED
        BY <2>4
<1>5. ASSUME NEW m \in Span(n), m[2] # i
      PROVE  \E k \in DOMAIN Parts[i] : m \in Span(<<n[1], Parts[i][k]>>)
    <2>1. m = <<m[1], m[2]>> /\ m[1] = n[1] /\ m[2] \in i..End[i]
        BY SpanIs
    <2>2. m[2] \in (i + 1)..End[i]
        BY <2>1, <1>5, <1>1
    <2>3. PICK k \in DOMAIN Parts[i] : m[2] \in Parts[i][k]..End[Parts[i][k]]
        BY <2>2, ItemAssumption
    <2> QED
        BY <2>1, <2>3, SpanIs
<1>6. ASSUME NEW k \in DOMAIN PartsIn(n)
      PROVE  /\ PartsIn(n)[k] = <<n[1], Parts[i][k]>>
             /\ PartsIn(n)[k] \in Span(n)
             /\ PartsIn(n)[k][2] \in Item
             /\ Span(PartsIn(n)[k]) \subseteq Span(n)
             /\ n \notin Span(PartsIn(n)[k])
    <2>1. k \in DOMAIN Parts[i] /\ PartsIn(n)[k] = <<n[1], Parts[i][k]>>
        BY <1>2
    <2>2. <<n[1], Parts[i][k]>>[2] \in Item
        BY <1>1, <2>1
    <2> QED
        BY <1>3, <2>1, <2>2
<1>7. ASSUME NEW k \in DOMAIN PartsIn(n), NEW l \in DOMAIN PartsIn(n), k # l
      PROVE  Span(PartsIn(n)[k]) \cap Span(PartsIn(n)[l]) = {}
    BY <1>2, <1>4, <1>7
<1>8. ASSUME NEW m \in Span(n), m[2] # i
      PROVE  \E k \in DOMAIN PartsIn(n) : m \in Span(PartsIn(n)[k])
    BY <1>2, <1>5, <1>8
<1> QED
    BY <1>2, <1>6, <1>7, <1>8

-----------------------------------------------------------------------------
(* Reach.                                                                  *)

IsBelow(h, f) ==
    f = [m \in DOMAIN h |->
            {m} \cup UNION {f[x] : x \in ToSet(h[m].parts) \cap DOMAIN h}]

LEMMA ShapedObject ==
    ASSUME NEW h, NEW c, Shaped(h, c), NEW n \in DOMAIN h
    PROVE  /\ c \in Nat /\ n[1] \in 1..c /\ n[2] \in Item
           /\ n = <<n[1], n[2]>> /\ n \in Object
           /\ h[n].parts = PartsIn(n)
           /\ h[n].filled \in BOOLEAN
           /\ Span(n) \subseteq DOMAIN h
           /\ n \in Span(n)
           /\ ToSet(h[n].parts) \cap DOMAIN h = ToSet(PartsIn(n))
<1>1. /\ c \in Nat /\ n[1] \in 1..c /\ n[2] \in Item /\ n = <<n[1], n[2]>>
      /\ n \in Object
      /\ h[n].filled \in BOOLEAN /\ Span(n) \subseteq DOMAIN h
    BY DEF Shaped, Object
<1>2. h[n].parts = PartsIn(n)
    <2>1. h[n] = [parts |-> PartsIn(n), filled |-> h[n].filled]
        BY DEF Shaped
    <2> DEFINE b == h[n].filled
    <2>2. h[n] = [parts |-> PartsIn(n), filled |-> b]
        BY <2>1
    <2> HIDE DEF b
    <2> QED
        BY <2>2
<1>3. n \in Span(n)
    BY <1>1, InOwnSpan
<1>4. ToSet(PartsIn(n)) \subseteq DOMAIN h
    BY <1>1, PartsBelow DEF ToSet
<1> QED
    BY <1>1, <1>2, <1>3, <1>4

LEMMA SpansAreBelow ==
    ASSUME NEW h, NEW c, Shaped(h, c)
    PROVE  IsBelow(h, [m \in DOMAIN h |-> Span(m)])
<1> DEFINE f == [m \in DOMAIN h |-> Span(m)]
<1>1. ASSUME NEW m \in DOMAIN h
      PROVE  Span(m) = {m} \cup UNION {f[x] : x \in ToSet(h[m].parts) \cap DOMAIN h}
    <2>1. ToSet(h[m].parts) \cap DOMAIN h = ToSet(PartsIn(m))
          /\ m \in Span(m) /\ m[2] \in Item /\ Span(m) \subseteq DOMAIN h
          /\ m = <<m[1], m[2]>>
        BY ShapedObject
    <2>2. ASSUME NEW x \in ToSet(PartsIn(m))
          PROVE  x \in DOMAIN h /\ f[x] = Span(x) /\ Span(x) \subseteq Span(m)
        BY <2>1, PartsBelow DEF ToSet
    <2>3. ASSUME NEW x \in Span(m), x # m
          PROVE  \E y \in ToSet(PartsIn(m)) : x \in Span(y)
        <3>1. x[2] # m[2]
            BY <2>1, <2>3, SpanIs
        <3> QED
            BY <3>1, <2>1, PartsBelow DEF ToSet
    <2> HIDE DEF f
    <2> QED
        BY <2>1, <2>2, <2>3
<1> QED
    BY <1>1 DEF IsBelow

LEMMA BelowIsUnique ==
    ASSUME NEW h, NEW c, Shaped(h, c), NEW f, IsBelow(h, f)
    PROVE  \A m \in DOMAIN h : f[m] = Span(m)
<1> DEFINE Wrong == {m \in DOMAIN h : f[m] # Span(m)}
           Size(m) == End[m[2]] - m[2]
           Sizes == {Size(m) : m \in Wrong}
<1>1. ASSUME NEW m \in DOMAIN h
      PROVE  /\ m[2] \in Item /\ Size(m) \in Nat /\ m[2] \in Nat
             /\ End[m[2]] \in Nat
    BY ShapedObject, PartsAreWithin
<1>2. SUFFICES ASSUME Wrong # {} PROVE FALSE
    OBVIOUS
<1>3. Sizes # {} /\ Sizes \subseteq Nat
    BY <1>1, <1>2
<1>4. PICK s \in Sizes : \A x \in Sizes : s <= x
    BY <1>3, LeastExists
<1>5. PICK m \in Wrong : \A x \in Wrong : Size(m) <= Size(x)
    BY <1>4
<1>6. ASSUME NEW x \in ToSet(h[m].parts) \cap DOMAIN h
      PROVE  f[x] = Span(x)
    <2>1. x \in ToSet(PartsIn(m)) /\ m \in DOMAIN h /\ x \in DOMAIN h
        BY ShapedObject
    <2>2. PICK k \in DOMAIN PartsIn(m) : x = PartsIn(m)[k]
        BY <2>1 DEF ToSet
    <2>3. /\ k \in DOMAIN Parts[m[2]] /\ x = <<m[1], Parts[m[2]][k]>>
          /\ m[2] \in Item
        BY <2>2, <1>1, <2>1, PartsBelow
    <2>4. /\ x[2] = Parts[m[2]][k] /\ x[2] \in (m[2] + 1)..End[m[2]]
          /\ End[x[2]] <= End[m[2]]
        BY <2>3, PartsAreWithin
    <2>5. Size(x) < Size(m)
        BY <2>4, <2>1, <1>1
    <2>6. x \notin Wrong
        BY <2>5, <1>1, <1>5, <2>1
    <2> QED
        BY <2>6, <2>1
<1>7. m \in DOMAIN h /\ f[m] # Span(m)
    BY <1>5
<1>8. f[m] = {m} \cup UNION {f[x] : x \in ToSet(h[m].parts) \cap DOMAIN h}
    BY <1>7 DEF IsBelow
<1>9. Span(m) = {m} \cup UNION {Span(x) : x \in ToSet(h[m].parts) \cap DOMAIN h}
    <2> DEFINE g == [y \in DOMAIN h |-> Span(y)]
    <2>1. IsBelow(h, g)
        BY SpansAreBelow
    <2>2. g[m] = {m} \cup UNION {g[x] : x \in ToSet(h[m].parts) \cap DOMAIN h}
        BY <1>7, <2>1 DEF IsBelow
    <2>3. g[m] = Span(m) /\ \A x \in ToSet(h[m].parts) \cap DOMAIN h : g[x] = Span(x)
        BY <1>7
    <2> HIDE DEF g
    <2> QED
        BY <2>2, <2>3
<1>10. f[m] = Span(m)
    BY <1>6, <1>8, <1>9
<1> QED
    BY <1>7, <1>10

\* In a memory in order, an object leads to an interval of its copy.
LEMMA ReachIs ==
    ASSUME NEW h, NEW c, Shaped(h, c), NEW n \in DOMAIN h
    PROVE  Reach(h, n) = Span(n)
<1> DEFINE f == CHOOSE g : IsBelow(h, g)
<1>1. Reach(h, n) = f[n]
    BY DEF Reach, IsBelow
<1>2. IsBelow(h, f)
    <2>1. \E g : IsBelow(h, g)
        BY SpansAreBelow
    <2> QED
        BY <2>1
<1> HIDE DEF f
<1> QED
    BY <1>1, <1>2, BelowIsUnique

-----------------------------------------------------------------------------
(* What a step does to the memory.                                         *)

\* From memory h with the copies 1..c, the copies in gone are deleted, others
\* are added, and the objects in touched may be filled.
Evolves(h, c, h2, c2, gone, touched) ==
    /\ Shaped(h2, c2) /\ Bounded(h2) /\ c <= c2
    /\ \A m \in DOMAIN h : m \in DOMAIN h2 <=> m[1] \notin gone
    /\ \A m \in DOMAIN h2 : m[1] <= c => m \in DOMAIN h
    /\ \A m \in DOMAIN h : m \notin touched /\ m[1] \notin gone => h2[m] = h[m]

LEMMA StaysAsItIs ==
    ASSUME NEW h, NEW c, Shaped(h, c), Bounded(h), NEW touched
    PROVE  Evolves(h, c, h, c, {}, touched)
BY DEF Evolves, Shaped

LEMMA ThenCopied ==
    ASSUME NEW h, NEW c, NEW h2, NEW c2, NEW h3, NEW c3, NEW gone, NEW touched,
           Shaped(h, c), Evolves(h, c, h2, c2, gone, touched),
           Evolves(h2, c2, h3, c3, {}, {})
    PROVE  Evolves(h, c, h3, c3, gone, touched)
<1>1. /\ Shaped(h3, c3) /\ Bounded(h3) /\ c2 <= c3 /\ c <= c2
      /\ c \in Nat /\ c2 \in Nat /\ c3 \in Nat
    BY DEF Evolves, Shaped
<1>2. ASSUME NEW m \in DOMAIN h PROVE m \in DOMAIN h3 <=> m[1] \notin gone
    <2>1. m \in DOMAIN h2 <=> m[1] \notin gone
        BY DEF Evolves
    <2>2. m \in DOMAIN h2 => m \in DOMAIN h3
        BY DEF Evolves
    <2>3. m[1] \in 1..c
        BY ShapedObject
    <2>4. m \in DOMAIN h3 => m \in DOMAIN h2
        BY <2>3, <1>1 DEF Evolves
    <2> QED
        BY <2>1, <2>2, <2>4
<1>3. ASSUME NEW m \in DOMAIN h3, m[1] <= c PROVE m \in DOMAIN h
    <2>1. m[1] \in 1..c3
        BY <1>1, ShapedObject
    <2>2. m[1] <= c2
        BY <2>1, <1>1, <1>3
    <2> QED
        BY <2>2, <1>3 DEF Evolves
<1>4. ASSUME NEW m \in DOMAIN h, m \notin touched, m[1] \notin gone
      PROVE  h3[m] = h[m]
    <2>1. m \in DOMAIN h2 /\ h2[m] = h[m]
        BY <1>4 DEF Evolves
    <2>2. h3[m] = h2[m]
        BY <2>1 DEF Evolves
    <2> QED
        BY <2>1, <2>2
<1> QED
    BY <1>1, <1>2, <1>3, <1>4 DEF Evolves

\* The copies that copy() makes, and their roots.
Copied(mem, objects, all) ==
    /\ all.copies = mem.copies + Len(objects)
    /\ IsSeq(all.made)
    /\ Len(all.made) = Len(objects)
    /\ DOMAIN all.made = DOMAIN objects
    /\ \A k \in DOMAIN objects :
        /\ all.made[k] = <<mem.copies + k, objects[k][2]>>
        /\ all.made[k] \in Object
        /\ IsWhole(all.heap, all.made[k])
        /\ Unfilled(mem.heap, objects[k]) => Unfilled(all.heap, all.made[k])
    /\ \A m \in DOMAIN all.heap : m[1] > mem.copies =>
        \E k \in DOMAIN objects : m \in Span(all.made[k])

LEMMA CopyAllIs ==
    ASSUME NEW mem, NEW objects, NEW all, all = CopyAll(mem, objects),
           Shaped(mem.heap, mem.copies), Bounded(mem.heap),
           objects \in Seq(DOMAIN mem.heap)
    PROVE  /\ Evolves(mem.heap, mem.copies, all.heap, all.copies, {}, {})
           /\ Copied(mem, objects, all)
<1> DEFINE h == mem.heap
           c == mem.copies
           N == UNION {{<<c + k, o[2]>> : o \in Reach(h, objects[k])} :
                            k \in DOMAIN objects}
           From(m) == h[<<objects[m[1] - c][1], m[2]>>]
           new == [m \in N |->
                    [parts |-> [k \in DOMAIN From(m).parts |->
                                    <<m[1], From(m).parts[k][2]>>],
                     filled |-> From(m).filled]]
           Root(k) == <<c + k, objects[k][2]>>
<1>1. /\ all.heap = With(h, new)
      /\ all.copies = c + Len(objects)
      /\ all.made = [k \in DOMAIN objects |-> Root(k)]
    BY DEF CopyAll
<1>2. /\ c \in Nat /\ Len(objects) \in Nat
      /\ DOMAIN objects = 1..Len(objects)
      /\ \A k \in DOMAIN objects :
            /\ objects[k] \in DOMAIN h
            /\ k \in Nat /\ k >= 1 /\ k <= Len(objects)
    BY LenProperties, ElementOfSeq DEF Shaped
<1>3. ASSUME NEW k \in DOMAIN objects
      PROVE  /\ Reach(h, objects[k]) = Span(objects[k])
             /\ Span(objects[k]) \subseteq DOMAIN h
             /\ objects[k][2] \in Item /\ objects[k][1] \in 1..c
             /\ objects[k] = <<objects[k][1], objects[k][2]>>
    BY <1>2, ReachIs, ShapedObject
<1>4. ASSUME NEW m
      PROVE  m \in N <=> \E k \in DOMAIN objects : m \in Span(Root(k))
    <2>1. ASSUME NEW k \in DOMAIN objects
          PROVE  m \in {<<c + k, o[2]>> : o \in Reach(h, objects[k])}
                    <=> m \in Span(Root(k))
        <3>1. m \in Span(Root(k)) <=>
                    \E j \in objects[k][2]..End[objects[k][2]] : m = <<c + k, j>>
            BY DEF Span
        <3>2. m \in {<<c + k, o[2]>> : o \in Span(objects[k])} <=>
                    \E j \in objects[k][2]..End[objects[k][2]] : m = <<c + k, j>>
            <4>1. ASSUME NEW o \in Span(objects[k])
                  PROVE  o[2] \in objects[k][2]..End[objects[k][2]]
                BY SpanIs
            <4>2. ASSUME NEW j \in objects[k][2]..End[objects[k][2]]
                  PROVE  \E o \in Span(objects[k]) : o[2] = j
                <5>1. <<objects[k][1], j>> \in Span(objects[k])
                    BY DEF Span
                <5> QED
                    BY <5>1
            <4> QED
                BY <4>1, <4>2
        <3> QED
            BY <3>1, <3>2, <1>3
    <2> QED
        BY <2>1
<1>5. ASSUME NEW m \in N, NEW k \in DOMAIN objects, m \in Span(Root(k))
      PROVE  /\ m = <<c + k, m[2]>> /\ m[1] = c + k /\ m[1] > c
             /\ m[1] \in 1..(c + Len(objects))
             /\ m[2] \in Item
             /\ <<objects[k][1], m[2]>> \in Span(objects[k])
             /\ <<objects[k][1], m[2]>> \in DOMAIN h
             /\ From(m) = h[<<objects[k][1], m[2]>>]
             /\ new[m].parts = PartsIn(m)
             /\ new[m] = [parts |-> PartsIn(m), filled |-> new[m].filled]
             /\ new[m].filled = From(m).filled
             /\ new[m].filled \in BOOLEAN
    <2>1. m = <<m[1], m[2]>> /\ m[1] = c + k
          /\ m[2] \in objects[k][2]..End[objects[k][2]]
        BY <1>5, SpanIs
    <2>2. m[1] - c = k
        BY <2>1, <1>2
    <2> DEFINE q == <<objects[k][1], m[2]>>
    <2>3. q \in Span(objects[k]) /\ q \in DOMAIN h
        BY <2>1, <1>3, SpanIs
    <2>4. From(m) = h[q]
        BY <2>2
    <2>5. /\ h[q].parts = PartsIn(q) /\ h[q].filled \in BOOLEAN
          /\ m[2] \in Item
        BY <2>3, ShapedObject
    <2>6. new[m] = [parts |-> [x \in DOMAIN From(m).parts |->
                                    <<m[1], From(m).parts[x][2]>>],
                    filled |-> From(m).filled]
        OBVIOUS
    <2>7. [x \in DOMAIN From(m).parts |-> <<m[1], From(m).parts[x][2]>>] = PartsIn(m)
        <3>1. /\ DOMAIN PartsIn(q) = DOMAIN Parts[m[2]]
              /\ \A x \in DOMAIN Parts[m[2]] : PartsIn(q)[x][2] = Parts[m[2]][x]
            BY DEF PartsIn
        <3> HIDE DEF q
        <3>2. From(m).parts = PartsIn(q)
            BY <2>4, <2>5
        <3> HIDE DEF From
        <3> QED
            BY <3>1, <3>2 DEF PartsIn
    <2> HIDE DEF From, new
    <2>8. new[m] = [parts |-> PartsIn(m), filled |-> From(m).filled]
        BY <2>6, <2>7
    <2>9. m[1] > c /\ m[1] \in 1..(c + Len(objects))
        BY <2>1, <1>2
    <2> QED
        BY <2>1, <2>3, <2>4, <2>5, <2>8, <2>9
<1>6. DOMAIN new = N
    OBVIOUS
<1> HIDE DEF new, N, From
<1>7. /\ DOMAIN all.heap = DOMAIN h \cup N
      /\ \A m \in DOMAIN h : all.heap[m] = h[m]
      /\ \A m \in N : m \notin DOMAIN h /\ all.heap[m] = new[m]
    <2>1. ASSUME NEW m \in N PROVE m \notin DOMAIN h
        <3>1. m[1] > c
            BY <1>4, <1>5
        <3>2. ASSUME m \in DOMAIN h PROVE m[1] \in 1..c
            BY <3>2, ShapedObject
        <3> QED
            BY <3>1, <3>2, <1>2
    <2>2. With(h, new) = [m \in DOMAIN h \cup N |->
                            IF m \in DOMAIN h THEN h[m] ELSE new[m]]
        BY <1>6 DEF With
    <2> QED
        BY <2>1, <2>2, <1>1
<1>8. ASSUME NEW m \in DOMAIN all.heap
      PROVE  /\ m \in (1..all.copies) \X Item
             /\ all.heap[m] = [parts |-> PartsIn(m), filled |-> all.heap[m].filled]
             /\ all.heap[m].filled \in BOOLEAN
             /\ Span(m) \subseteq DOMAIN all.heap
    <2>1. CASE m \in DOMAIN h
        <3>1. /\ m \in (1..c) \X Item
              /\ h[m] = [parts |-> PartsIn(m), filled |-> h[m].filled]
              /\ h[m].filled \in BOOLEAN
              /\ Span(m) \subseteq DOMAIN h
            BY <2>1 DEF Shaped
        <3>2. m \in (1..(c + Len(objects))) \X Item
            BY <3>1, <1>2
        <3> QED
            BY <3>1, <3>2, <2>1, <1>7, <1>1
    <2>2. CASE m \in N
        <3>1. PICK k \in DOMAIN objects : m \in Span(Root(k))
            BY <2>2, <1>4
        <3>2. /\ m[1] \in 1..(c + Len(objects)) /\ m[2] \in Item
              /\ m = <<c + k, m[2]>> /\ m[1] = c + k
              /\ new[m] = [parts |-> PartsIn(m), filled |-> new[m].filled]
              /\ new[m].filled \in BOOLEAN
            BY <2>2, <3>1, <1>5
        <3>3. m \in (1..(c + Len(objects))) \X Item
            BY <3>2
        <3>4. Span(m) \subseteq N
            <4>1. Root(k)[2] \in Item
                BY <1>3
            <4>2. Span(m) \subseteq Span(Root(k))
                BY <3>1, <4>1, SpanIsWithin
            <4> QED
                BY <4>2, <1>4
        <3> QED
            BY <3>2, <3>3, <3>4, <2>2, <1>7, <1>1
    <2> QED
        BY <2>1, <2>2, <1>7
<1>9. Shaped(all.heap, all.copies)
    BY <1>8, <1>1, <1>2 DEF Shaped
<1>10. Bounded(all.heap)
    <2>1. PICK M \in Nat : \A n \in DOMAIN h : n[2] <= M
        BY DEF Bounded
    <2>2. ASSUME NEW m \in N PROVE m[2] <= M
        <3>1. PICK k \in DOMAIN objects : m \in Span(Root(k))
            BY <1>4
        <3>2. <<objects[k][1], m[2]>> \in DOMAIN h
            BY <3>1, <1>5
        <3>3. <<objects[k][1], m[2]>>[2] <= M
            BY <3>2, <2>1
        <3> QED
            BY <3>3
    <2> QED
        BY <2>1, <2>2, <1>7 DEF Bounded
<1>11. ASSUME NEW m \in DOMAIN all.heap, m[1] <= c PROVE m \in DOMAIN h
    <2>1. ASSUME m \in N PROVE FALSE
        <3>1. m[1] > c /\ m[1] \in 1..(c + Len(objects))
            BY <2>1, <1>4, <1>5
        <3> QED
            BY <3>1, <1>11, <1>2
    <2> QED
        BY <2>1, <1>7
<1>12. Evolves(h, c, all.heap, all.copies, {}, {})
    <2>1. c <= all.copies
        BY <1>1, <1>2
    <2> QED
        BY <2>1, <1>7, <1>9, <1>10, <1>11 DEF Evolves
<1>13. ASSUME NEW k \in DOMAIN objects
       PROVE  /\ Root(k) \in Object
              /\ IsWhole(all.heap, Root(k))
              /\ Unfilled(h, objects[k]) => Unfilled(all.heap, Root(k))
    <2>1. Root(k) \in Object /\ Root(k)[2] \in Item
          /\ Root(k) = <<Root(k)[1], Root(k)[2]>>
        BY <1>2, <1>3 DEF Object
    <2>2. Root(k) \in Span(Root(k))
        BY <2>1, InOwnSpan
    <2>3. Root(k) \in DOMAIN all.heap
        BY <2>2, <1>4, <1>7
    <2>4. ASSUME NEW m \in DOMAIN all.heap, m[1] = Root(k)[1]
          PROVE  m \in Span(Root(k))
        <3>1. m \notin DOMAIN h
            <4>1. m \in DOMAIN h => m[1] \in 1..c
                BY ShapedObject
            <4>2. m[1] = c + k
                BY <2>4
            <4> QED
                BY <4>1, <4>2, <1>2
        <3>2. m \in N
            BY <3>1, <1>7
        <3>3. PICK l \in DOMAIN objects : m \in Span(Root(l))
            BY <3>2, <1>4
        <3>4. m[1] = c + l
            BY <3>2, <3>3, <1>5
        <3>5. l = k
            BY <3>4, <2>4, <1>2
        <3> QED
            BY <3>3, <3>5
    <2>5. ASSUME Unfilled(h, objects[k]), NEW m \in Span(Root(k))
          PROVE  ~all.heap[m].filled
        <3>1. m \in N
            BY <1>4
        <3>2. /\ <<objects[k][1], m[2]>> \in Span(objects[k])
              /\ new[m].filled = h[<<objects[k][1], m[2]>>].filled
            BY <3>1, <2>5, <1>5
        <3> QED
            BY <3>1, <3>2, <2>5, <1>7 DEF Unfilled
    <2> QED
        BY <2>1, <2>3, <2>4, <2>5 DEF IsWhole, Unfilled
<1>14. ASSUME NEW m \in DOMAIN all.heap, m[1] > c
       PROVE  \E k \in DOMAIN objects : m \in Span(Root(k))
    <2>1. m \notin DOMAIN h
        <3>1. m \in DOMAIN h => m[1] \in 1..c
            BY ShapedObject
        <3> QED
            BY <3>1, <1>2, <1>14
    <2> QED
        BY <2>1, <1>4, <1>7
<1>15. /\ all.made \in Seq(Range(all.made)) /\ Len(all.made) = Len(objects)
       /\ DOMAIN all.made = DOMAIN objects
       /\ \A k \in DOMAIN objects : all.made[k] = Root(k)
    <2>1. /\ DOMAIN all.made = 1..Len(objects)
          /\ \A k \in 1..Len(objects) : all.made[k] \in Range(all.made)
          /\ all.made = [k \in 1..Len(objects) |-> all.made[k]]
        BY <1>1, <1>2 DEF Range
    <2>2. all.made \in Seq(Range(all.made))
        BY <2>1, <1>2, IsASeq
    <2>3. Len(all.made) = Len(objects)
        BY <2>1, <2>2, <1>2, LenProperties
    <2> QED
        BY <2>1, <2>2, <2>3, <1>1, <1>2
<1> HIDE DEF Root
<1>16. Copied(mem, objects, all)
    <2>1. \A k \in DOMAIN objects : Root(k) = <<mem.copies + k, objects[k][2]>>
        BY DEF Root
    <2> QED
        BY <2>1, <1>1, <1>13, <1>14, <1>15 DEF Copied, IsSeq
<1> QED
    BY <1>12, <1>16

\* Deleting what is owned deletes whole copies.
LEMMA WithoutIs ==
    ASSUME NEW h, NEW c, Shaped(h, c), Bounded(h),
           NEW objects, \A n \in objects : IsWhole(h, n),
           NEW h2, h2 = Without(h, objects)
    PROVE  Evolves(h, c, h2, c, {n[1] : n \in objects}, {})
<1> DEFINE gone == {n[1] : n \in objects}
<1>1. ASSUME NEW m \in DOMAIN h
      PROVE  m \in UNION {Reach(h, n) : n \in objects} <=> m[1] \in gone
    <2>1. ASSUME NEW n \in objects PROVE m \in Reach(h, n) <=> m[1] = n[1]
        <3>1. n \in DOMAIN h /\ (m[1] = n[1] => m \in Span(n))
            BY DEF IsWhole
        <3>2. Reach(h, n) = Span(n)
            BY <3>1, ReachIs
        <3> QED
            BY <3>1, <3>2, SpanIs
    <2> QED
        BY <2>1
<1>2. /\ \A m : m \in DOMAIN h2 <=> m \in DOMAIN h /\ m[1] \notin gone
      /\ \A m \in DOMAIN h2 : h2[m] = h[m]
    BY <1>1 DEF Without
<1>3. Shaped(h2, c)
    <2>1. ASSUME NEW m \in DOMAIN h2 PROVE Span(m) \subseteq DOMAIN h2
        BY <1>2, SpanIs DEF Shaped
    <2> QED
        BY <1>2, <2>1 DEF Shaped
<1>4. Bounded(h2)
    BY <1>2 DEF Bounded
<1>5. c <= c
    BY DEF Shaped
<1> HIDE DEF gone
<1>6. Evolves(h, c, h2, c, gone, {})
    BY <1>2, <1>3, <1>4, <1>5 DEF Evolves
<1> QED
    BY <1>6 DEF gone

\* Filling the values of an object changes nothing else.
LEMMA FilledIs ==
    ASSUME NEW h, NEW c, Shaped(h, c), Bounded(h), NEW n \in DOMAIN h,
           NEW h2, h2 = [h EXCEPT ![n].filled = TRUE]
    PROVE  Evolves(h, c, h2, c, {}, {n})
<1>1. /\ DOMAIN h2 = DOMAIN h
      /\ \A m \in DOMAIN h : m # n => h2[m] = h[m]
      /\ h2[n] = [h[n] EXCEPT !.filled = TRUE]
    OBVIOUS
<1>2. h2[n] = [parts |-> PartsIn(n), filled |-> TRUE]
    <2>1. PICK b : b = h[n].filled
        OBVIOUS
    <2>2. h[n] = [parts |-> PartsIn(n), filled |-> b]
        BY <2>1 DEF Shaped
    <2>3. h2[n] = [[parts |-> PartsIn(n), filled |-> b] EXCEPT !.filled = TRUE]
        BY <2>2, <1>1
    <2> QED
        BY <2>3
<1>3. /\ h2[n] = [parts |-> PartsIn(n), filled |-> h2[n].filled]
      /\ h2[n].filled \in BOOLEAN
    <2>1. h2[n].filled = TRUE
        BY <1>2
    <2> QED
        BY <2>1, <1>2
<1>4. Shaped(h2, c)
    <2>1. ASSUME NEW m \in DOMAIN h2
          PROVE  /\ m \in (1..c) \X Item
                 /\ h2[m] = [parts |-> PartsIn(m), filled |-> h2[m].filled]
                 /\ h2[m].filled \in BOOLEAN
                 /\ Span(m) \subseteq DOMAIN h2
        <3>1. /\ m \in (1..c) \X Item /\ Span(m) \subseteq DOMAIN h2
              /\ h[m] = [parts |-> PartsIn(m), filled |-> h[m].filled]
              /\ h[m].filled \in BOOLEAN
            BY <1>1 DEF Shaped
        <3>2. CASE m = n
            BY <3>1, <3>2, <1>3
        <3>3. CASE m # n
            <4>1. h2[m] = h[m]
                BY <3>3, <1>1
            <4> QED
                BY <3>1, <4>1
        <3> QED
            BY <3>2, <3>3
    <2> QED
        BY <2>1 DEF Shaped
<1>5. Bounded(h2) /\ c <= c
    BY <1>1 DEF Bounded, Shaped
<1> QED
    BY <1>1, <1>4, <1>5 DEF Evolves

LEMMA ThenParsed ==
    ASSUME NEW h, NEW c, Shaped(h, c), Bounded(h), NEW root \in Item,
           NEW h2,
           h2 = With(h, [m \in {<<c + 1, i>> : i \in ItemsOf(root)} |->
                    [parts |-> [k \in DOMAIN Parts[m[2]] |->
                                    <<c + 1, Parts[m[2]][k]>>],
                     filled |-> FALSE]])
    PROVE  /\ Evolves(h, c, h2, c + 1, {}, {})
           /\ IsWhole(h2, <<c + 1, root>>)
           /\ Unfilled(h2, <<c + 1, root>>)
           /\ \A m \in DOMAIN h2 : m[1] > c => m \in Span(<<c + 1, root>>)
<1> DEFINE r == <<c + 1, root>>
           new == [m \in {<<c + 1, i>> : i \in ItemsOf(root)} |->
                    [parts |-> [k \in DOMAIN Parts[m[2]] |->
                                    <<c + 1, Parts[m[2]][k]>>],
                     filled |-> FALSE]]
<1>1. DOMAIN new = Span(r)
    BY DEF ItemsOf, Span
<1>2. ASSUME NEW m \in Span(r)
      PROVE  /\ new[m] = [parts |-> PartsIn(m), filled |-> FALSE]
             /\ m \in (1..(c + 1)) \X Item /\ m[1] = c + 1
             /\ m \notin DOMAIN h
             /\ Span(m) \subseteq Span(r)
             /\ m[2] <= End[root]
    <2>1. m = <<m[1], m[2]>> /\ m[1] = c + 1 /\ m[2] \in root..End[root]
        BY SpanIs
    <2>2. m \in DOMAIN new
        BY <1>1
    <2>3. new[m] = [parts |-> [k \in DOMAIN Parts[m[2]] |->
                                    <<c + 1, Parts[m[2]][k]>>],
                    filled |-> FALSE]
        BY <2>2
    <2>4. new[m] = [parts |-> PartsIn(m), filled |-> FALSE]
        BY <2>3, <2>1 DEF PartsIn
    <2>5. c \in Nat /\ root \in Nat /\ End[root] \in Nat /\ m[2] \in Item
          /\ m[2] <= End[root]
        BY <2>1, PartsAreWithin DEF Shaped
    <2>6. m \notin DOMAIN h
        <3>1. m \in DOMAIN h => m[1] \in 1..c
            BY ShapedObject
        <3> QED
            BY <3>1, <2>1, <2>5
    <2>7. r[2] \in Item
        OBVIOUS
    <2>8. Span(m) \subseteq Span(r)
        BY <2>7, SpanIsWithin
    <2>9. m \in (1..(c + 1)) \X Item
        BY <2>1, <2>5
    <2> HIDE DEF new, r
    <2> QED
        BY <2>1, <2>4, <2>5, <2>6, <2>8, <2>9
<1>3. h2 = [m \in DOMAIN h \cup DOMAIN new |-> IF m \in DOMAIN h THEN h[m] ELSE new[m]]
    BY DEF With
<1> HIDE DEF new
<1>4. /\ DOMAIN h2 = DOMAIN h \cup Span(r)
      /\ \A m \in DOMAIN h : h2[m] = h[m]
      /\ \A m \in Span(r) : h2[m] = new[m]
    BY <1>1, <1>2, <1>3
<1>5. c \in Nat /\ r = <<r[1], r[2]>> /\ r[2] = root /\ r[1] = c + 1
    BY DEF Shaped
<1> HIDE DEF r
<1>6. ASSUME NEW m \in DOMAIN h2
      PROVE  /\ m \in (1..(c + 1)) \X Item
             /\ h2[m] = [parts |-> PartsIn(m), filled |-> h2[m].filled]
             /\ h2[m].filled \in BOOLEAN
             /\ Span(m) \subseteq DOMAIN h2
    <2>1. CASE m \in DOMAIN h
        <3>1. /\ m \in (1..c) \X Item /\ Span(m) \subseteq DOMAIN h
              /\ h[m] = [parts |-> PartsIn(m), filled |-> h[m].filled]
              /\ h[m].filled \in BOOLEAN
            BY <2>1 DEF Shaped
        <3>2. m \in (1..(c + 1)) \X Item
            BY <3>1, <1>5
        <3>3. h2[m] = h[m]
            BY <2>1, <1>4
        <3> QED
            BY <3>1, <3>2, <3>3, <1>4
    <2>2. CASE m \in Span(r)
        <3>1. h2[m] = [parts |-> PartsIn(m), filled |-> FALSE]
            BY <2>2, <1>2, <1>4
        <3>2. h2[m].filled = FALSE
            BY <3>1
        <3> QED
            BY <2>2, <3>1, <3>2, <1>2, <1>4
    <2> QED
        BY <2>1, <2>2, <1>4
<1>7. Bounded(h2)
    <2>1. PICK M \in Nat : \A n \in DOMAIN h : n[2] <= M
        BY DEF Bounded
    <2>2. End[root] \in Nat
        BY PartsAreWithin
    <2>3. PICK K \in Nat : M <= K /\ End[root] <= K
        <3>1. M + End[root] \in Nat /\ M <= M + End[root]
              /\ End[root] <= M + End[root]
            BY <2>1, <2>2
        <3> QED
            BY <3>1
    <2>4. ASSUME NEW m \in DOMAIN h2 PROVE m[2] <= K
        <3>1. m[2] \in Nat
            BY <1>6, PartsAreWithin
        <3>2. m \in DOMAIN h \/ m \in Span(r)
            BY <1>4
        <3>3. m[2] <= M \/ m[2] <= End[root]
            BY <3>2, <2>1, <1>2
        <3> QED
            BY <3>1, <3>3, <2>1, <2>2, <2>3
    <2> QED
        BY <2>4 DEF Bounded
<1>8. c + 1 \in Nat /\ c <= c + 1 /\ c + 1 > c
    BY <1>5
<1>9. \A m \in DOMAIN h : m[1] \in 1..c
    BY ShapedObject
<1>10. \A m \in DOMAIN h2 : m[1] > c => m \in Span(r)
    BY <1>4, <1>5, <1>9
<1>11. ASSUME NEW m \in DOMAIN h2, m[1] <= c PROVE m \in DOMAIN h
    <2>1. m \in Span(r) => m[1] = c + 1
        BY <1>2
    <2> QED
        BY <2>1, <1>4, <1>5, <1>11
<1>12. Evolves(h, c, h2, c + 1, {}, {})
    BY <1>4, <1>6, <1>7, <1>8, <1>11 DEF Evolves, Shaped
<1>13. IsWhole(h2, r)
    BY <1>4, <1>5, <1>8, <1>10, InOwnSpan DEF IsWhole
<1>14. Unfilled(h2, r)
    <2>1. ASSUME NEW m \in Span(r) PROVE h2[m].filled = FALSE
        <3>1. h2[m] = [parts |-> PartsIn(m), filled |-> FALSE]
            BY <2>1, <1>2, <1>4
        <3> QED
            BY <3>1
    <2> QED
        BY <2>1 DEF Unfilled
<1> QED
    BY <1>10, <1>12, <1>13, <1>14 DEF r

-----------------------------------------------------------------------------
(* Sequences.                                                              *)

LEMMA SeqIs ==
    ASSUME NEW s, IsSeq(s)
    PROVE  /\ Len(s) \in Nat /\ DOMAIN s = 1..Len(s)
           /\ s = [i \in 1..Len(s) |-> s[i]]
           /\ \A i \in 1..Len(s) : i \in DOMAIN s
           /\ s # <<>> => Len(s) \in Nat \ {0} /\ 1 \in DOMAIN s
BY LenProperties, EmptySeq DEF IsSeq

LEMMA MakesSeq ==
    ASSUME NEW n \in Nat, NEW s, DOMAIN s = 1..n, s = [i \in 1..n |-> s[i]]
    PROVE  IsSeq(s) /\ Len(s) = n
<1>1. \A i \in 1..n : s[i] \in Range(s)
    BY DEF Range
<1>2. s \in Seq(Range(s))
    BY <1>1, IsASeq
<1>3. Len(s) = n
    BY <1>2, LenProperties
<1> QED
    BY <1>2, <1>3 DEF IsSeq

LEMMA OverIsSeq ==
    ASSUME NEW S, NEW s \in Seq(S)
    PROVE  IsSeq(s)
<1>1. Len(s) \in Nat /\ DOMAIN s = 1..Len(s) /\ s = [i \in 1..Len(s) |-> s[i]]
    BY LenProperties
<1> QED
    BY <1>1, MakesSeq

LEMMA EmptyIs == IsSeq(<<>>) /\ Len(<<>>) = 0 /\ DOMAIN <<>> = {}
<1>1. <<>> \in Seq({}) /\ Len(<<>>) = 0
    BY EmptySeq
<1>2. IsSeq(<<>>)
    BY <1>1, OverIsSeq
<1>3. DOMAIN <<>> = 1..Len(<<>>)
    BY <1>1, LenProperties
<1> QED
    BY <1>1, <1>2, <1>3

LEMMA ConcatIs ==
    ASSUME NEW s, NEW t, IsSeq(s), IsSeq(t), NEW u, u = s \o t
    PROVE  /\ IsSeq(u)
           /\ Len(u) = Len(s) + Len(t)
           /\ \A i \in 1..Len(s) : u[i] = s[i]
           /\ \A i \in 1..Len(t) : u[Len(s) + i] = t[i]
<1> DEFINE S == Range(s) \cup Range(t)
<1>1. s \in Seq(S) /\ t \in Seq(S)
    <2>1. Range(s) \subseteq S /\ Range(t) \subseteq S
        OBVIOUS
    <2> QED
        BY <2>1, SeqMonotonic DEF IsSeq
<1>2. Len(s) \in Nat /\ Len(t) \in Nat
    BY SeqIs
<1> HIDE DEF S
<1>3. /\ u \in Seq(S)
      /\ Len(u) = Len(s) + Len(t)
      /\ \A i \in 1 .. Len(s) + Len(t) :
            u[i] = IF i <= Len(s) THEN s[i] ELSE t[i - Len(s)]
    BY <1>1, ConcatProperties
<1>4. IsSeq(u)
    BY <1>3, OverIsSeq
<1>5. ASSUME NEW i \in 1..Len(t) PROVE u[Len(s) + i] = t[i]
    <2>1. /\ Len(s) + i \in 1 .. Len(s) + Len(t) /\ ~(Len(s) + i <= Len(s))
          /\ (Len(s) + i) - Len(s) = i
        BY <1>2
    <2> QED
        BY <2>1, <1>3
<1>6. \A i \in 1..Len(s) : u[i] = s[i]
    BY <1>2, <1>3
<1> QED
    BY <1>3, <1>4, <1>5, <1>6

LEMMA TailIs ==
    ASSUME NEW s, IsSeq(s), s # <<>>
    PROVE  /\ IsSeq(Tail(s))
           /\ Len(s) \in Nat \ {0}
           /\ Len(Tail(s)) = Len(s) - 1
           /\ \A i \in 1..(Len(s) - 1) : Tail(s)[i] = s[i + 1]
           /\ Head(s) = s[1]
<1>1. s \in Seq(Range(s))
    BY DEF IsSeq
<1>2. Tail(s) \in Seq(Range(s)) /\ Len(Tail(s)) = Len(s) - 1
      /\ \A i \in 1 .. Len(Tail(s)) : Tail(s)[i] = s[i + 1]
    BY <1>1, HeadTailProperties
<1>3. Len(s) \in Nat \ {0}
    BY <1>1, EmptySeq
<1>4. Head(s) = s[1]
    BY <1>1
<1>5. IsSeq(Tail(s))
    BY <1>2, OverIsSeq
<1> QED
    BY <1>2, <1>3, <1>4, <1>5

\* t is s with new frames in the place of the first; depth counts from below.
OnTop(t, new, s) ==
    /\ IsSeq(t) /\ Len(t) = Len(new) + Len(s) - 1
    /\ Len(new) \in Nat /\ Len(s) \in Nat \ {0}
    /\ DOMAIN new = 1..Len(new) /\ DOMAIN s = 1..Len(s)
    /\ DOMAIN t = 1..Len(t)
    /\ \A k \in DOMAIN new : k \in DOMAIN t /\ t[k] = new[k]
    /\ \A k \in 2..Len(s) :
        /\ k \in DOMAIN s
        /\ (Len(new) + k) - 1 \in DOMAIN t
        /\ t[(Len(new) + k) - 1] = s[k]
        /\ Len(t) - ((Len(new) + k) - 1) = Len(s) - k
    /\ \A k \in DOMAIN t : k \in DOMAIN new
            \/ \E l \in 2..Len(s) : k = (Len(new) + l) - 1
    /\ Head(s) = s[1]

LEMMA TopReplaced ==
    ASSUME NEW s, NEW new, IsSeq(s), IsSeq(new), s # <<>>,
           NEW t, t = new \o Tail(s)
    PROVE  OnTop(t, new, s)
<1>1. /\ IsSeq(Tail(s)) /\ Len(s) \in Nat \ {0} /\ Len(Tail(s)) = Len(s) - 1
      /\ \A i \in 1..(Len(s) - 1) : Tail(s)[i] = s[i + 1]
      /\ Head(s) = s[1]
    BY TailIs
<1>2. Len(new) \in Nat /\ DOMAIN new = 1..Len(new) /\ DOMAIN s = 1..Len(s)
    BY SeqIs
<1>3. /\ IsSeq(t) /\ Len(t) = Len(new) + Len(Tail(s))
      /\ \A i \in 1..Len(new) : t[i] = new[i]
      /\ \A i \in 1..Len(Tail(s)) : t[Len(new) + i] = Tail(s)[i]
    <2>1. PICK rest : rest = Tail(s)
        OBVIOUS
    <2>2. IsSeq(rest) /\ t = new \o rest
        BY <2>1, <1>1
    <2>3. IsSeq(t) /\ Len(t) = Len(new) + Len(rest)
        BY <2>2, ConcatIs
    <2>4. \A i \in 1..Len(new) : t[i] = new[i]
        BY <2>2, ConcatIs
    <2>5. \A i \in 1..Len(rest) : t[Len(new) + i] = rest[i]
        BY <2>2, ConcatIs
    <2> QED
        BY <2>1, <2>3, <2>4, <2>5
<1>4. DOMAIN t = 1..Len(t)
    BY <1>3, SeqIs
<1>5. Len(t) = Len(new) + Len(s) - 1
    BY <1>1, <1>2, <1>3
<1>6. ASSUME NEW k \in 2..Len(s)
      PROVE  /\ k \in DOMAIN s
             /\ (Len(new) + k) - 1 \in DOMAIN t
             /\ t[(Len(new) + k) - 1] = s[k]
             /\ Len(t) - ((Len(new) + k) - 1) = Len(s) - k
    <2>1. k - 1 \in 1..(Len(s) - 1) /\ (k - 1) + 1 = k
          /\ Len(new) + (k - 1) = (Len(new) + k) - 1
        BY <1>1, <1>2
    <2>2. t[Len(new) + (k - 1)] = s[(k - 1) + 1]
        BY <2>1, <1>1, <1>3
    <2>3. (Len(new) + k) - 1 \in 1..Len(t) /\ k \in 1..Len(s)
        BY <1>1, <1>2, <1>5
    <2>4. Len(t) - ((Len(new) + k) - 1) = Len(s) - k
        BY <1>1, <1>2, <1>5
    <2> QED
        BY <2>1, <2>2, <2>3, <2>4, <1>2, <1>4
<1>7. ASSUME NEW k \in DOMAIN t, k \notin DOMAIN new
      PROVE  \E l \in 2..Len(s) : k = (Len(new) + l) - 1
    <2>1. (k - Len(new)) + 1 \in 2..Len(s)
          /\ k = (Len(new) + ((k - Len(new)) + 1)) - 1
        BY <1>1, <1>2, <1>4, <1>5, <1>7
    <2> QED
        BY <2>1
<1>8. \A k \in DOMAIN new : k \in DOMAIN t /\ t[k] = new[k]
    BY <1>1, <1>2, <1>3, <1>4, <1>5
<1> QED
    BY <1>1, <1>2, <1>3, <1>4, <1>5, <1>6, <1>7, <1>8 DEF OnTop

-----------------------------------------------------------------------------
(* Owners.                                                                 *)

\* o is an owner when these are m_output, the registries and the plans.
IsOwner(o, out, ts, rs, ps) ==
    /\ o[4] # NoObject
    /\ \/ o = <<"output", 0, 0, out>>
       \/ \E id \in DOMAIN ts : o = <<"tree", id, 0, ts[id]>>
       \/ \E id \in DOMAIN rs : o = <<"resource", id, 0, rs[id]>>
       \/ \E p \in DOMAIN ps : o = <<"plan", p, 0, ps[p].root>>
       \/ \E p \in DOMAIN ps : \E k \in DOMAIN ps[p].stack :
            /\ Deletes(ps[p].stack[k])
            /\ o = <<"frame", p, Len(ps[p].stack) - k, ps[p].stack[k].object>>

LEMMA NoObjectIsNone == NoObject \notin Object
BY DEF NoObject, Object

\* Owners as a function of the state.
OwnersOf(out, ts, rs, ps) ==
    {<<"output", 0, 0, out>>}
        \cup {<<"tree", id, 0, ts[id]>> : id \in DOMAIN ts}
        \cup {<<"resource", id, 0, rs[id]>> : id \in DOMAIN rs}
        \cup {<<"plan", p, 0, ps[p].root>> : p \in DOMAIN ps}
        \cup UNION {{<<"frame", p, Len(ps[p].stack) - k, ps[p].stack[k].object>> :
                        k \in {j \in DOMAIN ps[p].stack :
                                ps[p].stack[j].op \in {"delete", "delete on success"}}} :
                    p \in DOMAIN ps}

LEMMA OwnersOfIs ==
    ASSUME NEW out, NEW ts, NEW rs, NEW ps, NEW o
    PROVE  o \in OwnersOf(out, ts, rs, ps) /\ o[4] # NoObject
                <=> IsOwner(o, out, ts, rs, ps)
<1> DEFINE A == {<<"output", 0, 0, out>>}
           B == {<<"tree", id, 0, ts[id]>> : id \in DOMAIN ts}
           C == {<<"resource", id, 0, rs[id]>> : id \in DOMAIN rs}
           D == {<<"plan", p, 0, ps[p].root>> : p \in DOMAIN ps}
           F(p) == {<<"frame", p, Len(ps[p].stack) - k, ps[p].stack[k].object>> :
                        k \in {j \in DOMAIN ps[p].stack :
                                ps[p].stack[j].op \in {"delete", "delete on success"}}}
           E == UNION {F(p) : p \in DOMAIN ps}
<1>1. OwnersOf(out, ts, rs, ps) = A \cup B \cup C \cup D \cup E
    BY DEF OwnersOf
<1>2. o \in A <=> o = <<"output", 0, 0, out>>
    OBVIOUS
<1>3. o \in B <=> \E id \in DOMAIN ts : o = <<"tree", id, 0, ts[id]>>
    OBVIOUS
<1>4. o \in C <=> \E id \in DOMAIN rs : o = <<"resource", id, 0, rs[id]>>
    OBVIOUS
<1>5. o \in D <=> \E p \in DOMAIN ps : o = <<"plan", p, 0, ps[p].root>>
    OBVIOUS
<1>6. ASSUME NEW p \in DOMAIN ps
      PROVE  o \in F(p) <=> \E k \in DOMAIN ps[p].stack :
                /\ Deletes(ps[p].stack[k])
                /\ o = <<"frame", p, Len(ps[p].stack) - k, ps[p].stack[k].object>>
    BY DEF Deletes
<1>7. o \in E <=> \E p \in DOMAIN ps : o \in F(p)
    OBVIOUS
<1> HIDE DEF A, B, C, D, E, F
<1> QED
    BY <1>1, <1>2, <1>3, <1>4, <1>5, <1>6, <1>7 DEF IsOwner

LEMMA OwnedIs ==
    /\ \A o : o \in Owned <=> IsOwner(o, output, trees, resources, plans)
    /\ \A o : o \in Owned' <=> IsOwner(o, output', trees', resources', plans')
<1>1. Owned = {o \in OwnersOf(output, trees, resources, plans) : o[4] # NoObject}
    BY DEF Owned, Owners, OwnersOf
<1>2. Owned' = {o \in OwnersOf(output', trees', resources', plans') :
                    o[4] # NoObject}
    BY DEF Owned, Owners, OwnersOf, NoObject
<1>3. \A o : o \in Owned <=> IsOwner(o, output, trees, resources, plans)
    BY <1>1, OwnersOfIs, Zenon
<1>4. \A o : o \in Owned' <=> IsOwner(o, output', trees', resources', plans')
    BY <1>2, OwnersOfIs, Zenon
<1> QED
    BY <1>3, <1>4

\* o is a plan or a frame of plan p.
OfPlan(o, p) == o[1] \in {"plan", "frame"} /\ o[2] = p

\* A frame works within a copy that a frame below it or the plan owns.
LEMMA FrameOwner ==
    ASSUME HeapInv, OwnInv, PlanInv, NEW p \in DOMAIN plans,
           NEW k \in DOMAIN plans[p].stack, Works(plans[p].stack[k])
    PROVE  \E o \in Owned :
                /\ OfPlan(o, p)
                /\ o[1] = "frame" =>
                    \E l \in DOMAIN plans[p].stack :
                        /\ k < l /\ Deletes(plans[p].stack[l])
                        /\ o[3] = Len(plans[p].stack) - l
                        /\ o[4] = plans[p].stack[l].object
                /\ plans[p].stack[k].object \in Span(o[4])
                /\ plans[p].stack[k].object[1] = o[4][1]
                /\ o[4] \in DOMAIN heap /\ Span(o[4]) \subseteq DOMAIN heap
                /\ plans[p].stack[k].object \in DOMAIN heap
                /\ Span(plans[p].stack[k].object) \subseteq DOMAIN heap
<1> DEFINE n == plans[p].stack[k].object
           s == plans[p].stack
<1>1. \/ plans[p].root # NoObject /\ n \in Span(plans[p].root)
      \/ \E l \in DOMAIN s : k < l /\ Deletes(s[l]) /\ n \in Span(s[l].object)
    BY DEF PlanInv, StackInv
<1>2. ASSUME NEW o \in Owned, n \in Span(o[4])
      PROVE  /\ n[1] = o[4][1]
             /\ o[4] \in DOMAIN heap /\ Span(o[4]) \subseteq DOMAIN heap
             /\ n \in DOMAIN heap /\ Span(n) \subseteq DOMAIN heap
    <2>1. o[4] \in DOMAIN heap
        BY DEF OwnInv, IsWhole
    <2>2. Span(o[4]) \subseteq DOMAIN heap
        BY <2>1, ShapedObject DEF HeapInv
    <2>3. n \in DOMAIN heap
        BY <2>2, <1>2
    <2>4. Span(n) \subseteq DOMAIN heap
        BY <2>3, ShapedObject DEF HeapInv
    <2> QED
        BY <2>1, <2>2, <2>3, <2>4, <1>2, SpanIs
<1>3. CASE plans[p].root # NoObject /\ n \in Span(plans[p].root)
    <2> DEFINE o == <<"plan", p, 0, plans[p].root>>
    <2>1. o[1] = "plan" /\ o[2] = p /\ o[4] = plans[p].root
        OBVIOUS
    <2>2. IsOwner(o, output, trees, resources, plans)
        BY <2>1, <1>3 DEF IsOwner
    <2> HIDE DEF o
    <2>3. o \in Owned
        BY <2>2, OwnedIs
    <2>4. n \in Span(o[4])
        BY <2>1, <1>3
    <2> QED
        BY <2>1, <2>3, <2>4, <1>2 DEF OfPlan
<1>4. CASE \E l \in DOMAIN s : k < l /\ Deletes(s[l]) /\ n \in Span(s[l].object)
    <2>1. PICK l \in DOMAIN s : k < l /\ Deletes(s[l]) /\ n \in Span(s[l].object)
        BY <1>4
    <2> DEFINE o == <<"frame", p, Len(s) - l, s[l].object>>
    <2>2. /\ o[1] = "frame" /\ o[2] = p /\ o[3] = Len(s) - l
          /\ o[4] = s[l].object
        OBVIOUS
    <2>3. IsFrame(s[l]) /\ s[l].op # "join"
        BY <2>1 DEF PlanInv, StackInv, Deletes
    <2>4. s[l].object # NoObject
        <3>1. s[l].object \in Object
            BY <2>3 DEF IsFrame
        <3> QED
            BY <3>1, NoObjectIsNone
    <2>5. IsOwner(o, output, trees, resources, plans)
        BY <2>1, <2>2, <2>4 DEF IsOwner
    <2> HIDE DEF o
    <2>6. o \in Owned
        BY <2>5, OwnedIs
    <2>7. n \in Span(o[4])
        BY <2>1, <2>2
    <2> QED
        BY <2>1, <2>2, <2>6, <2>7, <1>2 DEF OfPlan
<1> QED
    BY <1>1, <1>3, <1>4

-----------------------------------------------------------------------------
(* Steps.                                                                  *)

CopiesOf(owners) == {o[4][1] : o \in owners}

\* In this step the owners in gone delete what they own, and objects that plan
\* p works on may be filled.
SafeStep(gone, touched, p) ==
    /\ gone \subseteq Owned
    /\ \A o \in gone : o[1] \in {"output", "plan", "frame"}
    /\ \A m \in touched : \E o \in Owned : OfPlan(o, p) /\ m[1] = o[4][1]
    /\ Evolves(heap, copies, heap', copies', CopiesOf(gone), touched)

\* In this step nothing gets an owner but new copies, each of them one.
OwnersStep(gone) ==
    /\ \A o \in Owned' :
        \/ o \in Owned \ gone
        \/ o[4][1] > copies /\ IsWhole(heap', o[4])
    /\ \A o, q \in Owned' : o[4][1] > copies /\ o[4][1] = q[4][1] => o = q

LEMMA OwnedCopies ==
    ASSUME HeapInv, OwnInv, NEW o \in Owned
    PROVE  /\ o[4] \in DOMAIN heap /\ o[4][1] \in 1..copies /\ o[4] \in Object
           /\ copies \in Nat /\ Span(o[4]) \subseteq DOMAIN heap
           /\ Reach(heap, o[4]) = Span(o[4])
<1>1. o[4] \in DOMAIN heap
    BY DEF OwnInv, IsWhole
<1> QED
    BY <1>1, ShapedObject, ReachIs DEF HeapInv

LEMMA OwnStep ==
    ASSUME HeapInv, OwnInv, NEW gone, NEW touched, NEW p,
           SafeStep(gone, touched, p), OwnersStep(gone)
    PROVE  HeapInv' /\ OwnInv'
<1>1. HeapInv'
    BY DEF HeapInv, SafeStep, Evolves
<1>2. ASSUME NEW o \in Owned, o \notin gone
      PROVE  o[4][1] \notin CopiesOf(gone)
    BY <1>2 DEF CopiesOf, OwnInv, SafeStep
<1>3. ASSUME NEW o \in Owned' PROVE IsWhole(heap', o[4])
    <2>1. CASE o \in Owned \ gone
        <3>1. o[4] \in DOMAIN heap /\ o[4][1] \in 1..copies /\ copies \in Nat
              /\ o[4][1] \notin CopiesOf(gone)
            BY <2>1, <1>2, OwnedCopies
        <3>2. o[4] \in DOMAIN heap'
            BY <3>1 DEF SafeStep, Evolves
        <3>3. ASSUME NEW m \in DOMAIN heap', m[1] = o[4][1]
              PROVE  m \in Span(o[4])
            <4>1. m \in DOMAIN heap
                BY <3>1, <3>3 DEF SafeStep, Evolves
            <4> QED
                BY <4>1, <3>3, <2>1 DEF OwnInv, IsWhole
        <3> QED
            BY <3>2, <3>3 DEF IsWhole
    <2> QED
        BY <2>1 DEF OwnersStep
<1>4. ASSUME NEW o \in Owned', NEW q \in Owned', o[4][1] = q[4][1]
      PROVE  o = q
    <2>1. CASE o[4][1] > copies
        BY <2>1, <1>4 DEF OwnersStep
    <2>2. CASE ~(o[4][1] > copies)
        <3>1. o \in Owned /\ q \in Owned
            BY <2>2, <1>4 DEF OwnersStep
        <3> QED
            BY <3>1, <1>4 DEF OwnInv
    <2> QED
        BY <2>1, <2>2
<1>5. OwnInv'
    BY <1>3, <1>4 DEF OwnInv
<1> QED
    BY <1>1, <1>5

LEMMA UnfilledStays ==
    ASSUME NEW h, NEW c, NEW h2, NEW c2, NEW gone, NEW touched,
           Evolves(h, c, h2, c2, gone, touched),
           NEW n, Span(n) \subseteq DOMAIN h, n[1] \notin gone,
           Span(n) \cap touched = {}
    PROVE  /\ \A m \in Span(n) : m \in DOMAIN h2 /\ h2[m] = h[m]
           /\ Unfilled(h, n) => Unfilled(h2, n)
<1>1. ASSUME NEW m \in Span(n)
      PROVE  m \in DOMAIN h2 /\ h2[m] = h[m]
    <2>1. m \in DOMAIN h /\ m[1] \notin gone /\ m \notin touched
        BY SpanIs
    <2> QED
        BY <2>1 DEF Evolves
<1> QED
    BY <1>1 DEF Unfilled

LEMMA OwnerOfMap ==
    ASSUME RegisteredInv
    PROVE  /\ \A id \in DOMAIN trees : <<"tree", id, 0, trees[id]>> \in Owned
           /\ \A id \in DOMAIN resources :
                <<"resource", id, 0, resources[id]>> \in Owned
<1>1. ASSUME NEW id \in DOMAIN trees
      PROVE  <<"tree", id, 0, trees[id]>> \in Owned
    <2>1. IsOwner(<<"tree", id, 0, trees[id]>>, output, trees, resources, plans)
        BY DEF IsOwner, RegisteredInv
    <2> QED
        BY <2>1, OwnedIs
<1>2. ASSUME NEW id \in DOMAIN resources
      PROVE  <<"resource", id, 0, resources[id]>> \in Owned
    <2>1. IsOwner(<<"resource", id, 0, resources[id]>>, output, trees, resources,
                  plans)
        BY DEF IsOwner, RegisteredInv
    <2> QED
        BY <2>1, OwnedIs
<1> QED
    BY <1>1, <1>2

\* What is registered is neither deleted nor filled.
LEMMA SourcesStep ==
    ASSUME HeapInv, OwnInv, RegisteredInv, NEW gone, NEW touched, NEW p,
           SafeStep(gone, touched, p)
    PROVE  /\ \A n \in Registered : n \in DOMAIN heap' /\ heap'[n] = heap[n]
           /\ \A id \in DOMAIN trees : Unfilled(heap', trees[id])
           /\ \A id \in DOMAIN resources : Unfilled(heap', resources[id])
<1>1. ASSUME NEW o \in Owned, o[1] \in {"tree", "resource"}
      PROVE  /\ \A m \in Reach(heap, o[4]) : m \in DOMAIN heap' /\ heap'[m] = heap[m]
             /\ Unfilled(heap, o[4]) => Unfilled(heap', o[4])
    <2>1. Reach(heap, o[4]) = Span(o[4]) /\ Span(o[4]) \subseteq DOMAIN heap
        BY OwnedCopies
    <2>2. ASSUME NEW q \in Owned, q[1] \in {"output", "plan", "frame"}
          PROVE  o[4][1] # q[4][1]
        <3>1. o # q
            BY <1>1, <2>2
        <3> QED
            BY <3>1 DEF OwnInv
    <2>3. o[4][1] \notin CopiesOf(gone)
        BY <2>2 DEF SafeStep, CopiesOf
    <2>4. ASSUME NEW m \in touched PROVE m \notin Span(o[4])
        <3>1. PICK q \in Owned : OfPlan(q, p) /\ m[1] = q[4][1]
            BY DEF SafeStep
        <3>2. m[1] # o[4][1]
            BY <3>1, <2>2 DEF OfPlan
        <3> QED
            BY <3>2, SpanIs
    <2>5. Evolves(heap, copies, heap', copies', CopiesOf(gone), touched)
        BY DEF SafeStep
    <2>6. Span(o[4]) \cap touched = {}
        BY <2>4
    <2> QED
        BY <2>1, <2>3, <2>5, <2>6, UnfilledStays
<1>2. ASSUME NEW id \in DOMAIN trees
      PROVE  /\ \A m \in Reach(heap, trees[id]) :
                    m \in DOMAIN heap' /\ heap'[m] = heap[m]
             /\ Unfilled(heap', trees[id])
    <2> DEFINE o == <<"tree", id, 0, trees[id]>>
    <2>1. o \in Owned /\ o[1] = "tree" /\ o[4] = trees[id]
          /\ Unfilled(heap, trees[id])
        BY OwnerOfMap DEF RegisteredInv
    <2> HIDE DEF o
    <2> QED
        BY <2>1, <1>1
<1>3. ASSUME NEW id \in DOMAIN resources
      PROVE  /\ \A m \in Reach(heap, resources[id]) :
                    m \in DOMAIN heap' /\ heap'[m] = heap[m]
             /\ Unfilled(heap', resources[id])
    <2> DEFINE o == <<"resource", id, 0, resources[id]>>
    <2>1. o \in Owned /\ o[1] = "resource" /\ o[4] = resources[id]
          /\ Unfilled(heap, resources[id])
        BY OwnerOfMap DEF RegisteredInv
    <2> HIDE DEF o
    <2> QED
        BY <2>1, <1>1
<1>4. ASSUME NEW n \in Registered PROVE n \in DOMAIN heap' /\ heap'[n] = heap[n]
    <2>1. \/ \E id \in DOMAIN trees : n \in Reach(heap, trees[id])
          \/ \E id \in DOMAIN resources : n \in Reach(heap, resources[id])
        BY DEF Registered
    <2> QED
        BY <2>1, <1>2, <1>3
<1> QED
    BY <1>2, <1>3, <1>4

\* A stack goes on if what it is going to execute has been left alone.
LEMMA StackStays ==
    ASSUME NEW h, NEW c, NEW h2, NEW c2, NEW gone, NEW touched,
           Evolves(h, c, h2, c2, gone, touched), NEW root, NEW s,
           StackInv(h, root, s),
           \A k \in DOMAIN s : Executes(s[k]) =>
                /\ Span(s[k].object) \subseteq DOMAIN h
                /\ s[k].object[1] \notin gone
                /\ Span(s[k].object) \cap touched = {}
    PROVE  StackInv(h2, root, s)
<1>1. ASSUME NEW k \in DOMAIN s, Executes(s[k])
      PROVE  Unfilled(h2, s[k].object)
    <2>1. Unfilled(h, s[k].object)
        BY <1>1 DEF StackInv
    <2> QED
        BY <2>1, <1>1, UnfilledStays
<1> QED
    BY <1>1 DEF StackInv

\* Other plans do not see a step of plan p.
LEMMA OtherStackStays ==
    ASSUME HeapInv, OwnInv, PlanInv, NEW gone, NEW touched, NEW p,
           SafeStep(gone, touched, p),
           NEW q \in DOMAIN plans, q # p \/ touched = {},
           \A o \in gone : ~OfPlan(o, q)
    PROVE  StackInv(heap', plans[q].root, plans[q].stack)
<1> DEFINE s == plans[q].stack
<1>1. ASSUME NEW k \in DOMAIN s, Executes(s[k])
      PROVE  /\ Span(s[k].object) \subseteq DOMAIN heap
             /\ s[k].object[1] \notin CopiesOf(gone)
             /\ Span(s[k].object) \cap touched = {}
    <2>1. Works(s[k])
        BY <1>1 DEF Works, Executes
    <2>2. PICK o \in Owned :
                /\ OfPlan(o, q)
                /\ s[k].object[1] = o[4][1]
                /\ Span(s[k].object) \subseteq DOMAIN heap
        BY <2>1, FrameOwner
    <2>3. ASSUME NEW x \in Owned, x[4][1] = s[k].object[1] PROVE x = o
        BY <2>2, <2>3 DEF OwnInv
    <2>4. s[k].object[1] \notin CopiesOf(gone)
        BY <2>2, <2>3 DEF SafeStep, CopiesOf
    <2>5. ASSUME NEW m \in touched PROVE m \notin Span(s[k].object)
        <3>1. PICK x \in Owned : OfPlan(x, p) /\ m[1] = x[4][1]
            BY DEF SafeStep
        <3>2. x # o
            BY <3>1, <2>2, <2>5 DEF OfPlan
        <3>3. m[1] # s[k].object[1]
            BY <3>1, <3>2, <2>3
        <3> QED
            BY <3>3, SpanIs
    <2> QED
        BY <2>2, <2>4, <2>5
<1>2. Evolves(heap, copies, heap', copies', CopiesOf(gone), touched)
    BY DEF SafeStep
<1>3. StackInv(heap, plans[q].root, s)
    BY DEF PlanInv
<1> HIDE DEF s
<1>4. StackInv(heap', plans[q].root, s)
    BY <1>1, <1>2, <1>3, StackStays
<1> QED
    BY <1>4 DEF s

-----------------------------------------------------------------------------
(* A plan goes on.                                                         *)

\* The frame on top of plan p as an owner.
TopOwner(p) == <<"frame", p, Len(plans[p].stack) - 1, Top(p).object>>

\* Frames that come in the place of the top of plan p: they work on what is
\* below its object, or on new copies that they delete.
Pushes(p, frames) ==
    /\ IsSeq(frames)
    /\ \A k \in DOMAIN frames :
        /\ IsFrame(frames[k])
        /\ Works(frames[k]) =>
            \/ Works(Top(p)) /\ frames[k].object \in Span(Top(p).object)
            \/ \E l \in DOMAIN frames :
                k < l /\ Deletes(frames[l]) /\ frames[k].object \in Span(frames[l].object)
        /\ Deletes(frames[k]) =>
            frames[k].object[1] > copies /\ IsWhole(heap', frames[k].object)
        /\ Executes(frames[k]) => Unfilled(heap', frames[k].object)
        /\ frames[k].op = "blossom" =>
            /\ Kind[frames[k].object[2]] = "group"
            /\ frames[k].at \in DOMAIN Parts[frames[k].object[2]]
    /\ \A k, l \in DOMAIN frames : k < l =>
        /\ Works(frames[k]) /\ Works(frames[l]) =>
            Span(frames[k].object) \cap Span(frames[l].object) = {}
        /\ Deletes(frames[k]) /\ Deletes(frames[l]) =>
            frames[k].object[1] # frames[l].object[1]

DeletesNew(frames) ==
    \A m \in DOMAIN heap' : m[1] > copies =>
        \E k \in DOMAIN frames : Deletes(frames[k]) /\ m \in Span(frames[k].object)

\* What the frames below the top work on is neither deleted nor filled.
LEMMA BelowTop ==
    ASSUME HeapInv, OwnInv, PlanInv, NEW p \in DOMAIN plans,
           plans[p].stack # <<>>, NEW gone, gone \subseteq {TopOwner(p)},
           gone \subseteq Owned, NEW touched,
           touched = {} \/ (Works(Top(p)) /\ touched \subseteq Span(Top(p).object)),
           NEW l \in 2..Len(plans[p].stack), Works(plans[p].stack[l])
    PROVE  /\ plans[p].stack[l].object[1] \in 1..copies
           /\ plans[p].stack[l].object[2] \in Item
           /\ copies \in Nat
           /\ Span(plans[p].stack[l].object) \subseteq DOMAIN heap
           /\ plans[p].stack[l].object[1] \notin CopiesOf(gone)
           /\ Span(plans[p].stack[l].object) \cap touched = {}
           /\ Works(Top(p)) =>
                Span(Top(p).object) \cap Span(plans[p].stack[l].object) = {}
<1> DEFINE s == plans[p].stack
           n == plans[p].stack[l].object
<1>1. /\ Len(s) \in Nat \ {0} /\ DOMAIN s = 1..Len(s) /\ Top(p) = s[1]
      /\ l \in DOMAIN s /\ 1 \in DOMAIN s /\ 1 < l
    <2>1. IsSeq(s)
        BY DEF PlanInv, IsPlan
    <2>2. Len(s) \in Nat \ {0} /\ DOMAIN s = 1..Len(s)
        BY <2>1, SeqIs
    <2>3. Head(s) = s[1]
        BY <2>1, TailIs
    <2> QED
        BY <2>2, <2>3 DEF Top
<1>2. PICK o \in Owned :
            /\ o[1] = "frame" =>
                \E k \in DOMAIN s : l < k /\ o[3] = Len(s) - k
            /\ n[1] = o[4][1]
            /\ n \in DOMAIN heap /\ Span(n) \subseteq DOMAIN heap
    BY <1>1, FrameOwner
<1>3. n[1] \in 1..copies /\ n[2] \in Item /\ copies \in Nat
    BY <1>2, ShapedObject DEF HeapInv
<1>4. n[1] \notin CopiesOf(gone)
    <2>1. SUFFICES ASSUME NEW q \in gone, q[4][1] = n[1] PROVE FALSE
        BY DEF CopiesOf
    <2>2. q = o
        BY <2>1, <1>2 DEF OwnInv
    <2>3. q[1] = "frame" /\ q[3] = Len(s) - 1
        BY DEF TopOwner
    <2>4. PICK k \in DOMAIN s : l < k /\ q[3] = Len(s) - k
        BY <2>2, <2>3, <1>2
    <2> QED
        BY <2>3, <2>4, <1>1
<1>5. ASSUME Works(Top(p)) PROVE Span(Top(p).object) \cap Span(n) = {}
    <2>1. \A i, j \in DOMAIN s : i < j /\ Works(s[i]) /\ Works(s[j]) =>
                Span(s[i].object) \cap Span(s[j].object) = {}
        BY DEF PlanInv, StackInv
    <2>2. Works(s[1]) /\ Works(s[l])
        BY <1>1, <1>5
    <2>3. Span(s[1].object) \cap Span(s[l].object) = {}
        BY <2>1, <2>2, <1>1
    <2> QED
        BY <2>3, <1>1
<1>6. Span(n) \cap touched = {}
    BY <1>5
<1> QED
    BY <1>2, <1>3, <1>4, <1>5, <1>6

LEMMA PushedStack ==
    ASSUME HeapInv, OwnInv, PlanInv, NEW p \in DOMAIN plans,
           plans[p].stack # <<>>, NEW gone, gone \subseteq {TopOwner(p)},
           NEW touched,
           touched = {} \/ (Works(Top(p)) /\ touched \subseteq Span(Top(p).object)),
           SafeStep(gone, touched, p),
           NEW frames, Pushes(p, frames),
           NEW t, t = frames \o Tail(plans[p].stack)
    PROVE  IsSeq(t) /\ StackInv(heap', plans[p].root, t)
<1> DEFINE s == plans[p].stack
           Old(k, l) == l \in 2..Len(s) /\ k = (Len(frames) + l) - 1
<1>1. /\ IsSeq(t) /\ Len(frames) \in Nat /\ Len(s) \in Nat \ {0}
      /\ DOMAIN frames = 1..Len(frames) /\ DOMAIN s = 1..Len(s)
      /\ \A k \in DOMAIN frames : k \in DOMAIN t /\ t[k] = frames[k]
      /\ \A k \in 2..Len(s) :
            /\ k \in DOMAIN s
            /\ (Len(frames) + k) - 1 \in DOMAIN t
            /\ t[(Len(frames) + k) - 1] = s[k]
      /\ \A k \in DOMAIN t : k \in DOMAIN frames
            \/ \E l \in 2..Len(s) : k = (Len(frames) + l) - 1
      /\ Top(p) = s[1]
    <2>1. IsSeq(s) /\ s # <<>> /\ IsSeq(frames)
        BY DEF PlanInv, IsPlan, Pushes
    <2> HIDE DEF s
    <2>2. t = frames \o Tail(s)
        BY DEF s
    <2>3. Head(s) = Top(p)
        BY DEF Top, s
    <2>4. OnTop(t, frames, s)
        BY <2>1, <2>2, TopReplaced
    <2> QED
        BY <2>3, <2>4 DEF OnTop
<1>2. \A k \in DOMAIN t : (k \in DOMAIN frames /\ t[k] = frames[k])
                            \/ \E l \in 2..Len(s) : Old(k, l) /\ t[k] = s[l]
    <2> HIDE DEF s
    <2>1. ASSUME NEW k \in DOMAIN t, k \notin DOMAIN frames
          PROVE  \E l \in 2..Len(s) : Old(k, l) /\ t[k] = s[l]
        <3>1. PICK l \in 2..Len(s) : k = (Len(frames) + l) - 1
            BY <1>1, <2>1
        <3>2. t[k] = s[l]
            BY <1>1, <3>1
        <3> QED
            BY <3>1, <3>2
    <2>2. ASSUME NEW k \in DOMAIN frames PROVE t[k] = frames[k]
        BY <1>1
    <2> QED
        BY <2>1, <2>2
<1>3. StackInv(heap, plans[p].root, s)
    BY DEF PlanInv
<1>4. gone \subseteq Owned /\ Evolves(heap, copies, heap', copies', CopiesOf(gone), touched)
    BY DEF SafeStep
<1>5. ASSUME NEW l \in 2..Len(s), Works(s[l])
      PROVE  /\ s[l].object[1] \in 1..copies /\ copies \in Nat
             /\ s[l].object[2] \in Item
             /\ Span(s[l].object) \subseteq DOMAIN heap
             /\ s[l].object[1] \notin CopiesOf(gone)
             /\ Span(s[l].object) \cap touched = {}
             /\ Works(Top(p)) => Span(Top(p).object) \cap Span(s[l].object) = {}
    BY <1>4, <1>5, BelowTop
<1> HIDE DEF s
<1>6. ASSUME NEW k \in DOMAIN t PROVE IsFrame(t[k])
    <2>1. \A l \in DOMAIN s : IsFrame(s[l])
        BY <1>3 DEF StackInv
    <2>2. \A l \in DOMAIN frames : IsFrame(frames[l])
        BY DEF Pushes
    <2>3. \A l \in 2..Len(s) : l \in DOMAIN s
        BY <1>1
    <2> QED
        BY <2>1, <2>2, <2>3, <1>2
<1>7. ASSUME NEW k \in DOMAIN t, Works(t[k])
      PROVE  \/ plans[p].root # NoObject /\ t[k].object \in Span(plans[p].root)
             \/ \E l \in DOMAIN t :
                    k < l /\ Deletes(t[l]) /\ t[k].object \in Span(t[l].object)
    <2>1. ASSUME NEW x \in 1..Len(s), Works(s[x]), NEW n, n \in Span(s[x].object),
                 k < (Len(frames) + x) \/ (x = 1 /\ k \in DOMAIN frames)
          PROVE  \/ plans[p].root # NoObject /\ n \in Span(plans[p].root)
                 \/ \E l \in DOMAIN t :
                        k < l /\ Deletes(t[l]) /\ n \in Span(t[l].object)
        <3>1. x \in DOMAIN s
            BY <2>1, <1>1
        <3>2. CASE plans[p].root # NoObject /\ s[x].object \in Span(plans[p].root)
            <4>1. plans[p].root[2] \in Item
                BY <3>2 DEF PlanInv, IsPlan, Object
            <4>2. Span(s[x].object) \subseteq Span(plans[p].root)
                BY <3>2, <4>1, SpanIsWithin
            <4> QED
                BY <3>2, <4>2, <2>1
        <3>3. CASE \E l \in DOMAIN s :
                    x < l /\ Deletes(s[l]) /\ s[x].object \in Span(s[l].object)
            <4>1. PICK l \in DOMAIN s :
                    x < l /\ Deletes(s[l]) /\ s[x].object \in Span(s[l].object)
                BY <3>3
            <4>2. l \in 2..Len(s)
                BY <4>1, <1>1, <2>1
            <4>3. /\ (Len(frames) + l) - 1 \in DOMAIN t
                  /\ t[(Len(frames) + l) - 1] = s[l]
                BY <4>2, <1>1
            <4>4. k < (Len(frames) + l) - 1
                <5>1. k \in Nat
                    BY <1>1, <1>2
                <5>2. CASE k < (Len(frames) + x)
                    BY <4>1, <4>2, <1>1, <2>1, <5>1, <5>2
                <5>3. CASE x = 1 /\ k \in DOMAIN frames
                    BY <4>1, <4>2, <1>1, <5>1, <5>3
                <5> QED
                    BY <5>2, <5>3, <2>1
            <4>5. s[l].object[2] \in Item
                BY <4>1, <1>3 DEF StackInv, IsFrame, Deletes, Object
            <4>6. n \in Span(s[l].object)
                BY <4>1, <4>5, <2>1, SpanIsWithin
            <4> QED
                BY <4>1, <4>3, <4>4, <4>6
        <3> QED
            BY <3>1, <3>2, <3>3, <2>1, <1>3 DEF StackInv
    <2>2. CASE k \in DOMAIN frames /\ t[k] = frames[k]
        <3>1. CASE Works(Top(p)) /\ frames[k].object \in Span(Top(p).object)
            <4>1. 1 \in 1..Len(s) /\ Works(s[1]) /\ t[k].object \in Span(s[1].object)
                BY <3>1, <2>2, <1>1
            <4> QED
                BY <4>1, <2>2, <2>1
        <3>2. CASE \E l \in DOMAIN frames : k < l /\ Deletes(frames[l])
                        /\ frames[k].object \in Span(frames[l].object)
            <4>1. PICK l \in DOMAIN frames : k < l /\ Deletes(frames[l])
                        /\ frames[k].object \in Span(frames[l].object)
                BY <3>2
            <4>2. l \in DOMAIN t /\ t[l] = frames[l]
                BY <1>1
            <4> QED
                BY <4>1, <4>2, <2>2
        <3> QED
            BY <3>1, <3>2, <2>2, <1>7 DEF Pushes
    <2>3. CASE \E l \in 2..Len(s) : Old(k, l) /\ t[k] = s[l]
        <3>1. PICK x \in 2..Len(s) : Old(k, x) /\ t[k] = s[x]
            BY <2>3
        <3>2. x \in 1..Len(s) /\ k < (Len(frames) + x) /\ Works(s[x])
            BY <3>1, <1>1, <1>7
        <3>3. s[x].object \in Span(s[x].object)
            <4>1. s[x].object[2] \in Item /\ s[x].object \in Object
                BY <3>1, <3>2, <1>1, <1>3, <1>7, <1>5 DEF StackInv, IsFrame, Works
            <4>2. s[x].object = <<s[x].object[1], s[x].object[2]>>
                BY <4>1 DEF Object
            <4> QED
                BY <4>1, <4>2, InOwnSpan
        <3>4. PICK n : n = t[k].object
            OBVIOUS
        <3>5. n \in Span(s[x].object)
            BY <3>1, <3>3, <3>4
        <3>6. \/ plans[p].root # NoObject /\ n \in Span(plans[p].root)
              \/ \E l \in DOMAIN t :
                    k < l /\ Deletes(t[l]) /\ n \in Span(t[l].object)
            BY <3>2, <3>5, <2>1, Zenon
        <3> QED
            BY <3>4, <3>6
    <2> QED
        BY <2>2, <2>3, <1>2
<1>8. ASSUME NEW k \in DOMAIN t, NEW l \in DOMAIN t, k < l, Works(t[k]), Works(t[l])
      PROVE  Span(t[k].object) \cap Span(t[l].object) = {}
    <2>1. CASE (k \in DOMAIN frames /\ t[k] = frames[k])
                    /\ (l \in DOMAIN frames /\ t[l] = frames[l])
        BY <2>1, <1>8 DEF Pushes
    <2>2. CASE (k \in DOMAIN frames /\ t[k] = frames[k])
                    /\ \E x \in 2..Len(s) : Old(l, x) /\ t[l] = s[x]
        <3>1. PICK x \in 2..Len(s) : Old(l, x) /\ t[l] = s[x]
            BY <2>2
        <3>2. /\ s[x].object[1] \in 1..copies /\ copies \in Nat
              /\ Works(Top(p)) => Span(Top(p).object) \cap Span(s[x].object) = {}
            BY <3>1, <1>5, <1>8
        <3>3. CASE Works(Top(p)) /\ frames[k].object \in Span(Top(p).object)
            <4>1. Top(p).object[2] \in Item
                <5>1. 1 \in DOMAIN s /\ Top(p) = s[1]
                    BY <1>1
                <5>2. IsFrame(Top(p)) /\ Top(p).op # "join"
                    BY <5>1, <3>3, <1>3 DEF StackInv, Works
                <5> QED
                    BY <5>2 DEF IsFrame, Object
            <4>2. Span(frames[k].object) \subseteq Span(Top(p).object)
                BY <3>3, <4>1, SpanIsWithin
            <4> QED
                BY <4>2, <3>1, <3>2, <3>3, <2>2
        <3>4. CASE \E y \in DOMAIN frames : k < y /\ Deletes(frames[y])
                        /\ frames[k].object \in Span(frames[y].object)
            <4>1. PICK y \in DOMAIN frames : Deletes(frames[y])
                        /\ frames[k].object \in Span(frames[y].object)
                BY <3>4
            <4>2. frames[y].object[1] > copies
                BY <4>1 DEF Pushes
            <4>3. frames[k].object[1] > copies
                BY <4>1, <4>2, SpanIs
            <4>4. frames[k].object[1] # s[x].object[1]
                BY <4>3, <3>2
            <4>5. ASSUME NEW m \in Span(frames[k].object), m \in Span(s[x].object)
                  PROVE  FALSE
                BY <4>4, <4>5, SpanIs
            <4> QED
                BY <4>5, <3>1, <2>2
        <3>5. Works(frames[k])
            BY <2>2, <1>8
        <3> QED
            BY <3>3, <3>4, <3>5, <2>2 DEF Pushes
    <2>3. CASE \E x, y \in 2..Len(s) : Old(k, x) /\ t[k] = s[x]
                    /\ Old(l, y) /\ t[l] = s[y]
        <3>1. PICK x \in 2..Len(s), y \in 2..Len(s) : Old(k, x) /\ t[k] = s[x]
                    /\ Old(l, y) /\ t[l] = s[y]
            BY <2>3
        <3>2. x \in DOMAIN s /\ y \in DOMAIN s /\ x < y
            BY <3>1, <1>1, <1>8
        <3> QED
            BY <3>1, <3>2, <1>3, <1>8 DEF StackInv
    <2>4. ASSUME NEW x \in 2..Len(s), Old(k, x), l \in DOMAIN frames PROVE FALSE
        BY <2>4, <1>1, <1>8
    <2> QED
        BY <2>1, <2>2, <2>3, <2>4, <1>2
<1>9. ASSUME NEW k \in DOMAIN t
      PROVE  /\ Executes(t[k]) => Unfilled(heap', t[k].object)
             /\ t[k].op = "blossom" =>
                    /\ Kind[t[k].object[2]] = "group"
                    /\ t[k].at \in DOMAIN Parts[t[k].object[2]]
    <2>1. CASE k \in DOMAIN frames /\ t[k] = frames[k]
        BY <2>1 DEF Pushes
    <2>2. CASE \E x \in 2..Len(s) : Old(k, x) /\ t[k] = s[x]
        <3>1. PICK x \in 2..Len(s) : t[k] = s[x]
            BY <2>2
        <3>2. x \in DOMAIN s
            BY <1>1
        <3>3. ASSUME Executes(s[x]) PROVE Unfilled(heap', s[x].object)
            <4>1. Works(s[x])
                BY <3>3 DEF Works, Executes
            <4>2. Unfilled(heap, s[x].object)
                BY <3>2, <3>3, <1>3 DEF StackInv
            <4> QED
                BY <4>1, <4>2, <1>4, <1>5, UnfilledStays
        <3> QED
            BY <3>1, <3>2, <3>3, <1>3 DEF StackInv
    <2> QED
        BY <2>1, <2>2, <1>2
<1>10. StackInv(heap', plans[p].root, t)
    BY <1>6, <1>7, <1>8, <1>9 DEF StackInv
<1> QED
    BY <1>1, <1>10

\* ps are the plans when the top of p is replaced by frames: t is the stack.
Restacked(ps, p, frames, t) ==
    /\ IsSeq(ps) /\ Len(ps) = Len(plans) /\ DOMAIN ps = DOMAIN plans
    /\ \A q \in DOMAIN plans : q # p => ps[q] = plans[q]
    /\ ps[p].stack = t /\ ps[p].root = plans[p].root
    /\ ps[p].parent = plans[p].parent
    /\ plans[p].failed = FALSE
    /\ IsPlan(ps[p])
    /\ OnTop(t, frames, plans[p].stack)

LEMMA ReplacedIs ==
    ASSUME PlanInv, NEW p \in DOMAIN plans, plans[p].stack # <<>>,
           NEW frames, IsSeq(frames), NEW ps, ps = Replaced(p, frames)
    PROVE  /\ \E t : t = frames \o Tail(plans[p].stack)
           /\ \A t : t = frames \o Tail(plans[p].stack) =>
                Restacked(ps, p, frames, t)
<1>1. SUFFICES ASSUME NEW t, t = frames \o Tail(plans[p].stack)
               PROVE  Restacked(ps, p, frames, t)
    OBVIOUS
<1>2. IsSeq(plans) /\ IsPlan(plans[p])
    BY DEF PlanInv
<1>3. PICK a, b, c, d : a = plans[p].parent /\ b = plans[p].root
                            /\ c = plans[p].stack /\ d = plans[p].failed
    OBVIOUS
<1>4. plans[p] = [parent |-> a, root |-> b, stack |-> c, failed |-> d]
    BY <1>2, <1>3 DEF IsPlan
<1>5. OnTop(t, frames, plans[p].stack)
    BY <1>1, <1>2, TopReplaced DEF IsPlan
<1>6. /\ DOMAIN ps = DOMAIN plans
      /\ \A q \in DOMAIN plans : q # p => ps[q] = plans[q]
      /\ ps[p] = [plans[p] EXCEPT !.stack = frames \o Tail(@)]
    BY DEF Replaced
<1>7. ps[p] = [parent |-> a, root |-> b, stack |-> t, failed |-> d]
    BY <1>1, <1>3, <1>4, <1>6
<1>8. ps[p].parent = a /\ ps[p].root = b /\ ps[p].stack = t /\ ps[p].failed = d
    BY <1>7
<1>9. IsSeq(ps) /\ Len(ps) = Len(plans)
    <2>1. Len(plans) \in Nat /\ DOMAIN plans = 1..Len(plans)
        BY <1>2, SeqIs
    <2>2. DOMAIN ps = 1..Len(plans) /\ ps = [q \in 1..Len(plans) |-> ps[q]]
        BY <2>1, <1>6 DEF Replaced
    <2> QED
        BY <2>1, <2>2, MakesSeq
<1>10. d = FALSE
    <2>1. d \in BOOLEAN /\ (d => c = <<>>) /\ c # <<>>
        BY <1>2, <1>3 DEF IsPlan
    <2> QED
        BY <2>1
<1>11. IsPlan(ps[p])
    <2>1. a \in Nat /\ (b = NoObject \/ b \in Object)
        BY <1>2, <1>3 DEF IsPlan
    <2>2. IsSeq(t)
        BY <1>5 DEF OnTop
    <2>3. d \in BOOLEAN /\ ~d
        BY <1>10
    <2>4. ps[p] = [parent |-> ps[p].parent, root |-> ps[p].root,
                   stack |-> ps[p].stack, failed |-> ps[p].failed]
        BY <1>7, <1>8
    <2> QED
        BY <2>1, <2>2, <2>3, <2>4, <1>8 DEF IsPlan
<1> QED
    BY <1>3, <1>5, <1>6, <1>8, <1>9, <1>10, <1>11 DEF Restacked

\* The owners of p that are new are its new frames; the top of p is none.
LEMMA ReplacedOwners ==
    ASSUME NEW p \in DOMAIN plans, NEW frames, NEW ps, NEW t,
           Restacked(ps, p, frames, t)
    PROVE  /\ \A o : IsOwner(o, output, trees, resources, ps) =>
                \/ o \in Owned /\ o # TopOwner(p)
                \/ \E k \in DOMAIN frames :
                    /\ Deletes(frames[k])
                    /\ o = <<"frame", p, Len(t) - k, frames[k].object>>
           /\ \A o \in Owned : \/ IsOwner(o, output, trees, resources, ps)
                               \/ o = TopOwner(p) /\ Deletes(Top(p))
           /\ \A k \in DOMAIN frames :
                Deletes(frames[k]) /\ frames[k].object # NoObject =>
                    IsOwner(<<"frame", p, Len(t) - k, frames[k].object>>,
                            output, trees, resources, ps)
<1> DEFINE s == plans[p].stack
<1>1. /\ Len(frames) \in Nat /\ Len(s) \in Nat \ {0}
      /\ DOMAIN frames = 1..Len(frames) /\ DOMAIN s = 1..Len(s)
      /\ \A k \in DOMAIN frames : k \in DOMAIN t /\ t[k] = frames[k]
      /\ \A k \in 2..Len(s) :
            /\ k \in DOMAIN s
            /\ (Len(frames) + k) - 1 \in DOMAIN t
            /\ t[(Len(frames) + k) - 1] = s[k]
            /\ Len(t) - ((Len(frames) + k) - 1) = Len(s) - k
      /\ \A k \in DOMAIN t : k \in DOMAIN frames
            \/ \E l \in 2..Len(s) : k = (Len(frames) + l) - 1
      /\ Top(p) = s[1]
    BY DEF Restacked, OnTop, Top
<1>2. /\ DOMAIN ps = DOMAIN plans
      /\ \A q \in DOMAIN plans : q # p => ps[q] = plans[q]
      /\ ps[p].stack = t /\ ps[p].root = plans[p].root
    BY DEF Restacked
<1>3. ASSUME NEW o, IsOwner(o, output, trees, resources, ps)
      PROVE  \/ o \in Owned /\ o # TopOwner(p)
             \/ \E k \in DOMAIN frames :
                    /\ Deletes(frames[k])
                    /\ o = <<"frame", p, Len(t) - k, frames[k].object>>
    <2>1. o[4] # NoObject
        BY <1>3 DEF IsOwner
    <2>2. CASE \/ o = <<"output", 0, 0, output>>
               \/ \E id \in DOMAIN trees : o = <<"tree", id, 0, trees[id]>>
               \/ \E id \in DOMAIN resources : o = <<"resource", id, 0, resources[id]>>
               \/ \E q \in DOMAIN ps : o = <<"plan", q, 0, ps[q].root>>
        <3>1. \A q \in DOMAIN ps : q \in DOMAIN plans /\ ps[q].root = plans[q].root
            BY <1>2
        <3>2. IsOwner(o, output, trees, resources, plans)
            BY <2>1, <2>2, <3>1 DEF IsOwner
        <3>3. o[1] # "frame"
            BY <2>2
        <3>4. o \in Owned
            BY <3>2, OwnedIs
        <3> QED
            BY <3>3, <3>4 DEF TopOwner
    <2>3. CASE \E q \in DOMAIN ps : \E k \in DOMAIN ps[q].stack :
                /\ Deletes(ps[q].stack[k])
                /\ o = <<"frame", q, Len(ps[q].stack) - k, ps[q].stack[k].object>>
        <3>0. PICK q \in DOMAIN ps : \E k \in DOMAIN ps[q].stack :
                /\ Deletes(ps[q].stack[k])
                /\ o = <<"frame", q, Len(ps[q].stack) - k, ps[q].stack[k].object>>
            BY <2>3
        <3>1. PICK k \in DOMAIN ps[q].stack :
                /\ Deletes(ps[q].stack[k])
                /\ o = <<"frame", q, Len(ps[q].stack) - k, ps[q].stack[k].object>>
            BY <3>0
        <3>2. CASE q # p
            <4>1. IsOwner(o, output, trees, resources, plans)
                BY <2>1, <3>1, <3>2, <1>2 DEF IsOwner
            <4>2. o # TopOwner(p)
                BY <3>1, <3>2 DEF TopOwner
            <4> QED
                BY <4>1, <4>2, OwnedIs
        <3>3. CASE q = p /\ k \in DOMAIN frames
            BY <3>1, <3>3, <1>1, <1>2
        <3>4. CASE q = p /\ \E l \in 2..Len(s) : k = (Len(frames) + l) - 1
            <4>1. PICK l \in 2..Len(s) : k = (Len(frames) + l) - 1
                BY <3>4
            <4>2. /\ l \in DOMAIN s /\ Deletes(s[l])
                  /\ o = <<"frame", p, Len(s) - l, s[l].object>>
                BY <4>1, <3>1, <3>4, <1>1, <1>2
            <4>3. IsOwner(o, output, trees, resources, plans)
                BY <4>2, <2>1 DEF IsOwner
            <4>4. o[3] = Len(s) - l /\ Len(s) - l # Len(s) - 1
                BY <4>2, <1>1
            <4>5. o # TopOwner(p)
                BY <4>4 DEF TopOwner
            <4> QED
                BY <4>3, <4>5, OwnedIs
        <3> QED
            BY <3>1, <3>2, <3>3, <3>4, <1>1, <1>2
    <2> QED
        BY <1>3, <2>2, <2>3 DEF IsOwner
<1>4. ASSUME NEW o \in Owned
      PROVE  \/ IsOwner(o, output, trees, resources, ps)
             \/ o = TopOwner(p) /\ Deletes(Top(p))
    <2>1. IsOwner(o, output, trees, resources, plans) /\ o[4] # NoObject
        BY OwnedIs DEF IsOwner
    <2>2. CASE \/ o = <<"output", 0, 0, output>>
               \/ \E id \in DOMAIN trees : o = <<"tree", id, 0, trees[id]>>
               \/ \E id \in DOMAIN resources : o = <<"resource", id, 0, resources[id]>>
               \/ \E q \in DOMAIN plans : o = <<"plan", q, 0, plans[q].root>>
        <3>1. \A q \in DOMAIN plans : q \in DOMAIN ps /\ ps[q].root = plans[q].root
            BY <1>2
        <3> QED
            BY <2>1, <2>2, <3>1 DEF IsOwner
    <2>3. CASE \E q \in DOMAIN plans : \E k \in DOMAIN plans[q].stack :
                /\ Deletes(plans[q].stack[k])
                /\ o = <<"frame", q, Len(plans[q].stack) - k, plans[q].stack[k].object>>
        <3>0. PICK q \in DOMAIN plans : \E k \in DOMAIN plans[q].stack :
                /\ Deletes(plans[q].stack[k])
                /\ o = <<"frame", q, Len(plans[q].stack) - k, plans[q].stack[k].object>>
            BY <2>3
        <3>1. PICK k \in DOMAIN plans[q].stack :
                /\ Deletes(plans[q].stack[k])
                /\ o = <<"frame", q, Len(plans[q].stack) - k, plans[q].stack[k].object>>
            BY <3>0
        <3>2. CASE q # p
            BY <2>1, <3>1, <3>2, <1>2 DEF IsOwner
        <3>3. CASE q = p /\ k = 1
            BY <3>1, <3>3, <1>1 DEF TopOwner
        <3>4. CASE q = p /\ k # 1
            <4>1. k \in 2..Len(s)
                BY <3>1, <3>4, <1>1
            <4> DEFINE j == (Len(frames) + k) - 1
            <4>2. j \in DOMAIN t /\ t[j] = s[k] /\ Len(t) - j = Len(s) - k
                BY <4>1, <1>1
            <4> HIDE DEF j
            <4>3. /\ j \in DOMAIN ps[p].stack /\ Deletes(ps[p].stack[j])
                  /\ o = <<"frame", p, Len(ps[p].stack) - j, ps[p].stack[j].object>>
                BY <4>2, <3>1, <3>4, <1>2
            <4>4. p \in DOMAIN ps
                BY <1>2
            <4> QED
                BY <4>3, <4>4, <2>1 DEF IsOwner
        <3> QED
            BY <3>2, <3>3, <3>4
    <2> QED
        BY <2>1, <2>2, <2>3 DEF IsOwner
<1>5. ASSUME NEW k \in DOMAIN frames, Deletes(frames[k]), frames[k].object # NoObject
      PROVE  IsOwner(<<"frame", p, Len(t) - k, frames[k].object>>,
                     output, trees, resources, ps)
    <2>1. p \in DOMAIN ps /\ k \in DOMAIN ps[p].stack /\ ps[p].stack[k] = frames[k]
          /\ ps[p].stack = t
        BY <1>1, <1>2
    <2> QED
        BY <2>1, <1>5 DEF IsOwner
<1> QED
    BY <1>3, <1>4, <1>5

-----------------------------------------------------------------------------
(* What every step must do.                                                *)

StepIsRight ==
    /\ IInv'
    /\ \A n \in Registered : n \in DOMAIN heap' /\ heap'[n] = heap[n]
    /\ plans' # plans /\ ~Failing => Lost' \subseteq Lost

\* What had an owner has one, if it is not deleted, and what is new has one.
KeepsStep(gone) ==
    /\ \A o \in Owned \ gone : \E q \in Owned' : q[4] = o[4]
    /\ \A m \in DOMAIN heap' : m[1] > copies => \E o \in Owned' : m \in Span(o[4])

LEMMA NothingLost ==
    ASSUME HeapInv, OwnInv, HeapInv', OwnInv', NEW gone, NEW touched,
           Evolves(heap, copies, heap', copies', CopiesOf(gone), touched),
           KeepsStep(gone)
    PROVE  Lost' \subseteq Lost
<1>1. ASSUME NEW o \in Owned' PROVE Reach(heap', o[4]) = Span(o[4])
    <2>1. o[4] \in DOMAIN heap'
        BY DEF OwnInv, IsWhole
    <2> QED
        BY <2>1, ReachIs DEF HeapInv
<1>2. SUFFICES ASSUME NEW m \in Lost' PROVE m \in Lost
    OBVIOUS
<1>3. m \in DOMAIN heap' /\ \A o \in Owned' : m \notin Span(o[4])
    BY <1>1 DEF Lost
<1>4. m[1] \in 1..copies' /\ copies \in Nat /\ copies' \in Nat
    BY <1>3, ShapedObject DEF HeapInv, Shaped
<1>5. m[1] <= copies
    BY <1>3, <1>4 DEF KeepsStep
<1>6. m \in DOMAIN heap
    BY <1>3, <1>5 DEF Evolves
<1>7. m[1] \notin CopiesOf(gone)
    BY <1>3, <1>6 DEF Evolves
<1>8. ASSUME NEW o \in Owned, m \in Reach(heap, o[4]) PROVE FALSE
    <2>1. m \in Span(o[4])
        BY <1>8, OwnedCopies
    <2>2. m[1] = o[4][1]
        BY <2>1, SpanIs
    <2>3. o \notin gone
        BY <2>2, <1>7 DEF CopiesOf
    <2>4. PICK q \in Owned' : q[4] = o[4]
        BY <2>3 DEF KeepsStep
    <2> QED
        BY <2>1, <2>4, <1>3
<1> QED
    BY <1>6, <1>8 DEF Lost

LEMMA MapsStay ==
    ASSUME HeapInv, OwnInv, RegisteredInv, NEW gone, NEW touched, NEW p,
           SafeStep(gone, touched, p), trees' = trees, resources' = resources
    PROVE  RegisteredInv'
<1>1. /\ \A id \in DOMAIN trees : Unfilled(heap', trees[id])
      /\ \A id \in DOMAIN resources : Unfilled(heap', resources[id])
    BY SourcesStep
<1> QED
    BY <1>1 DEF RegisteredInv, NoObject

LEMMA Concluded ==
    ASSUME IInv, NEW gone, NEW touched, NEW p, SafeStep(gone, touched, p),
           OwnersStep(gone), PlanInv', RegisteredInv',
           plans' = plans \/ Failing \/ KeepsStep(gone)
    PROVE  StepIsRight
<1>1. HeapInv /\ OwnInv /\ RegisteredInv
    BY DEF IInv
<1>2. HeapInv' /\ OwnInv'
    BY <1>1, OwnStep
<1>3. \A n \in Registered : n \in DOMAIN heap' /\ heap'[n] = heap[n]
    BY <1>1, SourcesStep
<1>4. Evolves(heap, copies, heap', copies', CopiesOf(gone), touched)
    BY DEF SafeStep
<1>5. KeepsStep(gone) => Lost' \subseteq Lost
    BY <1>1, <1>2, <1>4, NothingLost
<1> QED
    BY <1>2, <1>3, <1>5 DEF IInv, StepIsRight

\* PlanInv, for given plans.
Waits(r) == r.stack # <<>> /\ Head(r.stack).op = "join"

IsPlanOf(h, ps, q) ==
    /\ IsPlan(ps[q])
    /\ StackInv(h, ps[q].root, ps[q].stack)
    /\ q = 1 => ps[q].parent = 0 /\ ps[q].root = NoObject
    /\ q # 1 => ps[q] = Deleted
                    \/ /\ ps[q].root # NoObject
                       /\ ps[q].parent \in 1..(q - 1)
                       /\ Waits(ps[ps[q].parent])

LEMMA PlanInvIs ==
    /\ PlanInv <=> IsSeq(plans) /\ \A q \in DOMAIN plans : IsPlanOf(heap, plans, q)
    /\ PlanInv' <=> IsSeq(plans') /\ \A q \in DOMAIN plans' : IsPlanOf(heap', plans', q)
<1>1. PlanInv <=> IsSeq(plans) /\ \A q \in DOMAIN plans : IsPlanOf(heap, plans, q)
    BY DEF PlanInv, IsPlanOf, IsAt, Waits, Top
<1>2. PlanInv' <=> IsSeq(plans') /\ \A q \in DOMAIN plans' : IsPlanOf(heap', plans', q)
    BY DEF PlanInv, IsPlanOf, IsAt, Waits, Top, IsSeq, IsPlan, StackInv,
           NoObject, Deleted, Plan
<1> QED
    BY <1>1, <1>2

\* CountInv, for given plans and counters.
ChildsIn(ps, q) == {c \in DOMAIN ps : ps[c].parent = q}

Counts(ps, counted, q, k) ==
    /\ k = 1 /\ counted[q] = 0
    /\ IsFiniteSet(ChildsIn(ps, q))
    /\ ps[q].stack[k].at = Cardinality(ChildsIn(ps, q))
    /\ ps[q].stack[k].at < CounterRange

AllCount(ps, counted) ==
    /\ DOMAIN counted = DOMAIN ps
    /\ \A q \in DOMAIN ps : \A k \in DOMAIN ps[q].stack :
        ps[q].stack[k].op = "join" => Counts(ps, counted, q, k)

LEMMA CountInvIs ==
    (CountInv <=> AllCount(plans, earlier)) /\ (CountInv' <=> AllCount(plans', earlier'))
<1>1. CountInv <=> AllCount(plans, earlier)
    BY DEF CountInv, AllCount, Counts, Childs, ChildsIn
<1>2. CountInv' <=> AllCount(plans', earlier')
    BY DEF CountInv, AllCount, Counts, Childs, ChildsIn
<1> QED
    BY <1>1, <1>2

\* Plans that go on waiting, with the same child plans, still count.
LEMMA CountsStay ==
    ASSUME CountInv, DOMAIN earlier' = DOMAIN plans',
           \A q \in DOMAIN plans' : \A k \in DOMAIN plans'[q].stack :
                plans'[q].stack[k].op = "join" =>
                    \/ /\ q \in DOMAIN plans /\ k \in DOMAIN plans[q].stack
                       /\ plans'[q].stack[k] = plans[q].stack[k]
                       /\ earlier'[q] = earlier[q]
                       /\ ChildsIn(plans', q) = ChildsIn(plans, q)
                    \/ Counts(plans', earlier', q, k)
    PROVE  CountInv'
<1>1. AllCount(plans, earlier)
    BY CountInvIs
<1>2. ASSUME NEW q \in DOMAIN plans', NEW k \in DOMAIN plans'[q].stack,
             plans'[q].stack[k].op = "join"
      PROVE  Counts(plans', earlier', q, k)
    <2>1. CASE Counts(plans', earlier', q, k)
        BY <2>1
    <2>2. CASE /\ q \in DOMAIN plans /\ k \in DOMAIN plans[q].stack
               /\ plans'[q].stack[k] = plans[q].stack[k]
               /\ earlier'[q] = earlier[q]
               /\ ChildsIn(plans', q) = ChildsIn(plans, q)
        <3>1. Counts(plans, earlier, q, k)
            BY <1>1, <1>2, <2>2 DEF AllCount
        <3> QED
            BY <3>1, <2>2 DEF Counts
    <2> QED
        BY <1>2, <2>1, <2>2
<1> QED
    BY <1>2, CountInvIs DEF AllCount

\* Only the innermost frame waits.
LEMMA RestWaitsForNothing ==
    ASSUME CountInv, NEW p \in DOMAIN plans, NEW frames, NEW t,
           OnTop(t, frames, plans[p].stack),
           NEW k \in DOMAIN t, t[k].op = "join"
    PROVE  k \in DOMAIN frames /\ t[k] = frames[k]
<1>1. ASSUME NEW l \in 2..Len(plans[p].stack), k = (Len(frames) + l) - 1
      PROVE  FALSE
    <2>1. l \in DOMAIN plans[p].stack /\ plans[p].stack[l].op = "join"
        BY <1>1 DEF OnTop
    <2>2. l = 1
        BY <2>1 DEF CountInv
    <2> QED
        BY <2>2, <1>1
<1> QED
    BY <1>1 DEF OnTop

\* The frame on top is an owner if it deletes; if it works, an owner of the
\* plan has what it works on.
LEMMA TopIs ==
    ASSUME HeapInv, OwnInv, PlanInv, NEW p \in DOMAIN plans, plans[p].stack # <<>>
    PROVE  /\ 1 \in DOMAIN plans[p].stack /\ plans[p].stack[1] = Top(p)
           /\ IsFrame(Top(p))
           /\ Deletes(Top(p)) => TopOwner(p) \in Owned
           /\ Works(Top(p)) =>
                /\ \E o \in Owned : OfPlan(o, p) /\ Top(p).object[1] = o[4][1]
                /\ Top(p).object \in DOMAIN heap
                /\ Span(Top(p).object) \subseteq DOMAIN heap
           /\ Executes(Top(p)) => Unfilled(heap, Top(p).object)
           /\ Top(p).op = "blossom" =>
                /\ Kind[Top(p).object[2]] = "group"
                /\ Top(p).at \in DOMAIN Parts[Top(p).object[2]]
<1>1. IsSeq(plans[p].stack) /\ StackInv(heap, plans[p].root, plans[p].stack)
    BY DEF PlanInv, IsPlan
<1>2. 1 \in DOMAIN plans[p].stack /\ plans[p].stack[1] = Top(p)
    BY <1>1, SeqIs, TailIs DEF Top
<1>3. IsFrame(Top(p))
    BY <1>1, <1>2 DEF StackInv
<1>4. ASSUME Deletes(Top(p)) PROVE TopOwner(p) \in Owned
    <2>1. Top(p).object # NoObject
        BY <1>3, <1>4, NoObjectIsNone DEF IsFrame, Deletes
    <2>2. IsOwner(TopOwner(p), output, trees, resources, plans)
        BY <2>1, <1>2, <1>4 DEF IsOwner, TopOwner
    <2> QED
        BY <2>2, OwnedIs
<1>5. ASSUME Works(Top(p))
      PROVE  /\ \E o \in Owned : OfPlan(o, p) /\ Top(p).object[1] = o[4][1]
             /\ Top(p).object \in DOMAIN heap
             /\ Span(Top(p).object) \subseteq DOMAIN heap
    BY <1>2, <1>5, FrameOwner
<1> QED
    BY <1>1, <1>2, <1>3, <1>4, <1>5 DEF StackInv

\* p goes on with other frames: what the top owned is deleted, and values of
\* the object that it works on may be filled.
LEMMA ContinueStep ==
    ASSUME IInv, NEW p \in DOMAIN plans, plans[p].stack # <<>>,
           Top(p).op # "join", NEW frames, Pushes(p, frames), DeletesNew(frames),
           plans' = Replaced(p, frames), Unchanged,
           NEW gone, gone = IF Deletes(Top(p)) THEN {TopOwner(p)} ELSE {},
           NEW touched,
           touched = {} \/ (Works(Top(p)) /\ touched \subseteq Span(Top(p).object)),
           Evolves(heap, copies, heap', copies', CopiesOf(gone), touched)
    PROVE  StepIsRight
<1>1. HeapInv /\ OwnInv /\ PlanInv /\ RegisteredInv
    BY DEF IInv
<1>2. output' = output /\ trees' = trees /\ resources' = resources
    BY DEF Unchanged
<1>3. gone \subseteq Owned /\ gone \subseteq {TopOwner(p)}
    BY <1>1, TopIs
<1>4. SafeStep(gone, touched, p)
    <2>1. \A o \in gone : o[1] \in {"output", "plan", "frame"}
        BY <1>3 DEF TopOwner
    <2>2. ASSUME NEW m \in touched
          PROVE  \E o \in Owned : OfPlan(o, p) /\ m[1] = o[4][1]
        <3>1. PICK o \in Owned : OfPlan(o, p) /\ Top(p).object[1] = o[4][1]
            BY <1>1, TopIs
        <3>2. m[1] = Top(p).object[1]
            BY SpanIs
        <3> QED
            BY <3>1, <3>2
    <2> QED
        BY <1>3, <2>1, <2>2 DEF SafeStep
<1>5. PICK t : t = frames \o Tail(plans[p].stack)
    OBVIOUS
<1>6. Restacked(plans', p, frames, t)
    <2>1. IsSeq(frames)
        BY DEF Pushes
    <2>2. PICK ps : ps = Replaced(p, frames)
        OBVIOUS
    <2>3. Restacked(ps, p, frames, t)
        BY <1>1, <1>5, <2>1, <2>2, ReplacedIs
    <2> QED
        BY <2>2, <2>3
<1>7. /\ \A o \in Owned' : \/ o \in Owned /\ o # TopOwner(p)
                           \/ \E k \in DOMAIN frames :
                                /\ Deletes(frames[k])
                                /\ o = <<"frame", p, Len(t) - k, frames[k].object>>
      /\ \A o \in Owned : o \in Owned' \/ (o = TopOwner(p) /\ Deletes(Top(p)))
      /\ \A k \in DOMAIN frames :
            Deletes(frames[k]) /\ frames[k].object # NoObject =>
                <<"frame", p, Len(t) - k, frames[k].object>> \in Owned'
    <2>1. \A o : o \in Owned' <=> IsOwner(o, output, trees, resources, plans')
        BY <1>2, OwnedIs
    <2>2. \A o : IsOwner(o, output, trees, resources, plans') =>
                \/ o \in Owned /\ o # TopOwner(p)
                \/ \E k \in DOMAIN frames :
                    /\ Deletes(frames[k])
                    /\ o = <<"frame", p, Len(t) - k, frames[k].object>>
        BY <1>6, ReplacedOwners
    <2>3. \A o \in Owned : \/ IsOwner(o, output, trees, resources, plans')
                           \/ o = TopOwner(p) /\ Deletes(Top(p))
        BY <1>6, ReplacedOwners
    <2>4. \A k \in DOMAIN frames :
                Deletes(frames[k]) /\ frames[k].object # NoObject =>
                    IsOwner(<<"frame", p, Len(t) - k, frames[k].object>>,
                            output, trees, resources, plans')
        BY <1>6, ReplacedOwners
    <2> QED
        BY <2>1, <2>2, <2>3, <2>4
<1>8. OwnersStep(gone)
    <2>1. ASSUME NEW o \in Owned'
          PROVE  \/ o \in Owned \ gone
                 \/ o[4][1] > copies /\ IsWhole(heap', o[4])
        <3>1. CASE o \in Owned /\ o # TopOwner(p)
            BY <3>1, <1>3
        <3>2. CASE \E k \in DOMAIN frames :
                    /\ Deletes(frames[k])
                    /\ o = <<"frame", p, Len(t) - k, frames[k].object>>
            BY <3>2 DEF Pushes
        <3> QED
            BY <3>1, <3>2, <1>7
    <2>2. ASSUME NEW o \in Owned', NEW q \in Owned', o[4][1] > copies,
                 o[4][1] = q[4][1]
          PROVE  o = q
        <3>1. ASSUME NEW x \in Owned PROVE ~(x[4][1] > copies)
            <4>1. x[4][1] \in 1..copies /\ copies \in Nat
                BY <1>1, OwnedCopies
            <4> QED
                BY <4>1
        <3>2. PICK k \in DOMAIN frames :
                    /\ Deletes(frames[k])
                    /\ o = <<"frame", p, Len(t) - k, frames[k].object>>
            BY <2>2, <3>1, <1>7
        <3>3. PICK l \in DOMAIN frames :
                    /\ Deletes(frames[l])
                    /\ q = <<"frame", p, Len(t) - l, frames[l].object>>
            BY <2>2, <3>1, <1>7
        <3>4. frames[k].object[1] = frames[l].object[1]
            BY <3>2, <3>3, <2>2
        <3>5. k \in Nat /\ l \in Nat
            BY <1>6 DEF Restacked, OnTop
        <3>6. ~(k < l) /\ ~(l < k)
            BY <3>2, <3>3, <3>4 DEF Pushes
        <3>7. k = l
            BY <3>5, <3>6
        <3> QED
            BY <3>2, <3>3, <3>7
    <2> QED
        BY <2>1, <2>2 DEF OwnersStep
<1>9. KeepsStep(gone)
    <2>1. ASSUME NEW o \in Owned \ gone PROVE o \in Owned'
        BY <1>7
    <2>2. ASSUME NEW m \in DOMAIN heap', m[1] > copies
          PROVE  \E o \in Owned' : m \in Span(o[4])
        <3>1. PICK k \in DOMAIN frames : Deletes(frames[k]) /\ m \in Span(frames[k].object)
            BY <2>2 DEF DeletesNew
        <3>2. frames[k].object # NoObject
            <4>1. IsFrame(frames[k]) /\ frames[k].op # "join"
                BY <3>1 DEF Pushes, Deletes
            <4>2. frames[k].object \in Object
                BY <4>1 DEF IsFrame
            <4> QED
                BY <4>2, NoObjectIsNone
        <3> QED
            BY <3>1, <3>2, <1>7
    <2> QED
        BY <2>1, <2>2 DEF KeepsStep
<1>10. PlanInv'
    <2>1. IsSeq(plans') /\ DOMAIN plans' = DOMAIN plans
          /\ \A q \in DOMAIN plans : q # p => plans'[q] = plans[q]
        BY <1>6 DEF Restacked
    <2>2. /\ IsPlan(plans'[p])
          /\ plans'[p].root = plans[p].root /\ plans'[p].parent = plans[p].parent
          /\ plans'[p].stack = t
        BY <1>6 DEF Restacked
    <2>3. StackInv(heap', plans[p].root, t)
        BY <1>1, <1>3, <1>4, <1>5, PushedStack
    <2>4. plans[p] # Deleted
        BY DEF Deleted, Plan
    <2>5. ~Waits(plans[p])
        BY DEF Waits, Top
    <2>6. \A q \in DOMAIN plans : IsPlanOf(heap, plans, q)
        BY <1>1, PlanInvIs
    <2>7. ASSUME NEW q \in DOMAIN plans PROVE IsPlanOf(heap', plans', q)
        <3>1. IsPlanOf(heap, plans, q)
            BY <2>6
        <3>2. q # 1 /\ plans[q] # Deleted =>
                /\ plans[q].parent \in DOMAIN plans
                /\ Waits(plans[plans[q].parent])
            <4>1. DOMAIN plans = 1..Len(plans) /\ Len(plans) \in Nat
                BY <1>1, SeqIs DEF PlanInv
            <4> QED
                BY <4>1, <3>1 DEF IsPlanOf
        <3>3. q # 1 /\ plans[q] # Deleted => Waits(plans'[plans[q].parent])
            BY <3>2, <2>1, <2>5
        <3>4. CASE q = p
            BY <3>1, <3>3, <3>4, <2>2, <2>3, <2>4 DEF IsPlanOf
        <3>5. CASE q # p
            <4>1. plans'[q] = plans[q]
                BY <3>5, <2>1
            <4>2. \A o \in gone : ~OfPlan(o, q)
                BY <1>3, <3>5 DEF TopOwner, OfPlan
            <4>3. StackInv(heap', plans[q].root, plans[q].stack)
                BY <1>1, <1>4, <3>5, <4>2, OtherStackStays
            <4> QED
                BY <4>1, <4>3, <3>1, <3>3 DEF IsPlanOf
        <3> QED
            BY <3>4, <3>5
    <2> QED
        BY <2>1, <2>7, PlanInvIs
<1>11. RegisteredInv'
    BY <1>1, <1>2, <1>4, MapsStay
<1> QED
    BY <1>4, <1>8, <1>9, <1>10, <1>11, Concluded

-----------------------------------------------------------------------------
(* The steps of a plan that goes on.                                       *)

LEMMA FrameIs ==
    ASSUME NEW f, NEW op, NEW n, NEW at, f = Frame(op, n, at),
           op \in {"run", "do", "blossom", "loop", "delete", "delete on success"},
           n \in Object, at \in Nat
    PROVE  IsFrame(f) /\ f.op = op /\ f.object = n /\ f.at = at
<1>1. f.op = op /\ f.object = n /\ f.at = at
    BY DEF Frame
<1>2. f = [op |-> f.op, object |-> f.object, at |-> f.at]
    BY <1>1 DEF Frame
<1> QED
    BY <1>1, <1>2 DEF IsFrame

LEMMA DoIs ==
    ASSUME NEW n, n \in Object, NEW f, f = Do(n)
    PROVE  IsFrame(f) /\ f.op = "do" /\ f.object = n /\ Works(f) /\ Executes(f)
<1>1. PICK op : op = "do"
    OBVIOUS
<1>2. /\ op \in {"run", "do", "blossom", "loop", "delete", "delete on success"}
      /\ f = Frame(op, n, 0) /\ 0 \in Nat
    BY <1>1 DEF Do, Delete, DeleteOnSuccess
<1>3. IsFrame(f) /\ f.op = op /\ f.object = n /\ f.at = 0
    BY <1>2, FrameIs
<1> QED
    BY <1>1, <1>3 DEF Works, Executes, Deletes

LEMMA DeleteIs ==
    ASSUME NEW n, n \in Object, NEW f, f = Delete(n)
    PROVE  IsFrame(f) /\ f.op = "delete" /\ f.object = n /\ Deletes(f) /\ ~Works(f)
<1>1. PICK op : op = "delete"
    OBVIOUS
<1>2. /\ op \in {"run", "do", "blossom", "loop", "delete", "delete on success"}
      /\ f = Frame(op, n, 0) /\ 0 \in Nat
    BY <1>1 DEF Do, Delete, DeleteOnSuccess
<1>3. IsFrame(f) /\ f.op = op /\ f.object = n /\ f.at = 0
    BY <1>2, FrameIs
<1> QED
    BY <1>1, <1>3 DEF Works, Executes, Deletes

LEMMA DeleteOnSuccessIs ==
    ASSUME NEW n, n \in Object, NEW f, f = DeleteOnSuccess(n)
    PROVE  IsFrame(f) /\ f.op = "delete on success" /\ f.object = n /\ Deletes(f) /\ ~Works(f)
<1>1. PICK op : op = "delete on success"
    OBVIOUS
<1>2. /\ op \in {"run", "do", "blossom", "loop", "delete", "delete on success"}
      /\ f = Frame(op, n, 0) /\ 0 \in Nat
    BY <1>1 DEF Do, Delete, DeleteOnSuccess
<1>3. IsFrame(f) /\ f.op = op /\ f.object = n /\ f.at = 0
    BY <1>2, FrameIs
<1> QED
    BY <1>1, <1>3 DEF Works, Executes, Deletes

LEMMA LoopIs ==
    ASSUME NEW n, n \in Object, NEW at, at \in Nat, NEW f, f = Frame("loop", n, at)
    PROVE  IsFrame(f) /\ f.op = "loop" /\ f.object = n /\ Works(f) /\ Executes(f)
<1>1. PICK op : op = "loop"
    OBVIOUS
<1>2. /\ op \in {"run", "do", "blossom", "loop", "delete", "delete on success"}
      /\ f = Frame(op, n, at) /\ at \in Nat
    BY <1>1 DEF Do, Delete, DeleteOnSuccess
<1>3. IsFrame(f) /\ f.op = op /\ f.object = n /\ f.at = at
    BY <1>2, FrameIs
<1> QED
    BY <1>1, <1>3 DEF Works, Executes, Deletes

LEMMA BlossomIs ==
    ASSUME NEW n, n \in Object, NEW at, at \in Nat, NEW f, f = Frame("blossom", n, at)
    PROVE  IsFrame(f) /\ f.op = "blossom" /\ f.object = n /\ f.at = at /\ Works(f) /\ ~Executes(f)
<1>1. PICK op : op = "blossom"
    OBVIOUS
<1>2. /\ op \in {"run", "do", "blossom", "loop", "delete", "delete on success"}
      /\ f = Frame(op, n, at) /\ at \in Nat
    BY <1>1 DEF Do, Delete, DeleteOnSuccess
<1>3. IsFrame(f) /\ f.op = op /\ f.object = n /\ f.at = at
    BY <1>2, FrameIs
<1> QED
    BY <1>1, <1>3 DEF Works, Executes, Deletes

LEMMA SmallSeqs ==
    /\ \A a : /\ IsSeq(<<a>>) /\ Len(<<a>>) = 1 /\ DOMAIN <<a>> = 1..1
              /\ <<a>>[1] = a
    /\ \A a, b : /\ IsSeq(<<a, b>>) /\ DOMAIN <<a, b>> = 1..2
                 /\ <<a, b>>[1] = a /\ <<a, b>>[2] = b
    /\ \A a, b, c : /\ IsSeq(<<a, b, c>>) /\ DOMAIN <<a, b, c>> = 1..3
                    /\ <<a, b, c>>[1] = a /\ <<a, b, c>>[2] = b /\ <<a, b, c>>[3] = c
<1>1. ASSUME NEW a
      PROVE  /\ IsSeq(<<a>>) /\ Len(<<a>>) = 1 /\ DOMAIN <<a>> = 1..1
             /\ <<a>>[1] = a
    <2>1. <<a>> \in Seq({a}) /\ Len(<<a>>) = 1 /\ <<a>>[1] = a
        OBVIOUS
    <2> QED
        BY <2>1, OverIsSeq, LenProperties
<1>2. ASSUME NEW a, NEW b
      PROVE  /\ IsSeq(<<a, b>>) /\ DOMAIN <<a, b>> = 1..2
             /\ <<a, b>>[1] = a /\ <<a, b>>[2] = b
    <2>1. <<a, b>> \in Seq({a, b}) /\ Len(<<a, b>>) = 2
        OBVIOUS
    <2> QED
        BY <2>1, OverIsSeq, LenProperties
<1>3. ASSUME NEW a, NEW b, NEW c
      PROVE  /\ IsSeq(<<a, b, c>>) /\ DOMAIN <<a, b, c>> = 1..3
             /\ <<a, b, c>>[1] = a /\ <<a, b, c>>[2] = b /\ <<a, b, c>>[3] = c
    <2>1. <<a, b, c>> \in Seq({a, b, c}) /\ Len(<<a, b, c>>) = 3
        OBVIOUS
    <2> QED
        BY <2>1, OverIsSeq, LenProperties
<1> QED
    BY <1>1, <1>2, <1>3

LEMMA MemoryIs ==
    /\ Memory.heap = heap /\ Memory.copies = copies
    /\ \A n \in DOMAIN heap :
        /\ WithFilled(n).heap = [heap EXCEPT ![n].filled = TRUE]
        /\ WithFilled(n).copies = copies
<1>1. Memory.heap = heap /\ Memory.copies = copies
    BY DEF Memory
<1>2. ASSUME NEW n \in DOMAIN heap
      PROVE  /\ WithFilled(n).heap = [heap EXCEPT ![n].filled = TRUE]
             /\ WithFilled(n).copies = copies
    BY DEF Memory, WithFilled
<1> QED
    BY <1>1, <1>2

\* The work goes on below the object of the top.
LEMMA GoesOn ==
    ASSUME IInv, NEW p \in DOMAIN plans, plans[p].stack # <<>>, Works(Top(p)),
           NEW touched, touched \subseteq Span(Top(p).object),
           Evolves(heap, copies, heap', copies', {}, touched), copies' = copies,
           NEW frames, plans' = Replaced(p, frames), Unchanged, IsSeq(frames),
           \A k \in DOMAIN frames :
                /\ IsFrame(frames[k]) /\ Works(frames[k])
                /\ frames[k].object \in Span(Top(p).object)
                /\ Executes(frames[k]) => Unfilled(heap', frames[k].object)
                /\ frames[k].op = "blossom" =>
                    /\ Kind[frames[k].object[2]] = "group"
                    /\ frames[k].at \in DOMAIN Parts[frames[k].object[2]],
           \A k, l \in DOMAIN frames : k < l =>
                Span(frames[k].object) \cap Span(frames[l].object) = {}
    PROVE  StepIsRight
<1>1. ASSUME NEW f, Works(f) PROVE ~Deletes(f) /\ f.op # "join"
    BY <1>1 DEF Works, Deletes
<1>2. ASSUME NEW m \in DOMAIN heap' PROVE ~(m[1] > copies)
    <2>1. m[1] \in 1..copies /\ copies \in Nat
        BY ShapedObject DEF Evolves
    <2> QED
        BY <2>1
<1>3. Pushes(p, frames) /\ DeletesNew(frames)
    BY <1>1, <1>2 DEF Pushes, DeletesNew
<1>4. CopiesOf({}) = {}
    BY DEF CopiesOf
<1>5. {} = IF Deletes(Top(p)) THEN {TopOwner(p)} ELSE {}
    BY <1>1
<1>6. Evolves(heap, copies, heap', copies', CopiesOf({}), touched)
    BY <1>4
<1>7. Top(p).op # "join"
    BY <1>1
<1> QED
    BY <1>3, <1>5, <1>6, <1>7, ContinueStep

\* What the top works on, and its parts.
TopWorks(p) ==
    /\ plans[p].stack # <<>> /\ Works(Top(p))
    /\ Top(p).object \in Object /\ Top(p).object \in DOMAIN heap
    /\ Top(p).object[2] \in Item
    /\ Top(p).object \in Span(Top(p).object)
    /\ Span(Top(p).object) \subseteq DOMAIN heap
    /\ PartsOf(p) = PartsIn(Top(p).object)
    /\ IsSeq(PartsOf(p))
    /\ DOMAIN PartsOf(p) = DOMAIN Parts[Top(p).object[2]]
    /\ Executes(Top(p)) => Unfilled(heap, Top(p).object)
    /\ \A k \in DOMAIN PartsOf(p) :
        /\ PartsOf(p)[k] \in Object
        /\ PartsOf(p)[k] \in Span(Top(p).object)
        /\ PartsOf(p)[k] \in DOMAIN heap
        /\ Span(PartsOf(p)[k]) \subseteq Span(Top(p).object)
        /\ Top(p).object \notin Span(PartsOf(p)[k])
        /\ Executes(Top(p)) => Unfilled(heap, PartsOf(p)[k])
    /\ \A k, l \in DOMAIN PartsOf(p) :
        k # l => Span(PartsOf(p)[k]) \cap Span(PartsOf(p)[l]) = {}

LEMMA WorksIs ==
    ASSUME HeapInv, OwnInv, PlanInv, NEW p \in DOMAIN plans,
           NEW op \in {"run", "do", "blossom", "loop"}, IsAt(p, op)
    PROVE  TopWorks(p) /\ Top(p).op = op
<1> DEFINE n == Top(p).object
<1>1. plans[p].stack # <<>> /\ Top(p).op = op /\ Works(Top(p))
    BY DEF IsAt, Works
<1>2. n \in DOMAIN heap /\ Span(n) \subseteq DOMAIN heap
      /\ (Executes(Top(p)) => Unfilled(heap, n))
    BY <1>1, TopIs
<1>3. /\ n[2] \in Item /\ n \in Object /\ n \in Span(n)
      /\ heap[n].parts = PartsIn(n)
    BY <1>2, ShapedObject DEF HeapInv
<1>4. PartsOf(p) = PartsIn(n)
    BY <1>3 DEF PartsOf
<1>5. IsSeq(PartsIn(n)) /\ DOMAIN PartsIn(n) = DOMAIN Parts[n[2]]
    <2>1. PICK m \in Nat : DOMAIN Parts[n[2]] = 1..m
        BY <1>3, PartsAreWithin
    <2>2. DOMAIN PartsIn(n) = 1..m /\ PartsIn(n) = [k \in 1..m |-> PartsIn(n)[k]]
        BY <2>1 DEF PartsIn
    <2>3. IsSeq(PartsIn(n))
        BY <2>2, MakesSeq
    <2> QED
        BY <2>1, <2>2, <2>3
<1>6. ASSUME NEW k \in DOMAIN PartsIn(n)
      PROVE  /\ PartsIn(n)[k] \in Object
             /\ PartsIn(n)[k] \in Span(n)
             /\ PartsIn(n)[k] \in DOMAIN heap
             /\ Span(PartsIn(n)[k]) \subseteq Span(n)
             /\ n \notin Span(PartsIn(n)[k])
             /\ Executes(Top(p)) => Unfilled(heap, PartsIn(n)[k])
    <2>1. /\ PartsIn(n)[k] \in Span(n)
          /\ Span(PartsIn(n)[k]) \subseteq Span(n)
          /\ n \notin Span(PartsIn(n)[k])
        BY <1>3, PartsBelow
    <2>2. PartsIn(n)[k] \in DOMAIN heap
        BY <2>1, <1>2
    <2>3. PartsIn(n)[k] \in Object
        BY <2>2, ShapedObject DEF HeapInv
    <2>4. Executes(Top(p)) => Unfilled(heap, PartsIn(n)[k])
        BY <2>1, <1>2 DEF Unfilled
    <2> QED
        BY <2>1, <2>2, <2>3, <2>4
<1>7. \A k, l \in DOMAIN PartsIn(n) :
        k # l => Span(PartsIn(n)[k]) \cap Span(PartsIn(n)[l]) = {}
    BY <1>3, PartsBelow
<1> HIDE DEF n
<1>8. n = Top(p).object
    BY DEF n
<1> QED
    BY <1>1, <1>2, <1>3, <1>4, <1>5, <1>6, <1>7, <1>8 DEF TopWorks

\* Filling the values of the object of the top.
LEMMA TopFilled ==
    ASSUME HeapInv, NEW p, TopWorks(p), NEW n \in Span(Top(p).object),
           NEW h2, h2 = WithFilled(n).heap
    PROVE  /\ Evolves(heap, copies, h2, copies, {}, {n})
           /\ WithFilled(n).copies = copies
           /\ \A m : m \in DOMAIN heap <=> m \in DOMAIN h2
           /\ \A m \in DOMAIN heap :
                n \notin Span(m) /\ Span(m) \subseteq DOMAIN heap /\ Unfilled(heap, m)
                    => Unfilled(h2, m)
<1>1. n \in DOMAIN heap
    BY DEF TopWorks
<1>2. h2 = [heap EXCEPT ![n].filled = TRUE] /\ WithFilled(n).copies = copies
    BY <1>1, MemoryIs
<1>3. Evolves(heap, copies, h2, copies, {}, {n})
    BY <1>1, <1>2, FilledIs DEF HeapInv
<1>4. DOMAIN h2 = DOMAIN heap
    BY <1>2
<1>5. ASSUME NEW m \in DOMAIN heap, n \notin Span(m), Span(m) \subseteq DOMAIN heap,
             Unfilled(heap, m)
      PROVE  Unfilled(h2, m)
    <2>1. Span(m) \cap {n} = {}
        BY <1>5
    <2>2. m[1] \notin {}
        OBVIOUS
    <2> QED
        BY <1>3, <1>5, <2>1, <2>2, UnfilledStays
<1> QED
    BY <1>2, <1>3, <1>4, <1>5

LEMMA ProcessSequentiellPartStep ==
    ASSUME IInv, NEW p \in DOMAIN plans, ProcessSequentiellPart(p)
    PROVE  StepIsRight
<1>1. IsAt(p, "do")
    BY DEF ProcessSequentiellPart, Starts
<1>2. HeapInv /\ OwnInv /\ PlanInv
    BY DEF IInv
<1>3. TopWorks(p) /\ Top(p).op = "do"
    BY <1>1, <1>2, WorksIs
<1>4. PICK frames : frames = [k \in DOMAIN PartsOf(p) |-> Do(PartsOf(p)[k])]
    OBVIOUS
<1>5. heap' = heap /\ copies' = copies /\ plans' = Replaced(p, frames) /\ Unchanged
    BY <1>4, MemoryIs DEF ProcessSequentiellPart, Continue, Use
<1>6. IsSeq(frames) /\ DOMAIN frames = DOMAIN PartsOf(p)
    <2>1. DOMAIN PartsOf(p) = 1..Len(PartsOf(p)) /\ Len(PartsOf(p)) \in Nat
        BY <1>3, SeqIs DEF TopWorks
    <2>2. DOMAIN frames = 1..Len(PartsOf(p))
          /\ frames = [k \in 1..Len(PartsOf(p)) |-> frames[k]]
        BY <1>4, <2>1
    <2> QED
        BY <2>1, <2>2, MakesSeq
<1>7. ASSUME NEW k \in DOMAIN frames
      PROVE  /\ IsFrame(frames[k]) /\ Works(frames[k])
             /\ frames[k].object = PartsOf(p)[k]
             /\ frames[k].object \in Span(Top(p).object)
             /\ Executes(frames[k]) => Unfilled(heap', frames[k].object)
             /\ frames[k].op # "blossom"
    <2>1. PICK n : n = PartsOf(p)[k]
        OBVIOUS
    <2>2. PartsOf(p)[k] \in Object /\ PartsOf(p)[k] \in Span(Top(p).object)
          /\ Unfilled(heap, PartsOf(p)[k])
        BY <1>3, <1>6 DEF TopWorks, Executes
    <2>3. n \in Object /\ frames[k] = Do(n)
        BY <2>1, <2>2, <1>4, <1>6
    <2>4. IsFrame(frames[k]) /\ frames[k].op = "do" /\ frames[k].object = n
        BY <2>3, DoIs
    <2> QED
        BY <2>1, <2>2, <2>4, <1>5 DEF Works
<1>8. ASSUME NEW k \in DOMAIN frames, NEW l \in DOMAIN frames, k < l
      PROVE  Span(frames[k].object) \cap Span(frames[l].object) = {}
    <2>1. k # l
        <3>1. k \in Nat /\ l \in Nat
            BY <1>6, SeqIs
        <3> QED
            BY <3>1, <1>8
    <2> QED
        BY <2>1, <1>3, <1>6, <1>7 DEF TopWorks
<1>9. Evolves(heap, copies, heap', copies', {}, {})
    BY <1>2, <1>5, StaysAsItIs DEF HeapInv
<1>10. plans[p].stack # <<>> /\ Works(Top(p)) /\ {} \subseteq Span(Top(p).object)
    BY <1>3 DEF TopWorks
<1> QED
    BY <1>5, <1>6, <1>7, <1>8, <1>9, <1>10, GoesOn

\* The work goes on with one frame.
LEMMA GoesOnWith ==
    ASSUME IInv, NEW p \in DOMAIN plans, TopWorks(p),
           NEW touched, touched \subseteq Span(Top(p).object),
           Evolves(heap, copies, heap', copies', {}, touched), copies' = copies,
           NEW f, plans' = Replaced(p, <<f>>), Unchanged,
           IsFrame(f), Works(f), f.object \in Span(Top(p).object),
           Executes(f) => Unfilled(heap', f.object),
           f.op = "blossom" =>
                /\ Kind[f.object[2]] = "group"
                /\ f.at \in DOMAIN Parts[f.object[2]]
    PROVE  StepIsRight
<1>1. PICK frames : frames = <<f>>
    OBVIOUS
<1>2. IsSeq(frames) /\ DOMAIN frames = 1..1 /\ frames[1] = f
    BY <1>1, SmallSeqs
<1>3. \A k \in DOMAIN frames : frames[k] = f
    BY <1>2
<1>4. \A k, l \in DOMAIN frames : ~(k < l)
    BY <1>2
<1>5. plans[p].stack # <<>> /\ Works(Top(p)) /\ plans' = Replaced(p, frames)
    BY <1>1 DEF TopWorks
<1>6. \A k \in DOMAIN frames :
        /\ IsFrame(frames[k]) /\ Works(frames[k])
        /\ frames[k].object \in Span(Top(p).object)
        /\ Executes(frames[k]) => Unfilled(heap', frames[k].object)
        /\ frames[k].op = "blossom" =>
            /\ Kind[frames[k].object[2]] = "group"
            /\ frames[k].at \in DOMAIN Parts[frames[k].object[2]]
    BY <1>3
<1> QED
    BY <1>2, <1>4, <1>5, <1>6, GoesOn

\* It has parts if its kind is one of those.
LEMMA HasParts ==
    ASSUME NEW p, TopWorks(p),
           Kind[Top(p).object[2]]
                \in {"tree", "group", "loop", "parallel loop", "parallel"}
    PROVE  1 \in DOMAIN PartsOf(p)
<1>1. Parts[Top(p).object[2]] # <<>>
    BY TextAssumption DEF TopWorks
<1>2. PICK s : s = Parts[Top(p).object[2]]
    OBVIOUS
<1>3. \E S : s \in Seq(S)
    BY <1>2, PartsAreWithin DEF TopWorks
<1>4. 1 \in DOMAIN s
    <2>1. IsSeq(s)
        BY <1>3, OverIsSeq
    <2> QED
        BY <2>1, <1>1, <1>2, SeqIs
<1> QED
    BY <1>2, <1>4 DEF TopWorks

LEMMA ProcessTreeStep ==
    ASSUME IInv, NEW p \in DOMAIN plans, ProcessTree(p)
    PROVE  StepIsRight
<1>1. IsAt(p, "do") /\ Kind[Top(p).object[2]] \in {"tree"}
    BY DEF ProcessTree, Starts
<1>2. HeapInv /\ OwnInv /\ PlanInv
    BY DEF IInv
<1>3. TopWorks(p) /\ Top(p).op = "do"
    BY <1>1, <1>2, WorksIs
<1>4. 1 \in DOMAIN PartsOf(p)
    BY <1>1, <1>3, HasParts
<1>5. PICK n : n = PartsOf(p)[1]
    OBVIOUS
<1>6. PICK f : f = Do(n)
    OBVIOUS
<1>7. heap' = heap /\ copies' = copies /\ plans' = Replaced(p, <<f>>) /\ Unchanged
    BY <1>5, <1>6, MemoryIs DEF ProcessTree, Continue, Use
<1>8. n \in Object /\ n \in Span(Top(p).object) /\ Unfilled(heap', n)
    BY <1>3, <1>4, <1>5, <1>7 DEF TopWorks, Executes
<1>9. IsFrame(f) /\ f.op = "do" /\ f.object = n /\ Works(f)
    BY <1>6, <1>8, DoIs
<1>10. Evolves(heap, copies, heap', copies', {}, {})
    BY <1>2, <1>7, StaysAsItIs DEF HeapInv
<1>11. {} \subseteq Span(Top(p).object) /\ f.op # "blossom"
    BY <1>9
<1> QED
    BY <1>3, <1>7, <1>8, <1>9, <1>10, <1>11, GoesOnWith

LEMMA ProcessIfStep ==
    ASSUME IInv, NEW p \in DOMAIN plans, ProcessIf(p)
    PROVE  StepIsRight
<1>1. IsAt(p, "do")
    BY DEF ProcessIf, Starts
<1>2. HeapInv /\ OwnInv /\ PlanInv
    BY DEF IInv
<1>3. TopWorks(p) /\ Top(p).op = "do"
    BY <1>1, <1>2, WorksIs
<1>4. PICK n \in ToSet(PartsOf(p)) :
        Continue(p, WithFilled(Top(p).object), <<Do(n)>>)
    BY DEF ProcessIf
<1>5. PICK k \in DOMAIN PartsOf(p) : n = PartsOf(p)[k]
    BY <1>4 DEF ToSet
<1>6. PICK f : f = Do(n)
    OBVIOUS
<1>7. Top(p).object \in Span(Top(p).object) /\ Top(p).object \in DOMAIN heap
    BY <1>3 DEF TopWorks
<1>8. /\ heap' = WithFilled(Top(p).object).heap /\ copies' = copies
      /\ plans' = Replaced(p, <<f>>) /\ Unchanged
    BY <1>4, <1>6, <1>7, MemoryIs DEF Continue, Use
<1>9. /\ n \in Object /\ n \in Span(Top(p).object) /\ n \in DOMAIN heap
      /\ Span(n) \subseteq DOMAIN heap /\ Top(p).object \notin Span(n)
      /\ Unfilled(heap, n)
    BY <1>3, <1>5 DEF TopWorks, Executes
<1>10. Unfilled(heap', n) /\ Evolves(heap, copies, heap', copies', {}, {Top(p).object})
    BY <1>2, <1>3, <1>7, <1>8, <1>9, TopFilled
<1>11. IsFrame(f) /\ f.op = "do" /\ f.object = n /\ Works(f)
    BY <1>6, <1>9, DoIs
<1>12. {Top(p).object} \subseteq Span(Top(p).object) /\ f.op # "blossom"
    BY <1>7, <1>11
<1> QED
    BY <1>3, <1>8, <1>9, <1>10, <1>11, <1>12, GoesOnWith

LEMMA ProcessBlossomGroupStep ==
    ASSUME IInv, NEW p \in DOMAIN plans, ProcessBlossomGroup(p)
    PROVE  StepIsRight
<1>1. IsAt(p, "do") /\ Kind[Top(p).object[2]] = "group"
    BY DEF ProcessBlossomGroup, Starts
<1>2. HeapInv /\ OwnInv /\ PlanInv
    BY DEF IInv
<1>3. TopWorks(p) /\ Top(p).op = "do"
    BY <1>1, <1>2, WorksIs
<1>4. PICK n : n = Top(p).object
    OBVIOUS
<1>5. PICK f : f = Frame("blossom", n, 1)
    OBVIOUS
<1>6. n \in Span(n) /\ n \in DOMAIN heap /\ n \in Object
    BY <1>3, <1>4 DEF TopWorks
<1>7. /\ heap' = WithFilled(n).heap /\ copies' = copies
      /\ plans' = Replaced(p, <<f>>) /\ Unchanged
    BY <1>4, <1>5, <1>6, MemoryIs DEF ProcessBlossomGroup, Continue, Use
<1>8. Evolves(heap, copies, heap', copies', {}, {n})
    BY <1>2, <1>3, <1>4, <1>6, <1>7, TopFilled
<1>9. IsFrame(f) /\ f.op = "blossom" /\ f.object = n /\ f.at = 1
    BY <1>5, <1>6, BlossomIs
<1>10. Works(f) /\ ~Executes(f)
    BY <1>9 DEF Works, Executes
<1>11. 1 \in DOMAIN Parts[n[2]] /\ Kind[n[2]] = "group"
    BY <1>1, <1>3, <1>4, HasParts DEF TopWorks
<1> QED
    BY <1>3, <1>4, <1>6, <1>7, <1>8, <1>9, <1>10, <1>11, GoesOnWith

LEMMA ProcessLoopStep ==
    ASSUME IInv, NEW p \in DOMAIN plans, ProcessLoop(p)
    PROVE  StepIsRight
<1>1. IsAt(p, "do") /\ Kind[Top(p).object[2]] = "loop"
    BY DEF ProcessLoop, Starts
<1>2. HeapInv /\ OwnInv /\ PlanInv
    BY DEF IInv
<1>3. TopWorks(p) /\ Top(p).op = "do"
    BY <1>1, <1>2, WorksIs
<1>4. 1 \in DOMAIN PartsOf(p)
    BY <1>1, <1>3, HasParts
<1>5. PICK n : n = PartsOf(p)[1]
    OBVIOUS
<1>6. PICK at \in 0..MaxIterations :
        Continue(p, WithFilled(Top(p).object), <<Frame("loop", n, at)>>)
    BY <1>5 DEF ProcessLoop
<1>7. PICK f : f = Frame("loop", n, at)
    OBVIOUS
<1>8. Top(p).object \in Span(Top(p).object) /\ Top(p).object \in DOMAIN heap
    BY <1>3 DEF TopWorks
<1>9. /\ heap' = WithFilled(Top(p).object).heap /\ copies' = copies
      /\ plans' = Replaced(p, <<f>>) /\ Unchanged
    BY <1>6, <1>7, <1>8, MemoryIs DEF Continue, Use
<1>10. /\ n \in Object /\ n \in Span(Top(p).object) /\ n \in DOMAIN heap
       /\ Span(n) \subseteq DOMAIN heap /\ Top(p).object \notin Span(n)
       /\ Unfilled(heap, n)
    BY <1>3, <1>4, <1>5 DEF TopWorks, Executes
<1>11. Unfilled(heap', n) /\ Evolves(heap, copies, heap', copies', {}, {Top(p).object})
    BY <1>2, <1>3, <1>8, <1>9, <1>10, TopFilled
<1>12. IsFrame(f) /\ f.op = "loop" /\ f.object = n
    <2>1. at \in Nat
        BY BoundAssumption
    <2> QED
        BY <2>1, <1>7, <1>10, LoopIs
<1>13. Works(f) /\ f.op # "blossom" /\ {Top(p).object} \subseteq Span(Top(p).object)
    BY <1>8, <1>12 DEF Works
<1> QED
    BY <1>3, <1>9, <1>10, <1>11, <1>12, <1>13, GoesOnWith

\* Nothing of it is left to do.
LEMMA GoesOnDone ==
    ASSUME IInv, NEW p \in DOMAIN plans, TopWorks(p),
           NEW touched, touched \subseteq Span(Top(p).object),
           Evolves(heap, copies, heap', copies', {}, touched), copies' = copies,
           plans' = Replaced(p, <<>>), Unchanged
    PROVE  StepIsRight
<1>1. PICK frames : frames = <<>>
    OBVIOUS
<1>2. IsSeq(frames) /\ DOMAIN frames = {}
    BY <1>1, EmptyIs
<1>3. plans[p].stack # <<>> /\ Works(Top(p)) /\ plans' = Replaced(p, frames)
    BY <1>1 DEF TopWorks
<1> QED
    BY <1>2, <1>3, GoesOn

\* A copy of n is made, executed and deleted; then there may be more.
LEMMA GoesOnWithCopy ==
    ASSUME IInv, NEW p \in DOMAIN plans, TopWorks(p),
           NEW touched, touched \subseteq Span(Top(p).object),
           NEW mem, mem.copies = copies,
           Evolves(heap, copies, mem.heap, copies, {}, touched),
           NEW n \in DOMAIN mem.heap, Unfilled(mem.heap, n),
           NEW all, all = Copy(mem, n), heap' = all.heap, copies' = all.copies,
           NEW frames, plans' = Replaced(p, frames), Unchanged, IsSeq(frames),
           DOMAIN frames = 1..2 \/ DOMAIN frames = 1..3,
           frames[1] = Do(all.made[1]),
           frames[2] \in {Delete(all.made[1]), DeleteOnSuccess(all.made[1])},
           3 \in DOMAIN frames =>
                /\ IsFrame(frames[3]) /\ frames[3].op = "loop"
                /\ frames[3].object \in Span(Top(p).object)
                /\ Unfilled(heap', frames[3].object)
    PROVE  StepIsRight
<1>1. HeapInv /\ OwnInv /\ PlanInv
    BY DEF IInv
<1>2. PICK objects : objects = <<n>>
    OBVIOUS
<1>3. /\ objects \in Seq(DOMAIN mem.heap) /\ Len(objects) = 1
      /\ DOMAIN objects = {1} /\ objects[1] = n
    <2>1. PICK S : S = DOMAIN mem.heap
        OBVIOUS
    <2>2. n \in S
        BY <2>1
    <2>3. objects \in Seq(S)
        BY <1>2, <2>2
    <2>4. Len(objects) = 1 /\ DOMAIN objects = 1..1 /\ objects[1] = n
        BY <1>2, SmallSeqs
    <2> QED
        BY <2>1, <2>3, <2>4
<1>4. all = CopyAll(mem, objects)
    BY <1>2 DEF Copy
<1>5. Shaped(mem.heap, mem.copies) /\ Bounded(mem.heap)
    BY DEF Evolves
<1>6. Evolves(mem.heap, mem.copies, all.heap, all.copies, {}, {})
    BY <1>3, <1>4, <1>5, CopyAllIs
<1>7. Copied(mem, objects, all)
    BY <1>3, <1>4, <1>5, CopyAllIs
<1>8. Evolves(heap, copies, heap', copies', {}, touched)
    BY <1>1, <1>6, ThenCopied DEF HeapInv
<1>9. PICK root : root = all.made[1]
    OBVIOUS
<1>10. /\ root \in Object /\ root[1] = copies + 1
       /\ IsWhole(heap', root) /\ Unfilled(heap', root)
       /\ \A m \in DOMAIN heap' : m[1] > copies => m \in Span(root)
    BY <1>3, <1>7, <1>9 DEF Copied
<1>11. /\ IsFrame(frames[1]) /\ frames[1].op = "do" /\ frames[1].object = root
       /\ Works(frames[1]) /\ ~Deletes(frames[1])
    <2>1. IsFrame(frames[1]) /\ frames[1].op = "do" /\ frames[1].object = root
        BY <1>9, <1>10, DoIs
    <2> QED
        BY <2>1 DEF Works, Deletes
<1>12. /\ IsFrame(frames[2]) /\ frames[2].object = root
       /\ Deletes(frames[2]) /\ ~Works(frames[2]) /\ ~Executes(frames[2])
       /\ frames[2].op # "blossom"
    <2>1. CASE frames[2] = Delete(root)
        BY <2>1, <1>10, DeleteIs DEF Executes, Works
    <2>2. CASE frames[2] = DeleteOnSuccess(root)
        BY <2>2, <1>10, DeleteOnSuccessIs DEF Executes, Works
    <2> QED
        BY <2>1, <2>2, <1>9
<1>13. ASSUME 3 \in DOMAIN frames
       PROVE  /\ IsFrame(frames[3]) /\ Works(frames[3]) /\ ~Deletes(frames[3])
              /\ frames[3].op # "blossom"
              /\ frames[3].object \in Span(Top(p).object)
              /\ Unfilled(heap', frames[3].object)
              /\ Span(root) \cap Span(frames[3].object) = {}
    <2>1. Works(frames[3]) /\ ~Deletes(frames[3])
        BY <1>13 DEF Works, Deletes
    <2>2. frames[3].object \in DOMAIN heap
        BY <1>13 DEF TopWorks
    <2>3. frames[3].object[1] \in 1..copies /\ copies \in Nat
        BY <1>1, <2>2, ShapedObject DEF HeapInv
    <2>4. frames[3].object[1] # root[1]
        BY <1>10, <2>3
    <2>5. Span(root) \cap Span(frames[3].object) = {}
        BY <2>4, SpanIs
    <2> QED
        BY <2>1, <2>5, <1>13
<1>14. root \in Span(root)
    BY <1>10, InOwnSpan DEF Object
<1>15. copies \in Nat /\ root[1] > copies
    BY <1>1, <1>10 DEF HeapInv, Shaped
<1>16. \A k \in DOMAIN frames : k = 1 \/ k = 2 \/ k = 3
    OBVIOUS
<1>17. 1 \in DOMAIN frames /\ 2 \in DOMAIN frames
    OBVIOUS
<1>18. Works(Top(p)) /\ plans[p].stack # <<>>
    BY DEF TopWorks
<1>19. ASSUME NEW k \in DOMAIN frames
       PROVE  /\ IsFrame(frames[k])
              /\ Works(frames[k]) =>
                    \/ Works(Top(p)) /\ frames[k].object \in Span(Top(p).object)
                    \/ \E l \in DOMAIN frames : k < l /\ Deletes(frames[l])
                            /\ frames[k].object \in Span(frames[l].object)
              /\ Deletes(frames[k]) =>
                    frames[k].object[1] > copies /\ IsWhole(heap', frames[k].object)
              /\ Executes(frames[k]) => Unfilled(heap', frames[k].object)
              /\ frames[k].op # "blossom"
    <2>1. CASE k = 1
        <3>1. 1 < 2 /\ Deletes(frames[2]) /\ frames[1].object \in Span(frames[2].object)
            BY <1>11, <1>12, <1>14
        <3> QED
            BY <2>1, <3>1, <1>10, <1>11, <1>17
    <2>2. CASE k = 2
        BY <2>2, <1>10, <1>12, <1>15
    <2>3. CASE k = 3
        BY <2>3, <1>13, <1>18, <1>19
    <2> QED
        BY <2>1, <2>2, <2>3, <1>16
<1>20. ASSUME NEW k \in DOMAIN frames, NEW l \in DOMAIN frames, k < l
       PROVE  /\ Works(frames[k]) /\ Works(frames[l]) =>
                    Span(frames[k].object) \cap Span(frames[l].object) = {}
              /\ ~(Deletes(frames[k]) /\ Deletes(frames[l]))
    <2>1. (k = 1 /\ l = 2) \/ (k = 1 /\ l = 3) \/ (k = 2 /\ l = 3)
        BY <1>16, <1>20
    <2> QED
        BY <2>1, <1>11, <1>12, <1>13, <1>20
<1>21. ASSUME NEW m \in DOMAIN heap', m[1] > copies
       PROVE  \E k \in DOMAIN frames : Deletes(frames[k]) /\ m \in Span(frames[k].object)
    BY <1>10, <1>12, <1>17, <1>21
<1>22. Pushes(p, frames) /\ DeletesNew(frames)
    BY <1>19, <1>20, <1>21 DEF Pushes, DeletesNew
<1>23. ~Deletes(Top(p)) /\ Top(p).op # "join"
    BY <1>18 DEF Works, Deletes
<1>24. CopiesOf({}) = {}
    BY DEF CopiesOf
<1>25. /\ Evolves(heap, copies, heap', copies', CopiesOf({}), touched)
       /\ {} = IF Deletes(Top(p)) THEN {TopOwner(p)} ELSE {}
    BY <1>8, <1>23, <1>24
<1> QED
    BY <1>18, <1>22, <1>23, <1>25, ContinueStep

\* What is registered has other copies than what a plan works on.
LEMMA RegisteredIs ==
    ASSUME IInv, NEW p \in DOMAIN plans, plans[p].stack # <<>>, Works(Top(p)),
           NEW n,
           \/ \E id \in DOMAIN trees : n = trees[id]
           \/ \E id \in DOMAIN resources : n = resources[id]
    PROVE  /\ n \in DOMAIN heap /\ Span(n) \subseteq DOMAIN heap /\ Unfilled(heap, n)
           /\ \A m \in Span(Top(p).object) : m \notin Span(n)
<1>1. HeapInv /\ OwnInv /\ PlanInv /\ RegisteredInv
    BY DEF IInv
<1>2. PICK o \in Owned : o[1] \in {"tree", "resource"} /\ o[4] = n
    <2>1. CASE \E id \in DOMAIN trees : n = trees[id]
        <3>1. PICK id \in DOMAIN trees : n = trees[id]
            BY <2>1
        <3>2. PICK o : o = <<"tree", id, 0, trees[id]>>
            OBVIOUS
        <3>3. o \in Owned
            BY <1>1, <3>2, OwnerOfMap
        <3> QED
            BY <3>1, <3>2, <3>3
    <2>2. CASE \E id \in DOMAIN resources : n = resources[id]
        <3>1. PICK id \in DOMAIN resources : n = resources[id]
            BY <2>2
        <3>2. PICK o : o = <<"resource", id, 0, resources[id]>>
            OBVIOUS
        <3>3. o \in Owned
            BY <1>1, <3>2, OwnerOfMap
        <3> QED
            BY <3>1, <3>2, <3>3
    <2> QED
        BY <2>1, <2>2
<1>3. n \in DOMAIN heap /\ Span(n) \subseteq DOMAIN heap
    BY <1>1, <1>2, OwnedCopies
<1>4. Unfilled(heap, n)
    BY <1>1 DEF RegisteredInv
<1>5. PICK q \in Owned : OfPlan(q, p) /\ Top(p).object[1] = q[4][1]
    BY <1>1, TopIs
<1>6. q # o
    BY <1>2, <1>5 DEF OfPlan
<1>7. n[1] # Top(p).object[1]
    BY <1>1, <1>2, <1>5, <1>6 DEF OwnInv
<1>8. ASSUME NEW m \in Span(Top(p).object) PROVE m \notin Span(n)
    BY <1>7, SpanIs
<1> QED
    BY <1>3, <1>4, <1>8

LEMMA ProcessSubtreeStep ==
    ASSUME IInv, NEW p \in DOMAIN plans, ProcessSubtree(p)
    PROVE  StepIsRight
<1>1. IsAt(p, "do")
    BY DEF ProcessSubtree, Starts
<1>2. HeapInv /\ OwnInv /\ PlanInv
    BY DEF IInv
<1>3. TopWorks(p) /\ Top(p).op = "do"
    BY <1>1, <1>2, WorksIs
<1>4. PICK n, id : n = Top(p).object /\ id = Target[n[2]]
    OBVIOUS
<1>5. PICK mem, tree : mem = WithFilled(n) /\ tree = trees[id]
    OBVIOUS
<1>6. PICK all : all = Copy(mem, tree)
    OBVIOUS
<1>7. PICK frames : frames = <<Do(all.made[1]), Delete(all.made[1])>>
    OBVIOUS
<1>8. id \in DOMAIN trees /\ heap' = all.heap /\ copies' = all.copies
      /\ plans' = Replaced(p, frames) /\ Unchanged
    BY <1>4, <1>5, <1>6, <1>7 DEF ProcessSubtree, GetTree, Continue, Use
<1>9. n \in Span(n) /\ n \in DOMAIN heap
    BY <1>3, <1>4 DEF TopWorks
<1>10. /\ tree \in DOMAIN heap /\ Span(tree) \subseteq DOMAIN heap
       /\ Unfilled(heap, tree) /\ n \notin Span(tree)
    <2>1. \/ \E x \in DOMAIN trees : tree = trees[x]
          \/ \E x \in DOMAIN resources : tree = resources[x]
        BY <1>5, <1>8
    <2>2. plans[p].stack # <<>> /\ Works(Top(p))
        BY <1>3 DEF TopWorks
    <2> QED
        BY <2>1, <2>2, <1>4, <1>9, RegisteredIs
<1>11. /\ mem.copies = copies /\ Evolves(heap, copies, mem.heap, copies, {}, {n})
       /\ tree \in DOMAIN mem.heap /\ Unfilled(mem.heap, tree)
    BY <1>2, <1>3, <1>4, <1>5, <1>9, <1>10, TopFilled
<1>12. /\ IsSeq(frames) /\ DOMAIN frames = 1..2
       /\ frames[1] = Do(all.made[1]) /\ frames[2] = Delete(all.made[1])
       /\ 3 \notin DOMAIN frames
    BY <1>7, SmallSeqs
<1>13. {n} \subseteq Span(Top(p).object)
    BY <1>4, <1>9
<1> QED
    BY <1>3, <1>6, <1>8, <1>11, <1>12, <1>13, GoesOnWithCopy

LEMMA ProcessBlossomStep ==
    ASSUME IInv, NEW p \in DOMAIN plans, ProcessBlossom(p)
    PROVE  StepIsRight
<1>1. IsAt(p, "blossom")
    BY DEF ProcessBlossom
<1>2. HeapInv /\ OwnInv /\ PlanInv
    BY DEF IInv
<1>3. TopWorks(p) /\ Top(p).op = "blossom"
    BY <1>1, <1>2, WorksIs
<1>4. PICK group, k : group = Top(p).object /\ k = Top(p).at
    OBVIOUS
<1>5. PICK blossom, id : blossom = PartsOf(p)[k] /\ id = Target[blossom[2]]
    OBVIOUS
<1>6. plans[p].stack # <<>> /\ Works(Top(p))
    BY <1>3 DEF TopWorks
<1>7. k \in DOMAIN PartsOf(p) /\ Kind[group[2]] = "group"
      /\ DOMAIN PartsOf(p) = DOMAIN Parts[group[2]]
      /\ IsSeq(PartsOf(p)) /\ group \in Object /\ group \in Span(group)
    BY <1>2, <1>3, <1>4, <1>6, TopIs DEF TopWorks
<1>8. blossom \in Span(Top(p).object)
    BY <1>3, <1>5, <1>7 DEF TopWorks
<1>9. CASE id \in DOMAIN resources
    <2>1. PICK mem, res : mem = Memory /\ res = resources[id]
        OBVIOUS
    <2>2. PICK all : all = Copy(mem, res)
        OBVIOUS
    <2>3. PICK frames : frames = <<Do(all.made[1]), Delete(all.made[1])>>
        OBVIOUS
    <2>4. heap' = all.heap /\ copies' = all.copies
          /\ plans' = Replaced(p, frames) /\ Unchanged
        BY <1>4, <1>5, <1>9, <2>1, <2>2, <2>3
            DEF ProcessBlossom, GetTree, Continue, Use
    <2>5. res \in DOMAIN heap /\ Unfilled(heap, res)
        <3>1. \/ \E x \in DOMAIN trees : res = trees[x]
              \/ \E x \in DOMAIN resources : res = resources[x]
            BY <2>1, <1>9
        <3> QED
            BY <3>1, <1>6, RegisteredIs
    <2>6. /\ mem.copies = copies /\ mem.heap = heap
          /\ Evolves(heap, copies, mem.heap, copies, {}, {})
        BY <2>1, <1>2, MemoryIs, StaysAsItIs DEF HeapInv
    <2>7. /\ IsSeq(frames) /\ DOMAIN frames = 1..2
          /\ frames[1] = Do(all.made[1]) /\ frames[2] = Delete(all.made[1])
          /\ 3 \notin DOMAIN frames
        BY <2>3, SmallSeqs
    <2>8. {} \subseteq Span(Top(p).object)
        OBVIOUS
    <2>9. res \in DOMAIN mem.heap /\ Unfilled(mem.heap, res)
        BY <2>5, <2>6
    <2> QED
        BY <1>3, <2>2, <2>4, <2>6, <2>7, <2>8, <2>9, GoesOnWithCopy
<1>10. CASE id \notin DOMAIN resources
    <2>1. PICK frames : frames = IF k = Len(PartsOf(p)) THEN <<>>
                                 ELSE <<Frame("blossom", group, k + 1)>>
        OBVIOUS
    <2>2. blossom \in DOMAIN heap
        BY <1>3, <1>8 DEF TopWorks
    <2>3. Continue(p, WithFilled(blossom), frames)
        BY <1>4, <1>5, <1>10, <2>1 DEF ProcessBlossom
    <2>4. /\ heap' = WithFilled(blossom).heap /\ copies' = copies
          /\ plans' = Replaced(p, frames) /\ Unchanged
        BY <2>2, <2>3, MemoryIs DEF Continue, Use
    <2>5. Evolves(heap, copies, heap', copies', {}, {blossom})
        BY <1>2, <1>3, <1>8, <2>4, TopFilled
    <2>6. {blossom} \subseteq Span(Top(p).object)
        BY <1>8
    <2>7. CASE k = Len(PartsOf(p))
        BY <2>1, <2>4, <2>5, <2>6, <2>7, <1>3, GoesOnDone
    <2>8. CASE k # Len(PartsOf(p))
        <3>1. PICK f, at : f = Frame("blossom", group, at) /\ at = k + 1
            OBVIOUS
        <3>2. /\ at \in Nat /\ at \in DOMAIN PartsOf(p)
            <4>1. DOMAIN PartsOf(p) = 1..Len(PartsOf(p)) /\ Len(PartsOf(p)) \in Nat
                BY <1>7, SeqIs
            <4> QED
                BY <4>1, <3>1, <2>8, <1>7
        <3>3. IsFrame(f) /\ f.op = "blossom" /\ f.object = group
              /\ f.at = at /\ Works(f) /\ ~Executes(f)
            BY <3>1, <3>2, <1>7, BlossomIs
        <3>4. plans' = Replaced(p, <<f>>)
            BY <3>1, <2>1, <2>4, <2>8
        <3>5. f.object \in Span(Top(p).object)
            BY <3>3, <1>4, <1>7
        <3>6. Kind[f.object[2]] = "group" /\ f.at \in DOMAIN Parts[f.object[2]]
            BY <3>2, <3>3, <1>7
        <3> QED
            BY <2>4, <2>5, <2>6, <3>3, <3>4, <3>5, <3>6, <1>3, GoesOnWith
    <2> QED
        BY <2>7, <2>8
<1> QED
    BY <1>9, <1>10

LEMMA RunLoopStep ==
    ASSUME IInv, NEW p \in DOMAIN plans, RunLoop(p)
    PROVE  StepIsRight
<1>1. IsAt(p, "loop")
    BY DEF RunLoop
<1>2. HeapInv /\ OwnInv /\ PlanInv
    BY DEF IInv
<1>3. TopWorks(p) /\ Top(p).op = "loop"
    BY <1>1, <1>2, WorksIs
<1>4. PICK content, at, mem : content = Top(p).object /\ at = Top(p).at
                                    /\ mem = Memory
    OBVIOUS
<1>5. /\ mem.copies = copies /\ mem.heap = heap
      /\ Evolves(heap, copies, mem.heap, copies, {}, {})
    BY <1>2, <1>4, MemoryIs, StaysAsItIs DEF HeapInv
<1>6. {} \subseteq Span(Top(p).object)
    OBVIOUS
<1>7. CASE at = 0
    <2>1. heap' = heap /\ copies' = copies /\ plans' = Replaced(p, <<>>) /\ Unchanged
        BY <1>4, <1>5, <1>7 DEF RunLoop, Continue, Use
    <2>2. Evolves(heap, copies, heap', copies', {}, {})
        BY <2>1, <1>5
    <2> QED
        BY <2>1, <2>2, <1>3, <1>6, GoesOnDone
<1>8. CASE at # 0
    <2>1. PICK all : all = Copy(mem, content)
        OBVIOUS
    <2>2. PICK f : f = Frame("loop", content, at - 1)
        OBVIOUS
    <2>3. PICK frames :
            frames = <<Do(all.made[1]), DeleteOnSuccess(all.made[1]), f>>
        OBVIOUS
    <2>4. heap' = all.heap /\ copies' = all.copies
          /\ plans' = Replaced(p, frames) /\ Unchanged
        BY <1>4, <1>8, <2>1, <2>2, <2>3 DEF RunLoop, Continue, Use
    <2>5. /\ content \in DOMAIN heap /\ Unfilled(heap, content)
          /\ content \in Object /\ content \in Span(Top(p).object)
          /\ Span(content) \subseteq DOMAIN heap
        BY <1>3, <1>4 DEF TopWorks, Executes
    <2>6. at \in Nat
        <3>1. IsFrame(Top(p))
            BY <1>2, <1>3, TopIs DEF TopWorks
        <3> QED
            BY <3>1, <1>4 DEF IsFrame
    <2>7. PICK less : less = at - 1
        OBVIOUS
    <2>8. less \in Nat
        BY <2>6, <2>7, <1>8
    <2>9. IsFrame(f) /\ f.op = "loop" /\ f.object = content
        BY <2>2, <2>5, <2>7, <2>8, LoopIs
    <2>10. /\ IsSeq(frames) /\ DOMAIN frames = 1..3
           /\ frames[1] = Do(all.made[1])
           /\ frames[2] = DeleteOnSuccess(all.made[1])
           /\ frames[3] = f
        BY <2>3, SmallSeqs
    <2>11. Unfilled(heap', content)
        <3>1. PICK objects : objects = <<content>>
            OBVIOUS
        <3>2. objects \in Seq(DOMAIN mem.heap)
            <4>1. PICK S : S = DOMAIN mem.heap
                OBVIOUS
            <4>2. objects \in Seq(S)
                BY <3>1, <4>1, <2>5, <1>5
            <4> QED
                BY <4>1, <4>2
        <3>3. all = CopyAll(mem, objects)
            BY <3>1, <2>1 DEF Copy
        <3>4. Shaped(mem.heap, mem.copies) /\ Bounded(mem.heap)
            BY <1>5 DEF Evolves
        <3>5. Evolves(mem.heap, mem.copies, all.heap, all.copies, {}, {})
            BY <3>2, <3>3, <3>4, CopyAllIs
        <3>6. Span(content) \cap {} = {} /\ content[1] \notin {}
            OBVIOUS
        <3>7. Span(content) \subseteq DOMAIN mem.heap /\ Unfilled(mem.heap, content)
            BY <2>5, <1>5
        <3>8. Unfilled(all.heap, content)
            BY <3>5, <3>6, <3>7, UnfilledStays
        <3> QED
            BY <3>8, <2>4
    <2>12. content \in DOMAIN mem.heap /\ Unfilled(mem.heap, content)
        BY <2>5, <1>5
    <2>13. /\ IsFrame(frames[3]) /\ frames[3].op = "loop"
           /\ frames[3].object \in Span(Top(p).object)
           /\ Unfilled(heap', frames[3].object)
        BY <2>5, <2>9, <2>10, <2>11
    <2> QED
        BY <1>3, <1>5, <1>6, <2>1, <2>4, <2>10, <2>12, <2>13, GoesOnWithCopy
<1> QED
    BY <1>7, <1>8

LEMMA DeleteObjectStep ==
    ASSUME IInv, NEW p \in DOMAIN plans, DeleteObject(p)
    PROVE  StepIsRight
<1>1. plans[p].stack # <<>> /\ Deletes(Top(p)) /\ ~Works(Top(p))
      /\ Top(p).op # "join"
    BY DEF DeleteObject, IsAt, Deletes, Works
<1>2. HeapInv /\ OwnInv /\ PlanInv
    BY DEF IInv
<1>3. PICK n, frames : n = Top(p).object /\ frames = <<>>
    OBVIOUS
<1>4. heap' = Without(heap, {n}) /\ copies' = copies
      /\ plans' = Replaced(p, frames) /\ Unchanged
    <2>1. PICK mem : mem = [Memory EXCEPT !.heap = Without(heap, {Top(p).object})]
        OBVIOUS
    <2>2. mem.heap = Without(heap, {n}) /\ mem.copies = copies
        BY <2>1, <1>3 DEF Memory
    <2>3. Continue(p, mem, <<>>)
        BY <2>1 DEF DeleteObject
    <2> QED
        BY <2>2, <2>3, <1>3 DEF Continue, Use
<1>5. TopOwner(p) \in Owned /\ TopOwner(p)[4] = n
    BY <1>1, <1>2, <1>3, TopIs DEF TopOwner
<1>6. IsWhole(heap, n)
    BY <1>2, <1>5 DEF OwnInv
<1>7. Evolves(heap, copies, heap', copies', CopiesOf({TopOwner(p)}), {})
    <2>1. \A m \in {n} : IsWhole(heap, m)
        BY <1>6
    <2>2. Evolves(heap, copies, heap', copies, {m[1] : m \in {n}}, {})
        BY <1>2, <1>4, <2>1, WithoutIs DEF HeapInv
    <2>3. {m[1] : m \in {n}} = CopiesOf({TopOwner(p)})
        BY <1>5 DEF CopiesOf
    <2> QED
        BY <2>2, <2>3, <1>4
<1>8. IsSeq(frames) /\ DOMAIN frames = {}
    BY <1>3, EmptyIs
<1>9. ASSUME NEW m \in DOMAIN heap' PROVE ~(m[1] > copies)
    <2>1. m[1] \in 1..copies /\ copies \in Nat
        BY <1>4, <1>7, ShapedObject DEF Evolves
    <2> QED
        BY <2>1
<1>10. Pushes(p, frames) /\ DeletesNew(frames)
    BY <1>8, <1>9 DEF Pushes, DeletesNew
<1>11. {TopOwner(p)} = IF Deletes(Top(p)) THEN {TopOwner(p)} ELSE {}
    BY <1>1
<1> QED
    BY <1>1, <1>4, <1>7, <1>10, <1>11, ContinueStep

-----------------------------------------------------------------------------
(* A plan that fails.                                                      *)

\* The deleting frames of plan p that an error unwinds.
UnwoundOwners(p) ==
    {o \in Owned : \E k \in DOMAIN plans[p].stack :
        /\ plans[p].stack[k].op = "delete"
        /\ o = <<"frame", p, Len(plans[p].stack) - k, plans[p].stack[k].object>>}

LEMMA UnwoundIs ==
    ASSUME HeapInv, OwnInv, PlanInv, NEW p \in DOMAIN plans
    PROVE  /\ Unwound(p) = {o[4] : o \in UnwoundOwners(p)}
           /\ \A o \in UnwoundOwners(p) : o \in Owned /\ o[1] = "frame" /\ o[2] = p
<1> DEFINE s == plans[p].stack
           Owner(k) == <<"frame", p, Len(s) - k, s[k].object>>
<1>1. ASSUME NEW k \in DOMAIN s, s[k].op = "delete"
      PROVE  Owner(k) \in UnwoundOwners(p) /\ Owner(k)[4] = s[k].object
    <2>1. IsFrame(s[k]) /\ s[k].op # "join"
        BY <1>1 DEF PlanInv, StackInv
    <2>2. s[k].object \in Object
        BY <2>1 DEF IsFrame
    <2>3. s[k].object # NoObject
        BY <2>2, NoObjectIsNone
    <2>4. IsOwner(Owner(k), output, trees, resources, plans)
        BY <1>1, <2>3 DEF IsOwner, Deletes
    <2>5. Owner(k) \in Owned
        BY <2>4, OwnedIs
    <2> QED
        BY <1>1, <2>5 DEF UnwoundOwners
<1>2. \A n : n \in Unwound(p) <=> \E k \in DOMAIN s : s[k].op = "delete" /\ n = s[k].object
    BY DEF Unwound, ToSet
<1>3. ASSUME NEW o \in UnwoundOwners(p)
      PROVE  /\ o \in Owned /\ o[1] = "frame" /\ o[2] = p
             /\ \E k \in DOMAIN s : s[k].op = "delete" /\ o[4] = s[k].object
    <2>1. PICK k \in DOMAIN s : s[k].op = "delete" /\ o = Owner(k)
        BY DEF UnwoundOwners
    <2> QED
        BY <2>1 DEF UnwoundOwners
<1>4. ASSUME NEW n \in Unwound(p) PROVE \E o \in UnwoundOwners(p) : n = o[4]
    <2>1. PICK k \in DOMAIN s : s[k].op = "delete" /\ n = s[k].object
        BY <1>2
    <2>2. PICK o : o = Owner(k)
        OBVIOUS
    <2>3. o \in UnwoundOwners(p) /\ o[4] = n
        BY <2>1, <2>2, <1>1
    <2> QED
        BY <2>3
<1>5. ASSUME NEW o \in UnwoundOwners(p) PROVE o[4] \in Unwound(p)
    BY <1>2, <1>3
<1> QED
    BY <1>3, <1>4, <1>5

\* Some owners delete what they have, and nothing else happens to the memory.
LEMMA DeletionIs ==
    ASSUME HeapInv, OwnInv, copies' = copies, NEW p, NEW gone, gone \subseteq Owned,
           \A o \in gone : o[1] \in {"output", "plan", "frame"},
           heap' = Without(heap, {o[4] : o \in gone})
    PROVE  /\ SafeStep(gone, {}, p)
           /\ \A m \in DOMAIN heap' : ~(m[1] > copies)
<1>1. Evolves(heap, copies, heap', copies', CopiesOf(gone), {})
    <2>1. PICK objects : objects = {o[4] : o \in gone}
        OBVIOUS
    <2>2. \A n \in objects : IsWhole(heap, n)
        BY <2>1 DEF OwnInv
    <2>3. Evolves(heap, copies, heap', copies, {n[1] : n \in objects}, {})
        BY <2>1, <2>2, WithoutIs DEF HeapInv
    <2>4. {n[1] : n \in objects} = CopiesOf(gone)
        BY <2>1 DEF CopiesOf
    <2> QED
        BY <2>3, <2>4
<1>2. ASSUME NEW m \in DOMAIN heap' PROVE ~(m[1] > copies)
    <2>1. m[1] \in 1..copies /\ copies \in Nat
        BY <1>1, ShapedObject DEF Evolves
    <2> QED
        BY <2>1
<1> QED
    BY <1>1, <1>2 DEF SafeStep

\* A step of the plans that deletes what some owners have, and makes nothing.
LEMMA EndStep ==
    ASSUME IInv, Unchanged, copies' = copies, NEW p, NEW gone, gone \subseteq Owned,
           \A o \in gone : o[1] \in {"plan", "frame"},
           heap' = Without(heap, {o[4] : o \in gone}),
           IsSeq(plans'), \A q \in DOMAIN plans' : IsPlanOf(heap', plans', q),
           \A o \in Owned' : o \in Owned \ gone,
           Failing \/ \A o \in Owned \ gone : o \in Owned'
    PROVE  StepIsRight
<1>1. HeapInv /\ OwnInv /\ PlanInv /\ RegisteredInv
    BY DEF IInv
<1>2. SafeStep(gone, {}, p) /\ \A m \in DOMAIN heap' : ~(m[1] > copies)
    BY <1>1, DeletionIs
<1>3. \A o \in Owned : o[4][1] \in 1..copies /\ copies \in Nat
    BY <1>1, OwnedCopies
<1>4. OwnersStep(gone)
    BY <1>3 DEF OwnersStep
<1>5. PlanInv'
    BY PlanInvIs
<1>6. RegisteredInv'
    BY <1>1, <1>2, MapsStay DEF Unchanged
<1>7. Failing \/ KeepsStep(gone)
    BY <1>2 DEF KeepsStep
<1> QED
    BY <1>2, <1>4, <1>5, <1>6, <1>7, Concluded

\* The plans when p ends with an error.
EndedWithError(p) == [plans EXCEPT ![p].stack = <<>>, ![p].failed = TRUE]

LEMMA EndedIs ==
    ASSUME PlanInv, NEW p \in DOMAIN plans, NEW ps, ps = EndedWithError(p)
    PROVE  /\ IsSeq(ps) /\ DOMAIN ps = DOMAIN plans
           /\ \A q \in DOMAIN plans : q # p => ps[q] = plans[q]
           /\ IsPlan(ps[p]) /\ ps[p].stack = <<>> /\ ps[p].failed
           /\ ps[p].root = plans[p].root /\ ps[p].parent = plans[p].parent
           /\ \A o : IsOwner(o, output, trees, resources, ps) =>
                o \in Owned /\ ~(o[1] = "frame" /\ o[2] = p)
           /\ \A h : StackInv(h, ps[p].root, ps[p].stack)
<1>1. IsSeq(plans) /\ IsPlan(plans[p])
    BY DEF PlanInv
<1>2. PICK a, b, c, d : a = plans[p].parent /\ b = plans[p].root
                            /\ c = plans[p].stack /\ d = plans[p].failed
    OBVIOUS
<1>3. plans[p] = [parent |-> a, root |-> b, stack |-> c, failed |-> d]
    BY <1>1, <1>2 DEF IsPlan
<1>4. /\ DOMAIN ps = DOMAIN plans
      /\ \A q \in DOMAIN plans : q # p => ps[q] = plans[q]
      /\ ps[p] = [plans[p] EXCEPT !.stack = <<>>, !.failed = TRUE]
    BY DEF EndedWithError
<1>5. ps[p] = [parent |-> a, root |-> b, stack |-> <<>>, failed |-> TRUE]
    <2>1. PICK r, none, yes :
            /\ r = [parent |-> a, root |-> b, stack |-> c, failed |-> d]
            /\ none = <<>> /\ yes = TRUE
        OBVIOUS
    <2>2. ps[p] = [r EXCEPT !.stack = none, !.failed = yes]
        BY <2>1, <1>3, <1>4, Zenon
    <2>3. PICK x : x = [r EXCEPT !.stack = none]
        OBVIOUS
    <2>4. x = [parent |-> a, root |-> b, stack |-> none, failed |-> d]
        <3>1. r = [parent |-> a, root |-> b, stack |-> c, failed |-> d]
            BY <2>1
        <3> QED
            BY <3>1, <2>3
    <2>5. [x EXCEPT !.failed = yes]
            = [parent |-> a, root |-> b, stack |-> none, failed |-> yes]
        BY <2>4
    <2>6. [r EXCEPT !.stack = none, !.failed = yes] = [x EXCEPT !.failed = yes]
        BY <2>3, Zenon
    <2>7. ps[p] = [parent |-> a, root |-> b, stack |-> none, failed |-> yes]
        BY <2>2, <2>5, <2>6
    <2> QED
        BY <2>1, <2>7, Zenon
<1>6. ps[p].parent = a /\ ps[p].root = b /\ ps[p].stack = <<>> /\ ps[p].failed = TRUE
    BY <1>5
<1>7. IsPlan(ps[p])
    <2>1. a \in Nat /\ (b = NoObject \/ b \in Object)
        BY <1>1, <1>2 DEF IsPlan
    <2>2. IsSeq(<<>>)
        BY EmptyIs
    <2>3. ps[p] = [parent |-> ps[p].parent, root |-> ps[p].root,
                   stack |-> ps[p].stack, failed |-> ps[p].failed]
        BY <1>5, <1>6
    <2> QED
        BY <2>1, <2>2, <2>3, <1>6 DEF IsPlan
<1>8. IsSeq(ps)
    <2>1. Len(plans) \in Nat /\ DOMAIN plans = 1..Len(plans)
        BY <1>1, SeqIs
    <2>2. DOMAIN ps = 1..Len(plans) /\ ps = [q \in 1..Len(plans) |-> ps[q]]
        BY <2>1, <1>4 DEF EndedWithError
    <2> QED
        BY <2>1, <2>2, MakesSeq
<1>9. DOMAIN ps[p].stack = {}
    BY <1>6, EmptyIs
<1>10. ASSUME NEW o, IsOwner(o, output, trees, resources, ps)
       PROVE  o \in Owned /\ ~(o[1] = "frame" /\ o[2] = p)
    <2>1. o[4] # NoObject
        BY <1>10 DEF IsOwner
    <2>2. CASE \/ o = <<"output", 0, 0, output>>
               \/ \E id \in DOMAIN trees : o = <<"tree", id, 0, trees[id]>>
               \/ \E id \in DOMAIN resources : o = <<"resource", id, 0, resources[id]>>
               \/ \E q \in DOMAIN ps : o = <<"plan", q, 0, ps[q].root>>
        <3>1. \A q \in DOMAIN ps : q \in DOMAIN plans /\ ps[q].root = plans[q].root
            BY <1>2, <1>4, <1>6
        <3>2. IsOwner(o, output, trees, resources, plans)
            BY <2>1, <2>2, <3>1 DEF IsOwner
        <3>3. o[1] # "frame"
            BY <2>2
        <3> QED
            BY <3>2, <3>3, OwnedIs
    <2>3. CASE \E q \in DOMAIN ps : \E k \in DOMAIN ps[q].stack :
                /\ Deletes(ps[q].stack[k])
                /\ o = <<"frame", q, Len(ps[q].stack) - k, ps[q].stack[k].object>>
        <3>1. PICK q \in DOMAIN ps : \E k \in DOMAIN ps[q].stack :
                /\ Deletes(ps[q].stack[k])
                /\ o = <<"frame", q, Len(ps[q].stack) - k, ps[q].stack[k].object>>
            BY <2>3
        <3>2. q # p
            BY <3>1, <1>9
        <3>3. ps[q] = plans[q] /\ q \in DOMAIN plans
            BY <3>2, <1>4
        <3>4. IsOwner(o, output, trees, resources, plans)
            BY <2>1, <3>1, <3>3 DEF IsOwner
        <3>5. o[2] = q
            BY <3>1
        <3> QED
            BY <3>2, <3>4, <3>5, OwnedIs
    <2> QED
        BY <1>10, <2>2, <2>3 DEF IsOwner
<1>11. \A h : StackInv(h, ps[p].root, ps[p].stack)
    BY <1>9 DEF StackInv
<1> QED
    BY <1>2, <1>4, <1>6, <1>7, <1>8, <1>10, <1>11

LEMMA FailStep ==
    ASSUME IInv, NEW p \in DOMAIN plans, Fail(p)
    PROVE  StepIsRight
<1>1. HeapInv /\ OwnInv /\ PlanInv
    BY DEF IInv
<1>2. plans[p].stack # <<>> /\ ~Waits(plans[p])
    BY DEF Fail, IsAt, Waits, Top
<1>3. PICK gone : gone = UnwoundOwners(p)
    OBVIOUS
<1>4. /\ Unchanged /\ copies' = copies
      /\ heap' = Without(heap, {o[4] : o \in gone})
      /\ plans' = EndedWithError(p)
    BY <1>1, <1>3, UnwoundIs DEF Fail, EndedWithError
<1>5. gone \subseteq Owned /\ \A o \in gone : o[1] = "frame" /\ o[2] = p
    BY <1>1, <1>3, UnwoundIs
<1>6. /\ IsSeq(plans') /\ DOMAIN plans' = DOMAIN plans
      /\ \A q \in DOMAIN plans : q # p => plans'[q] = plans[q]
      /\ IsPlan(plans'[p]) /\ plans'[p].stack = <<>> /\ plans'[p].failed
      /\ plans'[p].root = plans[p].root /\ plans'[p].parent = plans[p].parent
      /\ \A o : IsOwner(o, output, trees, resources, plans') =>
            o \in Owned /\ ~(o[1] = "frame" /\ o[2] = p)
      /\ \A h : StackInv(h, plans'[p].root, plans'[p].stack)
    <2>1. PICK ps : ps = EndedWithError(p)
        OBVIOUS
    <2>2. plans' = ps
        BY <2>1, <1>4
    <2> QED
        BY <2>1, <2>2, <1>1, EndedIs
<1>7. Failing
    <2>1. ~plans[p].failed
        BY <1>1, <1>2 DEF PlanInv, IsPlan
    <2> QED
        BY <2>1, <1>6 DEF Failing
<1>8. \A o \in Owned' : o \in Owned \ gone
    <2>1. ASSUME NEW o \in Owned' PROVE IsOwner(o, output, trees, resources, plans')
        BY <1>4, OwnedIs DEF Unchanged
    <2> QED
        BY <2>1, <1>5, <1>6
<1>9. SafeStep(gone, {}, p)
    BY <1>1, <1>4, <1>5, DeletionIs
<1>10. ASSUME NEW q \in DOMAIN plans PROVE IsPlanOf(heap', plans', q)
    <2>1. IsPlanOf(heap, plans, q)
        BY <1>1, PlanInvIs
    <2>2. q # 1 /\ plans[q] # Deleted =>
            plans[q].parent \in DOMAIN plans /\ Waits(plans[plans[q].parent])
        <3>1. DOMAIN plans = 1..Len(plans) /\ Len(plans) \in Nat
            BY <1>1, SeqIs DEF PlanInv
        <3> QED
            BY <3>1, <2>1 DEF IsPlanOf
    <2>3. q # 1 /\ plans[q] # Deleted => Waits(plans'[plans[q].parent])
        BY <2>2, <1>2, <1>6
    <2>4. CASE q = p
        <3>1. plans[q] # Deleted
            BY <2>4, <1>2 DEF Deleted, Plan
        <3> QED
            BY <3>1, <2>1, <2>3, <2>4, <1>6 DEF IsPlanOf
    <2>5. CASE q # p
        <3>1. plans'[q] = plans[q]
            BY <2>5, <1>6
        <3>2. \A o \in gone : ~OfPlan(o, q)
            BY <1>5, <2>5 DEF OfPlan
        <3>3. StackInv(heap', plans[q].root, plans[q].stack)
            BY <1>1, <1>9, <2>5, <3>2, OtherStackStays
        <3> QED
            BY <3>1, <3>3, <2>1, <2>3 DEF IsPlanOf
    <2> QED
        BY <2>4, <2>5
<1> QED
    BY <1>4, <1>5, <1>6, <1>7, <1>8, <1>10, EndStep

-----------------------------------------------------------------------------
(* Child plans.                                                            *)

\* ps with plans for the objects in made, that wait for nothing.
Born(ps, p, made) ==
    ps \o [k \in DOMAIN made |-> Plan(p, made[k], <<Do(made[k])>>)]

AreBorn(all, ps, p, made) ==
    /\ IsSeq(all) /\ DOMAIN all = 1..(Len(ps) + Len(made))
    /\ Len(ps) \in Nat /\ DOMAIN ps = 1..Len(ps)
    /\ Len(made) \in Nat /\ DOMAIN made = 1..Len(made)
    /\ \A q \in DOMAIN ps : q \in DOMAIN all /\ all[q] = ps[q]
    /\ \A k \in DOMAIN made :
        /\ Len(ps) + k \in DOMAIN all
        /\ IsPlan(all[Len(ps) + k])
        /\ all[Len(ps) + k].parent = p /\ all[Len(ps) + k].root = made[k]
        /\ all[Len(ps) + k].stack = <<Do(made[k])>>
    /\ \A q \in DOMAIN all :
        q \in DOMAIN ps \/ \E k \in DOMAIN made : q = Len(ps) + k

LEMMA BornIs ==
    ASSUME NEW ps, IsSeq(ps), NEW p \in Nat, NEW made, IsSeq(made),
           \A k \in DOMAIN made : made[k] \in Object,
           NEW all, all = Born(ps, p, made)
    PROVE  AreBorn(all, ps, p, made)
<1>1. PICK new : new = [k \in DOMAIN made |-> Plan(p, made[k], <<Do(made[k])>>)]
    OBVIOUS
<1>2. Len(made) \in Nat /\ DOMAIN made = 1..Len(made)
      /\ Len(ps) \in Nat /\ DOMAIN ps = 1..Len(ps)
    BY SeqIs
<1>3. IsSeq(new) /\ Len(new) = Len(made)
    <2>1. DOMAIN new = 1..Len(made) /\ new = [k \in 1..Len(made) |-> new[k]]
        BY <1>1, <1>2
    <2> QED
        BY <2>1, <1>2, MakesSeq
<1>4. all = ps \o new
    BY <1>1 DEF Born
<1>5. IsSeq(all) /\ Len(all) = Len(ps) + Len(new)
    BY <1>3, <1>4, ConcatIs
<1>6. \A i \in 1..Len(ps) : all[i] = ps[i]
    BY <1>3, <1>4, ConcatIs
<1>7. \A i \in 1..Len(new) : all[Len(ps) + i] = new[i]
    BY <1>3, <1>4, ConcatIs
<1>8. DOMAIN all = 1..(Len(ps) + Len(made))
    BY <1>3, <1>5, SeqIs
<1>9. ASSUME NEW k \in DOMAIN made, NEW r, r = new[k]
      PROVE  /\ IsPlan(r) /\ r.parent = p /\ r.root = made[k]
             /\ r.stack = <<Do(made[k])>>
    <2>1. PICK n, s : n = made[k] /\ s = <<Do(made[k])>>
        OBVIOUS
    <2>2. r = [parent |-> p, root |-> n, stack |-> s, failed |-> FALSE]
        BY <1>1, <1>9, <2>1 DEF Plan
    <2>3. r.parent = p /\ r.root = n /\ r.stack = s /\ r.failed = FALSE
        BY <2>2
    <2>4. r = [parent |-> r.parent, root |-> r.root, stack |-> r.stack,
               failed |-> r.failed]
        BY <2>2, <2>3
    <2>5. IsSeq(s)
        BY <2>1, SmallSeqs
    <2>6. IsPlan(r)
        BY <2>1, <2>3, <2>4, <2>5 DEF IsPlan
    <2> QED
        BY <2>1, <2>3, <2>6
<1>10. ASSUME NEW k \in DOMAIN made
       PROVE  Len(ps) + k \in DOMAIN all /\ all[Len(ps) + k] = new[k]
    BY <1>2, <1>3, <1>7, <1>8
<1>11. ASSUME NEW q \in DOMAIN all, q \notin DOMAIN ps
       PROVE  \E k \in DOMAIN made : q = Len(ps) + k
    <2>1. q - Len(ps) \in DOMAIN made /\ q = Len(ps) + (q - Len(ps))
        BY <1>2, <1>8, <1>11
    <2> QED
        BY <2>1
<1>12. \A q \in DOMAIN ps : q \in DOMAIN all /\ all[q] = ps[q]
    BY <1>2, <1>6, <1>8
<1> QED
    BY <1>2, <1>5, <1>8, <1>9, <1>10, <1>11, <1>12 DEF AreBorn

\* Each of them owns the object that it executes.
LEMMA BornOwners ==
    ASSUME NEW ps, IsSeq(ps), NEW p \in Nat, NEW made, IsSeq(made),
           \A k \in DOMAIN made : made[k] \in Object,
           NEW all, all = Born(ps, p, made), NEW out, NEW ts, NEW rs
    PROVE  \A o : IsOwner(o, out, ts, rs, all) <=>
                \/ IsOwner(o, out, ts, rs, ps)
                \/ \E k \in DOMAIN made : o = <<"plan", Len(ps) + k, 0, made[k]>>
<1>1. /\ \A q \in DOMAIN ps : q \in DOMAIN all /\ all[q] = ps[q]
      /\ \A k \in DOMAIN made :
            /\ Len(ps) + k \in DOMAIN all
            /\ all[Len(ps) + k].root = made[k]
            /\ all[Len(ps) + k].stack = <<Do(made[k])>>
      /\ \A q \in DOMAIN all :
            q \in DOMAIN ps \/ \E k \in DOMAIN made : q = Len(ps) + k
    <2>1. AreBorn(all, ps, p, made)
        BY BornIs
    <2> QED
        BY <2>1 DEF AreBorn
<1>2. ASSUME NEW o, IsOwner(o, out, ts, rs, ps) PROVE IsOwner(o, out, ts, rs, all)
    BY <1>1, <1>2 DEF IsOwner
<1>3. ASSUME NEW k \in DOMAIN made, NEW o, o = <<"plan", Len(ps) + k, 0, made[k]>>
      PROVE  IsOwner(o, out, ts, rs, all)
    <2>1. o[4] # NoObject
        BY <1>3, NoObjectIsNone
    <2> QED
        BY <2>1, <1>1, <1>3 DEF IsOwner
<1>4. ASSUME NEW o, IsOwner(o, out, ts, rs, all), ~IsOwner(o, out, ts, rs, ps)
      PROVE  \E k \in DOMAIN made : o = <<"plan", Len(ps) + k, 0, made[k]>>
    <2>1. CASE \E q \in DOMAIN all : o = <<"plan", q, 0, all[q].root>>
        <3>1. PICK q \in DOMAIN all : o = <<"plan", q, 0, all[q].root>>
            BY <2>1
        <3>2. q \notin DOMAIN ps
            BY <3>1, <1>1, <1>4 DEF IsOwner
        <3> QED
            BY <3>1, <3>2, <1>1
    <2>2. CASE \E q \in DOMAIN all : \E k \in DOMAIN all[q].stack :
                /\ Deletes(all[q].stack[k])
                /\ o = <<"frame", q, Len(all[q].stack) - k, all[q].stack[k].object>>
        <3>1. PICK q \in DOMAIN all : \E k \in DOMAIN all[q].stack :
                /\ Deletes(all[q].stack[k])
                /\ o = <<"frame", q, Len(all[q].stack) - k, all[q].stack[k].object>>
            BY <2>2
        <3>2. q \notin DOMAIN ps
            BY <3>1, <1>1, <1>4 DEF IsOwner
        <3>3. PICK x \in DOMAIN made : q = Len(ps) + x
            BY <3>2, <1>1
        <3>4. PICK s, f : s = all[q].stack /\ f = Do(made[x])
            OBVIOUS
        <3>5. s = <<f>>
            BY <3>3, <3>4, <1>1
        <3>6. DOMAIN s = 1..1 /\ s[1] = f
            BY <3>5, SmallSeqs
        <3>7. PICK k \in DOMAIN s : Deletes(s[k])
            BY <3>1, <3>4
        <3>8. Deletes(f)
            BY <3>6, <3>7
        <3>9. f.op = "do"
            BY <3>4, DoIs
        <3> QED
            BY <3>8, <3>9 DEF Deletes
    <2> QED
        BY <2>1, <2>2, <1>4 DEF IsOwner
<1> QED
    BY <1>2, <1>3, <1>4

LEMMA JoinIs ==
    ASSUME NEW number \in Nat, NEW f, f = Join(number)
    PROVE  /\ IsFrame(f) /\ f.op = "join" /\ ~Works(f) /\ ~Deletes(f)
           /\ ~Executes(f) /\ f.at = number
<1>1. PICK op, n : op = "join" /\ n = NoObject
    OBVIOUS
<1>2. f = [op |-> op, object |-> n, at |-> number]
    BY <1>1 DEF Join, Frame
<1>3. f.op = op /\ f.object = n /\ f.at = number
    BY <1>2
<1>4. f = [op |-> f.op, object |-> f.object, at |-> f.at]
    BY <1>2, <1>3
<1> QED
    BY <1>1, <1>3, <1>4 DEF IsFrame, Works, Deletes, Executes

LEMMA WorkIsSafe ==
    ASSUME HeapInv, OwnInv, PlanInv, NEW p \in DOMAIN plans, TopWorks(p),
           NEW touched, touched \subseteq Span(Top(p).object),
           Evolves(heap, copies, heap', copies', {}, touched)
    PROVE  SafeStep({}, touched, p)
<1>1. ASSUME NEW m \in touched
      PROVE  \E o \in Owned : OfPlan(o, p) /\ m[1] = o[4][1]
    <2>1. PICK o \in Owned : OfPlan(o, p) /\ Top(p).object[1] = o[4][1]
        BY TopIs DEF TopWorks
    <2>2. m[1] = Top(p).object[1]
        BY SpanIs
    <2> QED
        BY <2>1, <2>2
<1>2. CopiesOf({}) = {}
    BY DEF CopiesOf
<1> QED
    BY <1>1, <1>2 DEF SafeStep

\* A plan that works has no child plans.
LEMMA WorksAlone ==
    ASSUME PlanInv, NEW p \in DOMAIN plans, ~Waits(plans[p])
    PROVE  ChildsIn(plans, p) = {}
<1>1. DOMAIN plans = 1..Len(plans) /\ Len(plans) \in Nat
    BY SeqIs DEF PlanInv
<1>2. ASSUME NEW c \in DOMAIN plans, plans[c].parent = p PROVE FALSE
    <2>1. IsPlanOf(heap, plans, c)
        BY PlanInvIs
    <2>2. Deleted.parent = 0 /\ p # 0
        BY <1>1 DEF Deleted, Plan
    <2> QED
        BY <2>1, <2>2, <1>2 DEF IsPlanOf
<1> QED
    BY <1>2 DEF ChildsIn

\* It announces as many new plans as there are.
LEMMA SpawnCounts ==
    ASSUME PlanInv, CountInv, NEW p \in DOMAIN plans, ~Waits(plans[p]),
           NEW number \in Nat, NEW frames, frames = <<Join(number)>>,
           NEW ps, NEW t, Restacked(ps, p, frames, t),
           NEW made, AreBorn(plans', ps, p, made),
           earlier' = With(earlier, [c \in DOMAIN plans' \ DOMAIN plans |-> 0]),
           earlier[p] = 0, number = Len(made), number < CounterRange
    PROVE  CountInv'
<1>1. /\ DOMAIN ps = DOMAIN plans /\ DOMAIN earlier = DOMAIN plans
      /\ DOMAIN ps = 1..Len(ps) /\ Len(ps) \in Nat
      /\ DOMAIN plans' = 1..(Len(ps) + Len(made)) /\ Len(made) \in Nat
      /\ DOMAIN made = 1..Len(made)
    BY DEF Restacked, AreBorn, CountInv
<1>2. /\ DOMAIN earlier' = DOMAIN plans'
      /\ \A q \in DOMAIN plans : earlier'[q] = earlier[q]
    BY <1>1 DEF With
<1>3. /\ \A q \in DOMAIN plans : q # p => plans'[q] = plans[q]
      /\ plans'[p].stack = t
      /\ \A q \in DOMAIN plans : plans'[q].parent = plans[q].parent
      /\ OnTop(t, frames, plans[p].stack)
    BY <1>1 DEF Restacked, AreBorn
<1>4. ASSUME NEW q \in DOMAIN plans', q \notin DOMAIN plans
      PROVE  /\ plans'[q].parent = p
             /\ \A k \in DOMAIN plans'[q].stack : plans'[q].stack[k].op # "join"
    <2>1. PICK k \in DOMAIN made : q = Len(ps) + k
        BY <1>1, <1>4 DEF AreBorn
    <2>2. plans'[q].parent = p /\ plans'[q].stack = <<Do(made[k])>>
        BY <2>1 DEF AreBorn
    <2>3. PICK f, op : f = Do(made[k]) /\ op = "do"
        OBVIOUS
    <2>4. f.op = op
        BY <2>3 DEF Do, Frame
    <2>5. DOMAIN <<f>> = 1..1 /\ <<f>>[1] = f
        BY SmallSeqs
    <2> QED
        BY <2>2, <2>3, <2>4, <2>5
<1>5. ChildsIn(plans', p) = (Len(ps) + 1)..(Len(ps) + Len(made))
    <2>1. \A q \in DOMAIN plans : plans[q].parent # p
        BY WorksAlone DEF ChildsIn
    <2>2. \A q : q \in ChildsIn(plans', p) <=> q \in DOMAIN plans' /\ q \notin DOMAIN plans
        BY <2>1, <1>1, <1>3, <1>4 DEF ChildsIn
    <2>3. PICK l, n : l = Len(ps) /\ n = Len(made)
        OBVIOUS
    <2>4. l \in Nat /\ n \in Nat /\ DOMAIN plans = 1..l /\ DOMAIN plans' = 1..(l + n)
        BY <2>3, <1>1
    <2>5. \A q : q \in 1..(l + n) /\ q \notin 1..l <=> q \in (l + 1)..(l + n)
        BY <2>4
    <2> QED
        BY <2>2, <2>3, <2>4, <2>5
<1>6. IsFiniteSet(ChildsIn(plans', p)) /\ Cardinality(ChildsIn(plans', p)) = Len(made)
    <2>1. PICK a, b : a = Len(ps) + 1 /\ b = Len(ps) + Len(made)
        OBVIOUS
    <2>2. a \in Int /\ b \in Int /\ (a > b => Len(made) = 0) /\ (b - a) + 1 = Len(made)
        BY <2>1, <1>1
    <2>3. IsFiniteSet(a..b) /\ Cardinality(a..b) = IF a > b THEN 0 ELSE (b - a) + 1
        BY <2>2, FS_Interval
    <2> QED
        BY <2>1, <2>2, <2>3, <1>5
<1>7. ASSUME NEW q \in DOMAIN plans, q # p
      PROVE  ChildsIn(plans', q) = ChildsIn(plans, q)
    BY <1>1, <1>3, <1>4, <1>7 DEF ChildsIn
<1>8. ASSUME NEW k \in DOMAIN t, t[k].op = "join"
      PROVE  Counts(plans', earlier', p, k)
    <2>1. k \in DOMAIN frames /\ t[k] = frames[k]
        BY <1>3, <1>8, RestWaitsForNothing
    <2>2. DOMAIN frames = 1..1 /\ frames[1] = Join(number)
        BY SmallSeqs
    <2>3. Join(number).at = number
        BY JoinIs
    <2>4. k = 1 /\ t[k].at = number
        BY <2>1, <2>2, <2>3
    <2> QED
        BY <2>4, <1>2, <1>3, <1>6 DEF Counts
<1>9. ASSUME NEW q \in DOMAIN plans', NEW k \in DOMAIN plans'[q].stack,
             plans'[q].stack[k].op = "join"
      PROVE  \/ /\ q \in DOMAIN plans /\ k \in DOMAIN plans[q].stack
                /\ plans'[q].stack[k] = plans[q].stack[k]
                /\ earlier'[q] = earlier[q]
                /\ ChildsIn(plans', q) = ChildsIn(plans, q)
             \/ Counts(plans', earlier', q, k)
    <2>1. q \in DOMAIN plans
        BY <1>4, <1>9
    <2>2. CASE q = p
        BY <2>2, <1>3, <1>8, <1>9
    <2>3. CASE q # p
        BY <2>1, <2>3, <1>2, <1>3, <1>7, <1>9
    <2> QED
        BY <2>2, <2>3
<1> QED
    BY <1>2, <1>9, CountsStay

\* Counters stay right, as long as a step announces what can be counted.
StepCounts == CountInv /\ orderly' => CountInv'

\* p waits for new plans, which execute copies of what is below its object.
LEMMA SpawnStep ==
    ASSUME IInv, NEW p \in DOMAIN plans, TopWorks(p),
           NEW touched, touched \subseteq Span(Top(p).object),
           NEW mem, mem.copies = copies,
           Evolves(heap, copies, mem.heap, copies, {}, touched),
           NEW objects \in Seq(DOMAIN mem.heap),
           \A k \in DOMAIN objects : Unfilled(mem.heap, objects[k]),
           NEW number \in Nat, Spawn(p, mem, objects, number)
    PROVE  StepIsRight /\ StepCounts
<1>1. HeapInv /\ OwnInv /\ PlanInv /\ RegisteredInv
    BY DEF IInv
<1>2. PICK all : all = CopyAll(mem, objects)
    OBVIOUS
<1>3. PICK made, frames : made = all.made /\ frames = <<Join(number)>>
    OBVIOUS
<1>4. Shaped(mem.heap, mem.copies) /\ Bounded(mem.heap)
    BY DEF Evolves
<1>5. Copied(mem, objects, all)
    BY <1>2, <1>4, CopyAllIs
<1>6. Evolves(mem.heap, mem.copies, all.heap, all.copies, {}, {})
    BY <1>2, <1>4, CopyAllIs
<1>7. DOMAIN made = DOMAIN objects /\ IsSeq(made)
    BY <1>3, <1>5 DEF Copied
<1>8. PICK ps : ps = Replaced(p, frames)
    OBVIOUS
<1>9. /\ heap' = all.heap /\ copies' = all.copies /\ Unchanged
      /\ plans' = Born(ps, p, made)
    <2>1. Spawn(p, mem, objects, number) =>
            /\ heap' = all.heap /\ copies' = all.copies
            /\ plans' = ps \o [k \in DOMAIN objects |->
                                Plan(p, made[k], <<Do(made[k])>>)]
            /\ Unchanged
        BY <1>2, <1>3, <1>8 DEF Spawn, Use
    <2> QED
        BY <2>1, <1>7 DEF Born
<1>10. Evolves(heap, copies, heap', copies', {}, touched)
    BY <1>1, <1>6, <1>9, ThenCopied DEF HeapInv
<1>11. SafeStep({}, touched, p)
    BY <1>1, <1>10, WorkIsSafe
<1>12. copies \in Nat /\ p \in Nat /\ DOMAIN plans = 1..Len(plans) /\ Len(plans) \in Nat
    <2>1. DOMAIN plans = 1..Len(plans) /\ Len(plans) \in Nat
        BY <1>1, SeqIs DEF PlanInv
    <2> QED
        BY <1>1, <2>1 DEF HeapInv, Shaped
<1>13. ASSUME NEW k \in DOMAIN made
       PROVE  /\ made[k] \in Object /\ made[k][1] = copies + k /\ made[k][1] > copies
              /\ IsWhole(heap', made[k]) /\ Unfilled(heap', made[k])
    <2>1. k \in Nat /\ k > 0
        BY <1>7, SeqIs
    <2> QED
        BY <2>1, <1>3, <1>5, <1>7, <1>9, <1>12 DEF Copied
<1>14. \A m \in DOMAIN heap' : m[1] > copies => \E k \in DOMAIN made : m \in Span(made[k])
    BY <1>3, <1>5, <1>7, <1>9 DEF Copied
<1>15. IsSeq(frames) /\ DOMAIN frames = 1..1 /\ frames[1] = Join(number)
    BY <1>3, SmallSeqs
<1>16. PICK t : t = frames \o Tail(plans[p].stack)
    OBVIOUS
<1>17. plans[p].stack # <<>> /\ Works(Top(p)) /\ Top(p).op # "join" /\ ~Deletes(Top(p))
    BY DEF TopWorks, Works, Deletes
<1>18. Restacked(ps, p, frames, t)
    BY <1>1, <1>8, <1>15, <1>16, <1>17, ReplacedIs
<1>19. IsSeq(ps) /\ Len(ps) = Len(plans) /\ DOMAIN ps = DOMAIN plans
    BY <1>18 DEF Restacked
<1>20. \A f \in {frames[k] : k \in DOMAIN frames} :
            IsFrame(f) /\ f.op = "join" /\ ~Works(f) /\ ~Deletes(f) /\ ~Executes(f)
    BY <1>15, JoinIs
<1>21. \A o : o \in Owned' <=>
            \/ o \in Owned
            \/ \E k \in DOMAIN made : o = <<"plan", Len(ps) + k, 0, made[k]>>
    <2>1. \A o : o \in Owned' <=> IsOwner(o, output, trees, resources, plans')
        BY <1>9, OwnedIs DEF Unchanged
    <2>2. \A o : IsOwner(o, output, trees, resources, plans') <=>
            \/ IsOwner(o, output, trees, resources, ps)
            \/ \E k \in DOMAIN made : o = <<"plan", Len(ps) + k, 0, made[k]>>
        <3>1. \A k \in DOMAIN made : made[k] \in Object
            BY <1>13
        <3> QED
            BY <3>1, <1>7, <1>9, <1>12, <1>19, BornOwners
    <2>3. \A o : IsOwner(o, output, trees, resources, ps) =>
                \/ o \in Owned /\ o # TopOwner(p)
                \/ \E k \in DOMAIN frames :
                    /\ Deletes(frames[k])
                    /\ o = <<"frame", p, Len(t) - k, frames[k].object>>
        BY <1>18, ReplacedOwners
    <2>4. \A o \in Owned : \/ IsOwner(o, output, trees, resources, ps)
                           \/ o = TopOwner(p) /\ Deletes(Top(p))
        BY <1>18, ReplacedOwners
    <2>5. \A k \in DOMAIN frames : ~Deletes(frames[k])
        BY <1>20
    <2> QED
        BY <2>1, <2>2, <2>3, <2>4, <2>5, <1>17
<1>22. OwnersStep({})
    <2>1. \A o \in Owned : ~(o[4][1] > copies)
        <3>1. ASSUME NEW o \in Owned PROVE o[4][1] \in 1..copies
            BY <1>1, OwnedCopies
        <3> QED
            BY <3>1, <1>12
    <2>2. ASSUME NEW o \in Owned'
          PROVE  o \in Owned \ {} \/ (o[4][1] > copies /\ IsWhole(heap', o[4]))
        BY <1>13, <1>21
    <2>3. ASSUME NEW o \in Owned', NEW q \in Owned', o[4][1] > copies,
                 o[4][1] = q[4][1]
          PROVE  o = q
        <3>1. PICK k \in DOMAIN made : o = <<"plan", Len(ps) + k, 0, made[k]>>
            BY <2>1, <2>3, <1>21
        <3>2. PICK l \in DOMAIN made : q = <<"plan", Len(ps) + l, 0, made[l]>>
            BY <2>1, <2>3, <1>21
        <3>3. copies + k = copies + l
            BY <3>1, <3>2, <2>3, <1>13
        <3>4. k \in Nat /\ l \in Nat
            BY <1>7, SeqIs
        <3>5. k = l
            BY <3>3, <3>4, <1>12
        <3> QED
            BY <3>1, <3>2, <3>5
    <2> QED
        BY <2>2, <2>3 DEF OwnersStep
<1>23. KeepsStep({})
    <2>1. ASSUME NEW m \in DOMAIN heap', m[1] > copies
          PROVE  \E o \in Owned' : m \in Span(o[4])
        <3>1. PICK k \in DOMAIN made : m \in Span(made[k])
            BY <2>1, <1>14
        <3>2. PICK o : o = <<"plan", Len(ps) + k, 0, made[k]>>
            OBVIOUS
        <3>3. o \in Owned' /\ o[4] = made[k]
            BY <3>2, <1>21
        <3> QED
            BY <3>1, <3>3
    <2> QED
        BY <2>1, <1>21 DEF KeepsStep
<1>24. PlanInv'
    <2>1. AreBorn(plans', ps, p, made)
        <3>1. \A k \in DOMAIN made : made[k] \in Object
            BY <1>13
        <3> QED
            BY <3>1, <1>7, <1>9, <1>12, <1>19, BornIs
    <2>2. /\ \A q \in DOMAIN plans : q # p => plans'[q] = plans[q]
          /\ plans'[p] = ps[p]
          /\ \A q \in DOMAIN plans' :
                q \in DOMAIN plans \/ \E k \in DOMAIN made : q = Len(ps) + k
        BY <2>1, <1>18, <1>19 DEF AreBorn, Restacked
    <2>3. /\ IsPlan(ps[p]) /\ ps[p].stack = t
          /\ ps[p].root = plans[p].root /\ ps[p].parent = plans[p].parent
        BY <1>18 DEF Restacked
    <2>4. Pushes(p, frames)
        <3>1. \A k, l \in DOMAIN frames : ~(k < l)
            BY <1>15
        <3>2. \A k \in DOMAIN frames : IsFrame(frames[k]) /\ frames[k].op # "blossom"
                /\ ~Works(frames[k]) /\ ~Deletes(frames[k]) /\ ~Executes(frames[k])
            BY <1>20
        <3> QED
            BY <3>1, <3>2, <1>15 DEF Pushes
    <2>5. IsSeq(t) /\ StackInv(heap', plans[p].root, t)
        BY <1>1, <1>11, <1>16, <1>17, <2>4, PushedStack
    <2>6. Waits(ps[p])
        <3>1. 1 \in DOMAIN t /\ t[1] = Join(number)
            BY <1>15, <1>18 DEF Restacked, OnTop
        <3>2. t # <<>>
            BY <3>1, EmptyIs
        <3>3. Head(t) = t[1]
            BY <3>2, <2>5, TailIs
        <3>4. Head(t).op = "join"
            BY <3>1, <3>3, JoinIs
        <3> QED
            BY <3>2, <3>4, <2>3 DEF Waits
    <2>7. ~Waits(plans[p])
        BY <1>17 DEF Waits, Top
    <2>8. ASSUME NEW q \in DOMAIN plans PROVE IsPlanOf(heap', plans', q)
        <3>1. IsPlanOf(heap, plans, q)
            BY <1>1, PlanInvIs
        <3>2. q # 1 /\ plans[q] # Deleted =>
                plans[q].parent \in DOMAIN plans /\ Waits(plans[plans[q].parent])
            BY <3>1, <1>12 DEF IsPlanOf
        <3>3. q # 1 /\ plans[q] # Deleted => Waits(plans'[plans[q].parent])
            BY <3>2, <2>2, <2>7
        <3>4. CASE q = p
            <4>1. plans[q] # Deleted
                BY <3>4, <1>17 DEF Deleted, Plan
            <4> QED
                BY <4>1, <3>1, <3>3, <3>4, <2>2, <2>3, <2>5 DEF IsPlanOf
        <3>5. CASE q # p
            <4>1. plans'[q] = plans[q]
                BY <3>5, <2>2
            <4>2. StackInv(heap', plans[q].root, plans[q].stack)
                BY <1>1, <1>11, <3>5, OtherStackStays
            <4> QED
                BY <4>1, <4>2, <3>1, <3>3 DEF IsPlanOf
        <3> QED
            BY <3>4, <3>5
    <2>9. ASSUME NEW k \in DOMAIN made PROVE IsPlanOf(heap', plans', Len(ps) + k)
        <3>1. PICK q : q = Len(ps) + k
            OBVIOUS
        <3>2. /\ IsPlan(plans'[q]) /\ plans'[q].parent = p
              /\ plans'[q].root = made[k] /\ plans'[q].stack = <<Do(made[k])>>
            BY <3>1, <2>1 DEF AreBorn
        <3>3. p \in 1..(q - 1) /\ q # 1
            <4>1. k \in Nat /\ k > 0
                BY <1>7, SeqIs
            <4> QED
                BY <4>1, <3>1, <1>12, <1>19
        <3>4. Waits(plans'[p]) /\ made[k] # NoObject
            BY <2>2, <2>6, <1>13, NoObjectIsNone
        <3>5. PICK s, n, f : s = <<f>> /\ n = made[k] /\ f = Do(n)
            OBVIOUS
        <3>6. DOMAIN s = 1..1 /\ s[1] = f
            BY <3>5, SmallSeqs
        <3>7. n \in Object /\ Unfilled(heap', n) /\ n # NoObject
            BY <3>4, <3>5, <1>13
        <3>8. IsFrame(f) /\ f.op = "do" /\ f.object = n
            BY <3>5, <3>7, DoIs
        <3>9. n \in Span(n)
            BY <3>7, InOwnSpan DEF Object
        <3>10. \A i \in DOMAIN s : s[i] = f
            BY <3>6
        <3>11. \A i, j \in DOMAIN s : ~(i < j)
            BY <3>6
        <3>12. StackInv(heap', n, s)
            BY <3>7, <3>8, <3>9, <3>10, <3>11 DEF StackInv
        <3>13. plans'[q].stack = s /\ plans'[q].root = n
            BY <3>2, <3>5
        <3> QED
            BY <3>1, <3>2, <3>3, <3>4, <3>12, <3>13 DEF IsPlanOf
    <2>10. IsSeq(plans')
        BY <2>1 DEF AreBorn
    <2> QED
        BY <2>2, <2>8, <2>9, <2>10, PlanInvIs
<1>25. RegisteredInv'
    BY <1>1, <1>9, <1>11, MapsStay DEF Unchanged
<1>26. StepIsRight
    BY <1>11, <1>22, <1>23, <1>24, <1>25, Concluded
<1>27. ASSUME CountInv, orderly' PROVE CountInv'
    <2>1. \A k \in DOMAIN made : made[k] \in Object
        BY <1>13
    <2>2. AreBorn(plans', ps, p, made)
        BY <2>1, <1>7, <1>9, <1>12, <1>19, BornIs
    <2>3. /\ earlier' = With(earlier, [c \in DOMAIN plans' \ DOMAIN plans |-> 0])
          /\ earlier[p] = 0 /\ number = Len(objects) /\ number < CounterRange
        BY <1>27 DEF Spawn, CanCount
    <2>4. Len(objects) = Len(made)
        <3>1. /\ DOMAIN objects = 1..Len(objects) /\ Len(objects) \in Nat
              /\ DOMAIN made = 1..Len(made) /\ Len(made) \in Nat
            BY <1>7, SeqIs, LenProperties
        <3>2. PICK a, b : a = Len(objects) /\ b = Len(made)
            OBVIOUS
        <3>3. a \in Nat /\ b \in Nat /\ \A x : x \in 1..a <=> x \in 1..b
            BY <3>1, <3>2, <1>7
        <3>4. (a \in 1..a <=> a \in 1..b) /\ (b \in 1..a <=> b \in 1..b)
            BY <3>3
        <3> QED
            BY <3>2, <3>3, <3>4
    <2>5. ~Waits(plans[p])
        BY <1>17 DEF Waits, Top
    <2> QED
        BY <2>2, <2>3, <2>4, <2>5, <1>1, <1>3, <1>18, <1>27, SpawnCounts
<1> QED
    BY <1>26, <1>27 DEF StepCounts

LEMMA RunProcessStep ==
    ASSUME IInv, NEW p \in DOMAIN plans, RunProcess(p)
    PROVE  StepIsRight /\ StepCounts
<1>1. IsAt(p, "run") /\ Spawn(p, Memory, <<Top(p).object>>, 1)
    BY DEF RunProcess
<1>2. HeapInv /\ OwnInv /\ PlanInv
    BY DEF IInv
<1>3. TopWorks(p) /\ Top(p).op = "run"
    BY <1>1, <1>2, WorksIs
<1>4. PICK mem, n, objects : mem = Memory /\ n = Top(p).object /\ objects = <<n>>
    OBVIOUS
<1>5. n \in DOMAIN heap /\ Unfilled(heap, n)
    BY <1>3, <1>4 DEF TopWorks, Executes
<1>6. mem.heap = heap /\ mem.copies = copies
    BY <1>4, MemoryIs
<1>7. Evolves(heap, copies, mem.heap, copies, {}, {})
    BY <1>2, <1>6, StaysAsItIs DEF HeapInv
<1>8. objects \in Seq(DOMAIN mem.heap)
    <2>1. PICK S : S = DOMAIN mem.heap
        OBVIOUS
    <2>2. n \in S
        BY <2>1, <1>5, <1>6
    <2>3. <<n>> \in Seq(S)
        BY <2>2
    <2> QED
        BY <2>1, <2>3, <1>4
<1>9. \A k \in DOMAIN objects : Unfilled(mem.heap, objects[k])
    <2>1. DOMAIN objects = 1..1 /\ objects[1] = n
        BY <1>4, SmallSeqs
    <2> QED
        BY <2>1, <1>5, <1>6
<1>10. {} \subseteq Span(Top(p).object) /\ Spawn(p, mem, objects, 1)
    BY <1>1, <1>4
<1> QED
    BY <1>3, <1>6, <1>7, <1>8, <1>9, <1>10, SpawnStep

LEMMA SpawnParallelSubtreesLoopStep ==
    ASSUME IInv, NEW p \in DOMAIN plans, SpawnParallelSubtreesLoop(p)
    PROVE  StepIsRight /\ StepCounts
<1>1. IsAt(p, "do") /\ Kind[Top(p).object[2]] = "parallel loop"
    BY DEF SpawnParallelSubtreesLoop, Starts
<1>2. HeapInv /\ OwnInv /\ PlanInv
    BY DEF IInv
<1>3. TopWorks(p) /\ Top(p).op = "do"
    BY <1>1, <1>2, WorksIs
<1>4. 1 \in DOMAIN PartsOf(p)
    BY <1>1, <1>3, HasParts
<1>5. PICK n, m, mem : n = PartsOf(p)[1] /\ m = Top(p).object /\ mem = WithFilled(m)
    OBVIOUS
<1>6. PICK at \in -1..MaxIterations :
        Spawn(p, mem, [k \in 1..at |-> n], at % CounterRange)
    BY <1>5 DEF SpawnParallelSubtreesLoop
<1>7. PICK objects : objects = [k \in 1..at |-> n]
    OBVIOUS
<1>8. m \in Span(m) /\ m \in DOMAIN heap
    BY <1>3, <1>5 DEF TopWorks
<1>9. /\ n \in DOMAIN heap /\ Span(n) \subseteq DOMAIN heap
      /\ m \notin Span(n) /\ Unfilled(heap, n)
    BY <1>3, <1>4, <1>5 DEF TopWorks, Executes
<1>10. /\ mem.copies = copies /\ Evolves(heap, copies, mem.heap, copies, {}, {m})
       /\ n \in DOMAIN mem.heap /\ Unfilled(mem.heap, n)
    <2>1. HeapInv /\ m \in Span(Top(p).object) /\ mem.heap = WithFilled(m).heap
        BY <1>2, <1>5, <1>8
    <2>2. /\ mem.copies = copies /\ Evolves(heap, copies, mem.heap, copies, {}, {m})
          /\ \A x : x \in DOMAIN heap <=> x \in DOMAIN mem.heap
          /\ \A x \in DOMAIN heap :
                m \notin Span(x) /\ Span(x) \subseteq DOMAIN heap /\ Unfilled(heap, x)
                    => Unfilled(mem.heap, x)
        BY <2>1, <1>3, <1>5, TopFilled
    <2> QED
        BY <2>2, <1>9
<1>11. objects \in Seq(DOMAIN mem.heap)
    <2>1. PICK S : S = DOMAIN mem.heap
        OBVIOUS
    <2>2. PICK l \in Nat : 1..at = 1..l
        <3>1. 1..-1 = 1..0
            OBVIOUS
        <3> QED
            BY <3>1, BoundAssumption
    <2>3. \A k \in 1..l : n \in S
        BY <2>1, <1>10
    <2>4. [k \in 1..l |-> n] \in Seq(S)
        BY <2>3, IsASeq
    <2> QED
        BY <2>1, <2>2, <2>4, <1>7
<1>12. \A k \in DOMAIN objects : Unfilled(mem.heap, objects[k])
    BY <1>7, <1>10
<1>13. {m} \subseteq Span(Top(p).object) /\ Spawn(p, mem, objects, at % CounterRange)
    BY <1>5, <1>6, <1>7, <1>8
<1>14. at % CounterRange \in Nat
    BY BoundAssumption
<1> QED
    BY <1>3, <1>10, <1>11, <1>12, <1>13, <1>14, SpawnStep

LEMMA ProcessParallelPartStep ==
    ASSUME IInv, NEW p \in DOMAIN plans, ProcessParallelPart(p)
    PROVE  StepIsRight /\ StepCounts
<1>1. IsAt(p, "do") /\ Kind[Top(p).object[2]] = "parallel"
    BY DEF ProcessParallelPart, Starts
<1>2. HeapInv /\ OwnInv /\ PlanInv
    BY DEF IInv
<1>3. TopWorks(p) /\ Top(p).op = "do"
    BY <1>1, <1>2, WorksIs
<1>4. 1 \in DOMAIN PartsOf(p)
    BY <1>1, <1>3, HasParts
<1>5. PICK n, mem : n = PartsOf(p)[1] /\ mem = Memory
    OBVIOUS
<1>6. PICK objects : objects = heap[n].parts
    OBVIOUS
<1>7. Spawn(p, mem, objects, Len(objects) % CounterRange)
    BY <1>5, <1>6 DEF ProcessParallelPart
<1>8. mem.heap = heap /\ mem.copies = copies
    BY <1>5, MemoryIs
<1>9. n \in DOMAIN heap /\ Unfilled(heap, n)
    BY <1>3, <1>4, <1>5 DEF TopWorks, Executes
<1>10. /\ objects = PartsIn(n) /\ n[2] \in Item /\ Span(n) \subseteq DOMAIN heap
    BY <1>2, <1>6, <1>9, ShapedObject DEF HeapInv
<1>11. \A k \in DOMAIN objects : objects[k] \in DOMAIN heap /\ Unfilled(heap, objects[k])
    <2>1. ASSUME NEW k \in DOMAIN objects
          PROVE  objects[k] \in Span(n) /\ Span(objects[k]) \subseteq Span(n)
        BY <1>10, PartsBelow
    <2> QED
        BY <2>1, <1>9, <1>10 DEF Unfilled
<1>12. objects \in Seq(DOMAIN mem.heap)
    <2>1. PICK S : S = DOMAIN mem.heap
        OBVIOUS
    <2>2. PICK l \in Nat : DOMAIN Parts[n[2]] = 1..l
        BY <1>10, PartsAreWithin
    <2>3. DOMAIN objects = 1..l /\ objects = [k \in 1..l |-> objects[k]]
        BY <2>2, <1>10 DEF PartsIn
    <2>4. \A k \in 1..l : objects[k] \in S
        BY <2>1, <2>3, <1>8, <1>11
    <2>5. [k \in 1..l |-> objects[k]] \in Seq(S)
        BY <2>4, IsASeq
    <2> QED
        BY <2>1, <2>3, <2>5
<1>13. Evolves(heap, copies, mem.heap, copies, {}, {})
    BY <1>2, <1>8, StaysAsItIs DEF HeapInv
<1>14. \A k \in DOMAIN objects : Unfilled(mem.heap, objects[k])
    BY <1>8, <1>11
<1>15. {} \subseteq Span(Top(p).object)
    OBVIOUS
<1>16. Len(objects) % CounterRange \in Nat
    BY <1>12, BoundAssumption
<1> QED
    BY <1>3, <1>7, <1>8, <1>12, <1>13, <1>14, <1>15, <1>16, SpawnStep

\* The frames that remain when the innermost one is gone.
LEMMA TailStack ==
    ASSUME NEW h, NEW root, NEW s, IsSeq(s), s # <<>>, StackInv(h, root, s)
    PROVE  StackInv(h, root, Tail(s))
<1> DEFINE t == Tail(s)
<1>1. /\ Len(s) \in Nat \ {0} /\ Len(t) = Len(s) - 1 /\ IsSeq(t)
      /\ \A i \in 1..(Len(s) - 1) : t[i] = s[i + 1]
    BY TailIs
<1>2. DOMAIN s = 1..Len(s) /\ DOMAIN t = 1..(Len(s) - 1)
    BY <1>1, SeqIs
<1>3. \A k \in DOMAIN t : k + 1 \in DOMAIN s /\ t[k] = s[k + 1] /\ k \in Nat
    BY <1>1, <1>2
<1> HIDE DEF t
<1>4. ASSUME NEW k \in DOMAIN t, Works(t[k])
      PROVE  \/ root # NoObject /\ t[k].object \in Span(root)
             \/ \E l \in DOMAIN t :
                 k < l /\ Deletes(t[l]) /\ t[k].object \in Span(t[l].object)
    <2>1. CASE root # NoObject /\ s[k + 1].object \in Span(root)
        BY <2>1, <1>3
    <2>2. CASE \E l \in DOMAIN s :
            k + 1 < l /\ Deletes(s[l]) /\ s[k + 1].object \in Span(s[l].object)
        <3>1. PICK l \in DOMAIN s :
                k + 1 < l /\ Deletes(s[l]) /\ s[k + 1].object \in Span(s[l].object)
            BY <2>2
        <3>2. PICK x : x = l - 1
            OBVIOUS
        <3>3. x \in DOMAIN t /\ k < x /\ x + 1 = l
            BY <3>1, <3>2, <1>1, <1>2
        <3>4. t[x] = s[l] /\ t[k] = s[k + 1]
            BY <3>3, <1>3
        <3> QED
            BY <3>1, <3>3, <3>4
    <2>3. Works(s[k + 1]) /\ k + 1 \in DOMAIN s
        BY <1>3, <1>4
    <2> QED
        BY <2>1, <2>2, <2>3 DEF StackInv
<1>5. ASSUME NEW k \in DOMAIN t, NEW l \in DOMAIN t, k < l, Works(t[k]), Works(t[l])
      PROVE  Span(t[k].object) \cap Span(t[l].object) = {}
    <2>1. k + 1 < l + 1 /\ k + 1 \in DOMAIN s /\ l + 1 \in DOMAIN s
          /\ t[k] = s[k + 1] /\ t[l] = s[l + 1]
        BY <1>3, <1>5
    <2> QED
        BY <2>1, <1>5 DEF StackInv
<1>6. ASSUME NEW k \in DOMAIN t
      PROVE  /\ IsFrame(t[k])
             /\ Executes(t[k]) => Unfilled(h, t[k].object)
             /\ t[k].op = "blossom" =>
                 /\ Kind[t[k].object[2]] = "group"
                 /\ t[k].at \in DOMAIN Parts[t[k].object[2]]
    <2>1. k + 1 \in DOMAIN s /\ t[k] = s[k + 1]
        BY <1>3
    <2> QED
        BY <2>1 DEF StackInv
<1>7. StackInv(h, root, t)
    BY <1>4, <1>5, <1>6 DEF StackInv
<1> QED
    BY <1>7 DEF t

LEMMA FieldIsSet ==
    ASSUME NEW a, NEW b, NEW t, NEW d, NEW e, NEW y,
           y = [parent |-> a, root |-> b, stack |-> t, failed |-> d],
           NEW x, x = [y EXCEPT !.failed = e]
    PROVE  /\ x = [parent |-> a, root |-> b, stack |-> t, failed |-> e]
           /\ x.parent = a /\ x.root = b /\ x.stack = t /\ x.failed = e
OBVIOUS

\* Plan r becomes x: its frames are those of t, and it has failed or not.
Becomes(r, x, t, no) == x = [r EXCEPT !.stack = t, !.failed = no]

HasBecome(r, x, t, no) ==
    /\ IsPlan(x) /\ x.stack = t /\ x.root = r.root /\ x.parent = r.parent
    /\ x.failed = no /\ ~r.failed

LEMMA EndsIs ==
    ASSUME NEW r, IsPlan(r), r.stack # <<>>, NEW no, no \in BOOLEAN, NEW t, IsSeq(t),
           no => t = <<>>, NEW x, Becomes(r, x, t, no)
    PROVE  HasBecome(r, x, t, no)
<1>0. x = [r EXCEPT !.stack = t, !.failed = no]
    BY DEF Becomes
<1>1. PICK a, b, c, d : a = r.parent /\ b = r.root /\ c = r.stack /\ d = r.failed
    OBVIOUS
<1>2. r = [parent |-> a, root |-> b, stack |-> c, failed |-> d]
    BY <1>1 DEF IsPlan
<1>3. PICK y : y = [r EXCEPT !.stack = t]
    OBVIOUS
<1>4. y = [parent |-> a, root |-> b, stack |-> t, failed |-> d]
    BY <1>2, <1>3
<1>5. x = [y EXCEPT !.failed = no]
    BY <1>0, <1>3, Zenon
<1>6. x = [parent |-> a, root |-> b, stack |-> t, failed |-> no]
    BY <1>4, <1>5, FieldIsSet, Zenon
<1>7. x.parent = a /\ x.root = b /\ x.stack = t /\ x.failed = no
    BY <1>4, <1>5, FieldIsSet, Zenon
<1>8. x = [parent |-> x.parent, root |-> x.root, stack |-> x.stack, failed |-> x.failed]
    BY <1>6, <1>7
<1>9. a \in Nat /\ (b = NoObject \/ b \in Object)
    BY <1>1 DEF IsPlan
<1>10. IsPlan(x)
    BY <1>7, <1>8, <1>9 DEF IsPlan
<1>11. ~r.failed
    BY DEF IsPlan
<1> QED
    BY <1>1, <1>7, <1>10, <1>11 DEF HasBecome

ChildOwners(p) == {o \in Owned : o[1] = "plan" /\ o[2] \in Childs(p)}

\* A child plan has a tree, which nobody else deletes.
LEMMA ChildsAre ==
    ASSUME HeapInv, OwnInv, PlanInv, NEW p \in DOMAIN plans
    PROVE  /\ \A c \in Childs(p) :
                /\ c \in DOMAIN plans /\ c # 1 /\ c # p
                /\ plans[c].root # NoObject
           /\ TreesOf(Childs(p)) = {o[4] : o \in ChildOwners(p)}
<1>1. DOMAIN plans = 1..Len(plans) /\ Len(plans) \in Nat
    BY SeqIs DEF PlanInv
<1>2. ASSUME NEW c \in Childs(p)
      PROVE  /\ c \in DOMAIN plans /\ c # 1 /\ c # p
             /\ plans[c].root # NoObject
    <2>1. c \in DOMAIN plans /\ plans[c].parent = p
        BY DEF Childs
    <2>2. Deleted.parent = 0
        BY DEF Deleted, Plan
    <2>3. p > 0 /\ p \in Nat
        BY <1>1
    <2>4. c # 1 /\ plans[c] # Deleted
        BY <2>1, <2>2, <2>3 DEF PlanInv
    <2>5. plans[c].root # NoObject /\ plans[c].parent \in 1..(c - 1)
        BY <2>1, <2>4 DEF PlanInv
    <2>6. c \in Nat
        BY <1>1, <2>1
    <2> QED
        BY <2>1, <2>3, <2>4, <2>5, <2>6
<1>3. ASSUME NEW c \in Childs(p)
      PROVE  \E o \in ChildOwners(p) : o[4] = plans[c].root
    <2>1. PICK o : o = <<"plan", c, 0, plans[c].root>>
        OBVIOUS
    <2>2. IsOwner(o, output, trees, resources, plans)
        BY <1>2, <2>1 DEF IsOwner
    <2>3. o \in ChildOwners(p)
        BY <2>1, <2>2, OwnedIs DEF ChildOwners
    <2> QED
        BY <2>1, <2>3
<1>4. ASSUME NEW o \in ChildOwners(p)
      PROVE  \E c \in Childs(p) : o[4] = plans[c].root
    <2>1. IsOwner(o, output, trees, resources, plans) /\ o[1] = "plan" /\ o[2] \in Childs(p)
        BY OwnedIs DEF ChildOwners
    <2>2. \E c \in DOMAIN plans : o = <<"plan", c, 0, plans[c].root>>
        BY <2>1 DEF IsOwner
    <2> QED
        BY <2>1, <2>2
<1>5. \A n : n \in TreesOf(Childs(p)) <=> \E c \in Childs(p) : n = plans[c].root
    BY DEF TreesOf
<1>6. TreesOf(Childs(p)) = {o[4] : o \in ChildOwners(p)}
    BY <1>3, <1>4, <1>5
<1> QED
    BY <1>2, <1>6

LEMMA DeletedIs ==
    ASSUME NEW r, r = Deleted
    PROVE  /\ IsPlan(r) /\ r.stack = <<>> /\ DOMAIN r.stack = {}
           /\ r.root = NoObject
           /\ \A h : StackInv(h, r.root, r.stack)
<1>1. PICK none, s, e : none = NoObject /\ s = <<>> /\ e = FALSE
    OBVIOUS
<1>2. r = [parent |-> 0, root |-> none, stack |-> s, failed |-> e]
    BY <1>1, Zenon DEF Deleted, Plan
<1>3. r.parent = 0 /\ r.root = none /\ r.stack = s /\ r.failed = e
    BY <1>2
<1>4. r = [parent |-> r.parent, root |-> r.root, stack |-> r.stack, failed |-> r.failed]
    BY <1>2, <1>3
<1>5. IsSeq(s) /\ DOMAIN s = {}
    BY <1>1, EmptyIs
<1>6. r.failed \in BOOLEAN /\ ~r.failed
    BY <1>1, <1>3, Zenon
<1>7. IsPlan(r)
    BY <1>1, <1>3, <1>4, <1>5, <1>6 DEF IsPlan
<1>8. \A h : StackInv(h, r.root, r.stack)
    BY <1>3, <1>5 DEF StackInv
<1> QED
    BY <1>1, <1>3, <1>5, <1>7, <1>8

\* What Below(p) chooses.
IsBelowPlan(g, p) ==
    g = [c \in DOMAIN plans |->
            \/ plans[c].parent = p
            \/ plans[c].parent \in DOMAIN plans /\ g[plans[c].parent]]

\* Nothing is below child plans that have all ended.
LEMMA NothingBelowEnded ==
    ASSUME PlanInv, NEW p \in DOMAIN plans,
           \A c \in Childs(p) : plans[c].stack = <<>>
    PROVE  Below(p) = Childs(p)
<1> DEFINE g == [c \in DOMAIN plans |-> plans[c].parent = p]
           f == CHOOSE x : IsBelowPlan(x, p)
<1>1. DOMAIN plans = 1..Len(plans) /\ Len(plans) \in Nat
    BY SeqIs DEF PlanInv
<1>2. ASSUME NEW c \in DOMAIN plans, plans[c].parent \in DOMAIN plans
      PROVE  /\ plans[c].parent \notin Childs(p)
             /\ plans[c].parent \in Nat /\ plans[c].parent < c
    <2>1. plans[c].parent \in 1..Len(plans)
        BY <1>1, <1>2
    <2>2. Deleted.parent = 0
        BY DEF Deleted, Plan
    <2>3. c # 1 /\ plans[c] # Deleted
        BY <2>1, <2>2 DEF PlanInv
    <2>4. plans[c].parent \in 1..(c - 1) /\ IsAt(plans[c].parent, "join")
        BY <2>3 DEF PlanInv
    <2>5. c \in Nat
        BY <1>1
    <2> QED
        BY <2>4, <2>5 DEF IsAt
<1>3. ASSUME NEW c \in DOMAIN plans, plans[c].parent \in DOMAIN plans
      PROVE  plans[plans[c].parent].parent # p
    BY <1>2, <1>3 DEF Childs
<1>4. IsBelowPlan(g, p)
    <2>1. ASSUME NEW c \in DOMAIN plans
          PROVE  plans[c].parent = p
                    <=> \/ plans[c].parent = p
                        \/ plans[c].parent \in DOMAIN plans /\ g[plans[c].parent]
        BY <1>3
    <2> QED
        BY <2>1 DEF IsBelowPlan
<1>5. IsBelowPlan(f, p)
    BY <1>4
<1>6. Below(p) = {c \in DOMAIN plans : f[c]}
    BY DEF Below, IsBelowPlan
<1> HIDE DEF f
<1>7. \A c \in DOMAIN plans :
        f[c] <=> \/ plans[c].parent = p
                 \/ plans[c].parent \in DOMAIN plans /\ f[plans[c].parent]
    BY <1>5 DEF IsBelowPlan
<1>8. ASSUME NEW c \in DOMAIN plans, f[c], plans[c].parent # p
      PROVE  FALSE
    <2> DEFINE S == {x \in DOMAIN plans : f[x] /\ plans[x].parent # p}
    <2>1. S # {} /\ S \subseteq Nat
        BY <1>1, <1>8
    <2>2. PICK x \in S : \A y \in S : x <= y
        BY <2>1, LeastExists
    <2>3. plans[x].parent \in DOMAIN plans /\ f[plans[x].parent]
        BY <1>7, <2>2
    <2>4. plans[x].parent \in S
        BY <1>3, <2>2, <2>3
    <2>5. plans[x].parent \in Nat /\ plans[x].parent < x /\ x \in Nat
        BY <1>1, <1>2, <2>2, <2>3
    <2> QED
        BY <2>2, <2>4, <2>5
<1> QED
    BY <1>6, <1>7, <1>8 DEF Childs

\* The counter is right when all child plans have ended.
LEMMA JoinWaits ==
    ASSUME PlanInv, CountInv, NEW p \in DOMAIN plans, IsAt(p, "join"),
           IsCounter(p) = Top(p).at
    PROVE  /\ \A c \in Childs(p) : plans[c].stack = <<>>
           /\ Below(p) = Childs(p)
<1>1. 1 \in DOMAIN plans[p].stack /\ Top(p) = plans[p].stack[1]
    <2>1. IsSeq(plans[p].stack) /\ plans[p].stack # <<>>
        BY DEF PlanInv, IsPlan, IsAt
    <2>2. Head(plans[p].stack) = plans[p].stack[1] /\ Len(plans[p].stack) \in Nat \ {0}
        BY <2>1, TailIs
    <2>3. DOMAIN plans[p].stack = 1..Len(plans[p].stack)
        BY <2>1, SeqIs
    <2> QED
        BY <2>2, <2>3 DEF Top
<1>2. /\ earlier[p] = 0 /\ IsFiniteSet(Childs(p))
      /\ Top(p).at = Cardinality(Childs(p)) /\ Top(p).at < CounterRange
    BY <1>1 DEF CountInv, IsAt
<1>3. EndedChilds(p) \subseteq Childs(p)
    BY DEF EndedChilds
<1>4. PICK a, b : a = Cardinality(EndedChilds(p)) /\ b = Cardinality(Childs(p))
    OBVIOUS
<1>5. a \in Nat /\ b \in Nat /\ a <= b
    BY <1>2, <1>3, <1>4, FS_Subset, FS_CardinalityType
<1>6. (0 + a) % CounterRange = b /\ b < CounterRange
    BY <1>2, <1>4 DEF IsCounter
<1>7. a = b
    <2>1. a \in 0..(CounterRange - 1) /\ CounterRange \in Nat \ {0}
        BY <1>5, <1>6, BoundAssumption
    <2> QED
        BY <1>5, <1>6, <2>1
<1>8. EndedChilds(p) = Childs(p)
    BY <1>2, <1>3, <1>4, <1>7, FS_Subset
<1>9. \A c \in Childs(p) : plans[c].stack = <<>>
    BY <1>8 DEF EndedChilds
<1> QED
    BY <1>9, NothingBelowEnded

LEMMA WaitUntilFinishStep ==
    ASSUME IInv, CountInv, NEW p \in DOMAIN plans, WaitUntilFinish(p)
    PROVE  StepIsRight
<1>0. /\ \A c \in Childs(p) : plans[c].stack = <<>>
      /\ Below(p) = Childs(p)
    BY JoinWaits DEF IInv, WaitUntilFinish
<1>1. HeapInv /\ OwnInv /\ PlanInv
    BY DEF IInv
<1>2. PICK ch, s, out : ch = Childs(p) /\ s = plans[p].stack /\ out = UnwoundOwners(p)
    OBVIOUS
<1>3. /\ plans[p].stack # <<>> /\ Top(p).op = "join"
      /\ \A c \in ch : plans[c].stack = <<>>
      /\ copies' = copies /\ Unchanged
    BY <1>0, <1>2 DEF WaitUntilFinish, IsAt
<1>4. PICK ok \in BOOLEAN :
        /\ heap' = Without(heap, TreesOf(Childs(p)) \cup (IF ok THEN {} ELSE Unwound(p)))
        /\ plans' = [c \in DOMAIN plans |->
                        IF c \in ch THEN Deleted
                        ELSE IF c # p THEN plans[c]
                        ELSE [plans[p] EXCEPT !.stack = IF ok THEN Tail(@) ELSE <<>>,
                                              !.failed = ~ok]]
    <2>1. PICK ok \in BOOLEAN :
            /\ heap' = Without(heap, TreesOf(ch) \cup (IF ok THEN {} ELSE Unwound(p)))
            /\ plans' = [c \in DOMAIN plans |->
                            IF c \in ch THEN Plan(0, NoObject, plans[c].stack)
                            ELSE IF c # p THEN plans[c]
                            ELSE [plans[p] EXCEPT !.stack = IF ok THEN Tail(@) ELSE <<>>,
                                                  !.failed = ~ok]]
        BY <1>0, <1>2 DEF WaitUntilFinish
    <2>2. \A c \in ch : Plan(0, NoObject, plans[c].stack) = Deleted
        BY <1>3 DEF Deleted
    <2> QED
        BY <1>2, <2>1, <2>2
<1>5. PICK gone : gone = ChildOwners(p) \cup (IF ok THEN {} ELSE out)
    OBVIOUS
<1>6. PICK t : t = IF ok THEN Tail(s) ELSE <<>>
    OBVIOUS
<1>7. /\ \A o \in out : o \in Owned /\ o[1] = "frame" /\ o[2] = p
      /\ Unwound(p) = {o[4] : o \in out}
    BY <1>1, <1>2, UnwoundIs
<1>8. /\ \A c \in ch : c \in DOMAIN plans /\ c # 1 /\ c # p
      /\ TreesOf(Childs(p)) = {o[4] : o \in ChildOwners(p)}
    BY <1>1, <1>2, ChildsAre
<1>9. \A o : o \in ChildOwners(p) <=> o \in Owned /\ o[1] = "plan" /\ o[2] \in ch
    BY <1>2 DEF ChildOwners
<1>10. heap' = Without(heap, {o[4] : o \in gone})
    <2>1. {o[4] : o \in gone} = TreesOf(Childs(p)) \cup (IF ok THEN {} ELSE Unwound(p))
        BY <1>5, <1>7, <1>8
    <2> QED
        BY <2>1, <1>4
<1>11. /\ gone \subseteq Owned
       /\ \A o \in gone : \/ o[1] = "plan" /\ o[2] \in ch
                          \/ ~ok /\ o[1] = "frame" /\ o[2] = p
    BY <1>5, <1>7, <1>9
<1>12. \A o \in gone : o[1] \in {"plan", "frame"}
    BY <1>11
<1>13. /\ DOMAIN plans' = DOMAIN plans
       /\ \A c \in ch : plans'[c] = Deleted
       /\ \A c \in DOMAIN plans : c \notin ch /\ c # p => plans'[c] = plans[c]
       /\ p \notin ch
       /\ plans'[p] = [plans[p] EXCEPT !.stack = IF ok THEN Tail(@) ELSE <<>>,
                                       !.failed = ~ok]
    BY <1>4, <1>8
<1>14. /\ IsPlan(plans'[p]) /\ plans'[p].stack = t
       /\ plans'[p].root = plans[p].root /\ plans'[p].parent = plans[p].parent
       /\ ~ok => plans'[p].failed
       /\ ~plans[p].failed
    <2>1. PICK r, x, no : r = plans[p] /\ x = plans'[p] /\ no = ~ok
        OBVIOUS
    <2>2. IsPlan(r) /\ r.stack # <<>> /\ r.stack = s
        BY <2>1, <1>1, <1>2, <1>3 DEF PlanInv
    <2>3. x = [r EXCEPT !.stack = IF ok THEN Tail(@) ELSE <<>>, !.failed = ~ok]
        BY <2>1, <1>13, Zenon
    <2>4. x = [r EXCEPT !.stack = t, !.failed = no]
        BY <2>1, <2>2, <2>3, <1>6
    <2>5. no \in BOOLEAN /\ (no => t = <<>>)
        BY <2>1, <1>6
    <2>6. IsSeq(t)
        <3>1. IsSeq(s) /\ IsSeq(<<>>)
            BY <2>2, EmptyIs DEF IsPlan
        <3>2. IsSeq(Tail(s))
            BY <3>1, <2>2, TailIs
        <3> QED
            BY <3>1, <3>2, <1>6
    <2>7. Becomes(r, x, t, no)
        BY <2>4 DEF Becomes
    <2>8. HasBecome(r, x, t, no)
        BY <2>2, <2>5, <2>6, <2>7, EndsIs
    <2> QED
        BY <2>1, <2>8 DEF HasBecome
<1>15. /\ IsSeq(s) /\ s # <<>> /\ DOMAIN s = 1..Len(s) /\ Len(s) \in Nat \ {0}
       /\ s[1] = Top(p) /\ StackInv(heap, plans[p].root, s)
    <2>1. IsSeq(s) /\ s # <<>> /\ StackInv(heap, plans[p].root, s)
        BY <1>1, <1>2, <1>3 DEF PlanInv, IsPlan
    <2>2. Head(s) = s[1] /\ Len(s) \in Nat \ {0}
        BY <2>1, TailIs
    <2> QED
        BY <2>1, <2>2, <1>2, SeqIs DEF Top
<1>16. ok => /\ Len(t) = Len(s) - 1 /\ DOMAIN t = 1..(Len(s) - 1)
             /\ \A k \in 1..(Len(s) - 1) : t[k] = s[k + 1]
    <2>1. /\ IsSeq(Tail(s)) /\ Len(Tail(s)) = Len(s) - 1
          /\ \A k \in 1..(Len(s) - 1) : Tail(s)[k] = s[k + 1]
        BY <1>15, TailIs
    <2>2. DOMAIN Tail(s) = 1..(Len(s) - 1)
        BY <2>1, SeqIs
    <2> QED
        BY <2>1, <2>2, <1>6
<1>17. ~ok => DOMAIN t = {}
    BY <1>6, EmptyIs
<1>18. \A c \in ch : plans'[c].root = NoObject /\ DOMAIN plans'[c].stack = {}
    BY <1>13, DeletedIs
<1>19. \A o : /\ o \in Owned <=> IsOwner(o, output, trees, resources, plans)
              /\ o \in Owned' <=> IsOwner(o, output, trees, resources, plans')
    <2>1. output' = output /\ trees' = trees /\ resources' = resources
        BY <1>3 DEF Unchanged
    <2> QED
        BY <2>1, OwnedIs
<1>20. ASSUME NEW o \in Owned' PROVE o \in Owned \ gone
    <2>1. IsOwner(o, output, trees, resources, plans') /\ o[4] # NoObject
        BY <1>19 DEF IsOwner
    <2>2. CASE \/ o = <<"output", 0, 0, output>>
               \/ \E id \in DOMAIN trees : o = <<"tree", id, 0, trees[id]>>
               \/ \E id \in DOMAIN resources : o = <<"resource", id, 0, resources[id]>>
        <3>1. o \in Owned
            BY <2>1, <2>2, <1>19 DEF IsOwner
        <3>2. o[1] \in {"output", "tree", "resource"}
            BY <2>2
        <3>3. o \notin gone
            BY <3>2, <1>12
        <3> QED
            BY <3>1, <3>3
    <2>3. CASE \E q \in DOMAIN plans' : o = <<"plan", q, 0, plans'[q].root>>
        <3>1. PICK q \in DOMAIN plans' : o = <<"plan", q, 0, plans'[q].root>>
            BY <2>3
        <3>2. q \notin ch
            BY <3>1, <2>1, <1>18
        <3>3. q \in DOMAIN plans /\ plans'[q].root = plans[q].root
            BY <3>2, <1>13, <1>14
        <3>4. o \in Owned
            BY <2>1, <3>1, <3>3, <1>19 DEF IsOwner
        <3>5. o[1] = "plan" /\ o[2] = q
            BY <3>1
        <3>6. o \notin gone
            BY <3>2, <3>5, <1>11
        <3> QED
            BY <3>4, <3>6
    <2>4. CASE \E q \in DOMAIN plans' : \E k \in DOMAIN plans'[q].stack :
                /\ Deletes(plans'[q].stack[k])
                /\ o = <<"frame", q, Len(plans'[q].stack) - k, plans'[q].stack[k].object>>
        <3>1. PICK q \in DOMAIN plans' : \E k \in DOMAIN plans'[q].stack :
                /\ Deletes(plans'[q].stack[k])
                /\ o = <<"frame", q, Len(plans'[q].stack) - k, plans'[q].stack[k].object>>
            BY <2>4
        <3>2. PICK k \in DOMAIN plans'[q].stack :
                /\ Deletes(plans'[q].stack[k])
                /\ o = <<"frame", q, Len(plans'[q].stack) - k, plans'[q].stack[k].object>>
            BY <3>1
        <3>3. q \notin ch /\ q \in DOMAIN plans
            BY <3>2, <1>13, <1>18
        <3>4. o[1] = "frame" /\ o[2] = q
            BY <3>2
        <3>5. CASE q # p
            <4>1. plans'[q] = plans[q]
                BY <3>3, <3>5, <1>13
            <4>2. o \in Owned
                BY <4>1, <2>1, <3>2, <3>3, <1>19 DEF IsOwner
            <4>3. o \notin gone
                BY <3>4, <3>5, <1>11
            <4> QED
                BY <4>2, <4>3
        <3>6. CASE q = p
            <4>1. k \in DOMAIN t /\ Deletes(t[k]) /\ o = <<"frame", p, Len(t) - k, t[k].object>>
                BY <3>2, <3>6, <1>14
            <4>2. ok
                BY <4>1, <1>17
            <4>3. k + 1 \in DOMAIN s /\ s[k + 1] = t[k] /\ Len(t) - k = Len(s) - (k + 1)
                BY <4>1, <4>2, <1>15, <1>16
            <4>4. o = <<"frame", p, Len(s) - (k + 1), s[k + 1].object>> /\ Deletes(s[k + 1])
                BY <4>1, <4>3
            <4>5. o \in Owned
                BY <4>3, <4>4, <2>1, <1>2, <1>19 DEF IsOwner
            <4>6. o \notin gone
                BY <4>2, <3>4, <1>11
            <4> QED
                BY <4>5, <4>6
        <3> QED
            BY <3>5, <3>6
    <2> QED
        BY <2>1, <2>2, <2>3, <2>4 DEF IsOwner
<1>21. ASSUME ok, NEW o \in Owned, o \notin gone PROVE o \in Owned'
    <2>1. IsOwner(o, output, trees, resources, plans) /\ o[4] # NoObject
        BY <1>19 DEF IsOwner
    <2>2. CASE \/ o = <<"output", 0, 0, output>>
               \/ \E id \in DOMAIN trees : o = <<"tree", id, 0, trees[id]>>
               \/ \E id \in DOMAIN resources : o = <<"resource", id, 0, resources[id]>>
        BY <2>1, <2>2, <1>19 DEF IsOwner
    <2>3. CASE \E q \in DOMAIN plans : o = <<"plan", q, 0, plans[q].root>>
        <3>1. PICK q \in DOMAIN plans : o = <<"plan", q, 0, plans[q].root>>
            BY <2>3
        <3>2. o[1] = "plan" /\ o[2] = q
            BY <3>1
        <3>3. q \notin ch
            BY <3>2, <1>5, <1>9, <1>21
        <3>4. q \in DOMAIN plans' /\ plans'[q].root = plans[q].root
            BY <3>3, <1>13, <1>14
        <3> QED
            BY <2>1, <3>1, <3>4, <1>19 DEF IsOwner
    <2>4. CASE \E q \in DOMAIN plans : \E k \in DOMAIN plans[q].stack :
                /\ Deletes(plans[q].stack[k])
                /\ o = <<"frame", q, Len(plans[q].stack) - k, plans[q].stack[k].object>>
        <3>1. PICK q \in DOMAIN plans : \E k \in DOMAIN plans[q].stack :
                /\ Deletes(plans[q].stack[k])
                /\ o = <<"frame", q, Len(plans[q].stack) - k, plans[q].stack[k].object>>
            BY <2>4
        <3>2. PICK k \in DOMAIN plans[q].stack :
                /\ Deletes(plans[q].stack[k])
                /\ o = <<"frame", q, Len(plans[q].stack) - k, plans[q].stack[k].object>>
            BY <3>1
        <3>3. q \notin ch
            BY <3>2, <1>3, EmptyIs
        <3>4. CASE q # p
            <4>1. plans'[q] = plans[q] /\ q \in DOMAIN plans'
                BY <3>3, <3>4, <1>13
            <4> QED
                BY <4>1, <2>1, <3>2, <1>19 DEF IsOwner
        <3>5. CASE q = p
            <4>1. k \in DOMAIN s /\ Deletes(s[k]) /\ o = <<"frame", p, Len(s) - k, s[k].object>>
                BY <3>2, <3>5, <1>2
            <4>2. ~Deletes(s[1])
                BY <1>3, <1>15 DEF Deletes
            <4>3. k # 1
                BY <4>1, <4>2
            <4>4. PICK l : l = k - 1
                OBVIOUS
            <4>5. l \in DOMAIN t /\ t[l] = s[k] /\ Len(t) - l = Len(s) - k
                BY <4>1, <4>3, <4>4, <1>15, <1>16, <1>21
            <4>6. o = <<"frame", p, Len(t) - l, t[l].object>> /\ Deletes(t[l])
                BY <4>1, <4>5
            <4>7. p \in DOMAIN plans' /\ plans'[p].stack = t
                BY <1>13, <1>14
            <4> QED
                BY <4>5, <4>6, <4>7, <2>1, <1>19 DEF IsOwner
        <3> QED
            BY <3>4, <3>5
    <2> QED
        BY <2>1, <2>2, <2>3, <2>4 DEF IsOwner
<1>22. Failing \/ \A o \in Owned \ gone : o \in Owned'
    <2>1. ~ok => Failing
        BY <1>13, <1>14 DEF Failing
    <2> QED
        BY <2>1, <1>21
<1>23. SafeStep(gone, {}, p)
    BY <1>1, <1>3, <1>10, <1>11, <1>12, DeletionIs
<1>24. IsSeq(plans')
    <2>1. IsSeq(plans)
        BY <1>1 DEF PlanInv
    <2>2. Len(plans) \in Nat /\ DOMAIN plans = 1..Len(plans)
        BY <2>1, SeqIs
    <2>3. DOMAIN plans' = 1..Len(plans) /\ plans' = [q \in 1..Len(plans) |-> plans'[q]]
        BY <2>2, <1>4
    <2> QED
        BY <2>2, <2>3, MakesSeq
<1>25. ASSUME NEW q \in DOMAIN plans PROVE IsPlanOf(heap', plans', q)
    <2>1. IsPlanOf(heap, plans, q)
        BY <1>1, PlanInvIs
    <2>2. q # 1 /\ plans[q] # Deleted =>
            /\ plans[q].parent \in DOMAIN plans /\ Waits(plans[plans[q].parent])
            /\ plans[q].parent # q
        <3>1. DOMAIN plans = 1..Len(plans) /\ Len(plans) \in Nat
            BY <1>1, SeqIs DEF PlanInv
        <3> QED
            BY <3>1, <2>1 DEF IsPlanOf
    <2>3. \A x \in DOMAIN plans : Waits(plans[x]) => x \notin ch
        BY <1>3 DEF Waits
    <2>4. q \notin ch => plans[q].parent # p
        BY <1>2 DEF Childs
    <2>5. q # 1 /\ plans[q] # Deleted /\ q \notin ch => Waits(plans'[plans[q].parent])
        BY <2>2, <2>3, <2>4, <1>13
    <2>6. q \notin ch /\ (q # p \/ ok) => StackInv(heap', plans[q].root, plans[q].stack)
        <3>1. q \notin ch /\ (q # p \/ ok) => \A o \in gone : ~OfPlan(o, q)
            BY <1>11 DEF OfPlan
        <3> QED
            BY <3>1, <1>1, <1>23, OtherStackStays
    <2>7. CASE q \in ch
        <3>1. q # 1
            BY <2>7, <1>8
        <3>2. IsPlan(Deleted) /\ StackInv(heap', Deleted.root, Deleted.stack)
            BY DeletedIs
        <3>3. plans'[q] = Deleted
            BY <2>7, <1>13
        <3> QED
            BY <3>1, <3>2, <3>3 DEF IsPlanOf
    <2>8. CASE q = p
        <3>1. plans[q] # Deleted
            BY <2>8, <1>3 DEF Deleted, Plan
        <3>2. StackInv(heap', plans[p].root, t)
            <4>1. CASE ok
                <5>1. StackInv(heap', plans[p].root, s)
                    BY <4>1, <2>6, <2>8, <1>2, <1>13
                <5>2. StackInv(heap', plans[p].root, Tail(s))
                    BY <5>1, <1>15, TailStack
                <5> QED
                    BY <4>1, <5>2, <1>6
            <4>2. CASE ~ok
                BY <4>2, <1>17 DEF StackInv
            <4> QED
                BY <4>1, <4>2
        <3> QED
            BY <3>1, <3>2, <2>1, <2>5, <2>8, <1>13, <1>14 DEF IsPlanOf
    <2>9. CASE q \notin ch /\ q # p
        <3>1. plans'[q] = plans[q]
            BY <2>9, <1>13
        <3>2. StackInv(heap', plans[q].root, plans[q].stack)
            BY <2>6, <2>9
        <3> QED
            BY <3>1, <3>2, <2>1, <2>5, <2>9 DEF IsPlanOf
    <2> QED
        BY <2>7, <2>8, <2>9
<1>26. \A q \in DOMAIN plans' : IsPlanOf(heap', plans', q)
    BY <1>13, <1>25
<1>27. \A o \in Owned' : o \in Owned \ gone
    BY <1>20
<1> QED
    BY <1>3, <1>10, <1>11, <1>12, <1>22, <1>24, <1>26, <1>27, EndStep

-----------------------------------------------------------------------------
(* Calls of the library.                                                   *)

\* Only the plan of triggerTree is left when its frames are done.
LEMMA AllHaveEnded ==
    ASSUME PlanInv, plans # <<>>, plans[1].stack = <<>>
    PROVE  \A q \in DOMAIN plans : plans[q].stack = <<>> /\ plans[q].root = NoObject
<1>1. DOMAIN plans = 1..Len(plans) /\ Len(plans) \in Nat /\ 1 \in DOMAIN plans
    BY SeqIs DEF PlanInv
<1>2. Deleted.stack = <<>> /\ Deleted.root = NoObject
    BY DeletedIs
<1>3. ASSUME NEW z \in DOMAIN plans, z # 1, plans[z] # Deleted PROVE FALSE
    <2>1. PICK S : S = {q \in DOMAIN plans : q # 1 /\ plans[q] # Deleted}
        OBVIOUS
    <2>2. S # {} /\ S \subseteq Nat
        BY <1>1, <1>3, <2>1
    <2>3. PICK q \in S : \A x \in S : q <= x
        BY <2>2, LeastExists
    <2>4. PICK x : x = plans[q].parent
        OBVIOUS
    <2>5. IsPlanOf(heap, plans, q) /\ q \in DOMAIN plans /\ q # 1 /\ plans[q] # Deleted
        BY <2>1, PlanInvIs
    <2>6. x \in 1..(q - 1) /\ Waits(plans[x])
        BY <2>4, <2>5 DEF IsPlanOf
    <2>7. plans[x].stack # <<>>
        BY <2>6 DEF Waits
    <2>8. x # 1 /\ plans[x] # Deleted
        BY <2>7, <1>2
    <2>9. x \in S /\ x < q
        BY <2>1, <2>5, <2>6, <2>8, <1>1
    <2>10. q \in Nat /\ x \in Nat
        BY <2>2, <2>9
    <2> QED
        BY <2>3, <2>9, <2>10
<1>4. plans[1].root = NoObject
    BY <1>1 DEF PlanInv
<1> QED
    BY <1>2, <1>3, <1>4

\* Nothing is owned by plans without frames and trees.
LEMMA NoPlanOwns ==
    ASSUME NEW out, NEW ts, NEW rs, NEW ps,
           \A q \in DOMAIN ps : ps[q].stack = <<>> /\ ps[q].root = NoObject,
           NEW none, none = <<>>
    PROVE  \A o : IsOwner(o, out, ts, rs, ps) <=> IsOwner(o, out, ts, rs, none)
<1>1. DOMAIN none = {} /\ \A q \in DOMAIN ps : DOMAIN ps[q].stack = {}
    BY EmptyIs
<1> QED
    BY <1>1 DEF IsOwner

LEMMA ReturnTriggerStep ==
    ASSUME IInv, ReturnTrigger
    PROVE  StepIsRight
<1>1. HeapInv /\ OwnInv /\ PlanInv /\ RegisteredInv
    BY DEF IInv
<1>2. PICK none, gone : none = <<>> /\ gone = {}
    OBVIOUS
<1>3. /\ plans # <<>> /\ plans[1].stack = <<>> /\ plans' = none
      /\ heap' = heap /\ copies' = copies
      /\ output' = output /\ trees' = trees /\ resources' = resources
    BY <1>2 DEF ReturnTrigger
<1>4. \A q \in DOMAIN plans : plans[q].stack = <<>> /\ plans[q].root = NoObject
    BY <1>1, <1>3, AllHaveEnded
<1>5. \A o : IsOwner(o, output, trees, resources, plans)
                <=> IsOwner(o, output, trees, resources, none)
    BY <1>2, <1>4, NoPlanOwns
<1>6. \A o : o \in Owned <=> o \in Owned'
    BY <1>3, <1>5, OwnedIs
<1>7. CopiesOf(gone) = {}
    BY <1>2 DEF CopiesOf
<1>8. Evolves(heap, copies, heap', copies', {}, {})
    BY <1>1, <1>3, StaysAsItIs DEF HeapInv
<1>9. SafeStep(gone, {}, 1)
    BY <1>2, <1>7, <1>8 DEF SafeStep
<1>10. \A o \in Owned : o[4][1] \in 1..copies /\ copies \in Nat
    BY <1>1, OwnedCopies
<1>11. OwnersStep(gone)
    BY <1>2, <1>6, <1>10 DEF OwnersStep
<1>12. PlanInv'
    <2>1. IsSeq(none) /\ DOMAIN none = {}
        BY <1>2, EmptyIs
    <2> QED
        BY <2>1, <1>3, PlanInvIs
<1>13. RegisteredInv'
    BY <1>1, <1>3, <1>9, MapsStay
<1>14. KeepsStep(gone)
    <2>1. ASSUME NEW m \in DOMAIN heap' PROVE ~(m[1] > copies)
        <3>1. m[1] \in 1..copies /\ copies \in Nat
            BY <1>1, <1>3, ShapedObject DEF HeapInv
        <3> QED
            BY <3>1
    <2> QED
        BY <2>1, <1>6 DEF KeepsStep
<1> QED
    BY <1>9, <1>11, <1>12, <1>13, <1>14, Concluded

\* root is the root of all, a copy of n.
OneCopy(mem, n, all, root) ==
    /\ Evolves(mem.heap, mem.copies, all.heap, all.copies, {}, {})
    /\ root = all.made[1] /\ root \in Object /\ root[1] = mem.copies + 1
    /\ mem.copies \in Nat
    /\ IsWhole(all.heap, root)
    /\ Unfilled(mem.heap, n) => Unfilled(all.heap, root)
    /\ \A m \in DOMAIN all.heap : m[1] > mem.copies => m \in Span(root)

LEMMA CopyOneIs ==
    ASSUME NEW mem, Shaped(mem.heap, mem.copies), Bounded(mem.heap),
           NEW n, n \in DOMAIN mem.heap, NEW all, all = Copy(mem, n),
           NEW root, root = all.made[1]
    PROVE  OneCopy(mem, n, all, root)
<1>1. PICK objects : objects = <<n>>
    OBVIOUS
<1>2. /\ objects \in Seq(DOMAIN mem.heap)
      /\ DOMAIN objects = {1} /\ objects[1] = n
    <2>1. PICK S : S = DOMAIN mem.heap
        OBVIOUS
    <2>2. n \in S
        BY <2>1
    <2>3. objects \in Seq(S)
        BY <1>1, <2>2
    <2>4. DOMAIN objects = 1..1 /\ objects[1] = n
        BY <1>1, SmallSeqs
    <2> QED
        BY <2>1, <2>3, <2>4
<1>3. all = CopyAll(mem, objects)
    BY <1>1 DEF Copy
<1>4. Evolves(mem.heap, mem.copies, all.heap, all.copies, {}, {})
    BY <1>2, <1>3, CopyAllIs
<1>5. Copied(mem, objects, all)
    BY <1>2, <1>3, CopyAllIs
<1>6. /\ root \in Object /\ root[1] = mem.copies + 1 /\ IsWhole(all.heap, root)
      /\ Unfilled(mem.heap, n) => Unfilled(all.heap, root)
      /\ \A m \in DOMAIN all.heap : m[1] > mem.copies => m \in Span(root)
    BY <1>2, <1>5 DEF Copied
<1>7. mem.copies \in Nat
    BY DEF Shaped
<1> QED
    BY <1>4, <1>6, <1>7 DEF OneCopy

\* The plans of an execution go on, whatever a caller does meanwhile.
LEMMA PlansStay ==
    ASSUME HeapInv, OwnInv, PlanInv, NEW gone, NEW p, SafeStep(gone, {}, p),
           \A o \in gone : o[1] = "output", plans' = plans
    PROVE  PlanInv'
<1>1. ASSUME NEW q \in DOMAIN plans PROVE IsPlanOf(heap', plans, q)
    <2>1. \A o \in gone : ~OfPlan(o, q)
        BY DEF OfPlan
    <2>2. StackInv(heap', plans[q].root, plans[q].stack)
        BY <2>1, OtherStackStays
    <2>3. IsPlanOf(heap, plans, q)
        BY PlanInvIs
    <2> QED
        BY <2>2, <2>3 DEF IsPlanOf
<1>2. IsSeq(plans)
    BY DEF PlanInv
<1> QED
    BY <1>1, <1>2, PlanInvIs

\* The garden's copy of a registered tree.
LEMMA TreeCopied ==
    ASSUME IInv, NEW id \in DOMAIN trees,
           NEW all, all = GetTree(Memory, trees, id),
           heap' = all.heap, copies' = all.copies
    PROVE  /\ SafeStep({}, {}, 1)
           /\ \E root : /\ root = all.made[1]
                        /\ root \in Object /\ root[1] = copies + 1 /\ copies \in Nat
                        /\ IsWhole(heap', root) /\ Unfilled(heap', root)
                        /\ \A m \in DOMAIN heap' : m[1] > copies => m \in Span(root)
<1>1. HeapInv /\ OwnInv /\ RegisteredInv
    BY DEF IInv
<1>2. PICK mem, n, root : mem = Memory /\ n = trees[id] /\ root = all.made[1]
    OBVIOUS
<1>3. mem.heap = heap /\ mem.copies = copies
    BY <1>2, MemoryIs
<1>4. n \in DOMAIN heap /\ Unfilled(heap, n)
    <2>1. PICK o : o = <<"tree", id, 0, trees[id]>>
        OBVIOUS
    <2>2. o \in Owned /\ o[4] = n
        BY <2>1, <1>1, <1>2, OwnerOfMap
    <2> QED
        BY <2>2, <1>1, <1>2, OwnedCopies DEF RegisteredInv
<1>5. OneCopy(mem, n, all, root)
    <2>1. all = Copy(mem, n)
        BY <1>2 DEF GetTree
    <2>2. Shaped(mem.heap, mem.copies) /\ Bounded(mem.heap) /\ n \in DOMAIN mem.heap
        BY <1>1, <1>3, <1>4 DEF HeapInv
    <2> QED
        BY <2>1, <2>2, <1>2, CopyOneIs
<1>6. Evolves(heap, copies, heap', copies', {}, {})
    BY <1>3, <1>5 DEF OneCopy
<1>7. CopiesOf({}) = {}
    BY DEF CopiesOf
<1>8. SafeStep({}, {}, 1)
    BY <1>6, <1>7 DEF SafeStep
<1>9. /\ root = all.made[1]
      /\ root \in Object /\ root[1] = copies + 1 /\ copies \in Nat
      /\ IsWhole(heap', root) /\ Unfilled(heap', root)
      /\ \A m \in DOMAIN heap' : m[1] > copies => m \in Span(root)
    BY <1>2, <1>3, <1>4, <1>5 DEF OneCopy
<1> QED
    BY <1>8, <1>9

LEMMA GetTreeValidMapStep ==
    ASSUME IInv, NEW id, GetTreeValidMap(id)
    PROVE  StepIsRight
<1>1. HeapInv /\ OwnInv /\ PlanInv /\ RegisteredInv
    BY DEF IInv
<1>2. PICK all : all = GetTree(Memory, trees, id)
    OBVIOUS
<1>3. /\ id \in DOMAIN trees /\ heap' = all.heap /\ copies' = all.copies
      /\ output' = output /\ trees' = trees /\ resources' = resources
      /\ plans' = plans
    BY <1>2 DEF GetTreeValidMap, Use
<1>4. SafeStep({}, {}, 1)
    BY <1>2, <1>3, TreeCopied
<1>5. \A o : o \in Owned <=> o \in Owned'
    BY <1>3, OwnedIs
<1>6. \A o \in Owned : o[4][1] \in 1..copies /\ copies \in Nat
    BY <1>1, OwnedCopies
<1>7. OwnersStep({})
    BY <1>5, <1>6 DEF OwnersStep
<1>8. PlanInv'
    BY <1>1, <1>3, <1>4, PlansStay
<1>9. RegisteredInv'
    BY <1>1, <1>3, <1>4, MapsStay
<1> QED
    BY <1>3, <1>4, <1>7, <1>8, <1>9, Concluded

LEMMA PlanIs ==
    ASSUME NEW parent \in Nat, NEW root, root = NoObject \/ root \in Object,
           NEW s, IsSeq(s), NEW r, r = Plan(parent, root, s)
    PROVE  IsPlan(r) /\ r.parent = parent /\ r.root = root /\ r.stack = s
<1>1. PICK no : no = FALSE
    OBVIOUS
<1>2. r = [parent |-> parent, root |-> root, stack |-> s, failed |-> no]
    BY <1>1, Zenon DEF Plan
<1>3. r.parent = parent /\ r.root = root /\ r.stack = s /\ r.failed = no
    BY <1>2
<1>4. r = [parent |-> r.parent, root |-> r.root, stack |-> r.stack, failed |-> r.failed]
    BY <1>2, <1>3
<1>5. r.failed \in BOOLEAN /\ ~r.failed
    BY <1>1, <1>3, Zenon
<1> QED
    BY <1>3, <1>4, <1>5 DEF IsPlan

LEMMA RunIs ==
    ASSUME NEW n, n \in Object, NEW f, f = Frame("run", n, 0)
    PROVE  IsFrame(f) /\ f.op = "run" /\ f.object = n /\ Works(f) /\ Executes(f)
<1>1. PICK op, at : op = "run" /\ at = 0
    OBVIOUS
<1>2. op \in {"run", "do", "blossom", "loop", "delete", "delete on success"}
    BY <1>1
<1>3. f = Frame(op, n, at) /\ at \in Nat
    BY <1>1
<1>4. IsFrame(f) /\ f.op = op /\ f.object = n
    BY <1>2, <1>3, FrameIs
<1> QED
    BY <1>1, <1>4 DEF Works, Executes

LEMMA TriggerTreeStep ==
    ASSUME IInv, NEW id, TriggerTree(id)
    PROVE  StepIsRight
<1>1. HeapInv /\ OwnInv /\ PlanInv /\ RegisteredInv
    BY DEF IInv
<1>2. PICK all : all = GetTree(Memory, trees, id)
    OBVIOUS
<1>3. PICK root : root = all.made[1]
    OBVIOUS
<1>4. PICK s, f, d : s = <<f, d>> /\ f = Frame("run", root, 0) /\ d = Delete(root)
    OBVIOUS
<1>5. PICK r : r = Plan(0, NoObject, s)
    OBVIOUS
<1>6. PICK ps : ps = <<r>>
    OBVIOUS
<1>7. /\ id \in DOMAIN trees /\ heap' = all.heap /\ copies' = all.copies
      /\ output' = output /\ trees' = trees /\ resources' = resources
      /\ plans = <<>> /\ plans' = ps
    BY <1>2, <1>3, <1>4, <1>5, <1>6 DEF TriggerTree, MayCall, Use
<1>8. /\ SafeStep({}, {}, 1)
      /\ root \in Object /\ root[1] = copies + 1 /\ copies \in Nat
      /\ IsWhole(heap', root) /\ Unfilled(heap', root)
      /\ \A m \in DOMAIN heap' : m[1] > copies => m \in Span(root)
    BY <1>2, <1>3, <1>7, TreeCopied
<1>9. /\ IsSeq(s) /\ DOMAIN s = 1..2 /\ s[1] = f /\ s[2] = d /\ Len(s) = 2
    <2>1. IsSeq(s) /\ DOMAIN s = 1..2 /\ s[1] = f /\ s[2] = d
        BY <1>4, SmallSeqs
    <2> QED
        BY <2>1, SeqIs
<1>10. /\ IsFrame(f) /\ f.op = "run" /\ f.object = root /\ Works(f) /\ Executes(f)
    BY <1>4, <1>8, RunIs
<1>11. /\ IsFrame(d) /\ d.op = "delete" /\ d.object = root /\ Deletes(d) /\ ~Works(d)
    BY <1>4, <1>8, DeleteIs
<1>12. ~Deletes(f) /\ ~Executes(d) /\ f.op # "blossom" /\ d.op # "blossom"
    BY <1>10, <1>11 DEF Deletes, Executes
<1>13. IsPlan(r) /\ r.parent = 0 /\ r.root = NoObject /\ r.stack = s
    BY <1>5, <1>9, PlanIs
<1>14. IsSeq(ps) /\ DOMAIN ps = 1..1 /\ ps[1] = r
    BY <1>6, SmallSeqs
<1>15. PICK new : new = <<"frame", 1, 0, root>>
    OBVIOUS
<1>16. ASSUME NEW o
       PROVE  o \in Owned' <=> o \in Owned \/ o = new
    <2>1. /\ o \in Owned' <=> IsOwner(o, output, trees, resources, ps)
          /\ o \in Owned <=> IsOwner(o, output, trees, resources, plans)
        BY <1>7, OwnedIs
    <2>2. DOMAIN plans = {}
        BY <1>7, EmptyIs
    <2>3. ASSUME NEW q \in DOMAIN ps, NEW k \in DOMAIN ps[q].stack,
                 Deletes(ps[q].stack[k])
          PROVE  <<"frame", q, Len(ps[q].stack) - k, ps[q].stack[k].object>> = new
        <3>1. q = 1 /\ ps[q].stack = s
            BY <1>13, <1>14
        <3>2. k \in DOMAIN s /\ Deletes(s[k])
            BY <2>3, <3>1
        <3>3. k = 2
            BY <3>2, <1>9, <1>12
        <3>4. Len(s) - k = 0 /\ s[k].object = root
            BY <3>3, <1>9, <1>11
        <3> QED
            BY <3>1, <3>4, <1>15
    <2>4. IsOwner(new, output, trees, resources, ps)
        <3>1. new[4] = root /\ root # NoObject
            BY <1>8, <1>15, NoObjectIsNone
        <3>2. ps[1].stack = s /\ 1 \in DOMAIN ps
            BY <1>13, <1>14
        <3>3. 2 \in DOMAIN s /\ Deletes(s[2]) /\ s[2].object = root /\ Len(s) - 2 = 0
            BY <1>9, <1>11
        <3>4. new = <<"frame", 1, Len(s) - 2, s[2].object>>
            BY <3>3, <1>15
        <3> QED
            BY <3>1, <3>2, <3>3, <3>4 DEF IsOwner
    <2>5. \A q \in DOMAIN ps : ps[q].root = NoObject
        BY <1>13, <1>14
    <2>6. IsOwner(o, output, trees, resources, ps)
                => IsOwner(o, output, trees, resources, plans) \/ o = new
        BY <2>3, <2>5 DEF IsOwner
    <2>7. IsOwner(o, output, trees, resources, plans)
                => IsOwner(o, output, trees, resources, ps)
        BY <2>2 DEF IsOwner
    <2> QED
        BY <2>1, <2>4, <2>6, <2>7
<1>17. new[4] = root
    BY <1>15
<1>18. OwnersStep({})
    <2>1. \A o \in Owned : o[4][1] \in 1..copies
        BY <1>1, OwnedCopies
    <2>2. \A o \in Owned : ~(o[4][1] > copies)
        BY <2>1, <1>8
    <2>3. root[1] > copies
        BY <1>8
    <2> QED
        BY <2>2, <2>3, <1>8, <1>16, <1>17 DEF OwnersStep
<1>19. KeepsStep({})
    BY <1>8, <1>16, <1>17 DEF KeepsStep
<1>20. RegisteredInv'
    BY <1>1, <1>7, <1>8, MapsStay
<1>21. StackInv(heap', NoObject, s)
    <2>1. root \in Span(root)
        BY <1>8, InOwnSpan DEF Object
    <2>2. \A k \in DOMAIN s : (s[k] = f /\ k = 1) \/ (s[k] = d /\ k = 2)
        BY <1>9
    <2>3. \A k \in DOMAIN s : IsFrame(s[k])
        BY <2>2, <1>10, <1>11
    <2>4. ASSUME NEW k \in DOMAIN s, Works(s[k])
          PROVE  \E l \in DOMAIN s :
                    k < l /\ Deletes(s[l]) /\ s[k].object \in Span(s[l].object)
        <3>1. k = 1 /\ s[k].object = root
            BY <2>2, <2>4, <1>10, <1>11
        <3>2. 2 \in DOMAIN s /\ k < 2 /\ Deletes(s[2]) /\ s[2].object = root
            BY <3>1, <1>9, <1>11
        <3> QED
            BY <3>1, <3>2, <2>1
    <2>5. ASSUME NEW k \in DOMAIN s, NEW l \in DOMAIN s, k < l, Works(s[k]), Works(s[l])
          PROVE  FALSE
        BY <2>2, <2>5, <1>11
    <2>6. \A k \in DOMAIN s : Executes(s[k]) => Unfilled(heap', s[k].object)
        BY <2>2, <1>8, <1>10, <1>12
    <2>7. \A k \in DOMAIN s : s[k].op # "blossom"
        BY <2>2, <1>12
    <2> QED
        BY <2>3, <2>4, <2>5, <2>6, <2>7 DEF StackInv
<1>22. PlanInv'
    <2>1. IsPlanOf(heap', ps, 1)
        BY <1>13, <1>14, <1>21 DEF IsPlanOf
    <2>2. \A q \in DOMAIN plans' : IsPlanOf(heap', plans', q)
        BY <2>1, <1>7, <1>14
    <2> QED
        BY <2>2, <1>7, <1>14, PlanInvIs
<1> QED
    BY <1>8, <1>18, <1>19, <1>20, <1>22, Concluded

\* A finite set can be listed.
LEMMA SetToSeqIs ==
    ASSUME NEW S, IsFiniteSet(S), NEW met, met = SetToSeq(S)
    PROVE  \E n \in Nat : met \in [1..n -> S]
<1>1. Cardinality(S) \in Nat /\ ExistsBijection(1..Cardinality(S), S)
    BY FS_CardinalityType
<1>2. PICK f \in Bijection(1..Cardinality(S), S) : TRUE
    BY <1>1 DEF ExistsBijection
<1>3. f \in [1..Cardinality(S) -> S] /\ IsInjective(f)
    BY <1>2 DEF Bijection, Injection
<1>4. met \in [1..Cardinality(S) -> S]
    BY <1>3 DEF SetToSeq
<1> QED
    BY <1>1, <1>4

\* A copy remains what it is when others are added.
LEMMA WholeStays ==
    ASSUME NEW h, NEW c, NEW h2, NEW c2, Shaped(h, c), Evolves(h, c, h2, c2, {}, {}),
           NEW n, IsWhole(h, n)
    PROVE  /\ IsWhole(h2, n)
           /\ Unfilled(h, n) => Unfilled(h2, n)
<1>1. n \in DOMAIN h /\ n[1] \in 1..c /\ c \in Nat /\ Span(n) \subseteq DOMAIN h
    BY ShapedObject DEF IsWhole
<1>2. n \in DOMAIN h2
    BY <1>1 DEF Evolves
<1>3. ASSUME NEW m \in DOMAIN h2, m[1] = n[1] PROVE m \in Span(n)
    <2>1. m \in DOMAIN h
        BY <1>1, <1>3 DEF Evolves
    <2> QED
        BY <2>1, <1>3 DEF IsWhole
<1>4. Unfilled(h, n) => Unfilled(h2, n)
    BY <1>1, UnfilledStays
<1> QED
    BY <1>2, <1>3, <1>4 DEF IsWhole

OutputOwner == IF output = NoObject THEN {} ELSE {<<"output", 0, 0, output>>}

\* The memory without the parser's output.
LEMMA OutputIs ==
    ASSUME HeapInv, OwnInv, NEW gone, gone = OutputOwner,
           NEW h, h = Without(heap, {output} \ {NoObject})
    PROVE  /\ gone \subseteq Owned
           /\ \A o \in gone : o[1] = "output"
           /\ \A o \in Owned : o[1] = "output" => o \in gone
           /\ Evolves(heap, copies, h, copies, CopiesOf(gone), {})
<1>1. PICK new : new = <<"output", 0, 0, output>>
    OBVIOUS
<1>2. gone = (IF output = NoObject THEN {} ELSE {new}) /\ new[4] = output /\ new[1] = "output"
    BY <1>1 DEF OutputOwner
<1>3. output # NoObject => new \in Owned
    <2>1. output # NoObject => IsOwner(new, output, trees, resources, plans)
        BY <1>1, <1>2 DEF IsOwner
    <2> QED
        BY <2>1, OwnedIs
<1>4. gone \subseteq Owned /\ \A o \in gone : o[1] = "output"
    BY <1>2, <1>3
<1>5. ASSUME NEW o \in Owned, o[1] = "output" PROVE o \in gone
    <2>1. IsOwner(o, output, trees, resources, plans)
        BY OwnedIs
    <2>2. o = new /\ output # NoObject
        BY <2>1, <1>1, <1>2, <1>5 DEF IsOwner
    <2> QED
        BY <2>2, <1>2
<1>6. PICK objects : objects = {output} \ {NoObject}
    OBVIOUS
<1>7. objects = {o[4] : o \in gone}
    <2>1. CASE output = NoObject
        BY <2>1, <1>2, <1>6
    <2>2. CASE output # NoObject
        BY <2>2, <1>2, <1>6
    <2> QED
        BY <2>1, <2>2
<1>8. \A n \in objects : IsWhole(heap, n)
    BY <1>4, <1>7 DEF OwnInv
<1>9. Evolves(heap, copies, h, copies, {n[1] : n \in objects}, {})
    BY <1>6, <1>8, WithoutIs DEF HeapInv
<1>10. {n[1] : n \in objects} = CopiesOf(gone)
    BY <1>7 DEF CopiesOf
<1> QED
    BY <1>4, <1>5, <1>9, <1>10

\* new is the tree of a text, in the place of the parser's output.
IsParsed(mem, new, gone) ==
    /\ Evolves(heap, copies, mem.heap, mem.copies, CopiesOf(gone), {})
    /\ mem.copies = copies + 1 /\ copies \in Nat
    /\ new \in Object /\ new[1] = copies + 1
    /\ IsWhole(mem.heap, new) /\ Unfilled(mem.heap, new)

LEMMA ParsedIs ==
    ASSUME HeapInv, OwnInv, NEW gone, gone = OutputOwner, NEW root \in Item,
           NEW mem, mem = Parsed(root), NEW new, new = mem.made[1]
    PROVE  IsParsed(mem, new, gone)
<1>1. PICK h : h = Without(heap, {output} \ {NoObject})
    OBVIOUS
<1>2. Evolves(heap, copies, h, copies, CopiesOf(gone), {})
    BY <1>1, OutputIs
<1>3. copies \in Nat /\ Shaped(h, copies) /\ Bounded(h) /\ Shaped(heap, copies)
    BY <1>2 DEF Evolves, HeapInv, Shaped
<1>4. /\ mem.copies = copies + 1 /\ new = <<copies + 1, root>>
      /\ mem.heap = With(h, [m \in {<<copies + 1, i>> : i \in ItemsOf(root)} |->
                     [parts |-> [k \in DOMAIN Parts[m[2]] |->
                                     <<copies + 1, Parts[m[2]][k]>>],
                      filled |-> FALSE]])
    BY <1>1 DEF Parsed
<1>5. /\ Evolves(h, copies, mem.heap, copies + 1, {}, {})
      /\ IsWhole(mem.heap, <<copies + 1, root>>)
      /\ Unfilled(mem.heap, <<copies + 1, root>>)
    BY <1>3, <1>4, ThenParsed
<1>6. Evolves(heap, copies, mem.heap, copies + 1, CopiesOf(gone), {})
    BY <1>2, <1>3, <1>5, ThenCopied
<1>7. new \in Object /\ new[1] = copies + 1
    BY <1>3, <1>4 DEF Object
<1> QED
    BY <1>3, <1>4, <1>5, <1>6, <1>7 DEF IsParsed

LEMMA AddFailingStep ==
    ASSUME IInv, NEW text \in DOMAIN Text, AddFailing(text)
    PROVE  StepIsRight
<1>1. HeapInv /\ OwnInv /\ PlanInv /\ RegisteredInv
    BY DEF IInv
<1>2. PICK gone, root : gone = OutputOwner /\ root = Text[text].root
    OBVIOUS
<1>3. PICK mem, h : mem = Parsed(root) /\ h = Without(heap, {output} \ {NoObject})
    OBVIOUS
<1>4. PICK new : new = mem.made[1]
    OBVIOUS
<1>5. root \in Item
    BY <1>2, TextAssumption
<1>6. /\ \/ heap' = mem.heap /\ copies' = mem.copies /\ output' = new
         \/ heap' = h /\ copies' = copies /\ output' = NoObject
      /\ trees' = trees /\ resources' = resources /\ plans' = plans
    BY <1>2, <1>3, <1>4 DEF AddFailing, Use
<1>7. IsParsed(mem, new, gone)
    BY <1>1, <1>2, <1>3, <1>4, <1>5, ParsedIs
<1>8. /\ gone \subseteq Owned /\ \A o \in gone : o[1] = "output"
      /\ \A o \in Owned : o[1] = "output" => o \in gone
      /\ Evolves(heap, copies, h, copies, CopiesOf(gone), {})
    BY <1>1, <1>2, <1>3, OutputIs
<1>9. Evolves(heap, copies, heap', copies', CopiesOf(gone), {})
    BY <1>6, <1>7, <1>8 DEF IsParsed
<1>10. SafeStep(gone, {}, 1)
    BY <1>8, <1>9 DEF SafeStep
<1>11. \A o \in Owned : o[4][1] \in 1..copies /\ copies \in Nat
    BY <1>1, OwnedCopies
<1>12. PICK added : added = <<"output", 0, 0, output'>>
    OBVIOUS
<1>13. ASSUME NEW o \in Owned'
       PROVE  o \in Owned \ gone \/ (o = added /\ output' # NoObject)
    <2>1. IsOwner(o, output', trees, resources, plans)
        BY <1>6, OwnedIs
    <2>2. o # added => IsOwner(o, output, trees, resources, plans) /\ o[1] # "output"
        BY <2>1, <1>12 DEF IsOwner
    <2>3. o # added => o \in Owned /\ o \notin gone
        BY <2>2, <1>8, OwnedIs
    <2>4. o = added => output' # NoObject
        BY <2>1, <1>12 DEF IsOwner
    <2> QED
        BY <2>3, <2>4
<1>14. OwnersStep(gone)
    <2>1. added[4] = output'
        BY <1>12
    <2>2. output' # NoObject =>
            output'[1] > copies /\ IsWhole(heap', output')
        BY <1>6, <1>7 DEF IsParsed
    <2>3. \A o \in Owned : ~(o[4][1] > copies)
        BY <1>11
    <2> QED
        BY <2>1, <2>2, <2>3, <1>13 DEF OwnersStep
<1>15. PlanInv'
    BY <1>1, <1>6, <1>8, <1>10, PlansStay
<1>16. RegisteredInv'
    BY <1>1, <1>6, <1>10, MapsStay
<1> QED
    BY <1>6, <1>10, <1>14, <1>15, <1>16, Concluded

\* The resources that the validator copies exist.
LEMMA ResourcesExist ==
    ASSUME HeapInv, OwnInv, RegisteredInv, NEW gone, \A o \in gone : o[1] = "output",
           gone \subseteq Owned, NEW root \in Item, NEW last \in ItemsOf(root),
           NEW h, \A m \in DOMAIN heap : m[1] \notin CopiesOf(gone) => m \in h
    PROVE  ResourcesMet(root, last) \in Seq(h)
<1>1. PICK S : S = {i \in root..last : Kind[i] = "blossom"
                                        /\ Target[i] \in DOMAIN resources}
    OBVIOUS
<1>2. root \in Int /\ last \in Int
    BY PartsAreWithin DEF ItemsOf
<1>3. IsFiniteSet(S)
    <2>1. IsFiniteSet(root..last)
        BY <1>2, FS_Interval
    <2>2. S \subseteq root..last
        BY <1>1
    <2> QED
        BY <2>1, <2>2, FS_Subset
<1>4. PICK met : met = SetToSeq(S)
    OBVIOUS
<1>5. PICK n \in Nat : met \in [1..n -> S]
    BY <1>3, <1>4, SetToSeqIs
<1>6. ResourcesMet(root, last) = [j \in 1..n |-> resources[Target[met[j]]]]
    <2>1. ResourcesMet(root, last) = [j \in DOMAIN met |-> resources[Target[met[j]]]]
        BY <1>1, <1>4 DEF ResourcesMet
    <2>2. DOMAIN met = 1..n
        BY <1>5
    <2> QED
        BY <2>1, <2>2
<1>7. ASSUME NEW j \in 1..n PROVE resources[Target[met[j]]] \in h
    <2>1. met[j] \in S
        BY <1>5
    <2>2. PICK id \in DOMAIN resources : id = Target[met[j]]
        BY <2>1, <1>1
    <2>3. PICK o : o = <<"resource", id, 0, resources[id]>>
        OBVIOUS
    <2>4. o \in Owned /\ o \notin gone /\ o[4] = resources[id]
        BY <2>3, OwnerOfMap
    <2>5. o[4] \in DOMAIN heap
        BY <2>4, OwnedCopies
    <2>6. o[4][1] \notin CopiesOf(gone)
        BY <2>4 DEF OwnInv, CopiesOf
    <2> QED
        BY <2>2, <2>4, <2>5, <2>6
<1>8. [j \in 1..n |-> resources[Target[met[j]]]] \in Seq(h)
    BY <1>7, IsASeq
<1> QED
    BY <1>6, <1>8

LEMMA AddStep ==
    ASSUME IInv, NEW text \in DOMAIN Text, NEW last \in ItemsOf(Text[text].root),
           NEW valid, Add(text, last, valid)
    PROVE  StepIsRight
<1>1. HeapInv /\ OwnInv /\ PlanInv /\ RegisteredInv
    BY DEF IInv
<1>2. PICK gone, root : gone = OutputOwner /\ root = Text[text].root
    OBVIOUS
<1>3. PICK mem : mem = Parsed(root)
    OBVIOUS
<1>4. PICK new : new = mem.made[1]
    OBVIOUS
<1>5. PICK copied : copied = Copy(mem, new)
    OBVIOUS
<1>6. PICK tree, met : tree = copied.made[1] /\ met = ResourcesMet(root, last)
    OBVIOUS
<1>7. PICK all : all = CopyAll(copied, met)
    OBVIOUS
<1>8. PICK id, kind : id = Text[text].id /\ kind = Text[text].kind
    OBVIOUS
<1>9. root \in Item
    BY <1>2, TextAssumption
<1>10. /\ heap' = all.heap /\ copies' = all.copies /\ output' = new
       /\ trees' = IF valid /\ kind = "tree"
                   THEN With(trees, [x \in {id} |-> tree]) ELSE trees
       /\ resources' = IF valid /\ kind = "resource"
                       THEN With(resources, [x \in {id} |-> tree]) ELSE resources
       /\ plans' = plans
    BY <1>2, <1>3, <1>4, <1>5, <1>6, <1>7, <1>8 DEF Add, Use
<1>11. IsParsed(mem, new, gone)
    BY <1>1, <1>2, <1>3, <1>4, <1>9, ParsedIs
<1>12. /\ gone \subseteq Owned /\ \A o \in gone : o[1] = "output"
       /\ \A o \in Owned : o[1] = "output" => o \in gone
    <2>1. PICK h : h = Without(heap, {output} \ {NoObject})
        OBVIOUS
    <2> QED
        BY <2>1, <1>1, <1>2, OutputIs
<1>13. OneCopy(mem, new, copied, tree)
    <2>1. Shaped(mem.heap, mem.copies) /\ Bounded(mem.heap) /\ new \in DOMAIN mem.heap
        BY <1>11 DEF IsParsed, Evolves, IsWhole
    <2> QED
        BY <2>1, <1>5, <1>6, CopyOneIs
<1>14. /\ copies \in Nat /\ mem.copies = copies + 1 /\ copied.copies \in Nat
       /\ Shaped(mem.heap, mem.copies)
       /\ Shaped(copied.heap, copied.copies) /\ Bounded(copied.heap)
    BY <1>11, <1>13 DEF IsParsed, OneCopy, Evolves, Shaped
<1>15. Evolves(heap, copies, copied.heap, copied.copies, CopiesOf(gone), {})
    BY <1>1, <1>11, <1>13, ThenCopied DEF IsParsed, OneCopy, HeapInv
<1>16. met \in Seq(DOMAIN copied.heap)
    <2>1. PICK h : h = DOMAIN copied.heap
        OBVIOUS
    <2>2. \A m \in DOMAIN heap : m[1] \notin CopiesOf(gone) => m \in h
        BY <2>1, <1>15 DEF Evolves
    <2>3. last \in ItemsOf(root)
        BY <1>2
    <2>4. ResourcesMet(root, last) \in Seq(h)
        BY <2>2, <2>3, <1>1, <1>9, <1>12, ResourcesExist
    <2> QED
        BY <2>1, <2>4, <1>6
<1>17. Evolves(copied.heap, copied.copies, heap', copies', {}, {})
    BY <1>7, <1>10, <1>14, <1>16, CopyAllIs
<1>18. Evolves(heap, copies, heap', copies', CopiesOf(gone), {})
    BY <1>1, <1>15, <1>17, ThenCopied DEF HeapInv
<1>19. SafeStep(gone, {}, 1)
    BY <1>12, <1>18 DEF SafeStep
<1>20. /\ new \in Object /\ new[1] = copies + 1 /\ IsWhole(heap', new)
    <2>1. new \in Object /\ new[1] = copies + 1 /\ IsWhole(mem.heap, new)
        BY <1>11 DEF IsParsed
    <2>2. Evolves(mem.heap, mem.copies, copied.heap, copied.copies, {}, {})
        BY <1>13 DEF OneCopy
    <2>3. IsWhole(copied.heap, new)
        BY <2>1, <2>2, <1>14, WholeStays
    <2>4. IsWhole(heap', new)
        BY <2>3, <1>14, <1>17, WholeStays
    <2> QED
        BY <2>1, <2>4
<1>21. /\ tree \in Object /\ tree[1] = copies + 2 /\ IsWhole(heap', tree)
       /\ Unfilled(heap', tree)
    <2>1. /\ tree \in Object /\ tree[1] = mem.copies + 1 /\ IsWhole(copied.heap, tree)
          /\ Unfilled(copied.heap, tree)
        BY <1>11, <1>13 DEF IsParsed, OneCopy
    <2>2. IsWhole(heap', tree) /\ Unfilled(heap', tree)
        BY <2>1, <1>14, <1>17, WholeStays
    <2>3. tree[1] = copies + 2
        BY <2>1, <1>14
    <2> QED
        BY <2>1, <2>2, <2>3
<1>22. \A x \in DOMAIN trees' : \/ x \in DOMAIN trees /\ trees'[x] = trees[x]
                                \/ x = id /\ trees'[x] = tree /\ kind = "tree"
    <2>1. PICK yes : yes = (valid /\ kind = "tree")
        OBVIOUS
    <2>2. trees' = IF yes THEN With(trees, [x \in {id} |-> tree]) ELSE trees
        BY <2>1, <1>10
    <2>3. \A x \in DOMAIN trees' : \/ x \in DOMAIN trees /\ trees'[x] = trees[x]
                                   \/ x = id /\ trees'[x] = tree /\ yes
        BY <2>2 DEF With
    <2> QED
        BY <2>1, <2>3
<1>23. \A x \in DOMAIN resources' :
            \/ x \in DOMAIN resources /\ resources'[x] = resources[x]
            \/ x = id /\ resources'[x] = tree /\ kind = "resource"
    <2>1. PICK yes : yes = (valid /\ kind = "resource")
        OBVIOUS
    <2>2. resources' = IF yes THEN With(resources, [x \in {id} |-> tree]) ELSE resources
        BY <2>1, <1>10
    <2>3. \A x \in DOMAIN resources' :
            \/ x \in DOMAIN resources /\ resources'[x] = resources[x]
            \/ x = id /\ resources'[x] = tree /\ yes
        BY <2>2 DEF With
    <2> QED
        BY <2>1, <2>3
<1>24. PICK a, b, c : /\ a = <<"output", 0, 0, new>>
                      /\ b = <<"tree", id, 0, tree>>
                      /\ c = <<"resource", id, 0, tree>>
    OBVIOUS
<1>25. ASSUME NEW o \in Owned'
       PROVE  \/ o \in Owned \ gone
              \/ o = a
              \/ o = b /\ kind = "tree"
              \/ o = c /\ kind = "resource"
    <2>1. IsOwner(o, new, trees', resources', plans) /\ o[4] # NoObject
        <3>1. IsOwner(o, new, trees', resources', plans)
            BY <1>10, OwnedIs
        <3> QED
            BY <3>1 DEF IsOwner
    <2>2. IsOwner(o, output, trees, resources, plans) /\ o[1] # "output"
                => o \in Owned \ gone
        BY <1>12, OwnedIs
    <2>3. CASE o = <<"output", 0, 0, new>>
        BY <2>3, <1>24
    <2>4. CASE \E x \in DOMAIN trees' : o = <<"tree", x, 0, trees'[x]>>
        <3>1. PICK x \in DOMAIN trees' : o = <<"tree", x, 0, trees'[x]>>
            BY <2>4
        <3>2. CASE x \in DOMAIN trees /\ trees'[x] = trees[x]
            <4>1. o[1] # "output"
                BY <3>1
            <4>2. IsOwner(o, output, trees, resources, plans)
                BY <3>1, <3>2, <2>1 DEF IsOwner
            <4> QED
                BY <4>1, <4>2, <2>2
        <3>3. CASE x = id /\ trees'[x] = tree /\ kind = "tree"
            BY <3>1, <3>3, <1>24
        <3> QED
            BY <3>2, <3>3, <1>22
    <2>5. CASE \E x \in DOMAIN resources' : o = <<"resource", x, 0, resources'[x]>>
        <3>1. PICK x \in DOMAIN resources' : o = <<"resource", x, 0, resources'[x]>>
            BY <2>5
        <3>2. CASE x \in DOMAIN resources /\ resources'[x] = resources[x]
            <4>1. o[1] # "output"
                BY <3>1
            <4>2. IsOwner(o, output, trees, resources, plans)
                BY <3>1, <3>2, <2>1 DEF IsOwner
            <4> QED
                BY <4>1, <4>2, <2>2
        <3>3. CASE x = id /\ resources'[x] = tree /\ kind = "resource"
            BY <3>1, <3>3, <1>24
        <3> QED
            BY <3>2, <3>3, <1>23
    <2>6. CASE \/ \E q \in DOMAIN plans : o = <<"plan", q, 0, plans[q].root>>
               \/ \E q \in DOMAIN plans : \E k \in DOMAIN plans[q].stack :
                    /\ Deletes(plans[q].stack[k])
                    /\ o = <<"frame", q, Len(plans[q].stack) - k, plans[q].stack[k].object>>
        <3>1. o[1] # "output"
            BY <2>6
        <3>2. IsOwner(o, output, trees, resources, plans)
            BY <2>6, <2>1 DEF IsOwner
        <3> QED
            BY <3>1, <3>2, <2>2
    <2> QED
        BY <2>1, <2>3, <2>4, <2>5, <2>6 DEF IsOwner
<1>26. OwnersStep(gone)
    <2>1. a[4] = new /\ b[4] = tree /\ c[4] = tree
        BY <1>24
    <2>2. \A o \in Owned : o[4][1] \in 1..copies
        BY <1>1, OwnedCopies
    <2>3. \A o \in Owned : ~(o[4][1] > copies)
        BY <2>2, <1>14
    <2>4. new[1] > copies /\ tree[1] > copies /\ new[1] # tree[1]
        BY <1>14, <1>20, <1>21
    <2>5. ~(kind = "tree" /\ kind = "resource")
        OBVIOUS
    <2>6. ASSUME NEW o \in Owned'
          PROVE  o \in Owned \ gone \/ (o[4][1] > copies /\ IsWhole(heap', o[4]))
        BY <2>1, <2>4, <1>20, <1>21, <1>25
    <2>7. ASSUME NEW o \in Owned', NEW q \in Owned', o[4][1] > copies,
                 o[4][1] = q[4][1]
          PROVE  o = q
        <3>1. \/ o = a \/ (o = b /\ kind = "tree") \/ (o = c /\ kind = "resource")
            BY <2>3, <2>7, <1>25
        <3>2. \/ q = a \/ (q = b /\ kind = "tree") \/ (q = c /\ kind = "resource")
            BY <2>3, <2>7, <1>25
        <3> QED
            BY <3>1, <3>2, <2>1, <2>4, <2>5, <2>7
    <2> QED
        BY <2>6, <2>7 DEF OwnersStep
<1>27. PlanInv'
    BY <1>1, <1>10, <1>12, <1>19, PlansStay
<1>28. RegisteredInv'
    <2>1. /\ \A x \in DOMAIN trees : Unfilled(heap', trees[x])
          /\ \A x \in DOMAIN resources : Unfilled(heap', resources[x])
        BY <1>1, <1>19, SourcesStep
    <2>2. tree # NoObject
        BY <1>21, NoObjectIsNone
    <2>3. \A x \in DOMAIN trees' : trees'[x] # NoObject /\ Unfilled(heap', trees'[x])
        BY <2>1, <2>2, <1>1, <1>21, <1>22 DEF RegisteredInv
    <2>4. \A x \in DOMAIN resources' :
            resources'[x] # NoObject /\ Unfilled(heap', resources'[x])
        BY <2>1, <2>2, <1>1, <1>21, <1>23 DEF RegisteredInv
    <2>5. NoObject' = NoObject
        BY DEF NoObject
    <2> QED
        BY <2>3, <2>4, <2>5 DEF RegisteredInv
<1> QED
    BY <1>10, <1>19, <1>26, <1>27, <1>28, Concluded

-----------------------------------------------------------------------------
(* The invariant.                                                          *)

LEMMA InitIsRight == Init => IInv
<1> SUFFICES ASSUME Init PROVE IInv
    OBVIOUS
<1>1. PICK none : none = <<>>
    OBVIOUS
<1>2. IsSeq(none) /\ DOMAIN none = {}
    BY <1>1, EmptyIs
<1>3. /\ heap = none /\ copies = 0 /\ output = NoObject
      /\ trees = none /\ resources = none /\ plans = none
    BY <1>1 DEF Init
<1>4. HeapInv
    BY <1>2, <1>3 DEF HeapInv, Shaped, Bounded
<1>5. \A o : o \notin Owned
    <2>1. ASSUME NEW o, IsOwner(o, output, trees, resources, plans) PROVE FALSE
        <3>1. o = <<"output", 0, 0, output>> /\ o[4] # NoObject
            BY <1>2, <1>3, <2>1 DEF IsOwner
        <3> QED
            BY <3>1, <1>3
    <2> QED
        BY <2>1, OwnedIs
<1>6. OwnInv
    BY <1>5 DEF OwnInv
<1>7. PlanInv
    BY <1>2, <1>3 DEF PlanInv
<1>8. RegisteredInv
    BY <1>2, <1>3 DEF RegisteredInv
<1> QED
    BY <1>4, <1>6, <1>7, <1>8 DEF IInv

LEMMA StutterStep ==
    ASSUME IInv, UNCHANGED vars
    PROVE  StepIsRight
<1>1. HeapInv /\ OwnInv /\ PlanInv /\ RegisteredInv
    BY DEF IInv
<1>2. /\ heap' = heap /\ copies' = copies /\ plans' = plans
      /\ output' = output /\ trees' = trees /\ resources' = resources
    BY DEF vars
<1>3. CopiesOf({}) = {}
    BY DEF CopiesOf
<1>4. Evolves(heap, copies, heap', copies', {}, {})
    BY <1>1, <1>2, StaysAsItIs DEF HeapInv
<1>5. SafeStep({}, {}, 1)
    BY <1>3, <1>4 DEF SafeStep
<1>6. \A o \in Owned : o[4][1] \in 1..copies /\ copies \in Nat
    BY <1>1, OwnedCopies
<1>7. \A o : o \in Owned <=> o \in Owned'
    BY <1>2, OwnedIs
<1>8. OwnersStep({})
    BY <1>6, <1>7 DEF OwnersStep
<1>9. PlanInv'
    BY <1>1, <1>2, <1>5, PlansStay
<1>10. RegisteredInv'
    BY <1>1, <1>2, <1>5, MapsStay
<1> QED
    BY <1>2, <1>5, <1>8, <1>9, <1>10, Concluded

-----------------------------------------------------------------------------
(* The counters.                                                           *)

\* No step before the join changes a counter, or waits for anything.
LEMMA ContinueCounts ==
    ASSUME PlanInv, CountInv, NEW p \in DOMAIN plans, plans[p].stack # <<>>,
           NEW mem, NEW frames, IsSeq(frames), Continue(p, mem, frames),
           \A k \in DOMAIN frames : frames[k].op # "join"
    PROVE  CountInv'
<1>1. PICK t : t = frames \o Tail(plans[p].stack)
    OBVIOUS
<1>2. plans' = Replaced(p, frames) /\ earlier' = earlier
    BY DEF Continue, forkVars
<1>3. Restacked(plans', p, frames, t)
    BY <1>1, <1>2, ReplacedIs
<1>4. /\ DOMAIN plans' = DOMAIN plans /\ DOMAIN earlier = DOMAIN plans
      /\ \A q \in DOMAIN plans : q # p => plans'[q] = plans[q]
      /\ plans'[p].stack = t /\ OnTop(t, frames, plans[p].stack)
      /\ \A q \in DOMAIN plans : plans'[q].parent = plans[q].parent
    BY <1>3 DEF Restacked, CountInv
<1>5. ASSUME NEW k \in DOMAIN t, t[k].op = "join" PROVE FALSE
    <2>1. k \in DOMAIN frames /\ t[k] = frames[k]
        BY <1>4, <1>5, RestWaitsForNothing
    <2> QED
        BY <2>1, <1>5
<1>6. \A q : ChildsIn(plans', q) = ChildsIn(plans, q)
    BY <1>4 DEF ChildsIn
<1> QED
    BY <1>2, <1>4, <1>5, <1>6, CountsStay

LEMMA FrameOps ==
    /\ \A op, n, at : Frame(op, n, at).op = op
    /\ \A n : Do(n).op # "join" /\ Delete(n).op # "join"
                /\ DeleteOnSuccess(n).op # "join"
<1>1. ASSUME NEW op, NEW n, NEW at PROVE Frame(op, n, at).op = op
    BY DEF Frame
<1>2. "do" # "join" /\ "delete" # "join" /\ "delete on success" # "join"
    OBVIOUS
<1> QED
    BY <1>1, <1>2 DEF Do, Delete, DeleteOnSuccess

\* The frames with which p goes on.
GoesOnAlone(p) ==
    \E mem, frames :
        /\ IsSeq(frames) /\ \A k \in DOMAIN frames : frames[k].op # "join"
        /\ Continue(p, mem, frames)

LEMMA AlonePushed ==
    ASSUME NEW p, NEW mem, NEW a, NEW b, NEW c, NEW frames,
           frames \in {<<>>, <<a>>, <<a, b>>, <<a, b, c>>},
           a.op # "join", b.op # "join", c.op # "join",
           Continue(p, mem, frames)
    PROVE  GoesOnAlone(p)
<1>1. IsSeq(frames) /\ \A k \in DOMAIN frames : frames[k].op # "join"
    <2>1. CASE frames = <<>>
        BY <2>1, EmptyIs
    <2>2. CASE frames = <<a>>
        <3>1. IsSeq(frames) /\ DOMAIN frames = 1..1 /\ frames[1] = a
            BY <2>2, SmallSeqs
        <3> QED
            BY <3>1
    <2>3. CASE frames = <<a, b>>
        <3>1. IsSeq(frames) /\ DOMAIN frames = 1..2 /\ frames[1] = a /\ frames[2] = b
            BY <2>3, SmallSeqs
        <3> QED
            BY <3>1
    <2>4. CASE frames = <<a, b, c>>
        <3>1. IsSeq(frames) /\ DOMAIN frames = 1..3
              /\ frames[1] = a /\ frames[2] = b /\ frames[3] = c
            BY <2>4, SmallSeqs
        <3> QED
            BY <3>1
    <2> QED
        BY <2>1, <2>2, <2>3, <2>4
<1> QED
    BY <1>1 DEF GoesOnAlone

LEMMA WorksAlonePushed ==
    ASSUME IInv, NEW p \in DOMAIN plans,
           \/ ProcessSequentiellPart(p) \/ ProcessTree(p) \/ ProcessIf(p)
           \/ ProcessSubtree(p) \/ ProcessBlossomGroup(p) \/ ProcessBlossom(p)
           \/ ProcessLoop(p) \/ RunLoop(p) \/ DeleteObject(p)
    PROVE  GoesOnAlone(p) /\ plans[p].stack # <<>>
<1>1. plans[p].stack # <<>>
    BY DEF ProcessSequentiellPart, ProcessTree, ProcessIf, ProcessSubtree,
           ProcessBlossomGroup, ProcessBlossom, ProcessLoop, RunLoop, DeleteObject,
           Starts, IsAt
<1>2. CASE ProcessSequentiellPart(p)
    <2>1. PICK parts, frames : /\ parts = PartsOf(p)
                               /\ frames = [k \in DOMAIN parts |-> Do(parts[k])]
        OBVIOUS
    <2>2. IsSeq(parts)
        <3>1. HeapInv /\ OwnInv /\ PlanInv /\ IsAt(p, "do")
            BY <1>2 DEF IInv, ProcessSequentiellPart, Starts
        <3>2. TopWorks(p)
            BY <3>1, WorksIs
        <3> QED
            BY <3>2, <2>1 DEF TopWorks
    <2>3. Len(parts) \in Nat /\ DOMAIN parts = 1..Len(parts)
        BY <2>2, SeqIs
    <2>4. DOMAIN frames = 1..Len(parts) /\ frames = [k \in 1..Len(parts) |-> frames[k]]
        BY <2>1, <2>3
    <2>5. IsSeq(frames)
        BY <2>3, <2>4, MakesSeq
    <2>6. \A k \in DOMAIN frames : frames[k].op # "join"
        BY <2>1, FrameOps
    <2>7. Continue(p, Memory, frames)
        BY <2>1, <1>2 DEF ProcessSequentiellPart
    <2> QED
        BY <2>5, <2>6, <2>7, <1>1 DEF GoesOnAlone
<1>3. CASE ProcessTree(p)
    <2>1. PICK a, mem : Continue(p, mem, <<a>>) /\ a.op # "join"
        BY <1>3, FrameOps DEF ProcessTree
    <2> QED
        BY <2>1, <1>1, AlonePushed
<1>4. CASE ProcessIf(p)
    <2>1. PICK a, mem : Continue(p, mem, <<a>>) /\ a.op # "join"
        BY <1>4, FrameOps DEF ProcessIf
    <2> QED
        BY <2>1, <1>1, AlonePushed
<1>5. CASE ProcessSubtree(p)
    <2>1. PICK mem, tree : Continue(p, mem, <<Do(tree), Delete(tree)>>)
        BY <1>5 DEF ProcessSubtree
    <2>2. PICK a, b : a = Do(tree) /\ b = Delete(tree)
        OBVIOUS
    <2>3. Continue(p, mem, <<a, b>>) /\ a.op # "join" /\ b.op # "join"
        BY <2>1, <2>2, FrameOps
    <2> QED
        BY <2>3, <1>1, AlonePushed
<1>6. CASE ProcessBlossomGroup(p)
    <2>1. PICK op : op = "blossom" /\ op # "join"
        OBVIOUS
    <2>2. Continue(p, WithFilled(Top(p).object), <<Frame(op, Top(p).object, 1)>>)
        BY <1>6, <2>1 DEF ProcessBlossomGroup
    <2>3. PICK a, mem : Continue(p, mem, <<a>>) /\ a.op # "join"
        BY <2>1, <2>2, FrameOps
    <2> QED
        BY <2>3, <1>1, AlonePushed
<1>7. CASE ProcessBlossom(p)
    <2>1. PICK op : op = "blossom" /\ op # "join"
        OBVIOUS
    <2>2. PICK group, k, blossom, mem :
            \/ Continue(p, mem, <<Do(mem.made[1]), Delete(mem.made[1])>>)
            \/ Continue(p, WithFilled(blossom), <<>>)
            \/ Continue(p, WithFilled(blossom), <<Frame(op, group, k)>>)
        BY <1>7, <2>1 DEF ProcessBlossom
    <2>3. CASE Continue(p, mem, <<Do(mem.made[1]), Delete(mem.made[1])>>)
        BY <2>3, <1>1, FrameOps, AlonePushed
    <2>4. CASE Continue(p, WithFilled(blossom), <<>>)
        BY <2>4, <1>1, EmptyIs DEF GoesOnAlone
    <2>5. CASE Continue(p, WithFilled(blossom), <<Frame(op, group, k)>>)
        BY <2>1, <2>5, <1>1, FrameOps, AlonePushed
    <2> QED
        BY <2>2, <2>3, <2>4, <2>5
<1>8. CASE ProcessLoop(p)
    <2>1. PICK op : op = "loop" /\ op # "join"
        OBVIOUS
    <2>2. PICK iterations :
            Continue(p, WithFilled(Top(p).object),
                     <<Frame(op, PartsOf(p)[1], iterations)>>)
        BY <1>8, <2>1 DEF ProcessLoop
    <2>3. PICK a, mem : Continue(p, mem, <<a>>) /\ a.op # "join"
        BY <2>1, <2>2, FrameOps
    <2> QED
        BY <2>3, <1>1, AlonePushed
<1>9. CASE RunLoop(p)
    <2>1. PICK op : op = "loop" /\ op # "join"
        OBVIOUS
    <2>2. PICK n, content, at, mem :
            \/ Continue(p, Memory, <<>>)
            \/ Continue(p, mem, <<Do(n), DeleteOnSuccess(n), Frame(op, content, at)>>)
        BY <1>9, <2>1 DEF RunLoop
    <2>3. CASE Continue(p, Memory, <<>>)
        BY <2>3, <1>1, EmptyIs DEF GoesOnAlone
    <2>4. CASE Continue(p, mem, <<Do(n), DeleteOnSuccess(n), Frame(op, content, at)>>)
        BY <2>1, <2>4, <1>1, FrameOps, AlonePushed
    <2> QED
        BY <2>2, <2>3, <2>4
<1>10. CASE DeleteObject(p)
    <2>1. PICK mem : Continue(p, mem, <<>>)
        BY <1>10 DEF DeleteObject
    <2> QED
        BY <2>1, <1>1, EmptyIs DEF GoesOnAlone
<1> QED
    BY <1>2, <1>3, <1>4, <1>5, <1>6, <1>7, <1>8, <1>9, <1>10

LEMMA FailCounts ==
    ASSUME CountInv, NEW p \in DOMAIN plans, Fail(p)
    PROVE  CountInv'
<1>1. /\ plans' = [plans EXCEPT ![p].stack = <<>>, ![p].failed = TRUE]
      /\ earlier' = earlier
    BY DEF Fail, forkVars
<1>2. /\ DOMAIN plans' = DOMAIN plans /\ DOMAIN earlier = DOMAIN plans
      /\ \A q \in DOMAIN plans : q # p => plans'[q] = plans[q]
      /\ plans'[p] = [plans[p] EXCEPT !.stack = <<>>, !.failed = TRUE]
    BY <1>1 DEF CountInv
<1>3. plans'[p].parent = plans[p].parent
    BY <1>2
<1>4. \A q : ChildsIn(plans', q) = ChildsIn(plans, q)
    BY <1>2, <1>3 DEF ChildsIn
<1>5. ASSUME NEW k \in DOMAIN plans'[p].stack, plans'[p].stack[k].op = "join"
      PROVE  plans'[p].stack = plans[p].stack
    <2>1. PICK r, x, e : r = plans[p] /\ x = plans'[p] /\ e = <<>>
        OBVIOUS
    <2>2. DOMAIN e = {}
        BY <2>1, EmptyIs
    <2>3. x = [r EXCEPT !.stack = e, !.failed = TRUE]
        BY <2>1, <1>2
    <2>4. x.stack = r.stack \/ x.stack = e
        BY <2>3
    <2> QED
        BY <2>1, <2>2, <2>4, <1>5
<1> QED
    BY <1>1, <1>2, <1>4, <1>5, CountsStay

\* The join is the only frame that waits, and deleted plans wait for nothing.
LEMMA WaitUntilFinishCounts ==
    ASSUME IInv, CountInv, NEW p \in DOMAIN plans, WaitUntilFinish(p)
    PROVE  CountInv'
<1>1. PlanInv
    BY DEF IInv
<1>2. PICK ch : ch = Childs(p)
    OBVIOUS
<1>3. Below(p) = ch /\ (\A c \in ch : plans[c].stack = <<>>) /\ plans[p].stack # <<>>
    BY <1>1, <1>2, JoinWaits DEF WaitUntilFinish, IsAt
<1>4. PICK ok \in BOOLEAN :
        plans' = [c \in DOMAIN plans |->
                        IF c \in ch THEN Plan(0, NoObject, plans[c].stack)
                        ELSE IF c # p THEN plans[c]
                        ELSE [plans[p] EXCEPT !.stack = IF ok THEN Tail(@) ELSE <<>>,
                                              !.failed = ~ok]]
    BY <1>2, <1>3 DEF WaitUntilFinish
<1>5. earlier' = [earlier EXCEPT ![p] = @ + Cardinality(EndedChilds(p))]
    BY DEF WaitUntilFinish
<1>6. DOMAIN plans' = DOMAIN plans /\ DOMAIN earlier' = DOMAIN plans
      /\ \A q \in DOMAIN plans : q # p => earlier'[q] = earlier[q]
    BY <1>4, <1>5 DEF CountInv
<1>7. \A c \in ch : c \in DOMAIN plans /\ c # p /\ plans[c].parent = p
    <2>1. \A c \in ch : c # p
        BY <1>2, <1>3
    <2> QED
        BY <2>1, <1>2 DEF Childs
<1>8. \A q \in DOMAIN plans : q \notin ch /\ q # p => plans'[q] = plans[q]
    BY <1>4
<1>9. \A c \in ch : plans'[c].stack = <<>> /\ plans'[c].parent = 0
    BY <1>3, <1>4, <1>7 DEF Plan
<1>10. plans'[p] = [plans[p] EXCEPT !.stack = IF ok THEN Tail(@) ELSE <<>>,
                                    !.failed = ~ok]
    BY <1>4, <1>7
<1>11. /\ plans'[p].parent = plans[p].parent
       /\ plans'[p].stack = IF ok THEN Tail(plans[p].stack) ELSE <<>>
    <2>1. PICK r, x, no : r = plans[p] /\ x = plans'[p] /\ no = ~ok
        OBVIOUS
    <2>2. IsPlan(r)
        BY <2>1, <1>1 DEF PlanInv
    <2>3. x = [r EXCEPT !.stack = IF ok THEN Tail(@) ELSE <<>>, !.failed = no]
        BY <2>1, <1>10, Zenon
    <2>4. x.parent = r.parent /\ x.stack = IF ok THEN Tail(r.stack) ELSE <<>>
        BY <2>2, <2>3 DEF IsPlan
    <2> QED
        BY <2>1, <2>4
<1>12. \A k \in DOMAIN plans'[p].stack : plans'[p].stack[k].op # "join"
    <2>1. PICK s : s = plans[p].stack
        OBVIOUS
    <2>2. IsSeq(s) /\ s # <<>>
        BY <2>1, <1>1, <1>3 DEF PlanInv, IsPlan
    <2>3. /\ IsSeq(Tail(s)) /\ Len(s) \in Nat \ {0} /\ Len(Tail(s)) = Len(s) - 1
          /\ \A i \in 1..(Len(s) - 1) : Tail(s)[i] = s[i + 1]
        BY <2>2, TailIs
    <2>4. DOMAIN Tail(s) = 1..(Len(s) - 1) /\ DOMAIN s = 1..Len(s)
        BY <2>2, <2>3, SeqIs
    <2>5. \A k \in DOMAIN s : s[k].op = "join" => k = 1
        BY <2>1 DEF CountInv
    <2>6. ASSUME NEW k \in DOMAIN Tail(s) PROVE Tail(s)[k].op # "join"
        <3>1. k + 1 \in DOMAIN s /\ k + 1 # 1 /\ Tail(s)[k] = s[k + 1]
            BY <2>3, <2>4
        <3> QED
            BY <3>1, <2>5
    <2>7. DOMAIN <<>> = {}
        BY EmptyIs
    <2> QED
        BY <2>1, <2>6, <2>7, <1>11
<1>13. ASSUME NEW q \in DOMAIN plans, q # p, q # 0
       PROVE  ChildsIn(plans', q) = ChildsIn(plans, q)
    <2>1. ASSUME NEW c \in DOMAIN plans
          PROVE  plans'[c].parent = q <=> plans[c].parent = q
        BY <1>7, <1>8, <1>9, <1>11, <1>13
    <2> QED
        BY <2>1, <1>6 DEF ChildsIn
<1>14. \A q \in DOMAIN plans : q # 0
    <2>1. DOMAIN plans = 1..Len(plans)
        BY <1>1, SeqIs DEF PlanInv
    <2> QED
        BY <2>1
<1>15. ASSUME NEW q \in DOMAIN plans', NEW k \in DOMAIN plans'[q].stack,
              plans'[q].stack[k].op = "join"
       PROVE  /\ q \in DOMAIN plans /\ k \in DOMAIN plans[q].stack
              /\ plans'[q].stack[k] = plans[q].stack[k]
              /\ earlier'[q] = earlier[q]
              /\ ChildsIn(plans', q) = ChildsIn(plans, q)
    <2>1. q \in DOMAIN plans /\ q # p
        BY <1>6, <1>12, <1>15
    <2>2. q \notin ch
        BY <1>9, <1>15, EmptyIs
    <2> QED
        BY <2>1, <2>2, <1>6, <1>8, <1>13, <1>14, <1>15
<1> QED
    BY <1>6, <1>15, CountsStay

\* Without plans, nobody waits; the plan of triggerTree begins with its tree.
LEMMA CallCounts ==
    ASSUME IInv, CountInv,
           \/ UNCHANGED <<plans, earlier>>
           \/ ReturnTrigger
           \/ \E id \in DOMAIN trees : TriggerTree(id)
    PROVE  CountInv'
<1>1. CASE UNCHANGED <<plans, earlier>>
    BY <1>1 DEF CountInv, Childs
<1>2. CASE ReturnTrigger
    <2>1. plans' = <<>> /\ earlier' = <<>>
        BY <1>2 DEF ReturnTrigger
    <2>2. DOMAIN plans' = {} /\ DOMAIN earlier' = {}
        BY <2>1, EmptyIs
    <2> QED
        BY <2>2, CountInvIs DEF AllCount
<1>3. CASE \E id \in DOMAIN trees : TriggerTree(id)
    <2>1. PICK op : op = "run" /\ op # "join"
        OBVIOUS
    <2>2. PICK tree :
            /\ plans' = <<Plan(0, NoObject, <<Frame(op, tree, 0), Delete(tree)>>)>>
            /\ earlier' = <<0>>
        BY <1>3, <2>1 DEF TriggerTree
    <2>3. PICK a, b :
            /\ op # "join" /\ a = Frame(op, tree, 0) /\ b = Delete(tree)
            /\ plans' = <<Plan(0, NoObject, <<a, b>>)>> /\ earlier' = <<0>>
        BY <2>1, <2>2
    <2>4. a.op # "join" /\ b.op # "join"
        BY <2>3, FrameOps
    <2>5. PICK r, s : r = Plan(0, NoObject, s) /\ s = <<a, b>>
        OBVIOUS
    <2>6. r.stack = s
        BY <2>5 DEF Plan
    <2>7. DOMAIN s = 1..2 /\ s[1] = a /\ s[2] = b
        BY <2>5, SmallSeqs
    <2>8. plans' = <<r>>
        BY <2>3, <2>5
    <2>9. DOMAIN plans' = 1..1 /\ plans'[1] = r /\ DOMAIN earlier' = 1..1
        BY <2>3, <2>8, SmallSeqs
    <2>10. \A q \in DOMAIN plans' : \A k \in DOMAIN plans'[q].stack :
            plans'[q].stack[k].op # "join"
        BY <2>4, <2>6, <2>7, <2>9
    <2> QED
        BY <2>9, <2>10, CountInvIs DEF AllCount
<1> QED
    BY <1>1, <1>2, <1>3

-----------------------------------------------------------------------------
(* Every step.                                                             *)

\* One case for each action of a plan.
LEMMA PlanStepIsRight ==
    ASSUME IInv, CountInv, NEW p \in DOMAIN plans, PlanStep(p)
    PROVE  StepIsRight /\ StepCounts
<1>1. CASE \/ ProcessSequentiellPart(p) \/ ProcessTree(p) \/ ProcessIf(p)
           \/ ProcessSubtree(p) \/ ProcessBlossomGroup(p) \/ ProcessBlossom(p)
           \/ ProcessLoop(p) \/ RunLoop(p) \/ DeleteObject(p)
    <2>1. PICK mem, frames :
            /\ IsSeq(frames) /\ (\A k \in DOMAIN frames : frames[k].op # "join")
            /\ Continue(p, mem, frames) /\ plans[p].stack # <<>>
        BY <1>1, WorksAlonePushed DEF GoesOnAlone
    <2>2. CountInv'
        BY <2>1, ContinueCounts DEF IInv
    <2>3. StepIsRight
        BY <1>1, ProcessSequentiellPartStep, ProcessTreeStep, ProcessIfStep,
           ProcessSubtreeStep, ProcessBlossomGroupStep, ProcessBlossomStep,
           ProcessLoopStep, RunLoopStep, DeleteObjectStep
    <2> QED
        BY <2>2, <2>3 DEF StepCounts
<1>2. CASE RunProcess(p)
    BY <1>2, RunProcessStep
<1>3. CASE SpawnParallelSubtreesLoop(p)
    BY <1>3, SpawnParallelSubtreesLoopStep
<1>4. CASE ProcessParallelPart(p)
    BY <1>4, ProcessParallelPartStep
<1>5. CASE Fail(p)
    BY <1>5, FailStep, FailCounts DEF StepCounts
<1>6. CASE WaitUntilFinish(p)
    BY <1>6, WaitUntilFinishStep, WaitUntilFinishCounts DEF StepCounts
<1> QED
    BY <1>1, <1>2, <1>3, <1>4, <1>5, <1>6 DEF PlanStep

\* One case for each action.
LEMMA NextIsRight ==
    ASSUME IInv, CountInv, [Next]_vars
    PROVE  StepIsRight /\ StepCounts
<1>1. CASE UNCHANGED vars
    <2>1. UNCHANGED <<plans, earlier>>
        BY <1>1 DEF vars, forkVars
    <2> QED
        BY <2>1, <1>1, StutterStep, CallCounts DEF StepCounts
<1>2. ASSUME NEW text \in DOMAIN Text, AddFailing(text) PROVE StepIsRight /\ StepCounts
    <2>1. UNCHANGED <<plans, earlier>>
        BY <1>2 DEF AddFailing, forkVars
    <2> QED
        BY <2>1, <1>2, AddFailingStep, CallCounts DEF StepCounts
<1>3. ASSUME NEW text \in DOMAIN Text, NEW last \in ItemsOf(Text[text].root),
             NEW valid \in BOOLEAN, Add(text, last, valid)
      PROVE  StepIsRight /\ StepCounts
    <2>1. UNCHANGED <<plans, earlier>>
        BY <1>3 DEF Add, forkVars
    <2> QED
        BY <2>1, <1>3, AddStep, CallCounts DEF StepCounts
<1>4. ASSUME NEW id \in DOMAIN trees, GetTreeValidMap(id)
      PROVE  StepIsRight /\ StepCounts
    <2>1. UNCHANGED <<plans, earlier>>
        BY <1>4 DEF GetTreeValidMap, forkVars
    <2> QED
        BY <2>1, <1>4, GetTreeValidMapStep, CallCounts DEF StepCounts
<1>5. ASSUME NEW id \in DOMAIN trees, TriggerTree(id) PROVE StepIsRight /\ StepCounts
    BY <1>5, TriggerTreeStep, CallCounts DEF StepCounts
<1>6. CASE ReturnTrigger
    BY <1>6, ReturnTriggerStep, CallCounts DEF StepCounts
<1>7. ASSUME NEW p \in DOMAIN plans, PlanStep(p) PROVE StepIsRight /\ StepCounts
    BY <1>7, PlanStepIsRight
<1> QED
    BY <1>1, <1>2, <1>3, <1>4, <1>5, <1>6, <1>7 DEF Next

\* What cannot be counted once is never forgotten.
LEMMA OrderlyBefore ==
    ASSUME [Next]_vars, orderly'
    PROVE  orderly
<1>1. CASE UNCHANGED vars
    BY <1>1 DEF vars, forkVars
<1>2. ASSUME NEW p, NEW mem, NEW objects, NEW number, Spawn(p, mem, objects, number)
      PROVE  orderly
    BY <1>2 DEF Spawn
<1>3. ASSUME NEW p, NEW mem, NEW frames, Continue(p, mem, frames) PROVE orderly
    BY <1>3 DEF Continue, forkVars
<1>4. ASSUME NEW p, PlanStep(p) PROVE orderly
    <2>1. CASE RunProcess(p)
        BY <2>1, <1>2 DEF RunProcess
    <2>2. CASE ProcessSequentiellPart(p)
        BY <2>2, <1>3 DEF ProcessSequentiellPart
    <2>3. CASE ProcessTree(p)
        BY <2>3, <1>3 DEF ProcessTree
    <2>4. CASE ProcessIf(p)
        BY <2>4, <1>3 DEF ProcessIf
    <2>5. CASE ProcessSubtree(p)
        BY <2>5, <1>3 DEF ProcessSubtree
    <2>6. CASE ProcessBlossomGroup(p)
        BY <2>6, <1>3 DEF ProcessBlossomGroup
    <2>7. CASE ProcessBlossom(p)
        BY <2>7, <1>3 DEF ProcessBlossom
    <2>8. CASE ProcessLoop(p)
        BY <2>8, <1>3 DEF ProcessLoop
    <2>9. CASE RunLoop(p)
        BY <2>9, <1>3 DEF RunLoop
    <2>10. CASE SpawnParallelSubtreesLoop(p)
        BY <2>10, <1>2 DEF SpawnParallelSubtreesLoop
    <2>11. CASE ProcessParallelPart(p)
        BY <2>11, <1>2 DEF ProcessParallelPart
    <2>12. CASE DeleteObject(p)
        BY <2>12, <1>3 DEF DeleteObject
    <2>13. CASE Fail(p)
        BY <2>13 DEF Fail, forkVars
    <2>14. CASE WaitUntilFinish(p)
        BY <2>14 DEF WaitUntilFinish
    <2> QED
        BY <1>4, <2>1, <2>2, <2>3, <2>4, <2>5, <2>6, <2>7, <2>8, <2>9, <2>10, <2>11,
           <2>12, <2>13, <2>14 DEF PlanStep
<1>5. ASSUME NEW text, AddFailing(text) PROVE orderly
    BY <1>5 DEF AddFailing, forkVars
<1>6. ASSUME NEW text, NEW last, NEW valid, Add(text, last, valid) PROVE orderly
    BY <1>6 DEF Add, forkVars
<1>7. ASSUME NEW id, GetTreeValidMap(id) PROVE orderly
    BY <1>7 DEF GetTreeValidMap, forkVars
<1>8. ASSUME NEW id, TriggerTree(id) PROVE orderly
    BY <1>8 DEF TriggerTree
<1>9. CASE ReturnTrigger
    BY <1>9 DEF ReturnTrigger
<1> QED
    BY <1>1, <1>4, <1>5, <1>6, <1>7, <1>8, <1>9 DEF Next

LEMMA StepKeepsInvariant == OrderlyInv /\ [Next]_vars => OrderlyInv'
<1>1. ASSUME OrderlyInv, [Next]_vars, orderly' PROVE IInv' /\ CountInv'
    <2>1. IInv /\ CountInv
        BY <1>1, OrderlyBefore DEF OrderlyInv
    <2>2. StepIsRight /\ StepCounts
        BY <2>1, <1>1, NextIsRight
    <2> QED
        BY <2>1, <2>2, <1>1 DEF StepIsRight, StepCounts
<1> QED
    BY <1>1 DEF OrderlyInv

LEMMA InvariantHolds == Spec => []OrderlyInv
<1>1. Init => OrderlyInv
    <2>1. ASSUME Init PROVE CountInv
        <3>1. plans = <<>> /\ earlier = <<>>
            BY <2>1 DEF Init
        <3>2. DOMAIN plans = {} /\ DOMAIN earlier = {}
            BY <3>1, EmptyIs
        <3> QED
            BY <3>2 DEF CountInv
    <2> QED
        BY <2>1, InitIsRight DEF OrderlyInv
<1> QED
    BY <1>1, StepKeepsInvariant, PTL DEF Spec

\* A step that leaves the forks in order is right.
LEMMA OrderlyStep ==
    ASSUME OrderlyInv, [Next]_vars, orderly'
    PROVE  StepIsRight
BY OrderlyBefore, NextIsRight DEF OrderlyInv

-----------------------------------------------------------------------------
(* What it means.                                                          *)

\* Whatever is called, and whatever fails, no pointer to an object that was
\* deleted remains: not in a tree, not in a registry, not in a running call.
\* That holds until a plan with former child plans forks again, a parallel loop
\* descends, or 2^32 child plans are announced: orderly.
THEOREM MemoryIsSafe == Spec => []NothingDangles
<1>1. ASSUME OrderlyInv, orderly PROVE NothingDangles
    <2>1. HeapInv /\ OwnInv /\ PlanInv
        BY <1>1 DEF OrderlyInv, IInv
    <2>2. ASSUME NEW n \in DOMAIN heap PROVE ToSet(heap[n].parts) \subseteq DOMAIN heap
        BY <2>1, ShapedObject DEF HeapInv
    <2>3. \A o \in Owned : o[4] \in DOMAIN heap
        BY <2>1 DEF OwnInv, IsWhole
    <2>4. ASSUME NEW n \in Used PROVE n \in DOMAIN heap
        <3>1. PICK p \in DOMAIN plans : n \in {f.object : f \in ToSet(plans[p].stack)}
            BY DEF Used
        <3>2. n # NoObject
            BY DEF Used
        <3>3. PICK k \in DOMAIN plans[p].stack : n = plans[p].stack[k].object
            BY <3>1 DEF ToSet
        <3>4. PICK f : f = plans[p].stack[k]
            OBVIOUS
        <3>5. IsFrame(f)
            BY <2>1, <3>4 DEF PlanInv, StackInv
        <3>6. Works(f) \/ Deletes(f)
            BY <3>2, <3>3, <3>4, <3>5 DEF IsFrame, Works, Deletes
        <3>7. CASE Works(f)
            BY <2>1, <3>3, <3>4, <3>7, FrameOwner
        <3>8. CASE Deletes(f)
            <4>1. PICK o : o = <<"frame", p, Len(plans[p].stack) - k, plans[p].stack[k].object>>
                OBVIOUS
            <4>2. o[4] = n
                BY <4>1, <3>3
            <4>3. IsOwner(o, output, trees, resources, plans)
                BY <4>1, <4>2, <3>2, <3>4, <3>8 DEF IsOwner
            <4>4. o \in Owned
                BY <4>3, OwnedIs
            <4> QED
                BY <4>2, <4>4, <2>3
        <3> QED
            BY <3>6, <3>7, <3>8
    <2> QED
        BY <2>2, <2>3, <2>4 DEF NothingDangles
<1>2. OrderlyInv => NothingDangles
    BY <1>1 DEF NothingDangles
<1> QED
    BY <1>2, InvariantHolds, PTL

\* Every execution works on values as they were written, whatever was executed
\* before, by the same script, by another call, or by another thread, as long
\* as every fork has announced what can be counted.
THEOREM NothingIsExecutedTwice == Spec => []ExecutedAsWritten
<1>1. ASSUME OrderlyInv, orderly PROVE ExecutedAsWritten
    <2>1. HeapInv /\ OwnInv /\ PlanInv
        BY <1>1 DEF OrderlyInv, IInv
    <2>2. ASSUME NEW p \in DOMAIN plans, IsAt(p, "do"), NEW n \in Reach(heap, Top(p).object)
          PROVE  ~heap[n].filled
        <3>1. TopWorks(p) /\ Top(p).op = "do"
            BY <2>1, <2>2, WorksIs
        <3>2. Top(p).object \in DOMAIN heap /\ Unfilled(heap, Top(p).object)
            BY <3>1 DEF TopWorks, Executes
        <3>3. Reach(heap, Top(p).object) = Span(Top(p).object)
            BY <2>1, <3>2, ReachIs DEF HeapInv
        <3> QED
            BY <3>2, <3>3 DEF Unfilled
    <2> QED
        BY <2>2 DEF ExecutedAsWritten
<1>2. OrderlyInv => ExecutedAsWritten
    BY <1>1 DEF ExecutedAsWritten
<1> QED
    BY <1>2, InvariantHolds, PTL

\* Neither a call nor an execution changes or deletes an object of a registered
\* tree or resource, under the same condition.
THEOREM RegisteredTreesStay == Spec => SourcesStay
<1>1. OrderlyInv /\ [Next]_vars =>
        [orderly' => \A n \in Registered :
            n \in DOMAIN heap' /\ heap'[n] = heap[n]]_vars
    BY OrderlyStep DEF StepIsRight
<1> QED
    BY <1>1, InvariantHolds, PTL DEF Spec, SourcesStay

\* The steps of a script lose no object, except those of a step that fails,
\* under the same condition.
THEOREM CopiesAreDeleted == Spec => LosesOnlyOnFailure
<1>1. OrderlyInv /\ [Next]_vars =>
        [orderly' /\ plans' # plans /\ ~Failing => Lost' \subseteq Lost]_vars
    BY OrderlyStep DEF StepIsRight
<1> QED
    BY <1>1, InvariantHolds, PTL DEF Spec, LosesOnlyOnFailure

\* Two that lead to the same object are the same.
LEMMA PointersDiffer ==
    ASSUME HeapInv, OwnInv, NEW q \in Pointers, NEW r \in Pointers, q[4] = r[4]
    PROVE  q = r
<1> DEFINE IsPart(x, n, k) == x = <<"part", n, k, heap[n].parts[k]>>
<1>1. ASSUME NEW x \in Pointers, x \notin Owned
      PROVE  \E n \in DOMAIN heap : \E k \in DOMAIN heap[n].parts : IsPart(x, n, k)
    BY <1>1 DEF Pointers
<1>2. ASSUME NEW n \in DOMAIN heap, NEW k \in DOMAIN heap[n].parts, NEW x,
             IsPart(x, n, k)
      PROVE  /\ k \in DOMAIN Parts[n[2]] /\ x[4] = <<n[1], Parts[n[2]][k]>>
             /\ n[2] \in Item /\ n = <<n[1], n[2]>>
             /\ n[2] \in Nat /\ Parts[n[2]][k] \in Nat /\ Parts[n[2]][k] > n[2]
    <2>1. heap[n].parts = PartsIn(n) /\ n[2] \in Item /\ n = <<n[1], n[2]>>
        BY ShapedObject DEF HeapInv
    <2>2. k \in DOMAIN Parts[n[2]] /\ heap[n].parts[k] = <<n[1], Parts[n[2]][k]>>
        BY <2>1 DEF PartsIn
    <2>3. n[2] \in Nat /\ Parts[n[2]][k] \in (n[2] + 1)..End[n[2]] /\ End[n[2]] \in Nat
        BY <2>1, <2>2, PartsAreWithin
    <2>4. x[4] = heap[n].parts[k]
        BY <1>2
    <2> QED
        BY <2>1, <2>2, <2>3, <2>4
<1>3. ASSUME NEW o \in Owned, NEW x \in Pointers, x \notin Owned, o[4] = x[4]
      PROVE  FALSE
    <2>1. PICK n \in DOMAIN heap : \E k \in DOMAIN heap[n].parts : IsPart(x, n, k)
        BY <1>1, <1>3
    <2>2. PICK k \in DOMAIN heap[n].parts : IsPart(x, n, k)
        BY <2>1
    <2>3. /\ x[4] = <<n[1], Parts[n[2]][k]>>
          /\ n[2] \in Nat /\ Parts[n[2]][k] \in Nat /\ Parts[n[2]][k] > n[2]
        BY <1>2, <2>2
    <2>4. x[4][1] = n[1] /\ x[4][2] = Parts[n[2]][k]
        BY <2>3
    <2>5. n \in Span(o[4])
        BY <1>3, <2>4 DEF OwnInv, IsWhole
    <2>6. n[2] \in o[4][2]..End[o[4][2]]
        BY <2>5, SpanIs
    <2>7. o[4][2] = Parts[n[2]][k]
        BY <1>3, <2>4
    <2> QED
        BY <2>3, <2>6, <2>7
<1>4. CASE q \in Owned /\ r \in Owned
    BY <1>4 DEF OwnInv
<1>5. CASE q \notin Owned /\ r \notin Owned
    <2>1. PICK n \in DOMAIN heap : \E k \in DOMAIN heap[n].parts : IsPart(q, n, k)
        BY <1>1, <1>5
    <2>2. PICK k \in DOMAIN heap[n].parts : IsPart(q, n, k)
        BY <2>1
    <2>3. PICK m \in DOMAIN heap : \E l \in DOMAIN heap[m].parts : IsPart(r, m, l)
        BY <1>1, <1>5
    <2>4. PICK l \in DOMAIN heap[m].parts : IsPart(r, m, l)
        BY <2>3
    <2>5. /\ k \in DOMAIN Parts[n[2]] /\ q[4] = <<n[1], Parts[n[2]][k]>>
          /\ n[2] \in Item /\ n = <<n[1], n[2]>>
        BY <1>2, <2>2
    <2>6. /\ l \in DOMAIN Parts[m[2]] /\ r[4] = <<m[1], Parts[m[2]][l]>>
          /\ m[2] \in Item /\ m = <<m[1], m[2]>>
        BY <1>2, <2>4
    <2>7. n[1] = m[1] /\ Parts[n[2]][k] = Parts[m[2]][l]
        <3>1. PICK a, b, c, d : /\ a = n[1] /\ b = Parts[n[2]][k]
                                /\ c = m[1] /\ d = Parts[m[2]][l]
            OBVIOUS
        <3>2. <<a, b>> = <<c, d>>
            BY <3>1, <2>5, <2>6, Zenon
        <3> QED
            BY <3>1, <3>2
    <2>8. n[2] = m[2] /\ k = l
        BY <2>5, <2>6, <2>7, PartsAreUnique
    <2>9. n = m
        BY <2>5, <2>6, <2>7, <2>8
    <2> QED
        BY <2>2, <2>4, <2>8, <2>9
<1> QED
    BY <1>3, <1>4, <1>5

\* Everything is owned once: no object is deleted by two, and none is part of
\* two others, under the same condition.
THEOREM EverythingHasOneOwner == Spec => []OneOwner
<1>1. ASSUME OrderlyInv, orderly PROVE OneOwner
    <2>1. HeapInv /\ OwnInv /\ PlanInv
        BY <1>1 DEF OrderlyInv, IInv
    <2>2. ASSUME NEW q \in Pointers PROVE q[4] \in DOMAIN heap
        <3>1. CASE q \in Owned
            BY <3>1, <2>1 DEF OwnInv, IsWhole
        <3>2. CASE \E n \in DOMAIN heap : \E k \in DOMAIN heap[n].parts :
                        q = <<"part", n, k, heap[n].parts[k]>>
            <4>1. PICK n \in DOMAIN heap : \E k \in DOMAIN heap[n].parts :
                        q = <<"part", n, k, heap[n].parts[k]>>
                BY <3>2
            <4>2. PICK k \in DOMAIN heap[n].parts : q = <<"part", n, k, heap[n].parts[k]>>
                BY <4>1
            <4>3. ToSet(heap[n].parts) \subseteq DOMAIN heap
                BY <2>1, ShapedObject DEF HeapInv
            <4>4. q[4] = heap[n].parts[k]
                BY <4>2
            <4> QED
                BY <4>3, <4>4 DEF ToSet
        <3> QED
            BY <3>1, <3>2 DEF Pointers
    <2>3. IsFiniteSet(DOMAIN heap)
        <3>1. PICK M \in Nat : \A n \in DOMAIN heap : n[2] <= M
            BY <2>1 DEF HeapInv, Bounded
        <3>2. copies \in Nat
            BY <2>1 DEF HeapInv, Shaped
        <3>3. DOMAIN heap \subseteq (1..copies) \X (0..M)
            <4>1. ASSUME NEW n \in DOMAIN heap PROVE n \in (1..copies) \X (0..M)
                <5>1. n[1] \in 1..copies /\ n[2] \in Item /\ n = <<n[1], n[2]>>
                    BY <2>1, ShapedObject DEF HeapInv
                <5>2. n[2] \in 0..M
                    BY <5>1, <3>1, PartsAreWithin
                <5> QED
                    BY <5>1, <5>2
            <4> QED
                BY <4>1
        <3>4. IsFiniteSet(1..copies) /\ IsFiniteSet(0..M)
            BY <3>2, FS_Interval
        <3>5. IsFiniteSet((1..copies) \X (0..M))
            BY <3>4, FS_Product
        <3> QED
            BY <3>3, <3>5, FS_Subset
    <2>4. PICK f : f = [q \in Pointers |-> q[4]]
        OBVIOUS
    <2>5. PICK S, T : S = Pointers /\ T = {q[4] : q \in Pointers}
        OBVIOUS
    <2>6. \A a, b \in S : f[a] = f[b] => a = b
        BY <2>1, <2>4, <2>5, PointersDiffer
    <2>7. f \in [S -> T] /\ T \subseteq DOMAIN heap /\ DOMAIN f = S
        BY <2>2, <2>4, <2>5
    <2>8. IsFiniteSet(T)
        BY <2>3, <2>7, FS_Subset
    <2>9. f \in Injection(S, T)
        BY <2>6, <2>7 DEF Injection, IsInjective
    <2>10. f \in Surjection(S, T)
        BY <2>4, <2>5, <2>7 DEF Surjection
    <2>11. IsFiniteSet(S)
        BY <2>8, <2>9, FS_Injection
    <2>12. ExistsBijection(S, T)
        BY <2>9, <2>10 DEF ExistsBijection, Bijection
    <2>13. Cardinality(T) = Cardinality(S)
        BY <2>11, <2>12, FS_Bijection
    <2> QED
        BY <2>5, <2>13 DEF OneOwner
<1>2. OrderlyInv => OneOwner
    BY <1>1 DEF OneOwner
<1> QED
    BY <1>2, InvariantHolds, PTL

=============================================================================
