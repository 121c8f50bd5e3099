------------------------- MODULE SubtreeQueue_proofs -------------------------
(***************************************************************************)
(* Safety of the processing engine for every number of callers, plans and  *)
(* workers, and for every script that executes at most one parallel part   *)
(* or loop per plan and no loop that ends before it starts.  Module        *)
(* MCSubtreeQueueFindings shows what goes wrong for the other scripts.     *)
(***************************************************************************)
EXTENDS SubtreeQueue, FiniteSetTheorems, TLAPS

\* The scripts for which the engine keeps its promises: see the runs of module
\* MCSubtreeQueueFindings for the reason of the first two conjuncts.  The third
\* says that the number of plans stays below 2^32.
ASSUME ScriptAssumption ==
    /\ MaxForks <= 1
    /\ \A range \in LoopRanges : range[1] <= range[2]
    /\ IsFiniteSet(Plan)
    /\ Cardinality(Plan) < CounterRange

Unfinished ==
    {"new", "queued", "run", "spawn", "collect", "returned", "reported"}

Allocated == Unfinished \ {"new"}

Active == {"run", "spawn", "collect"}

DoneChilds(p) == {c \in Spawned(p) : phase[c] = "done"}

-----------------------------------------------------------------------------
\* Ids without a plan, callers' plans, and the forest of plans.
FreeInv ==
    \A p \in Plan : phase[p] = "free" =>
        /\ parent[p] = NoPlan /\ ancestors[p] = {}
        /\ forks[p] = 0

TriggerInv ==
    \A r \in Trigger :
        /\ parent[r] = NoPlan /\ ancestors[r] = {}
        /\ phase[r] \in Active \cup {"free", "done"}
        /\ phase[r] \in Active <=> lock = r
        /\ \A c, d \in Spawned(r) : c = d

ParentInv ==
    \A c \in Child : phase[c] # "free" =>
        /\ parent[c] \in Plan
        /\ ancestors[c] = ancestors[parent[c]] \cup {parent[c]}

AncestorInv ==
    \A d \in Plan : \A a \in ancestors[d] :
        /\ phase[a] # "free"
        /\ a # d
        /\ \E c \in Spawned(a) : c = d \/ c \in ancestors[d]

\* A plan stays in its spawn while anything below it is unfinished.
JoinInv ==
    \A d \in Plan : phase[d] \in Unfinished =>
        \A a \in ancestors[d] : phase[a] = "spawn"

\* Who has which plan.
QueueInv ==
    /\ \A i \in DOMAIN queue : phase[queue[i]] = "queued"
    /\ \A i, j \in DOMAIN queue : queue[i] = queue[j] => i = j

HeldInv ==
    /\ \A w \in Worker : held[w] # NoPlan =>
        /\ held[w] \in Child
        /\ phase[held[w]] \in Active \cup {"returned", "reported"}
    /\ \A v, w \in Worker : held[v] = held[w] /\ held[v] # NoPlan => v = w

AliveInv == \A p \in Plan : phase[p] \in Allocated => p \in alive

DeadInv ==
    \A r \in Trigger : phase[r] = "done" =>
        alive \cap ({r} \cup Descendants(r)) = {}

\* What the counters count.
ForkInv ==
    \A p \in Plan :
        /\ phase[p] \in {"new", "queued"} => forks[p] = 0
        /\ phase[p] \in {"spawn", "collect"} => forks[p] = 1
        /\ forks[p] \in {0, 1}
        /\ forks[p] = 0 => Spawned(p) = {}

CounterInv ==
    \A p \in Plan :
        /\ isCounter[p] = Cardinality(DoneChilds(p))
        /\ forks[p] = 1 => shouldCount[p] = Cardinality(Spawned(p))

\* What the flags say.
ResultInv ==
    \A p \in Plan :
        /\ result[p] = "none" <=>
             phase[p] \notin {"returned", "reported", "done"}
        /\ phase[p] \in {"free", "new", "queued"} => success[p]
        /\ phase[p] = "returned" /\ result[p] = "ok" => success[p]
        /\ phase[p] \in {"reported", "done"} /\ result[p] # "ok" /\ p \in Child
             => ~ success[parent[p]]

NestingInv ==
    \A p \in Child : phase[p] = "spawn" => Cardinality(ancestors[p]) <= MaxNesting

IInv ==
    /\ TypeOK
    /\ FreeInv /\ TriggerInv /\ ParentInv /\ AncestorInv
    /\ JoinInv
    /\ QueueInv /\ HeldInv /\ AliveInv /\ DeadInv
    /\ ForkInv /\ CounterInv
    /\ ResultInv /\ FailureReachesCaller
    /\ NestingInv

-----------------------------------------------------------------------------
LEMMA AnnouncedType ==
    ASSUME NEW n \in Int
    PROVE  Announced(n) \in 0 .. CounterRange - 1
BY BoundAssumption DEF Announced

LEMMA FreshType == Fresh \subseteq Plan
BY DEF Fresh, Child

LEMMA SpawnType ==
    ASSUME TypeOK, NEW p \in Plan, NEW n \in Int, NEW C \in SUBSET Plan,
           NEW loop \in BOOLEAN, Spawn(p, n, C, loop)
    PROVE  TypeOK'
<1>1. shouldCount' \in [Plan -> 0 .. CounterRange - 1]
    BY AnnouncedType DEF TypeOK, Spawn
<1>2. parent' \in [Plan -> Plan \cup {NoPlan}] /\ phase' \in [Plan -> Phase]
    BY DEF TypeOK, Spawn, Phase
<1>3. ancestors' \in [Plan -> SUBSET Plan]
  <2>1. \A q \in Plan : ancestors[q] \in SUBSET Plan
      BY DEF TypeOK
  <2>2. \A q \in Plan : (IF q \in C THEN ancestors[p] \cup {p}
                         ELSE ancestors[q]) \in SUBSET Plan
      BY <2>1
  <2>3. QED
      BY <2>2 DEF Spawn
<1>4. looping' \in [Plan -> BOOLEAN] /\ forks' \in [Plan -> Nat]
    BY DEF TypeOK, Spawn
<1>5. QED
    BY <1>1, <1>2, <1>3, <1>4 DEF TypeOK, Spawn, sharedVars

LEMMA SizeType == \A n \in ParallelSizes : n \in Int
BY BoundAssumption

LEMMA RangeLength ==
    ASSUME NEW range \in LoopRanges
    PROVE  /\ range[1] \in Nat /\ range[2] \in Nat
           /\ range[2] - range[1] \in Int
BY BoundAssumption

\* Every variable keeps its type: in particular no counter leaves the range of
\* uint32_t, whatever the script does.
LEMMA TypeStep == TypeOK /\ [Next]_vars => TypeOK'
<1> SUFFICES ASSUME TypeOK, [Next]_vars PROVE TypeOK'
    OBVIOUS
<1> USE PlanAssumption, BoundAssumption
<1>1. ASSUME NEW r \in Trigger, TriggerTree(r) PROVE TypeOK'
    BY <1>1 DEF TypeOK, TriggerTree, Phase
<1>2. ASSUME NEW r \in Trigger, RunProcess(r) PROVE TypeOK'
  <2>1. PICK c \in Fresh : Spawn(r, 1, {c}, FALSE)
      BY <1>2 DEF RunProcess
  <2>2. r \in Plan /\ {c} \in SUBSET Plan /\ 1 \in Int /\ FALSE \in BOOLEAN
      BY FreshType
  <2>3. QED
      BY <2>1, <2>2, SpawnType, Zenon
<1>3. ASSUME NEW r \in Trigger, NEW o \in {"ok", "failed"}, ReturnTrigger(r, o)
      PROVE  TypeOK'
    BY <1>3 DEF TypeOK, ReturnTrigger, Phase, Result
<1>4. ASSUME NEW w \in Worker, GetGrowthPlan(w) PROVE TypeOK'
  <2>1. Head(queue) \in Plan /\ Tail(queue) \in Seq(Plan)
      BY <1>4 DEF TypeOK, GetGrowthPlan
  <2>2. QED
      BY <1>4, <2>1 DEF TypeOK, GetGrowthPlan, Phase, Result
<1>5. ASSUME NEW w \in Worker, NEW o \in {"ok", "failed"},
             ProcessSakuraItem(w, o)
      PROVE  TypeOK'
    BY <1>5 DEF TypeOK, ProcessSakuraItem, sharedVars, Phase, Result
<1>6. ASSUME NEW w \in Worker, Report(w) PROVE TypeOK'
    BY <1>6 DEF TypeOK, Report, sharedVars, Phase
<1>7. ASSUME NEW w \in Worker, IncreaseCounter(w) PROVE TypeOK'
  <2>1. \A p \in Plan : (isCounter[p] + 1) % CounterRange
                            \in 0 .. CounterRange - 1
      BY DEF TypeOK
  <2>2. isCounter' \in [Plan -> 0 .. CounterRange - 1]
      BY <1>7, <2>1 DEF TypeOK, IncreaseCounter
  <2>3. QED
      BY <1>7, <2>2 DEF TypeOK, IncreaseCounter, Phase
<1>8. ASSUME NEW p \in Child, SpawnParallelSubtrees(p) PROVE TypeOK'
  <2>1. PICK C \in SUBSET Fresh :
            /\ Cardinality(C) \in ParallelSizes
            /\ Spawn(p, Cardinality(C), C, FALSE)
      BY <1>8 DEF SpawnParallelSubtrees
  <2>2. Cardinality(C) \in ParallelSizes
      BY <2>1, Zenon
  <2>3. Cardinality(C) \in Int
      BY <2>2, SizeType, Zenon
  <2>4. C \in SUBSET Plan /\ p \in Plan /\ FALSE \in BOOLEAN
      BY FreshType DEF Child
  <2>5. QED
      BY <2>1, <2>3, <2>4, SpawnType, Zenon
<1>9. ASSUME NEW p \in Child, SpawnParallelSubtreesLoop(p) PROVE TypeOK'
  <2>1. PICK range \in LoopRanges, C \in SUBSET Fresh :
            Spawn(p, range[2] - range[1], C, TRUE)
      BY <1>9 DEF SpawnParallelSubtreesLoop
  <2>2. QED
      BY <2>1, RangeLength, SpawnType DEF Fresh, Child
<1>10. ASSUME NEW c \in Plan, AddGrowthPlan(c) PROVE TypeOK'
    BY <1>10 DEF TypeOK, AddGrowthPlan, Phase
<1>11. ASSUME NEW p \in Plan, WaitUntilFinish(p) PROVE TypeOK'
    BY <1>11 DEF TypeOK, WaitUntilFinish, sharedVars, Phase
<1>12. ASSUME NEW p \in Plan, ClearChilds(p) PROVE TypeOK'
    BY <1>12 DEF TypeOK, ClearChilds, Phase
<1>13. CASE UNCHANGED vars
    BY <1>13 DEF TypeOK, vars, sharedVars, planVars
<1>14. QED
    BY <1>1, <1>2, <1>3, <1>4, <1>5, <1>6, <1>7, <1>8, <1>9, <1>10, <1>11,
       <1>12, <1>13
       DEF Next, CallerStep, WorkerStep, ForkStep, JoinStep, Idle

LEMMA TypeInit == Init => TypeOK
BY PlanAssumption, BoundAssumption DEF Init, TypeOK, Phase, Result

\* Type correctness of the engine.
THEOREM TypeCorrect == Spec => []TypeOK
BY TypeInit, TypeStep, PTL DEF Spec

-----------------------------------------------------------------------------
\* Facts about the forest of plans in the states of IInv.
LEMMA SpawnedFacts ==
    ASSUME IInv, NEW p \in Plan, NEW c \in Spawned(p)
    PROVE  /\ c \in Child
           /\ phase[c] # "free"
           /\ parent[c] = p
           /\ p \in ancestors[c]
BY PlanAssumption
   DEF IInv, TypeOK, FreeInv, TriggerInv, ParentInv, Spawned, Child

LEMMA DescendantsDone ==
    ASSUME IInv, NEW p \in Plan, phase[p] # "spawn", NEW d \in Descendants(p)
    PROVE  phase[d] = "done"
BY DEF IInv, TypeOK, FreeInv, JoinInv, Descendants, Phase, Unfinished

LEMMA SpawnedDone ==
    ASSUME IInv, NEW p \in Plan, phase[p] # "spawn", NEW c \in Spawned(p)
    PROVE  phase[c] = "done"
BY SpawnedFacts, DescendantsDone DEF Descendants, Child

-----------------------------------------------------------------------------
\* The three ways to spawn have this in common.
SpawnFrom(p, C) ==
    /\ phase[p] = "run"
    /\ forks[p] = 0
    /\ C \in SUBSET Fresh
    /\ p \in Child => success[p] /\ Cardinality(ancestors[p]) <= MaxNesting
    /\ p \in Trigger => \A c, d \in C : c = d
    /\ \E n \in Int, loop \in BOOLEAN :
        /\ n = Cardinality(C)
        /\ Announced(n) = Cardinality(C)
        /\ Spawn(p, n, C, loop)

LEMMA SpawnStep ==
    ASSUME IInv, TypeOK', NEW p \in Plan, NEW C, SpawnFrom(p, C)
    PROVE  IInv'
<1> USE PlanAssumption
<1>1. PICK n \in Int, loop \in BOOLEAN :
          Announced(n) = Cardinality(C) /\ Spawn(p, n, C, loop)
    BY DEF SpawnFrom
<1>2. /\ C \subseteq Child /\ p \notin C
      /\ \A c \in C : phase[c] = "free"
    BY DEF SpawnFrom, Fresh
<1>3. \A q \in Plan :
        /\ phase'[q] = IF q = p THEN "spawn"
                       ELSE IF q \in C THEN "new" ELSE phase[q]
        /\ parent'[q] = IF q \in C THEN p ELSE parent[q]
        /\ ancestors'[q] = IF q \in C THEN ancestors[p] \cup {p}
                           ELSE ancestors[q]
        /\ forks'[q] = IF q = p THEN 1 ELSE forks[q]
    BY <1>1 DEF Spawn, SpawnFrom, IInv, TypeOK
<1>4. \A q \in Plan : Spawned(q)' = IF q = p THEN C ELSE Spawned(q)
  <2>1. Spawned(p) = {}
      BY DEF SpawnFrom, IInv, ForkInv
  <2>2. \A c \in C : parent[c] = NoPlan /\ c \in Plan
      BY <1>2 DEF IInv, FreeInv, Child
  <2>3. QED
      BY <1>3, <2>1, <2>2 DEF Spawned
<1>5. UNCHANGED <<lock, queue, held, alive, result, isCounter, success>>
    BY <1>1 DEF Spawn, sharedVars
<1>6. FreeInv'
    BY <1>2, <1>3 DEF IInv, FreeInv, SpawnFrom
<1>7. TriggerInv'
    BY <1>2, <1>3, <1>4, <1>5 DEF IInv, TriggerInv, SpawnFrom, Active, Child
<1>8. ParentInv'
  <2> SUFFICES ASSUME NEW c \in Child, phase'[c] # "free"
               PROVE  /\ parent'[c] \in Plan
                      /\ ancestors'[c] = ancestors'[parent'[c]]
                                          \cup {parent'[c]}
      BY DEF ParentInv
  <2>1. CASE c \in C
      BY <1>2, <1>3, <2>1 DEF Child
  <2>2. CASE c \notin C
    <3>1. /\ parent[c] \in Plan
          /\ ancestors[c] = ancestors[parent[c]] \cup {parent[c]}
        BY <1>3, <2>2 DEF IInv, ParentInv, SpawnFrom, Child
    <3>2. parent[c] \notin C
        BY <1>2, <3>1 DEF IInv, AncestorInv, Child
    <3>3. QED
        BY <1>3, <2>2, <3>1, <3>2 DEF Child
  <2>3. QED
      BY <2>1, <2>2
<1>9. AncestorInv'
  <2> SUFFICES ASSUME NEW d \in Plan, NEW a \in ancestors'[d]
               PROVE  /\ phase'[a] # "free"
                      /\ a # d
                      /\ \E c \in Spawned(a)' : c = d \/ c \in ancestors'[d]
      BY DEF AncestorInv
  <2>1. CASE d \in C /\ a = p
      BY <1>2, <1>3, <1>4, <2>1
  <2>2. CASE d \in C /\ a # p
    <3>1. a \in ancestors[p] /\ a \in Plan
        BY <1>3, <2>2 DEF IInv, TypeOK
    <3>2. /\ phase[a] # "free"
          /\ \E c \in Spawned(a) : c = p \/ c \in ancestors[p]
        BY <3>1 DEF IInv, AncestorInv
    <3>3. QED
        BY <1>2, <1>3, <1>4, <2>2, <3>1, <3>2
  <2>3. CASE d \notin C
    <3>1. a \in ancestors[d] /\ a \in Plan
        BY <1>3, <2>3 DEF IInv, TypeOK
    <3>2. /\ phase[a] # "free" /\ a # d
          /\ \E c \in Spawned(a) : c = d \/ c \in ancestors[d]
        BY <3>1 DEF IInv, AncestorInv
    <3>3. a # p
        BY <3>2 DEF SpawnFrom, IInv, ForkInv
    <3>4. QED
        BY <1>2, <1>3, <1>4, <2>3, <3>1, <3>2, <3>3
  <2>4. QED
      BY <2>1, <2>2, <2>3
<1>10. JoinInv'
  <2> SUFFICES ASSUME NEW d \in Plan, phase'[d] \in Unfinished,
                      NEW a \in ancestors'[d]
               PROVE  phase'[a] = "spawn"
      BY DEF JoinInv
  <2>1. CASE a = p
      BY <1>3, <2>1
  <2>2. CASE a # p /\ d \in C
    <3>1. a \in ancestors[p] /\ a \in Plan
        BY <1>3, <2>2 DEF IInv, TypeOK
    <3>2. phase[a] = "spawn"
        BY <3>1 DEF SpawnFrom, IInv, JoinInv, Unfinished
    <3>3. QED
        BY <1>2, <1>3, <2>2, <3>1, <3>2
  <2>3. CASE a # p /\ d \notin C
    <3>1. a \in ancestors[d] /\ a \in Plan
        BY <1>3, <2>3 DEF IInv, TypeOK
    <3>2. phase[a] = "spawn"
        BY <1>3, <2>3, <3>1 DEF SpawnFrom, IInv, JoinInv, Unfinished
    <3>3. QED
        BY <1>2, <1>3, <2>3, <3>1, <3>2
  <2>4. QED
      BY <2>1, <2>2, <2>3
<1>11. QueueInv' /\ HeldInv'
  <2>1. \A i \in DOMAIN queue : queue[i] \in Plan
      BY DEF IInv, TypeOK
  <2>2. QueueInv'
      BY <1>2, <1>3, <1>5, <2>1 DEF IInv, QueueInv, SpawnFrom
  <2>3. HeldInv'
      BY <1>2, <1>3, <1>5 DEF IInv, HeldInv, SpawnFrom, Active, Child
  <2>4. QED
      BY <2>2, <2>3
<1>12. AliveInv'
    BY <1>2, <1>3, <1>5
       DEF IInv, AliveInv, SpawnFrom, Allocated, Unfinished
<1>13. DeadInv'
    BY <1>2, <1>3, <1>5
       DEF IInv, DeadInv, TriggerInv, JoinInv, AncestorInv, AliveInv, FreeInv, SpawnFrom, Descendants,
           Allocated, Unfinished, Child
<1>14. ForkInv'
    BY <1>2, <1>3, <1>4 DEF IInv, ForkInv, FreeInv, SpawnFrom, Child
<1>15. CounterInv'
  <2>1. \A q \in Plan : DoneChilds(q)' = DoneChilds(q)
    <3>1. TAKE q \in Plan
    <3>2. CASE q = p
      <4>1. Spawned(p) = {} /\ \A c \in C : phase'[c] # "done"
          BY <1>2, <1>3 DEF SpawnFrom, IInv, ForkInv, Child
      <4>2. QED
          BY <1>4, <3>2, <4>1 DEF DoneChilds
    <3>3. CASE q # p
      <4>1. \A c \in Spawned(q) : c \in Plan /\ (phase'[c] = "done" <=> phase[c] = "done")
          BY <1>2, <1>3 DEF SpawnFrom, Spawned
      <4>2. QED
          BY <1>4, <3>3, <4>1 DEF DoneChilds
    <3>4. QED
        BY <3>2, <3>3
  <2>2. shouldCount' = [shouldCount EXCEPT ![p] = Cardinality(C)]
      BY <1>1 DEF Spawn
  <2>3. \A q \in Plan : shouldCount'[q] = IF q = p THEN Cardinality(C)
                                          ELSE shouldCount[q]
      BY <2>2 DEF IInv, TypeOK
  <2>4. QED
      BY <1>3, <1>4, <1>5, <2>1, <2>3 DEF IInv, CounterInv
<1>16. ResultInv'
    BY <1>2, <1>3, <1>5 DEF IInv, ResultInv, SpawnFrom, Child
<1>17. FailureReachesCaller'
  <2> SUFFICES ASSUME NEW q \in Plan, result'[q] = "ok",
                      NEW d \in Plan, q \in ancestors'[d]
               PROVE  result'[d] = "ok"
      BY DEF FailureReachesCaller, Descendants
  <2>1. phase[q] \notin {"run", "spawn"}
      BY <1>5 DEF IInv, ResultInv
  <2>2. CASE d \in C
    <3>1. q = p \/ q \in ancestors[p]
        BY <1>3, <2>2
    <3>2. phase[q] \in {"run", "spawn"}
        BY <3>1 DEF SpawnFrom, IInv, JoinInv, Unfinished
    <3>3. QED
        BY <2>1, <3>2
  <2>3. CASE d \notin C
      BY <1>3, <1>5, <2>3 DEF IInv, FailureReachesCaller, Descendants
  <2>4. QED
      BY <2>2, <2>3
<1>18. NestingInv'
    BY <1>2, <1>3 DEF IInv, NestingInv, SpawnFrom, Child
<1>19. QED
    BY <1>6, <1>7, <1>8, <1>9, <1>10, <1>11, <1>12, <1>13, <1>14, <1>15,
       <1>16, <1>17, <1>18 DEF IInv
-----------------------------------------------------------------------------
LEMMA QueueFacts ==
    ASSUME IInv
    PROVE  /\ \A i \in DOMAIN queue : queue[i] \in Plan /\ phase[queue[i]] = "queued"
           /\ \A i, j \in DOMAIN queue : queue[i] = queue[j] => i = j
BY DEF IInv, TypeOK, QueueInv

\* The counters are right as long as no plan is spawned or done.
LEMMA CounterStep ==
    ASSUME IInv,
           UNCHANGED <<isCounter, shouldCount, forks>>,
           \A q \in Plan : Spawned(q)' = Spawned(q),
           \A c \in Child : phase'[c] = "done" <=> phase[c] = "done"
    PROVE  CounterInv'
<1>1. \A q \in Plan : \A c \in Spawned(q) : c \in Child
    BY SpawnedFacts
<1>2. \A q \in Plan : DoneChilds(q)' = DoneChilds(q)
    BY <1>1 DEF DoneChilds
<1>3. QED
    BY <1>2 DEF IInv, CounterInv

\* What a plan that goes on or ends well has below it.
LEMMA DescendantsOk ==
    ASSUME IInv, NEW p \in Plan, phase[p] # "spawn", success[p],
           NEW d \in Descendants(p)
    PROVE  result[d] = "ok"
<1>1. \A c \in Spawned(p) : c \in Child /\ phase[c] = "done" /\ parent[c] = p
    BY SpawnedFacts, SpawnedDone
<1>2. \A c \in Spawned(p) : result[c] = "ok"
    BY <1>1 DEF IInv, ResultInv, Child
<1>3. PICK c \in Spawned(p) : c = d \/ c \in ancestors[d]
    BY DEF IInv, AncestorInv, Descendants
<1>4. c \in Plan /\ d \in Plan
    BY DEF Spawned, Descendants
<1>5. QED
    BY <1>2, <1>3, <1>4 DEF IInv, FailureReachesCaller, Descendants

LEMMA DoneChildsBound ==
    ASSUME IInv, NEW p \in Plan, NEW c \in Spawned(p), c \notin DoneChilds(p)
    PROVE  /\ Cardinality(DoneChilds(p)) \in Nat
           /\ Cardinality(DoneChilds(p) \cup {c}) = Cardinality(DoneChilds(p)) + 1
           /\ Cardinality(DoneChilds(p)) + 1 < CounterRange
<1>1. DoneChilds(p) \cup {c} \subseteq Plan
    BY DEF DoneChilds, Spawned
<1>2. IsFiniteSet(DoneChilds(p) \cup {c}) /\ IsFiniteSet(DoneChilds(p))
    BY <1>1, ScriptAssumption, FS_Subset
<1>3. Cardinality(DoneChilds(p)) \in Nat /\ Cardinality(Plan) \in Nat
    BY <1>2, ScriptAssumption, FS_CardinalityType
<1>4. Cardinality(DoneChilds(p) \cup {c}) = Cardinality(DoneChilds(p)) + 1
    BY <1>2, FS_AddElement
<1>5. Cardinality(DoneChilds(p) \cup {c}) <= Cardinality(Plan)
    BY <1>1, ScriptAssumption, FS_Subset
<1>6. QED
    BY <1>3, <1>4, <1>5, ScriptAssumption, BoundAssumption

\* The point of the counters: equal means that everything below is done.
LEMMA AllDone ==
    ASSUME IInv, NEW p \in Plan, phase[p] = "spawn",
           isCounter[p] = shouldCount[p]
    PROVE  \A d \in Descendants(p) : phase[d] = "done"
<1>1. DoneChilds(p) \subseteq Spawned(p) /\ Spawned(p) \subseteq Plan
    BY DEF DoneChilds, Spawned
<1>2. Cardinality(DoneChilds(p)) = Cardinality(Spawned(p))
    BY DEF IInv, ForkInv, CounterInv
<1>3. DoneChilds(p) = Spawned(p)
    BY <1>1, <1>2, ScriptAssumption, FS_Subset
<1>4. \A c \in Spawned(p) : c \in Plan /\ phase[c] = "done"
    BY <1>3 DEF DoneChilds, Spawned
<1>5. ASSUME NEW d \in Descendants(p) PROVE phase[d] = "done"
  <2>1. PICK c \in Spawned(p) : c = d \/ c \in ancestors[d]
      BY DEF IInv, AncestorInv, Descendants
  <2>2. CASE c = d
      BY <1>4, <2>2
  <2>3. CASE c \in ancestors[d]
      BY <1>4, <2>3, DescendantsDone DEF Descendants
  <2>4. QED
      BY <2>1, <2>2, <2>3
<1>6. QED
    BY <1>5

LEMMA TriggerTreeStep ==
    ASSUME IInv, TypeOK', NEW r \in Trigger, TriggerTree(r)
    PROVE  IInv'
<1> USE PlanAssumption
<1>1. r \in Plan /\ phase[r] = "free" /\ lock = NoPlan /\ lock' = r
      /\ alive' = alive \cup {r}
    BY DEF TriggerTree, IInv, TypeOK
<1>2. \A q \in Plan : phase'[q] = IF q = r THEN "run" ELSE phase[q]
    BY <1>1 DEF TriggerTree, IInv, TypeOK
<1>3. UNCHANGED <<queue, held, result, parent, ancestors, shouldCount, isCounter, success, looping, forks>>
    BY DEF TriggerTree, sharedVars
<1>4. /\ \A q \in Plan : Spawned(q)' = Spawned(q)
      /\ \A q \in Plan : Descendants(q)' = Descendants(q)
    BY <1>3 DEF Spawned, Descendants
<1>5. FreeInv'
    BY <1>1, <1>2, <1>3, <1>4 DEF IInv, TypeOK, FreeInv
<1>6. TriggerInv'
    BY <1>1, <1>2, <1>3, <1>4 DEF IInv, TypeOK, TriggerInv, Active, Child
<1>7. ParentInv'
    BY <1>1, <1>2, <1>3, <1>4 DEF IInv, TypeOK, ParentInv, Child
<1>8. AncestorInv'
    BY <1>1, <1>2, <1>3, <1>4 DEF IInv, TypeOK, AncestorInv, Child
<1>9. JoinInv'
    BY <1>1, <1>2, <1>3, <1>4 DEF IInv, TypeOK, JoinInv, FreeInv, Unfinished
<1>10. QueueInv'
    BY <1>1, <1>2, <1>3, QueueFacts DEF QueueInv
<1>11. HeldInv'
    BY <1>1, <1>2, <1>3, <1>4 DEF IInv, TypeOK, HeldInv, Active, Child
<1>12. AliveInv'
    BY <1>1, <1>2, <1>3, <1>4 DEF IInv, TypeOK, AliveInv, Allocated, Unfinished
<1>13. DeadInv'
    BY <1>1, <1>2, <1>3, <1>4 DEF IInv, TypeOK, DeadInv, Descendants, TriggerInv, JoinInv, Unfinished, Child
<1>14. ForkInv'
    BY <1>1, <1>2, <1>3, <1>4 DEF IInv, TypeOK, ForkInv, FreeInv
<1>15. CounterInv'
  <2>1. \A d \in Child : phase'[d] = "done" <=> phase[d] = "done"
      BY <1>1, <1>2 DEF Child
  <2>2. QED
      BY <1>3, <1>4, <2>1, CounterStep
<1>16. ResultInv'
    BY <1>1, <1>2, <1>3, <1>4 DEF IInv, TypeOK, ResultInv, Child, FreeInv
<1>17. FailureReachesCaller'
    BY <1>1, <1>2, <1>3, <1>4 DEF IInv, TypeOK, FailureReachesCaller, Descendants
<1>18. NestingInv'
    BY <1>1, <1>2, <1>3, <1>4 DEF IInv, TypeOK, NestingInv, Child
<1>19. QED
    BY <1>5, <1>6, <1>7, <1>8, <1>9, <1>10, <1>11, <1>12,
       <1>13, <1>14, <1>15, <1>16, <1>17, <1>18 DEF IInv

LEMMA ReturnTriggerStep ==
    ASSUME IInv, TypeOK', NEW r \in Trigger, NEW o \in {"ok", "failed"},
           ReturnTrigger(r, o)
    PROVE  IInv'
<1> USE PlanAssumption
<1>1. /\ r \in Plan /\ phase[r] = "run" /\ lock = r /\ lock' = NoPlan
      /\ alive' = alive \ ({r} \cup Descendants(r))
      /\ result' = [result EXCEPT ![r] = o]
      /\ o = "ok" => success[r]
    BY DEF ReturnTrigger, IInv, TypeOK, TriggerInv, Active
<1>2. \A q \in Plan : phase'[q] = IF q = r THEN "done" ELSE phase[q]
    BY <1>1 DEF ReturnTrigger, IInv, TypeOK
<1>3. UNCHANGED <<queue, held, parent, ancestors, shouldCount, isCounter, success, looping, forks>>
    BY DEF ReturnTrigger, sharedVars
<1>4. /\ \A q \in Plan : Spawned(q)' = Spawned(q)
      /\ \A q \in Plan : Descendants(q)' = Descendants(q)
    BY <1>3 DEF Spawned, Descendants
<1>5. FreeInv'
    BY <1>1, <1>2, <1>3, <1>4 DEF IInv, TypeOK, FreeInv
<1>6. TriggerInv'
    BY <1>1, <1>2, <1>3, <1>4 DEF IInv, TypeOK, TriggerInv, Active, Child
<1>7. ParentInv'
    BY <1>1, <1>2, <1>3, <1>4 DEF IInv, TypeOK, ParentInv, Child
<1>8. AncestorInv'
    BY <1>1, <1>2, <1>3, <1>4 DEF IInv, TypeOK, AncestorInv, Child
<1>9. JoinInv'
    BY <1>1, <1>2, <1>3, <1>4 DEF IInv, TypeOK, JoinInv, Unfinished
<1>10. QueueInv'
    BY <1>1, <1>2, <1>3, QueueFacts DEF QueueInv
<1>11. HeldInv'
  <2>1. \A v \in Worker : held[v] # NoPlan => held[v] \in Plan /\ held[v] # r
      BY DEF IInv, HeldInv, Child
  <2>2. QED
      BY <1>2, <1>3, <2>1 DEF IInv, HeldInv
<1>12. AliveInv'
  <2>1. \A d \in Descendants(r) : phase[d] = "done"
      BY <1>1, DescendantsDone
  <2>2. QED
      BY <1>1, <1>2, <2>1
         DEF IInv, AliveInv, Allocated, Unfinished
<1>13. DeadInv'
  <2>1. ASSUME NEW t \in Trigger, phase'[t] = "done"
        PROVE  alive' \cap ({t} \cup Descendants(t)) = {}
    <3>1. CASE t = r
        BY <1>1, <3>1
    <3>2. CASE t # r
        BY <1>1, <1>2, <2>1, <3>2 DEF IInv, DeadInv
    <3>3. QED
        BY <3>1, <3>2
  <2>2. QED
      BY <1>4, <2>1 DEF DeadInv
<1>14. ForkInv'
    BY <1>1, <1>2, <1>3, <1>4 DEF IInv, TypeOK, ForkInv, FreeInv
<1>15. CounterInv'
  <2>1. \A d \in Child : phase'[d] = "done" <=> phase[d] = "done"
      BY <1>1, <1>2 DEF Child
  <2>2. QED
      BY <1>3, <1>4, <2>1, CounterStep
<1>16. ResultInv'
    BY <1>1, <1>2, <1>3, <1>4 DEF IInv, TypeOK, ResultInv, Child, FreeInv
<1>17. FailureReachesCaller'
  <2>1. \A d \in Descendants(r) : result[r] = "none" /\ (o = "ok" => result[d] = "ok")
      BY <1>1, DescendantsOk DEF IInv, ResultInv
  <2>2. \A q \in Plan : result'[q] = IF q = r THEN o ELSE result[q]
      BY <1>1 DEF IInv, TypeOK
  <2>3. \A q \in Plan : r \notin Descendants(q)
      BY DEF IInv, TriggerInv, Descendants
  <2>4. QED
      BY <1>4, <2>1, <2>2, <2>3 DEF IInv, FailureReachesCaller, Descendants
<1>18. NestingInv'
    BY <1>1, <1>2, <1>3, <1>4 DEF IInv, TypeOK, NestingInv, Child
<1>19. QED
    BY <1>5, <1>6, <1>7, <1>8, <1>9, <1>10, <1>11, <1>12,
       <1>13, <1>14, <1>15, <1>16, <1>17, <1>18 DEF IInv

LEMMA AddGrowthPlanStep ==
    ASSUME IInv, TypeOK', NEW c \in Plan, AddGrowthPlan(c)
    PROVE  IInv'
<1> USE PlanAssumption
<1>1. phase[c] = "new" /\ alive' = alive \cup {c}
      /\ queue' = Append(queue, c)
    BY DEF AddGrowthPlan, IInv, TypeOK
<1>2. \A q \in Plan : phase'[q] = IF q = c THEN "queued" ELSE phase[q]
    BY <1>1 DEF AddGrowthPlan, IInv, TypeOK
<1>3. UNCHANGED <<lock, held, result, parent, ancestors, shouldCount, isCounter, success, looping, forks>>
    BY DEF AddGrowthPlan, sharedVars
<1>4. /\ \A q \in Plan : Spawned(q)' = Spawned(q)
      /\ \A q \in Plan : Descendants(q)' = Descendants(q)
    BY <1>3 DEF Spawned, Descendants
<1>5. FreeInv'
    BY <1>1, <1>2, <1>3, <1>4 DEF IInv, TypeOK, FreeInv
<1>6. TriggerInv'
  <2>1. \A t \in Trigger : phase'[t] = phase[t]
      BY <1>1, <1>2 DEF Child, IInv, TriggerInv, Active
  <2>2. QED
      BY <1>3, <1>4, <2>1 DEF IInv, TriggerInv
<1>7. ParentInv'
    BY <1>1, <1>2, <1>3, <1>4 DEF IInv, TypeOK, ParentInv, Child
<1>8. AncestorInv'
    BY <1>1, <1>2, <1>3, <1>4 DEF IInv, TypeOK, AncestorInv, Child
<1>9. JoinInv'
    BY <1>1, <1>2, <1>3, <1>4 DEF IInv, TypeOK, JoinInv, Unfinished
<1>10. QueueInv'
  <2> DEFINE n == Len(queue)
  <2>0. queue \in Seq(Plan) /\ n \in Nat /\ DOMAIN queue = 1 .. n
      BY DEF IInv, TypeOK
  <2>1. /\ DOMAIN queue' = 1 .. n + 1
        /\ \A i \in 1 .. n : queue'[i] = queue[i]
        /\ queue'[n + 1] = c
      BY <1>1, <2>0
  <2>2. \A i \in 1 .. n : /\ queue[i] # c
                           /\ queue[i] \in Plan
                           /\ phase[queue[i]] = "queued"
      BY <1>1, <2>0, QueueFacts
  <2>3. \A i, j \in 1 .. n : queue[i] = queue[j] => i = j
      BY <2>0, QueueFacts
  <2>4. \A i \in 1 .. n + 1 : i \in 1 .. n \/ i = n + 1
      BY <2>0
  <2> HIDE DEF n
  <2>5. QED
      BY <1>2, <2>1, <2>2, <2>3, <2>4 DEF QueueInv
<1>11. HeldInv'
    BY <1>1, <1>2, <1>3, <1>4 DEF IInv, TypeOK, HeldInv, Active, Child
<1>12. AliveInv'
    BY <1>1, <1>2, <1>3, <1>4 DEF IInv, TypeOK, AliveInv, Allocated, Unfinished
<1>13. DeadInv'
    BY <1>1, <1>2, <1>3, <1>4 DEF IInv, TypeOK, DeadInv, Descendants, TriggerInv, JoinInv, Unfinished, Child
<1>14. ForkInv'
    BY <1>1, <1>2, <1>3, <1>4 DEF IInv, TypeOK, ForkInv, FreeInv
<1>15. CounterInv'
  <2>1. \A d \in Child : phase'[d] = "done" <=> phase[d] = "done"
      BY <1>1, <1>2 DEF Child
  <2>2. QED
      BY <1>3, <1>4, <2>1, CounterStep
<1>16. ResultInv'
    BY <1>1, <1>2, <1>3, <1>4 DEF IInv, TypeOK, ResultInv, Child, FreeInv
<1>17. FailureReachesCaller'
    BY <1>1, <1>2, <1>3, <1>4 DEF IInv, TypeOK, FailureReachesCaller, Descendants
<1>18. NestingInv'
    BY <1>1, <1>2, <1>3, <1>4 DEF IInv, TypeOK, NestingInv, Child
<1>19. QED
    BY <1>5, <1>6, <1>7, <1>8, <1>9, <1>10, <1>11, <1>12,
       <1>13, <1>14, <1>15, <1>16, <1>17, <1>18 DEF IInv

LEMMA WaitUntilFinishStep ==
    ASSUME IInv, TypeOK', NEW p \in Plan, WaitUntilFinish(p)
    PROVE  IInv'
<1> USE PlanAssumption
<1>1. phase[p] = "spawn"
    BY DEF WaitUntilFinish, IInv, TypeOK
<1>2. \A q \in Plan : phase'[q] = IF q = p THEN "collect" ELSE phase[q]
    BY <1>1 DEF WaitUntilFinish, IInv, TypeOK
<1>3. UNCHANGED <<lock, queue, held, alive, result, parent, ancestors, shouldCount, isCounter, success, looping, forks>>
    BY DEF WaitUntilFinish, sharedVars
<1>4. /\ \A q \in Plan : Spawned(q)' = Spawned(q)
      /\ \A q \in Plan : Descendants(q)' = Descendants(q)
    BY <1>3 DEF Spawned, Descendants
<1>5. FreeInv'
    BY <1>1, <1>2, <1>3, <1>4 DEF IInv, TypeOK, FreeInv
<1>6. TriggerInv'
    BY <1>1, <1>2, <1>3, <1>4 DEF IInv, TypeOK, TriggerInv, Active, Child
<1>7. ParentInv'
    BY <1>1, <1>2, <1>3, <1>4 DEF IInv, TypeOK, ParentInv, Child
<1>8. AncestorInv'
    BY <1>1, <1>2, <1>3, <1>4 DEF IInv, TypeOK, AncestorInv, Child
<1>9. JoinInv'
  <2>1. \A d \in Descendants(p) : phase[d] = "done"
      BY <1>1, AllDone DEF WaitUntilFinish
  <2>2. ASSUME NEW d \in Plan, phase'[d] \in Unfinished, NEW a \in ancestors[d]
        PROVE  phase'[a] = "spawn"
    <3>1. phase[d] \in Unfinished /\ phase[d] # "done" /\ a \in Plan
        BY <1>1, <1>2, <2>2 DEF Unfinished, IInv, TypeOK
    <3>2. phase[a] = "spawn" /\ a # p
        BY <2>1, <3>1 DEF IInv, JoinInv, Descendants
    <3>3. QED
        BY <1>2, <3>1, <3>2
  <2>3. QED
      BY <1>3, <2>2 DEF JoinInv
<1>10. QueueInv'
    BY <1>1, <1>2, <1>3, QueueFacts DEF QueueInv
<1>11. HeldInv'
    BY <1>1, <1>2, <1>3, <1>4 DEF IInv, TypeOK, HeldInv, Active, Child
<1>12. AliveInv'
    BY <1>1, <1>2, <1>3, <1>4 DEF IInv, TypeOK, AliveInv, Allocated, Unfinished
<1>13. DeadInv'
  <2>1. \A t \in Trigger : phase'[t] = "done" => phase[t] = "done"
      BY <1>1, <1>2 DEF Child
  <2>2. alive' \subseteq alive
      BY <1>1, <1>3
  <2>3. QED
      BY <1>4, <2>1, <2>2 DEF IInv, DeadInv
<1>14. ForkInv'
    BY <1>1, <1>2, <1>3, <1>4 DEF IInv, TypeOK, ForkInv, FreeInv
<1>15. CounterInv'
  <2>1. \A d \in Child : phase'[d] = "done" <=> phase[d] = "done"
      BY <1>1, <1>2 DEF Child
  <2>2. QED
      BY <1>3, <1>4, <2>1, CounterStep
<1>16. ResultInv'
    BY <1>1, <1>2, <1>3, <1>4 DEF IInv, TypeOK, ResultInv, Child, FreeInv
<1>17. FailureReachesCaller'
    BY <1>1, <1>2, <1>3, <1>4 DEF IInv, TypeOK, FailureReachesCaller, Descendants
<1>18. NestingInv'
    BY <1>1, <1>2, <1>3, <1>4 DEF IInv, TypeOK, NestingInv, Child
<1>19. QED
    BY <1>5, <1>6, <1>7, <1>8, <1>9, <1>10, <1>11, <1>12,
       <1>13, <1>14, <1>15, <1>16, <1>17, <1>18 DEF IInv

LEMMA ClearChildsStep ==
    ASSUME IInv, TypeOK', NEW p \in Plan, ClearChilds(p)
    PROVE  IInv'
<1> USE PlanAssumption
<1>1. /\ phase[p] = "collect" /\ alive' = alive \ Descendants(p)
      /\ \A q \in Plan : q # p => success'[q] = success[q]
      /\ success'[p] => success[p]
    BY DEF ClearChilds, IInv, TypeOK
<1>2. \A q \in Plan : phase'[q] = IF q = p THEN "run" ELSE phase[q]
    BY <1>1 DEF ClearChilds, IInv, TypeOK
<1>3. UNCHANGED <<lock, queue, held, result, parent, ancestors, shouldCount, isCounter, looping, forks>>
    BY DEF ClearChilds, sharedVars
<1>4. /\ \A q \in Plan : Spawned(q)' = Spawned(q)
      /\ \A q \in Plan : Descendants(q)' = Descendants(q)
    BY <1>3 DEF Spawned, Descendants
<1>5. FreeInv'
    BY <1>1, <1>2, <1>3, <1>4 DEF IInv, TypeOK, FreeInv
<1>6. TriggerInv'
    BY <1>1, <1>2, <1>3, <1>4 DEF IInv, TypeOK, TriggerInv, Active, Child
<1>7. ParentInv'
    BY <1>1, <1>2, <1>3, <1>4 DEF IInv, TypeOK, ParentInv, Child
<1>8. AncestorInv'
    BY <1>1, <1>2, <1>3, <1>4 DEF IInv, TypeOK, AncestorInv, Child
<1>9. JoinInv'
    BY <1>1, <1>2, <1>3, <1>4 DEF IInv, TypeOK, JoinInv, Unfinished
<1>10. QueueInv'
    BY <1>1, <1>2, <1>3, QueueFacts DEF QueueInv
<1>11. HeldInv'
    BY <1>1, <1>2, <1>3, <1>4 DEF IInv, TypeOK, HeldInv, Active, Child
<1>12. AliveInv'
  <2>1. \A d \in Descendants(p) : phase[d] = "done" /\ d # p
      BY <1>1, DescendantsDone
  <2>2. QED
      BY <1>1, <1>2, <2>1
         DEF IInv, AliveInv, Allocated, Unfinished
<1>13. DeadInv'
  <2>1. \A t \in Trigger : phase'[t] = "done" => phase[t] = "done"
      BY <1>1, <1>2 DEF Child
  <2>2. alive' \subseteq alive
      BY <1>1, <1>3
  <2>3. QED
      BY <1>4, <2>1, <2>2 DEF IInv, DeadInv
<1>14. ForkInv'
    BY <1>1, <1>2, <1>3, <1>4 DEF IInv, TypeOK, ForkInv, FreeInv
<1>15. CounterInv'
  <2>1. \A d \in Child : phase'[d] = "done" <=> phase[d] = "done"
      BY <1>1, <1>2 DEF Child
  <2>2. QED
      BY <1>3, <1>4, <2>1, CounterStep
<1>16. ResultInv'
  <2>1. \A q \in Plan : success'[q] => success[q]
      BY <1>1
  <2>2. \A q \in Child : phase[q] # "free" => parent[q] \in Plan
      BY DEF IInv, ParentInv
  <2>3. QED
      BY <1>1, <1>2, <1>3, <2>1, <2>2 DEF IInv, ResultInv, Child
<1>17. FailureReachesCaller'
    BY <1>1, <1>2, <1>3, <1>4 DEF IInv, TypeOK, FailureReachesCaller, Descendants
<1>18. NestingInv'
    BY <1>1, <1>2, <1>3, <1>4 DEF IInv, TypeOK, NestingInv, Child
<1>19. QED
    BY <1>5, <1>6, <1>7, <1>8, <1>9, <1>10, <1>11, <1>12,
       <1>13, <1>14, <1>15, <1>16, <1>17, <1>18 DEF IInv

LEMMA GetGrowthPlanStep ==
    ASSUME IInv, TypeOK', NEW w \in Worker, GetGrowthPlan(w)
    PROVE  IInv'
<1> USE PlanAssumption
<1>1. /\ Head(queue) \in Child /\ phase[Head(queue)] = "queued"
      /\ success[Head(queue)]
      /\ held[w] = NoPlan /\ held' = [held EXCEPT ![w] = Head(queue)]
      /\ queue # <<>> /\ queue' = Tail(queue)
      <2>1. Head(queue) = queue[1] /\ 1 \in DOMAIN queue
      BY DEF GetGrowthPlan, IInv, TypeOK
  <2>2. Head(queue) \in Plan /\ phase[Head(queue)] = "queued"
      BY <2>1, QueueFacts
  <2>3. QED
      BY <2>2 DEF GetGrowthPlan, IInv, TriggerInv, ResultInv, Child, Active
<1>2. \A q \in Plan : phase'[q] = IF q = Head(queue) THEN "run" ELSE phase[q]
    BY <1>1 DEF GetGrowthPlan, IInv, TypeOK
<1>3. UNCHANGED <<lock, alive, result, parent, ancestors, shouldCount, isCounter, success, looping, forks>>
    BY <1>1 DEF GetGrowthPlan, IInv, TypeOK
<1>4. /\ \A q \in Plan : Spawned(q)' = Spawned(q)
      /\ \A q \in Plan : Descendants(q)' = Descendants(q)
    BY <1>3 DEF Spawned, Descendants
<1>5. FreeInv'
    BY <1>1, <1>2, <1>3, <1>4 DEF IInv, TypeOK, FreeInv
<1>6. TriggerInv'
  <2>1. \A t \in Trigger : phase'[t] = phase[t]
      BY <1>1, <1>2 DEF Child, IInv, TriggerInv, Active
  <2>2. QED
      BY <1>3, <1>4, <2>1 DEF IInv, TriggerInv
<1>7. ParentInv'
    BY <1>1, <1>2, <1>3, <1>4 DEF IInv, TypeOK, ParentInv, Child
<1>8. AncestorInv'
    BY <1>1, <1>2, <1>3, <1>4 DEF IInv, TypeOK, AncestorInv, Child
<1>9. JoinInv'
    BY <1>1, <1>2, <1>3, <1>4 DEF IInv, TypeOK, JoinInv, Unfinished
<1>10. QueueInv'
  <2>0. /\ queue \in Seq(Plan) /\ Len(queue) \in Nat \ {0}
        /\ DOMAIN queue = 1 .. Len(queue)
        /\ DOMAIN queue' = 1 .. Len(queue) - 1
        /\ \A i \in 1 .. Len(queue) - 1 : queue'[i] = queue[i + 1]
        /\ queue[1] = Head(queue)
      BY <1>1 DEF IInv, TypeOK
  <2>1. /\ \A i \in DOMAIN queue' : /\ i + 1 \in DOMAIN queue
                                      /\ queue'[i] = queue[i + 1]
                                      /\ i \in Nat \ {0}
        /\ 1 \in DOMAIN queue /\ queue[1] = Head(queue)
      BY <2>0
  <2>2. \A i \in DOMAIN queue' : i + 1 # 1
      BY <2>1
  <2>3. \A i \in DOMAIN queue' : queue'[i] \in Plan /\ phase[queue'[i]] = "queued"
                                 /\ queue'[i] # Head(queue)
      BY <2>1, <2>2, QueueFacts
  <2>4. \A i, j \in DOMAIN queue' : queue'[i] = queue'[j] => i = j
      BY <2>1, QueueFacts
  <2>5. QED
      BY <1>2, <2>3, <2>4 DEF QueueInv
<1>11. HeldInv'
    BY <1>1, <1>2, <1>3, <1>4 DEF IInv, TypeOK, HeldInv, Active, Child
<1>12. AliveInv'
    BY <1>1, <1>2, <1>3, <1>4 DEF IInv, TypeOK, AliveInv, Allocated, Unfinished
<1>13. DeadInv'
  <2>1. \A t \in Trigger : phase'[t] = "done" => phase[t] = "done"
      BY <1>1, <1>2 DEF Child
  <2>2. alive' \subseteq alive
      BY <1>1, <1>3
  <2>3. QED
      BY <1>4, <2>1, <2>2 DEF IInv, DeadInv
<1>14. ForkInv'
    BY <1>1, <1>2, <1>3, <1>4 DEF IInv, TypeOK, ForkInv, FreeInv
<1>15. CounterInv'
  <2>1. \A d \in Child : phase'[d] = "done" <=> phase[d] = "done"
      BY <1>1, <1>2 DEF Child
  <2>2. QED
      BY <1>3, <1>4, <2>1, CounterStep
<1>16. ResultInv'
    BY <1>1, <1>2, <1>3, <1>4 DEF IInv, TypeOK, ResultInv, Child, FreeInv
<1>17. FailureReachesCaller'
    BY <1>1, <1>2, <1>3, <1>4 DEF IInv, TypeOK, FailureReachesCaller, Descendants
<1>18. NestingInv'
    BY <1>1, <1>2, <1>3, <1>4 DEF IInv, TypeOK, NestingInv, Child
<1>19. QED
    BY <1>5, <1>6, <1>7, <1>8, <1>9, <1>10, <1>11, <1>12,
       <1>13, <1>14, <1>15, <1>16, <1>17, <1>18 DEF IInv

LEMMA ProcessSakuraItemStep ==
    ASSUME IInv, TypeOK', NEW w \in Worker, NEW o \in {"ok", "failed"},
           ProcessSakuraItem(w, o)
    PROVE  IInv'
<1> USE PlanAssumption
<1>1. /\ held[w] \in Child /\ phase[held[w]] = "run"
      /\ result' = [result EXCEPT ![held[w]] = o]
      /\ o = "ok" => success[held[w]]
    BY DEF ProcessSakuraItem, IInv, HeldInv
<1>2. \A q \in Plan : phase'[q] = IF q = held[w] THEN "returned" ELSE phase[q]
    BY <1>1 DEF ProcessSakuraItem, IInv, TypeOK
<1>3. UNCHANGED <<lock, queue, held, alive, parent, ancestors, shouldCount, isCounter, success, looping, forks>>
    BY DEF ProcessSakuraItem, sharedVars
<1>4. /\ \A q \in Plan : Spawned(q)' = Spawned(q)
      /\ \A q \in Plan : Descendants(q)' = Descendants(q)
    BY <1>3 DEF Spawned, Descendants
<1>5. FreeInv'
    BY <1>1, <1>2, <1>3, <1>4 DEF IInv, TypeOK, FreeInv
<1>6. TriggerInv'
  <2>1. \A t \in Trigger : phase'[t] = phase[t]
      BY <1>1, <1>2 DEF Child, IInv, TriggerInv, Active
  <2>2. QED
      BY <1>3, <1>4, <2>1 DEF IInv, TriggerInv
<1>7. ParentInv'
    BY <1>1, <1>2, <1>3, <1>4 DEF IInv, TypeOK, ParentInv, Child
<1>8. AncestorInv'
    BY <1>1, <1>2, <1>3, <1>4 DEF IInv, TypeOK, AncestorInv, Child
<1>9. JoinInv'
    BY <1>1, <1>2, <1>3, <1>4 DEF IInv, TypeOK, JoinInv, Unfinished
<1>10. QueueInv'
    BY <1>1, <1>2, <1>3, QueueFacts DEF QueueInv
<1>11. HeldInv'
    BY <1>1, <1>2, <1>3, <1>4 DEF IInv, TypeOK, HeldInv, Active, Child
<1>12. AliveInv'
    BY <1>1, <1>2, <1>3, <1>4 DEF IInv, TypeOK, AliveInv, Allocated, Unfinished
<1>13. DeadInv'
  <2>1. \A t \in Trigger : phase'[t] = "done" => phase[t] = "done"
      BY <1>1, <1>2 DEF Child
  <2>2. alive' \subseteq alive
      BY <1>1, <1>3
  <2>3. QED
      BY <1>4, <2>1, <2>2 DEF IInv, DeadInv
<1>14. ForkInv'
    BY <1>1, <1>2, <1>3, <1>4 DEF IInv, TypeOK, ForkInv, FreeInv
<1>15. CounterInv'
  <2>1. \A d \in Child : phase'[d] = "done" <=> phase[d] = "done"
      BY <1>1, <1>2 DEF Child
  <2>2. QED
      BY <1>3, <1>4, <2>1, CounterStep
<1>16. ResultInv'
    BY <1>1, <1>2, <1>3, <1>4 DEF IInv, TypeOK, ResultInv, Child, FreeInv
<1>17. FailureReachesCaller'
  <2> DEFINE p == held[w]
  <2>1. \A d \in Descendants(p) : o = "ok" => result[d] = "ok"
      BY <1>1, DescendantsOk DEF Child
  <2>2. \A q \in Plan : result'[q] = IF q = p THEN o ELSE result[q]
      BY <1>1 DEF IInv, TypeOK
  <2>3. \A q \in Plan : p \in Descendants(q) => phase[q] = "spawn"
      BY <1>1 DEF IInv, JoinInv, Descendants, Unfinished
  <2>4. \A q \in Plan : p \in Descendants(q) => q # p /\ result[q] = "none"
      BY <1>1, <2>3 DEF IInv, ResultInv
  <2>5. \A d \in Descendants(p) : d # p /\ d \in Plan
      BY DEF Descendants, IInv, AncestorInv
  <2> HIDE DEF p
  <2>6. QED
      BY <1>4, <2>1, <2>2, <2>4, <2>5 DEF IInv, FailureReachesCaller, Descendants
<1>18. NestingInv'
    BY <1>1, <1>2, <1>3, <1>4 DEF IInv, TypeOK, NestingInv, Child
<1>19. QED
    BY <1>5, <1>6, <1>7, <1>8, <1>9, <1>10, <1>11, <1>12,
       <1>13, <1>14, <1>15, <1>16, <1>17, <1>18 DEF IInv

LEMMA ReportStep ==
    ASSUME IInv, TypeOK', NEW w \in Worker, Report(w)
    PROVE  IInv'
<1> USE PlanAssumption
<1>1. /\ held[w] \in Child /\ phase[held[w]] = "returned"
      /\ \A q \in Plan : success'[q] =
            IF q = held[w] THEN result[held[w]] = "ok"
            ELSE success[q] /\ (q = parent[held[w]] => result[held[w]] = "ok")
    BY DEF Report, IInv, HeldInv, TypeOK
<1>2. \A q \in Plan : phase'[q] = IF q = held[w] THEN "reported" ELSE phase[q]
    BY <1>1 DEF Report, IInv, TypeOK
<1>3. UNCHANGED <<lock, queue, held, alive, result, parent, ancestors, shouldCount, isCounter, looping, forks>>
    BY DEF Report, sharedVars
<1>4. /\ \A q \in Plan : Spawned(q)' = Spawned(q)
      /\ \A q \in Plan : Descendants(q)' = Descendants(q)
    BY <1>3 DEF Spawned, Descendants
<1>5. FreeInv'
    BY <1>1, <1>2, <1>3, <1>4 DEF IInv, TypeOK, FreeInv
<1>6. TriggerInv'
  <2>1. \A t \in Trigger : phase'[t] = phase[t]
      BY <1>1, <1>2 DEF Child, IInv, TriggerInv, Active
  <2>2. QED
      BY <1>3, <1>4, <2>1 DEF IInv, TriggerInv
<1>7. ParentInv'
    BY <1>1, <1>2, <1>3, <1>4 DEF IInv, TypeOK, ParentInv, Child
<1>8. AncestorInv'
    BY <1>1, <1>2, <1>3, <1>4 DEF IInv, TypeOK, AncestorInv, Child
<1>9. JoinInv'
    BY <1>1, <1>2, <1>3, <1>4 DEF IInv, TypeOK, JoinInv, Unfinished
<1>10. QueueInv'
    BY <1>1, <1>2, <1>3, QueueFacts DEF QueueInv
<1>11. HeldInv'
    BY <1>1, <1>2, <1>3, <1>4 DEF IInv, TypeOK, HeldInv, Active, Child
<1>12. AliveInv'
    BY <1>1, <1>2, <1>3, <1>4 DEF IInv, TypeOK, AliveInv, Allocated, Unfinished
<1>13. DeadInv'
  <2>1. \A t \in Trigger : phase'[t] = "done" => phase[t] = "done"
      BY <1>1, <1>2 DEF Child
  <2>2. alive' \subseteq alive
      BY <1>1, <1>3
  <2>3. QED
      BY <1>4, <2>1, <2>2 DEF IInv, DeadInv
<1>14. ForkInv'
    BY <1>1, <1>2, <1>3, <1>4 DEF IInv, TypeOK, ForkInv, FreeInv
<1>15. CounterInv'
  <2>1. \A d \in Child : phase'[d] = "done" <=> phase[d] = "done"
      BY <1>1, <1>2 DEF Child
  <2>2. QED
      BY <1>3, <1>4, <2>1, CounterStep
<1>16. ResultInv'
  <2> DEFINE p == held[w]
  <2>1. /\ p \in Child /\ parent[p] \in Plan
        /\ phase[p] = "returned" /\ phase[parent[p]] = "spawn"
      BY <1>1 DEF IInv, ParentInv, JoinInv, Unfinished, Child
  <2>2. \A q \in Plan : success'[q] => success[q]
      BY <1>1 DEF IInv, TypeOK, ResultInv, Child
  <2>3. \A q \in Plan : q # p /\ q # parent[p] => success'[q] = success[q]
      BY <1>1 DEF IInv, TypeOK
  <2>4. result[p] # "ok" => ~ success'[parent[p]]
      BY <1>1, <2>1
  <2>5. ASSUME NEW q \in Plan
        PROVE  /\ result'[q] = "none" <=>
                    phase'[q] \notin {"returned", "reported", "done"}
               /\ phase'[q] \in {"free", "new", "queued"} => success'[q]
               /\ phase'[q] = "returned" /\ result'[q] = "ok" => success'[q]
    <3>1. CASE q = p \/ q = parent[p]
        BY <1>2, <1>3, <2>1, <3>1 DEF IInv, ResultInv
    <3>2. CASE q # p /\ q # parent[p]
        BY <1>2, <1>3, <2>3, <3>2 DEF IInv, ResultInv
    <3>3. QED
        BY <3>1, <3>2
  <2>6. ASSUME NEW q \in Child, phase'[q] \in {"reported", "done"}, result'[q] # "ok"
        PROVE  ~ success'[parent'[q]]
    <3>1. CASE q = p
        BY <1>3, <2>1, <2>4, <2>6, <3>1
    <3>2. CASE q # p
      <4>1. ~ success[parent[q]] /\ parent[q] \in Plan
          BY <1>2, <1>3, <2>6, <3>2 DEF IInv, ResultInv, ParentInv, Child
      <4>2. QED
          BY <1>3, <2>2, <4>1
    <3>3. QED
        BY <3>1, <3>2
  <2>7. QED
      BY <2>5, <2>6 DEF ResultInv
<1>17. FailureReachesCaller'
    BY <1>1, <1>2, <1>3, <1>4 DEF IInv, TypeOK, FailureReachesCaller, Descendants
<1>18. NestingInv'
    BY <1>1, <1>2, <1>3, <1>4 DEF IInv, TypeOK, NestingInv, Child
<1>19. QED
    BY <1>5, <1>6, <1>7, <1>8, <1>9, <1>10, <1>11, <1>12,
       <1>13, <1>14, <1>15, <1>16, <1>17, <1>18 DEF IInv

LEMMA IncreaseCounterStep ==
    ASSUME IInv, TypeOK', NEW w \in Worker, IncreaseCounter(w)
    PROVE  IInv'
<1> USE PlanAssumption
<1>1. /\ held[w] \in Child /\ phase[held[w]] = "reported"
      /\ held' = [held EXCEPT ![w] = NoPlan]
      /\ isCounter' = [isCounter EXCEPT ![parent[held[w]]] = (@ + 1) % CounterRange]
    BY DEF IncreaseCounter, IInv, HeldInv
<1>2. \A q \in Plan : phase'[q] = IF q = held[w] THEN "done" ELSE phase[q]
    BY <1>1 DEF IncreaseCounter, IInv, TypeOK
<1>3. UNCHANGED <<lock, queue, alive, result, parent, ancestors, shouldCount, success, looping, forks>>
    BY DEF IncreaseCounter, sharedVars
<1>4. /\ \A q \in Plan : Spawned(q)' = Spawned(q)
      /\ \A q \in Plan : Descendants(q)' = Descendants(q)
    BY <1>3 DEF Spawned, Descendants
<1>5. FreeInv'
    BY <1>1, <1>2, <1>3, <1>4 DEF IInv, TypeOK, FreeInv
<1>6. TriggerInv'
  <2>1. \A t \in Trigger : phase'[t] = phase[t]
      BY <1>1, <1>2 DEF Child, IInv, TriggerInv, Active
  <2>2. QED
      BY <1>3, <1>4, <2>1 DEF IInv, TriggerInv
<1>7. ParentInv'
    BY <1>1, <1>2, <1>3, <1>4 DEF IInv, TypeOK, ParentInv, Child
<1>8. AncestorInv'
  <2>1. \A d \in Plan : ancestors'[d] = ancestors[d] /\ ancestors[d] \subseteq Plan
      BY <1>3 DEF IInv, TypeOK
  <2>2. \A q \in Plan : phase[q] # "free" => phase'[q] # "free"
      BY <1>2
  <2>3. \A d \in Plan : \A a \in ancestors[d] :
            phase[a] # "free" /\ a # d /\ \E c \in Spawned(a) : c = d \/ c \in ancestors[d]
      BY DEF IInv, AncestorInv
  <2>4. QED
      BY <1>4, <2>1, <2>2, <2>3 DEF AncestorInv
<1>9. JoinInv'
    BY <1>1, <1>2, <1>3, <1>4 DEF IInv, TypeOK, JoinInv, Unfinished
<1>10. QueueInv'
    BY <1>1, <1>2, <1>3, QueueFacts DEF QueueInv
<1>11. HeldInv'
    BY <1>1, <1>2, <1>3, <1>4 DEF IInv, TypeOK, HeldInv, Active, Child
<1>12. AliveInv'
    BY <1>1, <1>2, <1>3, <1>4 DEF IInv, TypeOK, AliveInv, Allocated, Unfinished
<1>13. DeadInv'
  <2>1. \A t \in Trigger : phase'[t] = "done" => phase[t] = "done"
      BY <1>1, <1>2 DEF Child
  <2>2. alive' \subseteq alive
      BY <1>1, <1>3
  <2>3. QED
      BY <1>4, <2>1, <2>2 DEF IInv, DeadInv
<1>14. ForkInv'
    BY <1>1, <1>2, <1>3, <1>4 DEF IInv, TypeOK, ForkInv, FreeInv
<1>15. CounterInv'
  <2>0. PICK c, p : c = held[w] /\ p = parent[c]
      OBVIOUS
  <2>1. c \in Plan /\ p \in Plan /\ c \in Spawned(p) /\ c \notin DoneChilds(p)
      BY <1>1, <2>0 DEF IInv, ParentInv, Spawned, DoneChilds, Child
  <2>2. DoneChilds(p)' = DoneChilds(p) \cup {c}
      BY <1>2, <1>4, <2>0, <2>1 DEF DoneChilds, Spawned
  <2>3. \A q \in Plan \ {p} : DoneChilds(q)' = DoneChilds(q)
      BY <1>2, <1>4, <2>0, <2>1 DEF DoneChilds, Spawned
  <2>4. /\ Cardinality(DoneChilds(p)') = Cardinality(DoneChilds(p)) + 1
        /\ Cardinality(DoneChilds(p)) \in Nat
        /\ Cardinality(DoneChilds(p)) + 1 < CounterRange
      BY <2>1, <2>2, DoneChildsBound
  <2>5. isCounter[p] = Cardinality(DoneChilds(p))
      BY <2>1 DEF IInv, CounterInv
  <2>6. (isCounter[p] + 1) % CounterRange = Cardinality(DoneChilds(p)')
      BY <2>4, <2>5, BoundAssumption
  <2>7. \A q \in Plan : isCounter'[q] = Cardinality(DoneChilds(q)')
    <3>1. TAKE q \in Plan
    <3>2. isCounter'[q] = IF q = p THEN (isCounter[p] + 1) % CounterRange
                          ELSE isCounter[q]
        BY <1>1, <2>0, <2>1 DEF IInv, TypeOK
    <3>3. QED
        BY <2>3, <2>6, <3>2 DEF IInv, CounterInv
  <2>8. QED
      BY <1>3, <1>4, <2>7 DEF IInv, CounterInv
<1>16. ResultInv'
    BY <1>1, <1>2, <1>3, <1>4 DEF IInv, TypeOK, ResultInv, Child, FreeInv
<1>17. FailureReachesCaller'
    BY <1>1, <1>2, <1>3, <1>4 DEF IInv, TypeOK, FailureReachesCaller, Descendants
<1>18. NestingInv'
    BY <1>1, <1>2, <1>3, <1>4 DEF IInv, TypeOK, NestingInv, Child
<1>19. QED
    BY <1>5, <1>6, <1>7, <1>8, <1>9, <1>10, <1>11, <1>12,
       <1>13, <1>14, <1>15, <1>16, <1>17, <1>18 DEF IInv
-----------------------------------------------------------------------------
LEMMA AnnouncedCardinality ==
    ASSUME NEW C \in SUBSET Plan
    PROVE  /\ Cardinality(C) \in Nat
           /\ Announced(Cardinality(C)) = Cardinality(C)
<1>1. Cardinality(C) \in Nat /\ Cardinality(C) <= Cardinality(Plan)
    BY ScriptAssumption, FS_Subset, FS_CardinalityType
<1>2. Cardinality(Plan) \in Nat
    BY ScriptAssumption, FS_CardinalityType
<1>3. Cardinality(C) < CounterRange
    BY <1>1, <1>2, ScriptAssumption, BoundAssumption
<1>4. QED
    BY <1>1, <1>3, BoundAssumption DEF Announced

LEMMA MayForkOnce ==
    ASSUME IInv, NEW p \in Child, MayFork(p)
    PROVE  /\ phase[p] = "run" /\ forks[p] = 0 /\ success[p]
           /\ Cardinality(ancestors[p]) <= MaxNesting
BY ScriptAssumption, BoundAssumption DEF MayFork, IInv, ForkInv, Child

LEMMA RunProcessSpawns ==
    ASSUME IInv, NEW r \in Trigger, RunProcess(r)
    PROVE  \E C : SpawnFrom(r, C)
<1>1. PICK c \in Fresh : Spawn(r, 1, {c}, FALSE)
    BY DEF RunProcess
<1>2. Cardinality({c}) = 1 /\ {c} \in SUBSET Plan
    BY FS_Singleton, FreshType
<1>3. Announced(1) = 1
    BY <1>2, AnnouncedCardinality
<1>4. 1 \in Int /\ FALSE \in BOOLEAN /\ r \notin Child /\ {c} \in SUBSET Fresh
    BY DEF Child
<1>5. SpawnFrom(r, {c})
    BY <1>1, <1>2, <1>3, <1>4, Zenon DEF SpawnFrom, RunProcess
<1>6. QED
    BY <1>5

LEMMA PartSpawns ==
    ASSUME IInv, NEW p \in Child, SpawnParallelSubtrees(p)
    PROVE  \E C : SpawnFrom(p, C)
<1>1. PICK C \in SUBSET Fresh : Spawn(p, Cardinality(C), C, FALSE)
    BY DEF SpawnParallelSubtrees
<1>2. C \in SUBSET Plan /\ FALSE \in BOOLEAN /\ p \notin Trigger
    BY FreshType DEF Child
<1>3. Cardinality(C) \in Int /\ Announced(Cardinality(C)) = Cardinality(C)
    BY <1>2, AnnouncedCardinality
<1>4. MayFork(p)
    BY DEF SpawnParallelSubtrees
<1>5. SpawnFrom(p, C)
    BY <1>1, <1>2, <1>3, <1>4, MayForkOnce, Zenon DEF SpawnFrom
<1>6. QED
    BY <1>5

\* Without the second conjunct of ScriptAssumption a loop would announce
\* endPos - startPos modulo 2^32 children and create none.
LEMMA LoopSpawns ==
    ASSUME IInv, NEW p \in Child, SpawnParallelSubtreesLoop(p)
    PROVE  \E C : SpawnFrom(p, C)
<1>1. PICK range \in LoopRanges, C \in SUBSET Fresh :
          /\ Cardinality(C) = Cardinality(range[1] .. range[2] - 1)
          /\ Spawn(p, range[2] - range[1], C, TRUE)
    BY DEF SpawnParallelSubtreesLoop
<1>2. C \in SUBSET Plan /\ TRUE \in BOOLEAN /\ p \notin Trigger
    BY FreshType DEF Child
<1>3. Cardinality(C) \in Int /\ Announced(Cardinality(C)) = Cardinality(C)
    BY <1>2, AnnouncedCardinality
<1>4. range[2] - range[1] = Cardinality(C)
  <2> DEFINE a == range[1]
             b == range[2] - 1
  <2>1. a \in Int /\ b \in Int /\ a <= b + 1
      BY RangeLength, ScriptAssumption
  <2>2. Cardinality(a .. b) = IF a > b THEN 0 ELSE b - a + 1
      BY <2>1, FS_Interval
  <2>3. QED
      BY <1>1, <2>1, <2>2, RangeLength
<1>5. Spawn(p, Cardinality(C), C, TRUE)
    BY <1>1, <1>4, Zenon
<1>6. MayFork(p)
    BY DEF SpawnParallelSubtreesLoop
<1>7. SpawnFrom(p, C)
    BY <1>2, <1>3, <1>5, <1>6, MayForkOnce, Zenon DEF SpawnFrom
<1>8. QED
    BY <1>7

-----------------------------------------------------------------------------
LEMMA InvariantInit == Init => IInv
<1> SUFFICES ASSUME Init PROVE IInv
    OBVIOUS
<1> USE PlanAssumption
<1>1. TypeOK
    BY TypeInit
<1>2. \A p \in Plan : Spawned(p) = {} /\ DoneChilds(p) = {}
    BY DEF Init, Spawned, DoneChilds
<1>3. FreeInv /\ TriggerInv /\ ParentInv /\ AncestorInv
    BY <1>2 DEF Init, FreeInv, TriggerInv, ParentInv, AncestorInv, Child, Active
<1>4. JoinInv /\ QueueInv /\ HeldInv /\ AliveInv /\ DeadInv
    BY DEF Init, JoinInv, QueueInv, HeldInv, AliveInv, DeadInv, Allocated,
           Unfinished
<1>5. ForkInv
    BY <1>2 DEF Init, ForkInv
<1>6. CounterInv
    BY <1>2, FS_EmptySet DEF Init, CounterInv
<1>7. ResultInv /\ FailureReachesCaller /\ NestingInv
    BY DEF Init, ResultInv, FailureReachesCaller, NestingInv, Child
<1>8. QED
    BY <1>1, <1>3, <1>4, <1>5, <1>6, <1>7 DEF IInv

LEMMA StutterStep == IInv /\ UNCHANGED vars => IInv'
<1> SUFFICES ASSUME IInv, UNCHANGED vars PROVE IInv'
    OBVIOUS
<1>1. UNCHANGED <<lock, queue, held, alive>>
    BY DEF vars, sharedVars
<1>2. UNCHANGED <<phase, result, parent, ancestors, shouldCount, isCounter,
                  success, looping, forks>>
    BY DEF vars, planVars
<1>3. /\ \A q \in Plan : Spawned(q)' = Spawned(q)
      /\ \A q \in Plan : Descendants(q)' = Descendants(q)
      /\ \A q \in Plan : DoneChilds(q)' = DoneChilds(q)
    BY <1>2 DEF Spawned, Descendants, DoneChilds
<1>4. TypeOK' /\ FreeInv' /\ ParentInv' /\ AncestorInv' /\ JoinInv'
    BY <1>1, <1>2, <1>3
       DEF IInv, TypeOK, FreeInv, ParentInv, AncestorInv, JoinInv, Spawned
<1>5. TriggerInv'
    BY <1>1, <1>2, <1>3, PlanAssumption DEF IInv, TriggerInv
<1>6. QueueInv' /\ HeldInv' /\ AliveInv'
    BY <1>1, <1>2 DEF IInv, QueueInv, HeldInv, AliveInv
<1>7. DeadInv'
    BY <1>1, <1>2, <1>3, PlanAssumption DEF IInv, DeadInv
<1>8. ForkInv' /\ CounterInv'
    BY <1>2, <1>3 DEF IInv, ForkInv, CounterInv
<1>9. ResultInv' /\ NestingInv'
    BY <1>2 DEF IInv, ResultInv, NestingInv
<1>10. FailureReachesCaller'
    BY <1>2, <1>3 DEF IInv, FailureReachesCaller
<1>11. QED
    BY <1>4, <1>5, <1>6, <1>7, <1>8, <1>9, <1>10 DEF IInv

LEMMA InvariantStep == IInv /\ [Next]_vars => IInv'
<1> SUFFICES ASSUME IInv, [Next]_vars PROVE IInv'
    OBVIOUS
<1>1. TypeOK'
    BY TypeStep DEF IInv
<1>2. ASSUME NEW r \in Trigger, CallerStep(r) PROVE IInv'
  <2>1. CASE TriggerTree(r)
      BY <1>1, <2>1, TriggerTreeStep
  <2>2. CASE RunProcess(r)
      BY <1>1, <2>2, RunProcessSpawns, SpawnStep, PlanAssumption
  <2>3. ASSUME NEW o \in {"ok", "failed"}, ReturnTrigger(r, o) PROVE IInv'
      BY <1>1, <2>3, ReturnTriggerStep
  <2>4. QED
      BY <1>2, <2>1, <2>2, <2>3 DEF CallerStep
<1>3. ASSUME NEW w \in Worker, WorkerStep(w) PROVE IInv'
  <2>1. CASE GetGrowthPlan(w)
      BY <1>1, <2>1, GetGrowthPlanStep
  <2>2. ASSUME NEW o \in {"ok", "failed"}, ProcessSakuraItem(w, o) PROVE IInv'
      BY <1>1, <2>2, ProcessSakuraItemStep
  <2>3. CASE Report(w)
      BY <1>1, <2>3, ReportStep
  <2>4. CASE IncreaseCounter(w)
      BY <1>1, <2>4, IncreaseCounterStep
  <2>5. QED
      BY <1>3, <2>1, <2>2, <2>3, <2>4 DEF WorkerStep
<1>4. ASSUME NEW p \in Child, ForkStep(p) PROVE IInv'
  <2>1. p \in Plan
      BY DEF Child
  <2>2. \E C : SpawnFrom(p, C)
      BY <1>4, PartSpawns, LoopSpawns DEF ForkStep
  <2>3. QED
      BY <1>1, <2>1, <2>2, SpawnStep
<1>5. ASSUME NEW p \in Plan, JoinStep(p) PROVE IInv'
    BY <1>1, <1>5, AddGrowthPlanStep, WaitUntilFinishStep, ClearChildsStep
       DEF JoinStep
<1>6. CASE UNCHANGED vars
    BY <1>6, StutterStep
<1>7. QED
    BY <1>2, <1>3, <1>4, <1>5, <1>6 DEF Next, Idle

LEMMA Invariant == Spec => []IInv
BY InvariantInit, InvariantStep, PTL DEF Spec

\* No thread of the engine reaches a deleted plan or a plan another thread
\* processes.
THEOREM NoDangling == Spec => []NoDanglingPlan
<1>1. IInv => NoDanglingPlan
  <2> SUFFICES ASSUME IInv PROVE NoDanglingPlan
      OBVIOUS
  <2>1. ASSUME NEW p \in Child, phase[p] \in Allocated
        PROVE  p \in alive /\ parent[p] \in alive
    <3>1. parent[p] \in Plan /\ phase[parent[p]] = "spawn"
        BY <2>1 DEF IInv, ParentInv, JoinInv, Allocated, Unfinished, Child
    <3>2. QED
        BY <2>1, <3>1 DEF IInv, AliveInv, Allocated, Unfinished, Child
  <2>2. ASSUME NEW i \in DOMAIN queue
        PROVE  queue[i] \in Child /\ phase[queue[i]] = "queued"
      BY QueueFacts DEF IInv, TriggerInv, Active, Child
  <2>3. ASSUME NEW w \in Worker, held[w] # NoPlan
        PROVE  /\ held[w] \in Child
               /\ phase[held[w]] \in Allocated /\ phase[held[w]] # "queued"
      BY <2>3 DEF IInv, HeldInv, Active, Allocated, Unfinished
  <2>4. ASSUME NEW i \in DOMAIN queue
        PROVE  queue[i] \in alive /\ parent[queue[i]] \in alive
      BY <2>1, <2>2 DEF Allocated, Unfinished
  <2>5. ASSUME NEW i \in DOMAIN queue, NEW w \in Worker
        PROVE  held[w] # queue[i]
      BY <2>2, <2>3, PlanAssumption DEF Child
  <2>6. \A w \in Worker : held[w] # NoPlan =>
            held[w] \in alive /\ parent[held[w]] \in alive
      BY <2>1, <2>3
  <2>7. \A v, w \in Worker : held[w] # NoPlan /\ held[v] = held[w] => v = w
      BY DEF IInv, HeldInv
  <2>8. QED
      BY <2>4, <2>5, <2>6, <2>7, QueueFacts DEF NoDanglingPlan
<1>2. QED
    BY <1>1, Invariant, PTL

\* A plan never collects the results of children that are still to finish.
THEOREM JoinIsComplete == Spec => []JoinComplete
<1>1. IInv => JoinComplete
    BY SpawnedDone DEF JoinComplete
<1>2. QED
    BY <1>1, Invariant, PTL

\* When all children have finished, the polled counter says so.
THEOREM WaitIsExact == Spec => []WaitEnds
<1>1. IInv => WaitEnds
  <2> SUFFICES ASSUME IInv, NEW p \in Plan, phase[p] = "spawn",
                      \A c \in Spawned(p) : phase[c] = "done"
               PROVE  isCounter[p] = shouldCount[p]
      BY DEF WaitEnds
  <2>1. DoneChilds(p) = Spawned(p)
      BY DEF DoneChilds
  <2>2. QED
      BY <2>1 DEF IInv, ForkInv, CounterInv
<1>2. QED
    BY <1>1, Invariant, PTL

\* triggerTree returns true only if nothing below it failed.
THEOREM FailuresReachCallers == Spec => []FailureReachesCaller
BY Invariant, PTL DEF IInv

\* A call that has returned has left no plan behind.
THEOREM TriggersLeaveNothing == Spec => []TriggerLeavesNothing
<1>1. IInv => TriggerLeavesNothing
    BY DescendantsDone, PlanAssumption
       DEF TriggerLeavesNothing, IInv, DeadInv
<1>2. QED
    BY <1>1, Invariant, PTL

-----------------------------------------------------------------------------
\* In a pool of two or more workers, and with parallel parts that are not
\* nested, only the worker that processes the triggered tree can be waiting.
\* (The assumption is part of the theorem: with nested parts it is false.)
FlatScripts == MaxNesting <= 1 /\ \E v, w \in Worker : v # w

\* The child plans of callers are the only plans one level below a caller.
LEMMA FlatSpawn ==
    ASSUME IInv, FlatScripts, NEW c \in Child, phase[c] = "spawn"
    PROVE  /\ parent[c] \in Trigger /\ c \in Spawned(parent[c])
           /\ lock = parent[c]
<1> DEFINE p == parent[c]
<1>1. p \in Plan /\ ancestors[c] = ancestors[p] \cup {p} /\ phase[p] = "spawn"
    BY DEF IInv, ParentInv, JoinInv, Unfinished, Child
<1>2. p \notin ancestors[p]
    BY <1>1 DEF IInv, AncestorInv
<1>3. Cardinality(ancestors[c]) <= 1
  <2>1. Cardinality(ancestors[c]) <= MaxNesting
      BY DEF IInv, NestingInv
  <2>2. ancestors[c] \in SUBSET Plan
      BY DEF IInv, TypeOK, Child
  <2>3. Cardinality(ancestors[c]) \in Nat
      BY <2>2, ScriptAssumption, FS_Subset, FS_CardinalityType
  <2>4. QED
      BY <2>1, <2>3, BoundAssumption DEF FlatScripts
<1>4. ancestors[p] = {}
  <2>1. ancestors[p] \in SUBSET Plan
      BY <1>1 DEF IInv, TypeOK
  <2>2. IsFiniteSet(ancestors[p]) /\ Cardinality(ancestors[p]) \in Nat
      BY <2>1, ScriptAssumption, FS_Subset, FS_CardinalityType
  <2>3. Cardinality(ancestors[p] \cup {p}) = Cardinality(ancestors[p]) + 1
      BY <1>2, <2>2, FS_AddElement
  <2>4. Cardinality(ancestors[p]) = 0
      BY <1>1, <1>3, <2>2, <2>3
  <2>5. QED
      BY <2>2, <2>4, FS_EmptySet
<1>5. p \in Trigger
    BY <1>1, <1>4 DEF IInv, ParentInv, Child
<1>6. QED
    BY <1>1, <1>5 DEF IInv, TriggerInv, Active, Spawned, Child

\* The workers of the pool never all wait while plans are queued.
THEOREM NobodyStarves ==
    ASSUME FlatScripts
    PROVE  Spec => []NoStarvation
<1>1. IInv => NoStarvation
  <2> SUFFICES ASSUME IInv, \A w \in Worker : Polling(w)
               PROVE  FALSE
      BY DEF NoStarvation
  <2>1. PICK v, w \in Worker : v # w
      BY DEF FlatScripts
  <2>2. /\ held[v] \in Child /\ phase[held[v]] = "spawn" /\ held[v] # NoPlan
        /\ held[w] \in Child /\ phase[held[w]] = "spawn"
      BY DEF Polling, IInv, HeldInv
  <2>3. held[v] = held[w]
      BY <2>2, FlatSpawn DEF IInv, TriggerInv
  <2>4. QED
      BY <2>1, <2>2, <2>3 DEF IInv, HeldInv
<1>2. QED
    BY <1>1, Invariant, PTL

-----------------------------------------------------------------------------
\* The refinement: every step of the engine is a step of ForkJoin or none.
StatusMap == [p \in Plan |-> Status(p)]

LEMMA StatusCases ==
    ASSUME TypeOK, NEW p \in Plan
    PROVE  /\ Status(p) = "none" <=> phase[p] = "free"
           /\ Status(p) = "pending" <=> phase[p] \in {"new", "queued"}
           /\ Status(p) = "active" <=> phase[p] \in Active
           /\ Status(p) = "ended" <=> phase[p] \in {"returned", "reported", "done"}
           /\ Status(p) \in {"none", "pending", "active", "ended"}
BY DEF TypeOK, Status, Active, Phase

LEMMA AbstractInit == Init => Abstract!Init
BY DEF Init, Abstract!Init, Status

\* Steps that keep every plan within its status are stuttering steps.
LEMMA AbstractStutter ==
    ASSUME TypeOK, TypeOK', UNCHANGED <<result, parent>>,
           \A q \in Plan : Status(q)' = Status(q)
    PROVE  UNCHANGED Abstract!vars
BY DEF Abstract!vars

LEMMA StatusOfStep ==
    ASSUME TypeOK, TypeOK', NEW p \in Plan, NEW new \in Phase,
           \A q \in Plan : phase'[q] = IF q = p THEN new ELSE phase[q]
    PROVE  \A q \in Plan \ {p} : Status(q)' = Status(q)
BY DEF Status

LEMMA AbstractTrigger ==
    ASSUME IInv, TypeOK', NEW r \in Trigger, TriggerTree(r)
    PROVE  Abstract!Begin(r)
<1> USE PlanAssumption
<1>1. \A q \in Plan : phase'[q] = IF q = r THEN "run" ELSE phase[q]
    BY DEF TriggerTree, IInv, TypeOK
<1>2. \A q \in Plan : Status(q)' = IF q = r THEN "active" ELSE Status(q)
  <2>1. phase'[r] = "run" /\ r \in Plan
      BY <1>1
  <2>2. Status(r)' = "active"
      BY <2>1 DEF Status
  <2>3. QED
      BY <1>1, <2>2, StatusOfStep DEF IInv, Phase
<1>3. Status(r) = "none" /\ \A u \in Trigger : Status(u) # "active"
    BY StatusCases DEF TriggerTree, IInv, TriggerInv
<1>4. QED
    BY <1>2, <1>3 DEF Abstract!Begin, TriggerTree

LEMMA AbstractFork ==
    ASSUME IInv, TypeOK', NEW p \in Plan, NEW C, SpawnFrom(p, C)
    PROVE  C \in SUBSET Plan /\ Abstract!Fork(p, C)
<1>1. /\ C \subseteq Plan /\ p \notin C
      /\ \A c \in C : phase[c] = "free" /\ c \notin Trigger
    BY DEF SpawnFrom, Fresh, Child
<1>2. /\ \A q \in Plan : phase'[q] = IF q = p THEN "spawn"
                                     ELSE IF q \in C THEN "new" ELSE phase[q]
      /\ parent' = [q \in Plan |-> IF q \in C THEN p ELSE parent[q]]
      /\ result' = result
    BY DEF SpawnFrom, Spawn
<1>3. phase[p] = "run"
    BY DEF SpawnFrom
<1>4. \A q \in Plan : Status(q)' = IF q \in C THEN "pending" ELSE Status(q)
  <2>1. ASSUME NEW q \in C PROVE Status(q)' = "pending"
    <3>1. phase'[q] = "new"
        BY <1>1, <1>2
    <3>2. QED
        BY <3>1 DEF Status
  <2>2. Status(p)' = "active" /\ Status(p) = "active"
    <3>1. phase'[p] = "spawn"
        BY <1>1, <1>2
    <3>2. QED
        BY <1>3, <3>1 DEF Status
  <2>3. ASSUME NEW q \in Plan, q \notin C, q # p PROVE Status(q)' = Status(q)
    <3>1. phase'[q] = phase[q]
        BY <1>2, <2>3
    <3>2. QED
        BY <3>1 DEF Status
  <2>4. QED
      BY <1>1, <2>1, <2>2, <2>3
<1>5. Status(p) = "active" /\ \A c \in C : Status(c) = "none"
    BY <1>1, <1>3 DEF Status
<1>6. Spawned(p) = {}
    BY DEF SpawnFrom, IInv, ForkInv
<1>7. Abstract!Joined(p)
    BY <1>6 DEF Abstract!Joined, Abstract!Subtasks, Spawned
<1>8. QED
    BY <1>1, <1>2, <1>4, <1>5, <1>7 DEF Abstract!Fork

LEMMA AbstractEnd ==
    ASSUME IInv, TypeOK', NEW p \in Plan, NEW o \in {"ok", "failed"},
           NEW new \in Phase,
           phase[p] = "run", o = "ok" => success[p],
           new \in {"returned", "done"},
           \A q \in Plan : phase'[q] = IF q = p THEN new ELSE phase[q],
           result' = [result EXCEPT ![p] = o],
           parent' = parent
    PROVE  Abstract!End(p, o)
<1>1. \A q \in Plan : Status(q)' = IF q = p THEN "ended" ELSE Status(q)
  <2>1. phase'[p] = new
      OBVIOUS
  <2>2. Status(p)' = "ended"
      BY <2>1 DEF Status
  <2>3. QED
      BY <2>2, StatusOfStep DEF IInv
<1>2. Status(p) = "active"
    BY DEF Status
<1>3. \A c \in Spawned(p) : c \in Plan /\ phase[c] = "done"
    BY SpawnedDone DEF Spawned
<1>4. \A c \in Spawned(p) : c \in Plan /\ Status(c) = "ended"
    BY <1>3 DEF Status
<1>5. \A c \in Spawned(p) : o = "ok" => result[c] = "ok"
    BY <1>3, SpawnedFacts, DescendantsOk DEF Descendants
<1>6. Abstract!Subtasks(p) = Spawned(p)
    BY DEF Abstract!Subtasks, Spawned
<1>7. Abstract!Joined(p)
    BY <1>4, <1>6 DEF Abstract!Joined
<1>8. QED
    BY <1>1, <1>2, <1>5, <1>6, <1>7 DEF Abstract!End, IInv, TypeOK

LEMMA AbstractStart ==
    ASSUME IInv, TypeOK', NEW w \in Worker, GetGrowthPlan(w)
    PROVE  Head(queue) \in Plan /\ Abstract!Start(Head(queue))
<1>1. Head(queue) = queue[1] /\ 1 \in DOMAIN queue
    BY DEF GetGrowthPlan, IInv, TypeOK
<1>2. PICK c \in Plan : c = Head(queue) /\ phase[c] = "queued" /\ success[c]
    BY <1>1, QueueFacts DEF IInv, ResultInv
<1>3. \A q \in Plan : phase'[q] = IF q = c THEN "run" ELSE phase[q]
    BY <1>2 DEF GetGrowthPlan, IInv, TypeOK
<1>4. result' = result /\ parent' = parent
    BY <1>2 DEF GetGrowthPlan, IInv, TypeOK
<1>5. \A q \in Plan : Status(q)' = IF q = c THEN "active" ELSE Status(q)
  <2>1. phase'[c] = "run"
      BY <1>3
  <2>2. Status(c)' = "active"
      BY <2>1 DEF Status
  <2>3. QED
      BY <1>3, <2>2, StatusOfStep DEF IInv, Phase
<1>6. Status(c) = "pending"
    BY <1>2 DEF Status
<1>7. Abstract!Start(c)
    BY <1>4, <1>5, <1>6 DEF Abstract!Start
<1>8. QED
    BY <1>2, <1>7

LEMMA AbstractStep == IInv /\ [Next]_vars => [Abstract!Next]_(Abstract!vars)
<1> SUFFICES ASSUME IInv, [Next]_vars
             PROVE  Abstract!Next \/ UNCHANGED Abstract!vars
    OBVIOUS
<1> USE PlanAssumption
<1>1. TypeOK /\ TypeOK'
    BY TypeStep DEF IInv
<1>2. ASSUME NEW r \in Trigger, CallerStep(r) PROVE Abstract!Next
  <2>1. CASE TriggerTree(r)
      BY <1>1, <2>1, AbstractTrigger DEF Abstract!Next
  <2>2. CASE RunProcess(r)
      BY <1>1, <2>2, RunProcessSpawns, AbstractFork DEF Abstract!Next
  <2>3. ASSUME NEW o \in {"ok", "failed"}, ReturnTrigger(r, o)
        PROVE  Abstract!Next
    <3>1. /\ \A q \in Plan : phase'[q] = IF q = r THEN "done" ELSE phase[q]
          /\ phase[r] = "run" /\ (o = "ok" => success[r])
          /\ result' = [result EXCEPT ![r] = o] /\ parent' = parent
          /\ r \in Plan /\ "done" \in Phase
        BY <1>1, <2>3 DEF ReturnTrigger, TypeOK, Phase
    <3>2. Abstract!End(r, o)
        BY <1>1, <3>1, AbstractEnd
    <3>3. QED
        BY <3>1, <3>2 DEF Abstract!Next
  <2>4. QED
      BY <1>2, <2>1, <2>2, <2>3 DEF CallerStep
<1>3. ASSUME NEW w \in Worker, WorkerStep(w)
      PROVE  Abstract!Next \/ UNCHANGED Abstract!vars
  <2>1. CASE GetGrowthPlan(w)
      BY <1>1, <2>1, AbstractStart DEF Abstract!Next
  <2>2. ASSUME NEW o \in {"ok", "failed"}, ProcessSakuraItem(w, o)
        PROVE  Abstract!Next
    <3>1. PICK p \in Plan : p = held[w]
        BY <2>2 DEF IInv, HeldInv, ProcessSakuraItem, Child
    <3>2. /\ \A q \in Plan : phase'[q] = IF q = p THEN "returned" ELSE phase[q]
          /\ phase[p] = "run" /\ (o = "ok" => success[p])
          /\ result' = [result EXCEPT ![p] = o] /\ parent' = parent
          /\ "returned" \in Phase
        BY <1>1, <2>2, <3>1 DEF ProcessSakuraItem, TypeOK, Phase
    <3>3. Abstract!End(p, o)
        BY <1>1, <3>2, AbstractEnd
    <3>4. QED
        BY <3>3 DEF Abstract!Next
  <2>3. CASE Report(w) \/ IncreaseCounter(w)
    <3>1. PICK p \in Plan : p = held[w]
        BY <2>3 DEF IInv, HeldInv, Report, IncreaseCounter, Child
    <3>2. PICK new \in {"reported", "done"} :
              \A q \in Plan : phase'[q] = IF q = p THEN new ELSE phase[q]
        BY <1>1, <2>3, <3>1 DEF Report, IncreaseCounter, TypeOK
    <3>3. phase[p] \in {"returned", "reported"}
        BY <2>3, <3>1 DEF Report, IncreaseCounter
    <3>4. \A q \in Plan : Status(q)' = Status(q)
        BY <3>2, <3>3 DEF Status
    <3>5. UNCHANGED <<result, parent>>
        BY <2>3 DEF Report, IncreaseCounter
    <3>6. QED
        BY <1>1, <3>4, <3>5, AbstractStutter
  <2>4. QED
      BY <1>3, <2>1, <2>2, <2>3 DEF WorkerStep
<1>4. ASSUME NEW p \in Child, ForkStep(p) PROVE Abstract!Next
  <2>1. PICK C : SpawnFrom(p, C)
      BY <1>4, PartSpawns, LoopSpawns DEF ForkStep
  <2>2. p \in Plan
      BY DEF Child
  <2>3. QED
      BY <1>1, <2>1, <2>2, AbstractFork DEF Abstract!Next
<1>5. ASSUME NEW p \in Plan, JoinStep(p) PROVE UNCHANGED Abstract!vars
  <2>1. PICK new \in {"queued", "collect", "run"} :
            \A q \in Plan : phase'[q] = IF q = p THEN new ELSE phase[q]
      BY <1>1, <1>5
         DEF JoinStep, AddGrowthPlan, WaitUntilFinish, ClearChilds, TypeOK
  <2>2. \/ phase[p] = "new" /\ phase'[p] = "queued"
        \/ phase[p] = "spawn" /\ phase'[p] = "collect"
        \/ phase[p] = "collect" /\ phase'[p] = "run"
      BY <1>1, <1>5
         DEF JoinStep, AddGrowthPlan, WaitUntilFinish, ClearChilds, TypeOK
  <2>3. \A q \in Plan : Status(q)' = Status(q)
      BY <2>1, <2>2 DEF Status
  <2>4. UNCHANGED <<result, parent>>
      BY <1>5 DEF JoinStep, AddGrowthPlan, WaitUntilFinish, ClearChilds
  <2>5. QED
      BY <1>1, <2>3, <2>4, AbstractStutter
<1>6. CASE UNCHANGED vars
  <2>1. UNCHANGED <<phase, result, parent>>
      BY <1>6 DEF vars, planVars
  <2>2. \A q \in Plan : Status(q)' = Status(q)
      BY <2>1 DEF Status
  <2>3. QED
      BY <1>1, <2>1, <2>2, AbstractStutter
<1>7. QED
    BY <1>2, <1>3, <1>4, <1>5, <1>6 DEF Next, Idle

\* Callers, queue, workers, counters and flags together are structured
\* concurrency: a plan goes on and ends only after all it has spawned, and ends
\* well only if all of that did; triggered trees never overlap.
THEOREM EngineImplementsForkJoin == Spec => ImplementsForkJoin
BY AbstractInit, AbstractStep, Invariant, PTL
   DEF Spec, ImplementsForkJoin, Abstract!Spec
=============================================================================
