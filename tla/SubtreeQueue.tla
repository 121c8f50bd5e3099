---------------------------- MODULE SubtreeQueue ----------------------------
(***************************************************************************)
(* The processing engine: callers of triggerTree, the queue of growth      *)
(* plans, the pool of worker threads, and the counters and flags through   *)
(* which a plan learns what became of the plans it spawned.                *)
(*                                                                         *)
(* A plan (class GrowthPlan) is one unit of execution.  triggerTree keeps  *)
(* one on its stack and spawns the tree as a single child plan; a plan     *)
(* that meets a parallel part or a parallel loop spawns one child plan per *)
(* branch or iteration, appends them to the queue and polls a counter      *)
(* until the workers have finished them all.  What a script computes is    *)
(* left to other modules: here an item may do any number of forks within   *)
(* the bounds below and may succeed or fail.                               *)
(***************************************************************************)
EXTENDS Integers, Sequences, FiniteSets

CONSTANTS
    Plan,           \* growth plans (plans are not reused after deletion)
    Trigger,        \* the plans on the stack of the triggerTree calls
    Worker,         \* the threads of the pool
    NoPlan,         \* nullptr
    CounterRange,   \* 2^32 in the code: the counters are uint32_t
    MaxForks,       \* bound: parallel parts and loops one plan executes
    MaxNesting,     \* bound: levels of plans below the caller that fork
    ParallelSizes,  \* bound: numbers of branches of a parallel part
    LoopRanges      \* bound: <<startPos, endPos>> (uint64_t) of parallel loops

ASSUME PlanAssumption == Trigger \subseteq Plan /\ NoPlan \notin Plan
ASSUME BoundAssumption ==
    /\ CounterRange \in Nat \ {0}
    /\ MaxForks \in Nat
    /\ MaxNesting \in Nat
    /\ ParallelSizes \subseteq Nat
    /\ LoopRanges \subseteq Nat \X Nat

VARIABLES
    lock,           \* who holds SakuraLangInterface::m_lock
    queue,          \* SubtreeQueue::m_queue
    held,           \* held[w]: the plan worker w processes
    phase,          \* phase[p]: how far the thread that owns p has come
    result,         \* result[p]: what processing p returned
    alive,          \* the plans that are allocated
    parent,         \* GrowthPlan::parentPlan
    ancestors,      \* the plans on the parentPlan chain of a plan
    shouldCount,    \* GrowthPlan::activeCounter.shouldCount
    isCounter,      \* GrowthPlan::activeCounter.isCounter
    success,        \* GrowthPlan::success
    looping,        \* the current spawn of a plan is a loop's
    forks           \* spawns a plan has executed

sharedVars == <<lock, queue, held, alive>>
planVars == <<phase, result, parent, ancestors, shouldCount, isCounter,
              success, looping, forks>>
vars == <<sharedVars, planVars>>

Phase == {"free", "new", "queued", "run", "spawn", "collect", "returned",
          "reported", "done"}
Result == {"none", "ok", "failed"}

Child == Plan \ Trigger

\* Ids for plans that have not been created yet.
Fresh == {c \in Child : phase[c] = "free"}

\* The plans p has spawned or is about to create.
Spawned(p) == {c \in Plan : parent[c] = p}

Descendants(p) == {d \in Plan : p \in ancestors[d]}

TypeOK ==
    /\ lock \in Trigger \cup {NoPlan}
    /\ queue \in Seq(Plan)
    /\ held \in [Worker -> Plan \cup {NoPlan}]
    /\ phase \in [Plan -> Phase]
    /\ result \in [Plan -> Result]
    /\ alive \subseteq Plan
    /\ parent \in [Plan -> Plan \cup {NoPlan}]
    /\ ancestors \in [Plan -> SUBSET Plan]
    /\ shouldCount \in [Plan -> 0 .. CounterRange - 1]
    /\ isCounter \in [Plan -> 0 .. CounterRange - 1]
    /\ success \in [Plan -> BOOLEAN]
    /\ looping \in [Plan -> BOOLEAN]
    /\ forks \in [Plan -> Nat]

-----------------------------------------------------------------------------
\* All calls of triggerTree have been made and wait for m_lock; no plan exists.
Init ==
    /\ lock = NoPlan
    /\ queue = <<>>
    /\ held = [w \in Worker |-> NoPlan]
    /\ phase = [p \in Plan |-> "free"]
    /\ result = [p \in Plan |-> "none"]
    /\ alive = {}
    /\ parent = [p \in Plan |-> NoPlan]
    /\ ancestors = [p \in Plan |-> {}]
    /\ shouldCount = [p \in Plan |-> 0]
    /\ isCounter = [p \in Plan |-> 0]
    /\ success = [p \in Plan |-> TRUE]
    /\ looping = [p \in Plan |-> FALSE]
    /\ forks = [p \in Plan |-> 0]

\* Mutant of TriggerTree: m_lock is not taken.
TriggerTreeUnlocked(r) ==
    /\ phase[r] = "free"
    /\ lock' = r
    /\ phase' = [phase EXCEPT ![r] = "run"]
    /\ alive' = alive \cup {r}
    /\ UNCHANGED <<queue, held, result, parent, ancestors, shouldCount,
                   isCounter, success, looping, forks>>

\* A caller gets m_lock, finds the tree and sets its plan up on its stack.
TriggerTree(r) ==
    /\ lock = NoPlan
    /\ phase[r] = "free"
    /\ lock' = r
    /\ phase' = [phase EXCEPT ![r] = "run"]
    /\ alive' = alive \cup {r}
    /\ UNCHANGED <<queue, held, result, parent, ancestors, shouldCount,
                   isCounter, success, looping, forks>>

\* Mutant of ReturnTrigger: a failing call does not release m_lock.
ReturnTriggerLocked(r, o) ==
    /\ phase[r] = "run"
    /\ o = "ok" => success[r] /\ forks[r] = 1
    /\ lock' = IF o = "ok" THEN NoPlan ELSE lock
    /\ phase' = [phase EXCEPT ![r] = "done"]
    /\ result' = [result EXCEPT ![r] = o]
    /\ alive' = alive \ ({r} \cup Descendants(r))
    /\ UNCHANGED <<queue, held, parent, ancestors, shouldCount, isCounter,
                   success, looping, forks>>

\* Mutant of ReturnTrigger: an error path returns without freeing the plan.
ReturnTriggerLeaking(r, o) ==
    /\ phase[r] = "run"
    /\ o = "ok" => success[r] /\ forks[r] = 1
    /\ lock' = NoPlan
    /\ phase' = [phase EXCEPT ![r] = "done"]
    /\ result' = [result EXCEPT ![r] = o]
    /\ alive' = IF o = "ok" THEN alive \ ({r} \cup Descendants(r)) ELSE alive
    /\ UNCHANGED <<queue, held, parent, ancestors, shouldCount, isCounter,
                   success, looping, forks>>

\* triggerTree returns: m_lock is released and the plan leaves the stack.  It
\* may fail before it runs the tree (bad input) and after it (bad output).
ReturnTrigger(r, o) ==
    /\ phase[r] = "run"
    /\ o = "ok" => success[r] /\ forks[r] = 1
    /\ lock' = NoPlan
    /\ phase' = [phase EXCEPT ![r] = "done"]
    /\ result' = [result EXCEPT ![r] = o]
    /\ alive' = alive \ ({r} \cup Descendants(r))
    /\ UNCHANGED <<queue, held, parent, ancestors, shouldCount, isCounter,
                   success, looping, forks>>

\* Mutant of Announced: one child too few.
AnnouncedLess(n) == n - 1

\* uint32_t number of children a spawn announces before it creates them.
Announced(n) == n % CounterRange

\* Plan p starts to spawn the plans C after announcing n of them.
Spawn(p, n, C, loop) ==
    /\ phase' = [q \in Plan |-> IF q = p THEN "spawn"
                                ELSE IF q \in C THEN "new" ELSE phase[q]]
    /\ parent' = [q \in Plan |-> IF q \in C THEN p ELSE parent[q]]
    /\ ancestors' = [q \in Plan |-> IF q \in C THEN ancestors[p] \cup {p}
                                    ELSE ancestors[q]]
    /\ shouldCount' = [shouldCount EXCEPT ![p] = Announced(n)]
    /\ looping' = [looping EXCEPT ![p] = loop]
    /\ forks' = [forks EXCEPT ![p] = @ + 1]
    /\ UNCHANGED <<sharedVars, result, isCounter, success>>

\* triggerTree spawns the tree as the only child of its plan.
RunProcess(r) ==
    /\ phase[r] = "run"
    /\ forks[r] = 0
    /\ \E c \in Fresh : Spawn(r, 1, {c}, FALSE)

\* A plan reaches a parallel part or loop; after a failed one nothing more of
\* the plan is executed.
MayFork(p) ==
    /\ phase[p] = "run"
    /\ success[p]
    /\ forks[p] < MaxForks
    /\ Cardinality(ancestors[p]) <= MaxNesting

\* A parallel part with one child plan per branch.
SpawnParallelSubtrees(p) ==
    /\ MayFork(p)
    /\ \E C \in SUBSET Fresh :
        /\ Cardinality(C) \in ParallelSizes
        /\ Spawn(p, Cardinality(C), C, FALSE)

\* A parallel loop: one child plan for every i with startPos <= i < endPos.
SpawnParallelSubtreesLoop(p) ==
    /\ MayFork(p)
    /\ \E range \in LoopRanges, C \in SUBSET Fresh :
        /\ Cardinality(C) = Cardinality(range[1] .. range[2] - 1)
        /\ Spawn(p, range[2] - range[1], C, TRUE)

\* The next child plan is created and pushed to the queue.
AddGrowthPlan(c) ==
    /\ phase[c] = "new"
    /\ phase[parent[c]] = "spawn"
    /\ phase' = [phase EXCEPT ![c] = "queued"]
    /\ alive' = alive \cup {c}
    /\ queue' = Append(queue, c)
    /\ UNCHANGED <<lock, held, result, parent, ancestors, shouldCount,
                   isCounter, success, looping, forks>>

\* The poll of p, which has created all its children, finds the counter equal.
WaitUntilFinish(p) ==
    /\ phase[p] = "spawn"
    /\ \A c \in Spawned(p) : phase[c] # "new"
    /\ isCounter[p] = shouldCount[p]
    /\ phase' = [phase EXCEPT ![p] = "collect"]
    /\ UNCHANGED <<sharedVars, result, parent, ancestors, shouldCount,
                   isCounter, success, looping, forks>>

\* p takes the values or the error of its children over and deletes them.  The
\* post-aggregation of a loop may fail.
ClearChilds(p) ==
    /\ phase[p] = "collect"
    /\ phase' = [phase EXCEPT ![p] = "run"]
    /\ \E aggregated \in BOOLEAN :
        /\ aggregated \/ looping[p]
        /\ success' = [success EXCEPT ![p] = @ /\ aggregated]
    /\ alive' = alive \ Descendants(p)
    /\ UNCHANGED <<lock, queue, held, result, parent, ancestors, shouldCount,
                   isCounter, looping, forks>>

\* Mutant of GetGrowthPlan: front() without pop().
GetGrowthPlanPeek(w) ==
    /\ held[w] = NoPlan
    /\ queue # <<>>
    /\ held' = [held EXCEPT ![w] = Head(queue)]
    /\ phase' = [phase EXCEPT ![Head(queue)] = "run"]
    /\ UNCHANGED <<lock, queue, alive, result, parent, ancestors, shouldCount,
                   isCounter, success, looping, forks>>

\* Worker w takes the oldest plan.  A plan whose flag says that it has failed
\* already is not processed and counts as processed well.
GetGrowthPlan(w) ==
    /\ held[w] = NoPlan
    /\ queue # <<>>
    /\ LET c == Head(queue) IN
        /\ held' = [held EXCEPT ![w] = c]
        /\ phase' = [phase EXCEPT ![c] = IF success[c] THEN "run"
                                         ELSE "returned"]
        /\ result' = [result EXCEPT ![c] = IF success[c] THEN @ ELSE "ok"]
    /\ queue' = Tail(queue)
    /\ UNCHANGED <<lock, alive, parent, ancestors, shouldCount, isCounter,
                   success, looping, forks>>

\* Mutant of ProcessSakuraItem: the result of a spawn is ignored.
ProcessSakuraItemIgnore(w, o) ==
    /\ held[w] # NoPlan
    /\ phase[held[w]] = "run"
    /\ phase' = [phase EXCEPT ![held[w]] = "returned"]
    /\ result' = [result EXCEPT ![held[w]] = o]
    /\ UNCHANGED <<sharedVars, parent, ancestors, shouldCount, isCounter,
                   success, looping, forks>>

\* processSakuraItem returns for the plan of worker w.
ProcessSakuraItem(w, o) ==
    /\ held[w] # NoPlan
    /\ phase[held[w]] = "run"
    /\ o = "ok" => success[held[w]]
    /\ phase' = [phase EXCEPT ![held[w]] = "returned"]
    /\ result' = [result EXCEPT ![held[w]] = o]
    /\ UNCHANGED <<sharedVars, parent, ancestors, shouldCount, isCounter,
                   success, looping, forks>>

\* Mutant of Report: only the plan itself learns that it has failed.
ReportToSelf(w) ==
    /\ held[w] # NoPlan
    /\ phase[held[w]] = "returned"
    /\ phase' = [phase EXCEPT ![held[w]] = "reported"]
    /\ success' = [success EXCEPT ![held[w]] = result[held[w]] = "ok"]
    /\ UNCHANGED <<sharedVars, result, parent, ancestors, shouldCount,
                   isCounter, looping, forks>>

\* The worker writes the flags of the plan and, after a failure, of its parent.
Report(w) ==
    /\ held[w] # NoPlan
    /\ phase[held[w]] = "returned"
    /\ LET c == held[w] IN
        /\ phase' = [phase EXCEPT ![c] = "reported"]
        /\ success' = [p \in Plan |->
                        IF p = c THEN result[c] = "ok"
                        ELSE success[p] /\ (p = parent[c] => result[c] = "ok")]
    /\ UNCHANGED <<sharedVars, result, parent, ancestors, shouldCount,
                   isCounter, looping, forks>>

\* Mutant of IncreaseCounter: a failed plan is not counted.
IncreaseCounterOnSuccess(w) ==
    /\ held[w] # NoPlan
    /\ phase[held[w]] = "reported"
    /\ phase' = [phase EXCEPT ![held[w]] = "done"]
    /\ isCounter' = IF success[held[w]]
                    THEN [isCounter EXCEPT ![parent[held[w]]] = @ + 1]
                    ELSE isCounter
    /\ held' = [held EXCEPT ![w] = NoPlan]
    /\ UNCHANGED <<lock, queue, alive, result, parent, ancestors, shouldCount,
                   success, looping, forks>>

\* Last of all it increases the counter of the parent.
IncreaseCounter(w) ==
    /\ held[w] # NoPlan
    /\ phase[held[w]] = "reported"
    /\ phase' = [phase EXCEPT ![held[w]] = "done"]
    /\ isCounter' = [isCounter EXCEPT ![parent[held[w]]] =
                        (@ + 1) % CounterRange]
    /\ held' = [held EXCEPT ![w] = NoPlan]
    /\ UNCHANGED <<lock, queue, alive, result, parent, ancestors, shouldCount,
                   success, looping, forks>>

\* All calls have returned; idle workers go on polling an empty queue.
Idle ==
    /\ \A r \in Trigger : phase[r] = "done"
    /\ \A w \in Worker : held[w] = NoPlan
    /\ queue = <<>>
    /\ UNCHANGED vars

CallerStep(r) ==
    \/ TriggerTree(r)
    \/ RunProcess(r)
    \/ \E o \in {"ok", "failed"} : ReturnTrigger(r, o)

WorkerStep(w) ==
    \/ GetGrowthPlan(w)
    \/ \E o \in {"ok", "failed"} : ProcessSakuraItem(w, o)
    \/ Report(w)
    \/ IncreaseCounter(w)

ForkStep(p) ==
    \/ SpawnParallelSubtrees(p)
    \/ SpawnParallelSubtreesLoop(p)

JoinStep(p) ==
    \/ AddGrowthPlan(p)
    \/ WaitUntilFinish(p)
    \/ ClearChilds(p)

Next ==
    \/ \E r \in Trigger : CallerStep(r)
    \/ \E w \in Worker : WorkerStep(w)
    \/ \E p \in Child : ForkStep(p)
    \/ \E p \in Plan : JoinStep(p)
    \/ Idle

Spec == Init /\ [][Next]_vars

\* The scheduler runs every thread, m_lock is granted to every waiting caller,
\* and every item a plan executes comes to an end.
Fairness ==
    /\ \A r \in Trigger : WF_vars(CallerStep(r))
    /\ \A w \in Worker : WF_vars(WorkerStep(w))
    /\ \A p \in Plan : WF_vars(JoinStep(p))

FairSpec == Spec /\ Fairness

-----------------------------------------------------------------------------
\* No thread reaches a deleted plan: queued and processed plans are allocated,
\* so are the parents whose flag and counter a worker will write, and no plan
\* is in the hands of two threads.  (Deleting is ~GrowthPlan, recursively.)
NoDanglingPlan ==
    /\ \A i \in DOMAIN queue :
        /\ queue[i] \in alive
        /\ parent[queue[i]] \in alive
        /\ \A j \in DOMAIN queue : queue[i] = queue[j] => i = j
        /\ \A w \in Worker : held[w] # queue[i]
    /\ \A w \in Worker : held[w] # NoPlan =>
        /\ held[w] \in alive
        /\ parent[held[w]] \in alive
        /\ \A v \in Worker : held[v] = held[w] => v = w

\* A plan looks at the results of its children, and deletes them, only when
\* every one of them has finished.  (ActiveCounter: "the source-thread should
\* be able to check, that all its spawn subtree-objects have finished".)
JoinComplete ==
    \A p \in Plan : phase[p] = "collect" =>
        \A c \in Spawned(p) : phase[c] = "done"

\* The wait for the children ends once they have all finished.
WaitEnds ==
    \A p \in Plan :
        (phase[p] = "spawn" /\ \A c \in Spawned(p) : phase[c] = "done")
            => isCounter[p] = shouldCount[p]

\* A failure anywhere in a script reaches everything above it: what returns
\* true has nothing below it that failed or was not run.
FailureReachesCaller ==
    \A p \in Plan : result[p] = "ok" =>
        \A d \in Descendants(p) : result[d] = "ok"

\* When triggerTree has returned, no plan of it is queued, processed or leaked.
TriggerLeavesNothing ==
    \A r \in Trigger : phase[r] = "done" =>
        /\ alive \cap ({r} \cup Descendants(r)) = {}
        /\ \A d \in Descendants(r) : phase[d] = "done"

Polling(w) ==
    /\ held[w] # NoPlan
    /\ phase[held[w]] = "spawn"
    /\ isCounter[held[w]] # shouldCount[held[w]]

\* While plans are queued, not all workers are in the polling loop of
\* waitUntilFinish: nobody would be left to run the plans they wait for.
NoStarvation == queue # <<>> => \E w \in Worker : ~Polling(w)

\* Every call of triggerTree returns.
EveryTriggerReturns == \A r \in Trigger : <>(phase[r] = "done")

-----------------------------------------------------------------------------
\* The engine implements structured concurrency.
Status(p) ==
    CASE phase[p] = "free" -> "none"
      [] phase[p] \in {"new", "queued"} -> "pending"
      [] phase[p] \in {"run", "spawn", "collect"} -> "active"
      [] phase[p] \in {"returned", "reported", "done"} -> "ended"

Abstract == INSTANCE ForkJoin WITH
    Task <- Plan, Top <- Trigger, NoTask <- NoPlan,
    status <- [p \in Plan |-> Status(p)],
    outcome <- result,
    parent <- parent

\* Every step of callers and workers is a step of module ForkJoin, or none.
ImplementsForkJoin == Abstract!Spec
=============================================================================
