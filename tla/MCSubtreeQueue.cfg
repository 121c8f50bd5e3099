\* Two callers, two workers (the default pool), one fork per plan, no nested
\* parallel parts.  Without symmetry, so that liveness can be checked.
CONSTANTS
    Plan = {r1, r2, p1, p2, p3, p4}
    Trigger = {r1, r2}
    Worker = {w1, w2}
    NoPlan = NoPlan
    CounterRange = 9
    MaxForks = 1
    MaxNesting = 1
    ParallelSizes = {0, 1, 2, 3}
    LoopRanges <- MCLoopRanges
SPECIFICATION FairSpec
INVARIANTS
    TypeOK
    NoDanglingPlan
    JoinComplete
    WaitEnds
    FailureReachesCaller
    TriggerLeavesNothing
    NoStarvation
PROPERTIES
    EveryTriggerReturns
    ImplementsForkJoin
