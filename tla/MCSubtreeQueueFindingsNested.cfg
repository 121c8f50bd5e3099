\* Parallel parts within parallel parts, on the default pool.
CONSTANTS
    Plan = {r1, p1, p2, p3, p4, p5, p6}
    Trigger = {r1}
    Worker = {w1, w2}
    NoPlan = NoPlan
    CounterRange = 9
    MaxForks = 1
    MaxNesting = 2
    ParallelSizes = {2}
    LoopRanges = {}
SPECIFICATION Spec
INVARIANT NoStarvation
