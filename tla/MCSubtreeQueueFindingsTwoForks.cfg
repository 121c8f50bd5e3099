\* A plan with two parallel parts, one after the other.
CONSTANTS
    Plan = {r1, p1, p2, p3, p4, p5}
    Trigger = {r1}
    Worker = {w1, w2}
    NoPlan = NoPlan
    CounterRange = 9
    MaxForks = 2
    MaxNesting = 1
    ParallelSizes = {2}
    LoopRanges = {}
SPECIFICATION Spec
INVARIANT JoinComplete
