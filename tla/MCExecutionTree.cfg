SPECIFICATION Spec
CONSTANTS
    Item <- MCItem
    Kind <- MCKind
    Parts <- MCParts
    End <- MCEnd
    Target <- MCTarget
    Text <- MCText
    CounterRange = 16
    MaxIterations = 2
    MaxCalls = 4
INVARIANTS
    NothingDangles
    OneOwner
    ExecutedAsWritten
PROPERTIES
    SourcesStay
    LosesOnlyOnFailure
CHECK_DEADLOCK FALSE
