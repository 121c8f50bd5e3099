\* Three functions on seven values.
CONSTANTS
    Text <- MCText
    ValueSize = 0
    Split <- MCSplit
    Parse <- MCParse
    LineBreak <- MCLineBreak
    EscapedLineBreak <- MCEscapedLineBreak
    IndexRange = 16
    Start <- MCStart
    Argument <- MCArgument
    Datum <- MCDatum
    MaxFunctions = 3
SPECIFICATION Spec
CHECK_DEADLOCK FALSE
INVARIANTS
    TypeOK
    ContainsAgreesWithGet
    AdditionsAreFound
    ClearedIsFiltered
