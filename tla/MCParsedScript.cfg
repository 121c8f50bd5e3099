SPECIFICATION ScriptSpec
CONSTANTS
    x = x
    y = y
    Name = {x, y}
    Literal <- MCLiteral
    Arguments <- MCArguments
    MaxLines = 5
    Fields = {x}
    Required = {x}
    Data <- MCData
INVARIANTS
    ScriptTypeOK
    IdentifiersAreDeclared
    EveryItemIsKept
    InputIsAsWritten
    AcceptedIsFed
CHECK_DEADLOCK FALSE
