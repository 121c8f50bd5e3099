SPECIFICATION ScriptSpec
CONSTANTS
    x = x
    y = y
    Name = {x, y}
    Literal <- MCLiteral
    Arguments <- MCArguments
    MaxLines = 5
    Fields = {x}
    Required = {}
    Data <- MCData
INVARIANT
    GroupItemsFillGaps
CHECK_DEADLOCK FALSE
