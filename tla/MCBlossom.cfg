\* Every constructor of up to four calls, and every call of the blossom.
CONSTANTS
    Rank <- MCRank
    Convert <- MCConvert
    Text <- MCText
    RegexMatch <- MCRegexMatch
    Name = {"x", "y"}
    FieldType = {"int", "str"}
    Defaults <- MCDefaults
    Matches <- MCMatches
    Regexes = {"2"}
    Borders <- MCBorders
    MaxDefinitions = 4
    Inputs <- MCInputs
    ItemMapsOfScripts <- MCItemMapsOfScripts
    Outcome <- MCOutcome
SPECIFICATION Spec
INVARIANTS
    TypeOK
    TaskInputIsValid
    CallerValuesReachTask
    ResultIsDeclared
    StatusTellsWhy
    CompleteItemsAreAccepted
PROPERTY DefinitionsStay
