\* Two callers and every method, calls that fail under the lock included.
CONSTANTS
    Rank <- MCRank
    Convert <- MCConvert
    Text <- MCText
    RegexMatch <- MCRegexMatch
    Caller = {c1, c2}
    NoCaller = NoCaller
    Call <- MCCall
    MaxCalls = 4
    Fields <- MCFields
    Parsed <- MCParsed
    Unreadable = "unreadable"
    Directory <- MCDirectory
SPECIFICATION FairSpec
CHECK_DEADLOCK FALSE
INVARIANTS
    TypeOK
    SuccessMeansMine
    NoUnknownBlossom
    TasksAreFed
PROPERTIES
    FirstStays
    EveryCallReturns
