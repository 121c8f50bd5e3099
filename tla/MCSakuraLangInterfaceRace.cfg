\* Two callers register a blossom under the same name.
CONSTANTS
    Rank <- MCRank
    Convert <- MCConvert
    Text <- MCText
    RegexMatch <- MCRegexMatch
    Caller = {c1, c2}
    NoCaller = NoCaller
    Call <- MCRegistrations
    MaxCalls = 2
    Fields <- MCFields
    Parsed <- MCParsed
    Unreadable = "unreadable"
    Directory <- MCDirectory
SPECIFICATION Spec
CHECK_DEADLOCK FALSE
INVARIANT BlossomIsMine
