\* Two parallel branches that write different items.
CONSTANTS
    Item <- MCItem
    Code <- MCCode
    Home <- MCHome
    Tree <- MCTree
    Resource <- MCResource
    Grow <- MCGrow
    Text <- MCText
    Rank <- MCRank
    Calls <- MCCallsTwice
    Word = 65536
    CounterRange = 256
    NumberOfThreads = 4
    Convert <- MCConvert
    Meaning <- MCMeaning
    GroupMeaning <- MCGroupMeaning
    LoopMeaning <- MCLoopMeaning
SPECIFICATION Spec
PROPERTY BranchWritesSurvive
