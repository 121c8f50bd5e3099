\* Every interleaving of the branches and iterations of three trees.
CONSTANTS
    Item <- MCItem
    Code <- MCCode
    Home <- MCHome
    Tree <- MCTree
    Resource <- MCResource
    Grow <- MCGrow
    Text <- MCText
    Rank <- MCRank
    Calls <- MCCalls
    Word = 65536
    CounterRange = 256
    NumberOfThreads = 4
    Convert <- MCConvert
    Meaning <- MCMeaning
    GroupMeaning <- MCGroupMeaning
    LoopMeaning <- MCLoopMeaning
SPECIFICATION FairSpec
INVARIANTS
    RunsAsWritten
    RelativeToOwnFile
    NoNameLeaks
PROPERTY TriggerReturns
\* A plan that forks a second time may wait for ever, and so does a parallel
\* loop whose end is before its start.
CHECK_DEADLOCK FALSE
