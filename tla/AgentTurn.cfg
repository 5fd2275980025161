SPECIFICATION FairSpec
CONSTANTS
    Answers <- AllAnswers
    Requests <- CommandOrQuestion
    MaxToolIters = 1
    RecursionLimit = 8
    Window = 4
    MaxTurns = 2
    MaxCalls = 2
    MaxFaults = 1
    NoCall = NoCall
INVARIANTS
    HistoryIsValid SilenceIsExplained AnsweredOneWay ResumesWithAllResults
PROPERTIES TurnEnds
CHECK_DEADLOCK FALSE
