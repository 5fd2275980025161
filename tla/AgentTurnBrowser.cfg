SPECIFICATION Spec
CONSTANTS
    Answers <- AllAnswers
    Requests <- CommandOrQuestion
    MaxToolIters = 1
    RecursionLimit = 8
    Window = 4
    MaxTurns = 2
    MaxCalls = 2
    MaxFaults = 0
    NoCall = NoCall
INVARIANTS
    ResultsAreAnnounced
CHECK_DEADLOCK FALSE
