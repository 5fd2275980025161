SPECIFICATION FairSpec
CONSTANTS
    daily = daily  once = once  w1 = w1  w2 = w2
    Tasks = {daily}
    Recurring = {daily}
    Workers = {w1, w2}
    Period = 2
    Delay = 1
    MaxSkew = 1
    Horizon = 4
    StartTime = 2
    StartOf <- MCStart
    MaxFaults = 1
    MaxEdits = 2
    None = None
CHECK_DEADLOCK FALSE
PROPERTIES CreatedRuns
INVARIANTS ChainIsWhole NextRunIsQueued SlotRunOnce CancelStopsAllButInFlight
