SPECIFICATION FairGateSpec
CONSTANTS
    e1 = e1  e2 = e2  e3 = e3  u1 = u1
    chat = chat  timer = timer
    NoWorker = NoWorker  NoSession = NoSession
    Events = {e1, e3}
    Sessions = {chat, timer}
    Workers = {w1}
    Users = {u1}
    Suspended0 = {u1}
    ChatSessions = {chat}
    Forwarded = {e1}
    Timed = {e3}
    MaxBatch = 2
    MaxFlips = 2
    MaxFailures = 1
    SessionOf <- MCSessionOf
    UserOf <- MCUserOf
    Limit <- MCLimit
CHECK_DEADLOCK FALSE
INVARIANTS PublishedIsInOnePlace
PROPERTIES EventuallyHandled ReprocessEnds ReprocessForwardsAvailable
