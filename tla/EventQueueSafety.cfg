SPECIFICATION Spec
CONSTANTS
    e1 = e1  e2 = e2  e3 = e3  e4 = e4
    chat = chat  mail = mail
    w1 = w1  w2 = w2
    NoWorker = NoWorker  NoSession = NoSession
    Events = {e1, e2, e3, e4}
    Sessions = {chat, mail}
    Workers = {w1, w2}
    ChatSessions = {chat}
    Forwarded = {e1, e2}
    MaxBatch = 2
    MaxErrors = 1  MaxExpiries = 1  MaxCrashes = 1
    SessionOf <- MCSessionOf
    Limit <- MCLimit
SYMMETRY Alike
INVARIANTS
    OnlyACrashLosesEvents
    SessionsAreSerial
    FirstHandledInOrder
    AtMostOnceUnlessNacked
PROPERTIES
    ImplementsDelivery
CHECK_DEADLOCK FALSE
