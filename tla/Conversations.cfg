SPECIFICATION MCSpec
CONSTANTS
    whatsapp = whatsapp  w1 = w1  w2 = w2  h1 = h1  h2 = h2
    Platforms = {whatsapp}
    Web = websocket
    Handlers = {h1, h2}
    Consolidators = {w1, w2}
    MaxConvs = 3
    MaxMsgs = 2
    WithDoc <- OnlyFirstDoc
    ConvLimit = 1
    MsgLimit = 2
    MaxFaults = 1
    None = None
CHECK_DEADLOCK FALSE
PROPERTIES ReadyIsConsolidated
INVARIANTS ConsolidatedWasSent SentOnceUnlessOverlapped ActiveConversationsExplained
