SPECIFICATION ServicesSpec
CONSTANTS
    Parts = {"media"}
    e1 = e1  e2 = e2  f1 = f1  f2 = f2
    Events = {e1, e2}
    FilesOf <- MCFilesOf
    Stored = {o1}
    Fresh = {o2}
    External = {o3}
    Captioned = {f1}
    Window = 6
    MaxAgain = 1
    MaxFaults = 0
    MaxTools = 0
    NoEvent = NoEvent
    google = google  airtable = airtable
    drive = drive  base1 = base1  base2 = base2
    Accounts = {google, airtable}
    Users = {agent, renewer}
    Renewer = renewer
    Rotating = {google, airtable}
    TokenLife = 1
    MaxTime = 3
    MaxFailures = 1
    NoAccount = NoAccount
    Watches = {drive, base1, base2}
    AccountOf <- MCAccountOf
    Airtable = {airtable}
    Reissued = {drive}
    Initial = {drive, base1}
    Threshold = 1
    Ttl = 2
    NoWatch = NoWatch
    w1 = w1  w2 = w2  t1 = t1  t2 = t2  i1 = i1  s1 = s1  s2 = s2
    d1 = d1  p1 = p1  p2 = p2  h1 = h1
    ann = ann  bob = bob  cyd = cyd  eve = eve  zed = zed
    u1 = u1  u2 = u2  g1 = g1  g2 = g2  g3 = g3  direct = direct
    Hooks = {w1, w2, t1, t2, i1, s1, s2, d1, p1, p2, h1}
    MessagesOf <- MCMessagesOf
    ServiceOf <- MCServiceOf
    KindOf <- MCKindOf
    SenderOf <- MCSenderOf
    ChatOf <- MCChatOf
    UserOf <- MCUserOf
    Groups = {g1, g2, g3}
    Members = {ann}
    MaxMisses = 1
    NoSender = NoSender
    Sources = {"telegram", "whatsapp", "slack", "discord", "websocket", "email",
               "mcp", "scheduled"}
    Origins = {"telegram"}
    Replies <- MCReplies
    MaxSends = 2
    MaxErrors = 1
    MaxLength = 20
    Limit = 20
    TagWidth = 2
    Words = {1, 6, 15}
    TagNames = {"b", "pre", "a"}
    MaxPieces = 6
    MaxChunks = 4
    m1 = m1  m2 = m2  m3 = m3  k1 = k1  k2 = k2
    Requests = {m1, m2, m3}
    Bulk = {m2}
    TokenOf <- MCTokenOf
    BatchSize = 2
    Attempts = 2
    Turns <- MCTurns
    MaxTries = 2
    MaxItems = 2
INVARIANT RepeatedMediaLoads
CHECK_DEADLOCK FALSE
