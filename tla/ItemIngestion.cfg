SPECIFICATION FairSpec
CONSTANTS
    t1 = t1  t2 = t2  o1 = o1  o2 = o2
    Services = {"gmail", "google_calendar", "google_drive", "dropbox", "onedrive", "airtable", "outlook", "microsoft_calendar", "trello", "notion", "hubspot"}
    Tasks = {t1, t2}
    MaxChanges = 2
    PageSize = 1
    MaxDeliveries = 2
    MaxFaults = 1
    Objects = {o1, o2}
    ObjectMaps <- MCObjectMaps
    Shared = {o1}
    None = None
CHECK_DEADLOCK FALSE
INVARIANTS BehindTheCheckpoint EvaluatedAgainWithReason
PROPERTIES ChangesAreSettled
