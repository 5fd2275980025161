SPECIFICATION Spec
CONSTANTS
    t1 = t1  t2 = t2  o1 = o1  o2 = o2
    Services = {"google_drive"}
    Tasks = {t1}
    MaxChanges = 2
    PageSize = 1
    MaxDeliveries = 1
    MaxFaults = 0
    Objects = {o1, o2}
    ObjectMaps <- MCObjectMaps
    Shared = {o2}
    None = None
CHECK_DEADLOCK FALSE
INVARIANTS PassedOverIsProcessed
