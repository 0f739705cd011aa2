\* Two requests on one incident, every fault; fair event loop and expiry.
SPECIFICATION LiveSpec
CONSTANTS
    k1 = k1  k2 = k2
    Replicas = {p1}
    Keys = {k1}
    Detections <- One
    Clients = {a, b}
    MaxRows = 1
    UseEnumValues = FALSE
    CacheSerialises = TRUE
    Faults = {"redis", "database", "crash"}
    NoRow = NoRow
INVARIANTS StatusIsDated AnsweredIsStored CacheIsPast
PROPERTIES NothingIsUndone RefinesContract CacheCatchesUp
