\* Two replicas that detect the same incident while a request acknowledges or
\* resolves one; every fault, and a cache that refuses what it is given, as built.
SPECIFICATION Spec
CONSTANTS
    k1 = k1  k2 = k2
    Replicas = {p1, p2}
    Keys = {k1}
    Detections <- One
    Clients = {a}
    MaxRows = 2
    UseEnumValues = FALSE
    CacheSerialises = FALSE
    Faults = {"redis", "database", "crash"}
    NoRow = NoRow
INVARIANTS TypeOK OneOpenPerReplica
PROPERTIES RefinesContract
