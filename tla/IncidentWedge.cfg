\* Two replicas detect two incidents again and again, nothing fails.
SPECIFICATION LiveSpec
CONSTANTS
    k1 = k1  k2 = k2
    Replicas = {p1, p2}
    Keys = {k1, k2}
    Detections <- Growing
    Clients = {}
    MaxRows = 4
    UseEnumValues = FALSE
    CacheSerialises = TRUE
    Faults = {}
    NoRow = NoRow
PROPERTIES DetectedIsReported
