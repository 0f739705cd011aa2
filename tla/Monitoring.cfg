\* The detection job on two workloads and requests for the first, on different replicas; an
\* incident of the first has two OPEN rows; every fault once.
SPECIFICATION LiveSpec
CONSTANTS
    Listing <- Two
    Contains <- NameContained
    States <- JobStates
    Gone = Gone
    RestartThreshold = 5
    ReplicaShortageThreshold = 1
    CpuThreshold = 80
    MemoryThreshold = 85
    Callers <- DetectionAndGet
    Kind <- KindIsName
    Asked <- OneAsked
    Known <- NoneKnown
    MaxRows = 2
    MaxChanges = 1
    MaxFaults = 1
    UseEnumValues = FALSE
    CacheSerialises = TRUE
    Wedged <- ShortageWedged
    Nothing = Nothing
INVARIANTS CrashLoopHasCause
PROPERTIES CallersRunOut LastingIsReported CachesCatchUp
