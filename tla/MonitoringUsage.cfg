\* The health and detection jobs on one workload, nothing fails or changes.
SPECIFICATION LiveSpec
CONSTANTS
    Listing <- One
    Contains <- NameContained
    States <- RuleStates
    Gone = Gone
    RestartThreshold = 5
    ReplicaShortageThreshold = 1
    CpuThreshold = 80
    MemoryThreshold = 85
    Callers <- HealthAndDetection
    Kind <- KindIsName
    Asked <- NoneAsked
    Known <- NoneKnown
    MaxRows = 2
    MaxChanges = 0
    MaxFaults = 0
    UseEnumValues = FALSE
    CacheSerialises = TRUE
    Wedged <- NothingWedged
    Nothing = Nothing
PROPERTIES HighUsageIsReported
