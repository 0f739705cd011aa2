\* The discovery and health jobs and requests for the list, with enum fields that are enums, so
\* that the health job gets through a cached list; the one workload has a row.
SPECIFICATION LiveSpec
CONSTANTS
    Listing <- One
    Contains <- NameContained
    States <- JobStates
    Gone = Gone
    RestartThreshold = 5
    ReplicaShortageThreshold = 1
    CpuThreshold = 80
    MemoryThreshold = 85
    Callers <- DiscoveryHealthAndList
    Kind <- KindIsName
    Asked <- NoneAsked
    Known <- OneKnown
    MaxRows = 1
    MaxChanges = 1
    MaxFaults = 0
    UseEnumValues = FALSE
    CacheSerialises = TRUE
    Wedged <- NothingWedged
    Nothing = Nothing
PROPERTIES RowCatchesUp UsageComesBack
