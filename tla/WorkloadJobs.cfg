\* The discovery and health jobs, on two replicas, of one workload; every fault once, and
\* enum fields that are strings, as configured.
SPECIFICATION LiveSpec
CONSTANTS
    Listing <- One
    Contains <- NameContained
    States <- RuleStates
    Gone = Gone
    RestartThreshold = 5
    ReplicaShortageThreshold = 1
    CpuThreshold = 80
    MemoryThreshold = 85
    Callers <- DiscoveryAndHealth
    Kind <- KindIsName
    Asked <- NoneAsked
    Known <- NoneKnown
    MaxRows = 2
    MaxChanges = 1
    MaxFaults = 1
    UseEnumValues = TRUE
    CacheSerialises = TRUE
    Wedged <- NothingWedged
    Nothing = Nothing
INVARIANTS TypeOK OneRowPerCaller UnhealthyHasCause UsageIsOfOneReading
INVARIANTS IncidentFailsCheck RulesAgree SilentFailures
PROPERTIES RefinesContract CallersEnd
