\* Fair event loop and clock; Redis up, everything else may fail; also what only
\* a direct caller asks for.
SPECIFICATION LiveSpec
CONSTANTS
    c1 = c1  c2 = c2  r1 = r1  r2 = r2
    NoRequest = NoRequest
    Calls = {c1, c2}
    Replicas = {r1, r2}
    Host <- TwoHosts
    Workloads <- OneWorkload
    Incidents <- Crashing
    OtherRequests <- DirectRequests
    RemediationEnabled = TRUE
    AllowedNamespaces <- Allowed
    AllowedWorkloads = {}
    DryRun = FALSE
    MaxRetries = 2
    CooldownTTL = 0
    LockTTL = 2
    LockWait = 1
    MaxRun = 1
    InitialReplicas = {3}
    UseEnumValues = FALSE
    Faults = {"database", "cluster", "crash"}
INVARIANTS NoOrphanLock
PROPERTIES EveryCallEnds LocksExpire
\* The calls end and every counter runs out: the system may stop.
CHECK_DEADLOCK FALSE
