\* Two replicas, an approved and an unapproved workload, evaluation racing the
\* routes, every fault, holders faster than the lock.
SPECIFICATION Spec
CONSTANTS
    c1 = c1  c2 = c2  r1 = r1  r2 = r2
    NoRequest = NoRequest
    Calls = {c1, c2}
    Replicas = {r1, r2}
    Host <- TwoHosts
    Workloads <- TwoWorkloads
    Incidents <- Mixed
    OtherRequests = {}
    RemediationEnabled = TRUE
    AllowedNamespaces <- Allowed
    AllowedWorkloads = {}
    DryRun = FALSE
    MaxRetries = 2
    CooldownTTL = 1
    LockTTL = 2
    LockWait = 1
    MaxRun = 1
    InitialReplicas = {3}
    UseEnumValues = FALSE
    Faults = {"redis", "database", "cluster", "crash"}
SYMMETRY Exchange
INVARIANTS TypeOK MutualExclusion OnlyApprovedTouched SuccessRowsAreTrue ReturnedOutcomeIsRecorded ChangeIsOnRecord
PROPERTIES RefinesContract StepsRunOut
\* The calls end and every counter runs out: the system may stop.
CHECK_DEADLOCK FALSE
