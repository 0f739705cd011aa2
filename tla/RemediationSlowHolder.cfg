\* A holder may outlast the 60 s lock: the cluster calls have no timeout.
SPECIFICATION Spec
CONSTANTS
    c1 = c1  c2 = c2  r1 = r1  r2 = r2
    NoRequest = NoRequest
    Calls = {c1, c2}
    Replicas = {r1, r2}
    Host <- TwoHosts
    Workloads <- OneWorkload
    Incidents <- Crashing
    OtherRequests = {}
    RemediationEnabled = TRUE
    AllowedNamespaces <- Allowed
    AllowedWorkloads = {}
    DryRun = FALSE
    MaxRetries = 2
    CooldownTTL = 1
    LockTTL = 2
    LockWait = 1
    MaxRun = 2
    InitialReplicas = {3}
    UseEnumValues = FALSE
    Faults = {}
INVARIANTS MutualExclusion
\* The calls end and every counter runs out: the system may stop.
CHECK_DEADLOCK FALSE
