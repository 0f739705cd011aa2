\* Nothing fails; the cooldown is to stop a second restart.
SPECIFICATION Spec
CONSTANTS
    c1 = c1  c2 = c2  r1 = r1  r2 = r2
    NoRequest = NoRequest
    Calls = {c1, c2}
    Replicas = {r1, r2}
    Host <- TwoHosts
    Workloads <- OneWorkload
    Incidents <- Crashing
    OtherRequests = {}
    RemediationEnabled = TRUE
    AllowedNamespaces <- Allowed
    AllowedWorkloads = {}
    DryRun = FALSE
    MaxRetries = 2
    CooldownTTL = 2
    LockTTL = 2
    LockWait = 1
    MaxRun = 1
    InitialReplicas = {3}
    UseEnumValues = FALSE
    Faults = {}
PROPERTIES CooldownPreventsRepeat
\* The calls end and every counter runs out: the system may stop.
CHECK_DEADLOCK FALSE
