----------------------------- MODULE HealthRules -----------------------------
(***************************************************************************)
(* The rules of the monitoring service: the checks of a workload's health  *)
(* (_evaluate_workload_health, monitoring_service.py:143-226) and the      *)
(* conditions that are incidents (_detect_incidents, 228-283), beside the  *)
(* rule the workload has of its own (domain/models/workload.py:36-52).     *)
(***************************************************************************)
EXTENDS WorkloadManager

CONSTANTS RestartThreshold, ReplicaShortageThreshold, CpuThreshold, MemoryThreshold

ASSUME ThresholdAssumptions ==
    {RestartThreshold, ReplicaShortageThreshold, CpuThreshold, MemoryThreshold} \subseteq Nat

\* Usage is simulated from the health of the workload.
CpuUsage(workload) ==
    CASE workload.health = "UNHEALTHY" -> 95
      [] workload.health = "DEGRADED" -> 75
      [] OTHER -> 45
MemoryUsage(workload) ==
    CASE workload.health = "UNHEALTHY" -> 90
      [] workload.health = "DEGRADED" -> 80
      [] OTHER -> 50

\* Slip: the checks "passed" of the replicas and the health are reported only.
HealthyByNumbers(workload) ==
    /\ workload.restarts < RestartThreshold
    /\ CpuUsage(workload) < CpuThreshold
    /\ MemoryUsage(workload) < MemoryThreshold

\* health_result["healthy"]: every check has passed.
EvaluateHealth(workload) ==
    /\ workload.available >= workload.desired
    /\ workload.restarts < RestartThreshold
    /\ workload.health \in {"HEALTHY", "DEGRADED"}
    /\ CpuUsage(workload) < CpuThreshold
    /\ MemoryUsage(workload) < MemoryThreshold

Types == {"POD_CRASH_LOOP", "REPLICA_SHORTAGE", "HIGH_CPU", "HIGH_MEMORY"}

\* Slip: a workload is short when nothing of it is left.
NothingAvailable(workload) ==
    workload.available = 0 /\ ReplicaShortageThreshold < workload.desired
ReplicaShortage(workload) ==
    workload.available + ReplicaShortageThreshold < workload.desired

DetectIncidents(workload) ==
    {t \in Types :
        \/ t = "POD_CRASH_LOOP" /\ workload.health = "UNHEALTHY"
                                /\ workload.restarts > RestartThreshold
        \/ t = "REPLICA_SHORTAGE" /\ ReplicaShortage(workload)
        \/ t = "HIGH_CPU" /\ workload.cpu > CpuThreshold
        \/ t = "HIGH_MEMORY" /\ workload.memory > MemoryThreshold}

\* Slip: the limit itself is tolerated.
HealthyAtLimit(workload) ==
    /\ workload.health = "HEALTHY"
    /\ workload.available >= workload.desired
    /\ workload.restarts <= 5

\* The limit of restarts is a literal here, not the setting.
IsHealthy(workload) ==
    /\ workload.health = "HEALTHY"
    /\ workload.available >= workload.desired
    /\ workload.restarts < 5
IsDegraded(workload) ==
    \/ workload.health = "DEGRADED"
    \/ workload.available < workload.desired
    \/ workload.restarts >= 5

-----------------------------------------------------------------------------
(* Properties of whatever discovery can read.                              *)

\* Detection and health checks are two readings of the thresholds (143-283):
\* what is an incident has failed a check.
IncidentFailsCheck ==
    \A n \in Names : \A workload \in Readings(n) :
        DetectIncidents(workload) # {} => ~EvaluateHealth(workload)

\* The rule is written three times, in the manager (workload_manager.py:43-48), in
\* the monitoring service (143-226) and in the workload (36-52).  With the default
\* limit of restarts they agree, and healthy is never degraded as well.
RulesAgree ==
    RestartThreshold = 5 /\ CpuThreshold > 45 /\ MemoryThreshold > 50 =>
        \A n \in Names : \A workload \in Readings(n) :
            /\ EvaluateHealth(workload) <=> IsHealthy(workload)
            /\ IsHealthy(workload) => ~IsDegraded(workload)

\* What fails a check unreported, with the default limits of usage: a workload without
\* pods, a shortage within its threshold (all of it, for a small workload), restarts
\* outside a crash loop, a crash loop that has not restarted more often than the limit.
SilentFailures ==
    CpuThreshold > 75 /\ MemoryThreshold > 80 =>
        \A n \in Names : \A workload \in Readings(n) :
            ~EvaluateHealth(workload) /\ DetectIncidents(workload) = {} =>
                \/ workload.health = "UNKNOWN"
                \/ /\ workload.available < workload.desired
                   /\ workload.desired <= workload.available + ReplicaShortageThreshold
                \/ workload.health # "UNHEALTHY" /\ workload.restarts >= RestartThreshold
                \/ workload.health = "UNHEALTHY" /\ workload.restarts <= RestartThreshold
=============================================================================
