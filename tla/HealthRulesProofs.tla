--------------------------- MODULE HealthRulesProofs ---------------------------
(***************************************************************************)
(* Theorems of the health rules for any deployments, thresholds and        *)
(* numbers of replicas and restarts.                                       *)
(***************************************************************************)
EXTENDS HealthRules, FiniteSetTheorems, TLAPS

\* What the rules need to know of a reading: its numbers are numbers, those of replicas
\* are the deployment's, usage is zero, and the health is one of four, DEGRADED or
\* HEALTHY by the replicas.
Plausible(workload) ==
    /\ workload.desired \in Nat /\ workload.available \in Nat
    /\ workload.restarts \in Nat
    /\ workload.cpu = 0 /\ workload.memory = 0
    /\ workload.health \in HealthStatus
    /\ workload.health = "DEGRADED" <=>
         workload.health \notin {"UNHEALTHY", "UNKNOWN"} /\ workload.available < workload.desired

\* A listing is finite.
LEMMA NamesAreFinite == IsFiniteSet(Names)
  <1>1. DOMAIN Listing = 1 .. Len(Listing) /\ Len(Listing) \in Nat
    BY ClusterAssumptions
  <1>2. IsFiniteSet(DOMAIN Listing)
    BY <1>1, FS_Interval
  <1> DEFINE f == [i \in DOMAIN Listing |-> Listing[i]]
  <1>3. f \in Surjection(DOMAIN Listing, Names)
    BY DEF Surjection, Names
  <1>4. QED
    BY <1>2, <1>3, FS_Surjection

\* The restarts of a workload's pods add up to a number.
LEMMA TotalIsNumber ==
  ASSUME NEW n, NEW cluster \in Clusters
  PROVE  TotalRestarts(n, cluster) \in Nat
  <1> DEFINE pods == PodsOf(n, cluster)
             Of(m) == {m} \X (1 .. cluster[m].restarts)
             f == [m \in pods |-> Of(m)]
             counted == {Of(m) : m \in pods}
  <1>1. \A m \in pods : m \in Names /\ cluster[m] \in States
    BY DEF PodsOf, ListPods, ListDeployments, Clusters
  <1>2. \A m \in pods : IsFiniteSet(Of(m))
    <2> SUFFICES ASSUME NEW m \in pods
                 PROVE  IsFiniteSet(Of(m))
      OBVIOUS
    <2>1. cluster[m].restarts \in Nat
      BY <1>1, ClusterAssumptions
    <2>2. IsFiniteSet(1 .. cluster[m].restarts)
      BY <2>1, FS_Interval
    <2>3. QED
      BY <2>2, FS_Singleton, FS_Product
  <1>3. IsFiniteSet(pods)
    BY <1>1, NamesAreFinite, FS_Subset
  <1>4. f \in Surjection(pods, counted)
    BY DEF Surjection
  <1>5. IsFiniteSet(counted)
    BY <1>3, <1>4, FS_Surjection
  <1>6. IsFiniteSet(UNION counted)
    BY <1>2, <1>5, FS_UNION
  <1>7. QED
    BY <1>6, FS_CardinalityType DEF TotalRestarts

\* Every reading is plausible.
LEMMA ReadingsArePlausible ==
  ASSUME NEW n \in Names, NEW workload \in Readings(n)
  PROVE  Plausible(workload)
  <1>1. PICK state \in States, cluster \in Clusters :
          workload = WithPods(DeploymentToWorkload(n, state), cluster)
    BY DEF Readings
  <1>2. state.desired \in Nat /\ state.available \in Nat
    BY ClusterAssumptions
  <1> DEFINE raw == DeploymentToWorkload(n, state)
  <1>3. raw = [name |-> n, desired |-> state.desired, available |-> state.available,
               health |-> "UNKNOWN", restarts |-> 0, cpu |-> 0, memory |-> 0]
    BY DEF DeploymentToWorkload
  <1>4. CASE PodsOf(raw.name, cluster) = {}
    BY <1>1, <1>2, <1>3, <1>4 DEF WithPods, Plausible, HealthStatus
  <1>5. CASE PodsOf(raw.name, cluster) # {}
    <2> DEFINE crash == \E m \in PodsOf(raw.name, cluster) : cluster[m].crashing
               health == HealthOf(raw, crash)
               total == TotalRestarts(raw.name, cluster)
    <2>1. workload = [raw EXCEPT !.restarts = total, !.health = health]
      BY <1>1, <1>5 DEF WithPods
    <2>2. health \in {"UNHEALTHY", "DEGRADED", "HEALTHY"}
          /\ (health = "DEGRADED" <=> health # "UNHEALTHY" /\ raw.available < raw.desired)
      BY DEF HealthOf
    <2>3. total \in Nat
      BY TotalIsNumber
    <2> HIDE DEF health, total
    <2>4. QED
      BY <1>2, <1>3, <2>1, <2>2, <2>3 DEF Plausible, HealthStatus
  <1>6. QED
    BY <1>4, <1>5

\* Without usage there are two incidents, and the first check or the third fails.
LEMMA IncidentsFail ==
  ASSUME NEW workload, Plausible(workload), DetectIncidents(workload) # {}
  PROVE  ~EvaluateHealth(workload)
  <1>1. PICK t \in Types : t \in DetectIncidents(workload)
    BY DEF DetectIncidents
  <1>2. workload.health = "UNHEALTHY" \/ ReplicaShortage(workload)
    BY <1>1, ThresholdAssumptions DEF DetectIncidents, Plausible
  <1>3. CASE workload.health = "UNHEALTHY"
    BY <1>3 DEF EvaluateHealth
  <1>4. CASE ReplicaShortage(workload)
    BY <1>4, ThresholdAssumptions DEF ReplicaShortage, EvaluateHealth, Plausible
  <1>5. QED
    BY <1>2, <1>3, <1>4

\* Whatever the thresholds and the replicas, what is an incident has failed a check.
THEOREM IncidentsAreFailures == IncidentFailsCheck
  BY ReadingsArePlausible, IncidentsFail DEF IncidentFailsCheck

\* With enough pods the health is HEALTHY exactly if it passes its check and there is
\* no shortage.
LEMMA HealthyAlike ==
  ASSUME NEW workload, Plausible(workload),
         RestartThreshold = 5, CpuThreshold > 45, MemoryThreshold > 50
  PROVE  /\ EvaluateHealth(workload) <=> IsHealthy(workload)
         /\ IsHealthy(workload) => ~IsDegraded(workload)
  <1>1. workload.available >= workload.desired => ~(workload.available < workload.desired)
    BY DEF Plausible
  <1>2. workload.available < workload.desired => ~(workload.available >= workload.desired)
    BY DEF Plausible
  <1>3. workload.health = "HEALTHY" => CpuUsage(workload) = 45 /\ MemoryUsage(workload) = 50
    BY DEF CpuUsage, MemoryUsage
  <1>4. CpuThreshold \in Nat /\ MemoryThreshold \in Nat
    BY ThresholdAssumptions
  <1>5. EvaluateHealth(workload) => IsHealthy(workload)
    BY <1>1 DEF EvaluateHealth, IsHealthy, Plausible
  <1>6. IsHealthy(workload) => EvaluateHealth(workload)
    BY <1>3, <1>4 DEF EvaluateHealth, IsHealthy
  <1>7. IsHealthy(workload) => ~IsDegraded(workload)
    BY <1>1 DEF IsHealthy, IsDegraded, Plausible
  <1>8. QED
    BY <1>5, <1>6, <1>7

\* The three places the rule is written agree on every reading.
THEOREM RulesAlwaysAgree == RulesAgree
  BY ReadingsArePlausible, HealthyAlike DEF RulesAgree

\* The gap between the checks and the detection, for every threshold.
LEMMA SilentAlike ==
  ASSUME NEW workload, Plausible(workload),
         CpuThreshold > 75, MemoryThreshold > 80,
         ~EvaluateHealth(workload), DetectIncidents(workload) = {}
  PROVE  \/ workload.health = "UNKNOWN"
         \/ /\ workload.available < workload.desired
            /\ workload.desired <= workload.available + ReplicaShortageThreshold
         \/ workload.health # "UNHEALTHY" /\ workload.restarts >= RestartThreshold
         \/ workload.health = "UNHEALTHY" /\ workload.restarts <= RestartThreshold
  <1> USE ThresholdAssumptions DEF Plausible
  <1>1. ~ReplicaShortage(workload)
    BY DEF DetectIncidents, Types
  <1>2. ~(workload.health = "UNHEALTHY" /\ workload.restarts > RestartThreshold)
    BY DEF DetectIncidents, Types
  <1>3. CASE workload.health = "UNHEALTHY"
    BY <1>2, <1>3
  <1>4. CASE workload.health \in {"HEALTHY", "DEGRADED"}
    <2>1. CpuUsage(workload) < CpuThreshold /\ MemoryUsage(workload) < MemoryThreshold
      BY <1>4 DEF CpuUsage, MemoryUsage
    <2>2. workload.available < workload.desired \/ workload.restarts >= RestartThreshold
      BY <1>4, <2>1 DEF EvaluateHealth
    <2>3. QED
      BY <1>1, <1>4, <2>2 DEF ReplicaShortage
  <1>5. QED
    BY <1>3, <1>4 DEF HealthStatus

\* What fails a check and is never reported is within a threshold, whatever they are.
THEOREM FailuresAreSmall == SilentFailures
  <1> SUFFICES ASSUME CpuThreshold > 75, MemoryThreshold > 80, NEW n \in Names,
                      NEW workload \in Readings(n),
                      ~EvaluateHealth(workload), DetectIncidents(workload) = {}
               PROVE  \/ workload.health = "UNKNOWN"
                      \/ /\ workload.available < workload.desired
                         /\ workload.desired <= workload.available + ReplicaShortageThreshold
                      \/ workload.health # "UNHEALTHY" /\ workload.restarts >= RestartThreshold
                      \/ workload.health = "UNHEALTHY" /\ workload.restarts <= RestartThreshold
    BY DEF SilentFailures
  <1>1. Plausible(workload)
    BY ReadingsArePlausible
  <1>2. QED
    BY <1>1, SilentAlike
=============================================================================
