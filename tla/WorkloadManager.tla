--------------------------- MODULE WorkloadManager ---------------------------
(***************************************************************************)
(* How a workload is read from the cluster: the answers of the client      *)
(* (app/kubernetes/client.py) and what discover_workloads and get_workload *)
(* (app/kubernetes/workload_manager.py) make of them.                      *)
(*                                                                         *)
(* A state of a deployment keeps what is read of it: its replicas, whether *)
(* it has pods, the restarts of its pods and whether the phase of one is   *)
(* CrashLoopBackOff.  All names are of one namespace: namespaces share     *)
(* neither deployments nor pods.                                           *)
(***************************************************************************)
EXTENDS Naturals, Sequences, FiniteSets

CONSTANTS
    Listing,     \* the names of the deployments, in the order the API lists them
    Contains,    \* <<n, m>>: the names of the pods of m contain the name n
    States,      \* what a deployment and its pods can be like
    Gone         \* a deployment that is not there

Names == {Listing[i] : i \in DOMAIN Listing}
Clusters == [Names -> States \cup {Gone}]
HealthStatus == {"HEALTHY", "DEGRADED", "UNHEALTHY", "UNKNOWN"}

ASSUME ClusterAssumptions ==
    /\ Listing \in Seq(STRING)
    /\ \A i, j \in DOMAIN Listing : Listing[i] = Listing[j] => i = j
    /\ States \subseteq [desired : Nat, available : Nat, pods : BOOLEAN,
                         restarts : Nat, crashing : BOOLEAN]
    /\ Gone \notin States

\* n is listed before m.
Before(n, m) == \E i, j \in DOMAIN Listing : i < j /\ Listing[i] = n /\ Listing[j] = m

\* list_deployments and list_pods: whose there are.
ListDeployments(cluster) == {n \in Names : cluster[n] # Gone}
ListPods(cluster) == {n \in ListDeployments(cluster) : cluster[n].pods}

\* The health is UNKNOWN, restarts and usage are zero until they are set.
DeploymentToWorkload(n, state) ==
    [name |-> n, desired |-> state.desired, available |-> state.available,
     health |-> "UNKNOWN", restarts |-> 0, cpu |-> 0, memory |-> 0]

\* Slip: the pods of the namespace are not filtered.
AllPods(n, cluster) == ListPods(cluster)

\* Whose pods count as those of n: "workload.name in p['name']".
PodsOf(n, cluster) == {m \in ListPods(cluster) : <<n, m>> \in Contains}

\* The sum, counted one by one.
TotalRestarts(n, cluster) ==
    Cardinality(UNION {{m} \X (1 .. cluster[m].restarts) : m \in PodsOf(n, cluster)})

\* Slip: the phase of the pod becomes the health of the workload.
HealthIsPhase(workload, crashLoops) ==
    IF crashLoops THEN "CrashLoopBackOff"
    ELSE IF workload.available < workload.desired THEN "DEGRADED" ELSE "HEALTHY"

HealthOf(workload, crashLoops) ==
    IF crashLoops THEN "UNHEALTHY"
    ELSE IF workload.available < workload.desired THEN "DEGRADED" ELSE "HEALTHY"

\* A workload without pods is left as it was converted.
WithPods(workload, cluster) ==
    LET pods == PodsOf(workload.name, cluster)
    IN  IF pods = {} THEN workload
        ELSE [workload EXCEPT
                !.restarts = TotalRestarts(workload.name, cluster),
                !.health = HealthOf(workload, \E m \in pods : cluster[m].crashing)]

\* What is read while the cluster does not change.
Discovered(n, cluster) == WithPods(DeploymentToWorkload(n, cluster[n]), cluster)

\* All that can be read of n: deployments and pods are listed by two calls, and the
\* cluster may have changed between them.
Readings(n) ==
    {WithPods(DeploymentToWorkload(n, state), cluster) : state \in States, cluster \in Clusters}
=============================================================================
