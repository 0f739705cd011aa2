-------------------------- MODULE MCRemediationService --------------------------
(***************************************************************************)
(* Values of the constants of RemediationService for TLC.                  *)
(***************************************************************************)
EXTENDS RemediationService, TLC

CONSTANTS c1, c2, r1, r2

web == [namespace |-> "default", name |-> "web"]
pay == [namespace |-> "production", name |-> "pay"]

OneWorkload == {web}
TwoWorkloads == {web, pay}

\* Two calls on two replicas.
TwoHosts == c1 :> r1 @@ c2 :> r2

Allowed == {"default", "staging"}
Crashing == {[workload |-> web, type |-> "POD_CRASH_LOOP"]}
Mixed == {[workload |-> web, type |-> "POD_CRASH_LOOP"],
          [workload |-> web, type |-> "HIGH_LATENCY"],
          [workload |-> pay, type |-> "HIGH_CPU"]}

\* What a direct caller may ask and evaluation never does.
DirectRequests == {[workload |-> web, action |-> "DELETE_POD", dry_run |-> FALSE]}

\* With TwoHosts the two calls are alike, as are the replicas they run on.
Exchange == Permutations({c1, c2})
=============================================================================
