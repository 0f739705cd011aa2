-------------------------- MODULE MCWorkloadService --------------------------
(***************************************************************************)
(* Values of the constants of WorkloadService for TLC.                     *)
(***************************************************************************)
EXTENDS WorkloadService

\* One deployment, or two of which the pods of the second contain the name of the
\* first.
One == <<"api">>
Two == <<"api", "api-gateway">>
NameContained == {<<n, m>> \in Names \X Names : n = m \/ n = "api"}

NoneAsked == {}
OneAsked == {"api"}
NoneKnown == <<>>
OneKnown == <<"api">>

\* At the limit of restarts; short of two replicas; both, and in a crash loop.
AtLimit == [desired |-> 2, available |-> 2, pods |-> TRUE, restarts |-> 5, crashing |-> FALSE]
Short == [desired |-> 3, available |-> 1, pods |-> TRUE, restarts |-> 0, crashing |-> FALSE]
Crashing == [Short EXCEPT !.restarts = 6, !.crashing = TRUE]

RuleStates == {AtLimit, Short, Crashing}
JobStates == {AtLimit, Crashing}

DetectionAndGet == {"detection", "get"}
DiscoveryAndHealth == {"discovery", "health"}
HealthAndDetection == {"health", "detection"}
DiscoveryHealthAndList == {"discovery", "health", "list"}
KindIsName == [c \in Callers |-> c]
NothingWedged == {}
ShortageWedged == {<<"api", "REPLICA_SHORTAGE">>}
=============================================================================
