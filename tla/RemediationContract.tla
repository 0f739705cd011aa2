--------------------------- MODULE RemediationContract ---------------------------
(***************************************************************************)
(* What the remediation service promises its callers, with no lock, no     *)
(* database and no time: a workload is worked on by one call at a time, a  *)
(* dry run changes nothing, a call changes the cluster only while it is    *)
(* the one at work and at most MaxRetries times, and it reports SUCCESS    *)
(* only when the change was made or was a dry run.                         *)
(***************************************************************************)
EXTENDS Naturals

CONSTANTS Calls, Workloads, Requests, NoRequest, MaxRetries

VARIABLES
    request,   \* what each call was asked, NoRequest before
    active,    \* the calls at work on each workload
    effects,   \* the changes each call made to the cluster
    verdict    \* how each call ended, "NONE" while it has not

vars == <<request, active, effects, verdict>>

Init ==
    /\ request = [c \in Calls |-> NoRequest]
    /\ active = [w \in Workloads |-> {}]
    /\ effects = [c \in Calls |-> 0]
    /\ verdict = [c \in Calls |-> "NONE"]

AtWork(c) == \E w \in Workloads : c \in active[w]
Pending(c) == verdict[c] = "NONE" /\ ~AtWork(c)
Conclude(c, v) == verdict' = [verdict EXCEPT ![c] = v]

Ask(c) ==
    /\ Pending(c) /\ request[c] = NoRequest
    /\ \E r \in Requests : request' = [request EXCEPT ![c] = r]
    /\ UNCHANGED <<active, effects, verdict>>

Begin(c, w) ==
    /\ Pending(c) /\ request[c] # NoRequest /\ request[c].workload = w
    /\ active[w] = {}
    /\ active' = [active EXCEPT ![w] = {c}]
    /\ UNCHANGED <<request, effects, verdict>>

Affect(c) ==
    /\ AtWork(c) /\ ~request[c].dry_run
    /\ effects[c] < MaxRetries
    /\ effects' = [effects EXCEPT ![c] = @ + 1]
    /\ UNCHANGED <<request, active, verdict>>

\* A call that never got to work ends as it began, or refused.
GiveUp(c) ==
    /\ Pending(c)
    /\ \E v \in {"PENDING", "FAILED"} : Conclude(c, v)
    /\ UNCHANGED <<request, active, effects>>

Finish(c, w) ==
    /\ c \in active[w]
    /\ active' = [active EXCEPT ![w] = @ \ {c}]
    /\ \/ Conclude(c, "FAILED")
       \/ (request[c].dry_run \/ effects[c] > 0) /\ Conclude(c, "SUCCESS")
    /\ UNCHANGED <<request, effects>>

\* The process that runs the calls of S is gone.
Lose(S) ==
    /\ \A c \in S : verdict[c] = "NONE"
    /\ active' = [w \in Workloads |-> active[w] \ S]
    /\ verdict' = [c \in Calls |-> IF c \in S THEN "LOST" ELSE verdict[c]]
    /\ UNCHANGED <<request, effects>>

Next ==
    \/ \E c \in Calls :
         \/ Ask(c) \/ Affect(c) \/ GiveUp(c)
         \/ \E w \in Workloads : Begin(c, w) \/ Finish(c, w)
    \/ \E S \in SUBSET Calls : Lose(S)

Spec == Init /\ [][Next]_vars
=============================================================================
