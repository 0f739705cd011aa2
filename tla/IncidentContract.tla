--------------------------- MODULE IncidentContract ---------------------------
(***************************************************************************)
(* What the incident service promises, with no sessions, no cache and no   *)
(* loaded objects: an acknowledgement or a resolution takes effect in one  *)
(* step between its request and its answer and never twice, one that       *)
(* failed may have taken effect, what is read is a state the incident has  *)
(* had, and a replica inserts an incident only if it has none OPEN of the  *)
(* key.                                                                    *)
(***************************************************************************)
EXTENDS Naturals, Sequences

CONSTANTS Keys, Replicas, Clients, Ids, NoRow

VARIABLES
    table,           \* the incidents
    phase, op, id,   \* of each client's request: how far it is, what it asks
    answer           \* the incident it was answered with, or NoRow

vars == <<table, phase, op, id, answer>>

Ops == {"get", "acknowledge", "resolve"}
Incidents == [key : Keys, status : {"OPEN", "ACKNOWLEDGED", "RESOLVED"},
              acked : BOOLEAN, resolved : BOOLEAN, by : Replicas]

Init ==
    /\ table = <<>>
    /\ phase = [c \in Clients |-> "idle"]
    /\ op = [c \in Clients |-> "get"]
    /\ id = [c \in Clients |-> 1]
    /\ answer = [c \in Clients |-> NoRow]

Operate(incident, o) ==
    IF o = "acknowledge" THEN [incident EXCEPT !.status = "ACKNOWLEDGED", !.acked = TRUE]
    ELSE [incident EXCEPT !.status = "RESOLVED", !.resolved = TRUE]

\* The incident may have been like old, and no OPEN one was ever different.
HasBeen(incident, old) ==
    /\ old.key = incident.key /\ old.by = incident.by
    /\ old.acked => incident.acked
    /\ old.resolved => incident.resolved
    /\ incident.status = "OPEN" => old = incident

\* What the operation has done can be seen.
Shows(incident, o) ==
    /\ o = "acknowledge" => incident.acked
    /\ o = "resolve" => incident.resolved

Enter(c, there) == phase' = [phase EXCEPT ![c] = there]

Create(p, k) ==
    /\ \A i \in DOMAIN table :
         table[i].key = k /\ table[i].by = p => table[i].status # "OPEN"
    /\ table' = Append(table, [key |-> k, status |-> "OPEN", acked |-> FALSE,
                               resolved |-> FALSE, by |-> p])
    /\ UNCHANGED <<phase, op, id, answer>>

Ask(c) ==
    /\ phase[c] \in {"idle", "answered", "failed"} /\ Enter(c, "asked")
    /\ \E o \in Ops, i \in Ids : /\ op' = [op EXCEPT ![c] = o]
                                 /\ id' = [id EXCEPT ![c] = i]
    /\ answer' = [answer EXCEPT ![c] = NoRow]
    /\ UNCHANGED table

TakesEffect(c) ==
    /\ phase[c] = "asked" /\ op[c] # "get" /\ id[c] \in DOMAIN table
    /\ table' = [table EXCEPT ![id[c]] = Operate(@, op[c])]

Apply(c) ==
    /\ TakesEffect(c) /\ Enter(c, "applied")
    /\ UNCHANGED <<op, id, answer>>

Answer(c) ==
    /\ phase[c] = (IF op[c] = "get" THEN "asked" ELSE "applied") /\ Enter(c, "answered")
    /\ id[c] \in DOMAIN table
    /\ \E old \in Incidents :
         /\ HasBeen(table[id[c]], old) /\ Shows(old, op[c])
         /\ answer' = [answer EXCEPT ![c] = old]
    /\ UNCHANGED <<table, op, id>>

Fail(c) ==
    /\ phase[c] \in {"asked", "applied"} /\ Enter(c, "failed")
    /\ UNCHANGED table \/ TakesEffect(c)
    /\ UNCHANGED <<op, id, answer>>

Next ==
    \/ \E p \in Replicas, k \in Keys : Create(p, k)
    \/ \E c \in Clients : Ask(c) \/ Apply(c) \/ Answer(c) \/ Fail(c)

Spec == Init /\ [][Next]_vars
=============================================================================
