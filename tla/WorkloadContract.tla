--------------------------- MODULE WorkloadContract ---------------------------
(***************************************************************************)
(* What persist_workload promises, with no sessions and no loaded objects: *)
(* each column of a row is a register.  A caller stores every column of    *)
(* its workload once, in one row of it, and goes on to the next only when  *)
(* none is left; it never stores what another caller has read.  It inserts *)
(* a row only if it has not inserted one before.                           *)
(***************************************************************************)
EXTENDS Integers, Sequences

CONSTANTS Callers, Workload, Nothing

VARIABLES
    table,    \* the rows: a workload, and who inserted it
    phase,    \* whether a caller has workloads to go through, or is storing one
    item,     \* the workload that it is storing
    left,     \* the columns it has yet to store
    target    \* the row it stores them in, once it has stored one

callerVars == <<phase, item, left, target>>
vars == <<table, callerVars>>

Columns == {"desired", "available", "health", "restarts", "cpu", "memory"}

Of(name) == {i \in DOMAIN table : table[i].workload.name = name}

Init ==
    /\ \A i \in DOMAIN table : table[i].workload \in Workload /\ table[i].by = Nothing
    /\ \A i \in DOMAIN table : Of(table[i].workload.name) = {i}
    /\ phase = [c \in Callers |-> "away"]
    /\ item = [c \in Callers |-> Nothing]
    /\ left = [c \in Callers |-> {}]
    /\ target = [c \in Callers |-> 0]

Put(row, w, columns) == [f \in DOMAIN row |-> IF f \in columns THEN w[f] ELSE row[f]]

Go(c, here, there) == phase[c] = here /\ phase' = [phase EXCEPT ![c] = there]

Come(c) == Go(c, "away", "ready") /\ UNCHANGED <<table, item, left, target>>
Leave(c) == Go(c, "ready", "away") /\ UNCHANGED <<table, item, left, target>>

Begin(c) ==
    /\ Go(c, "ready", "storing")
    /\ item'[c] \in Workload /\ item' = [item EXCEPT ![c] = item'[c]]
    /\ left' = [left EXCEPT ![c] = Columns]
    /\ UNCHANGED <<table, target>>

\* The caller is done with its workload, or fails and gives up the others.
Over(c, there) ==
    /\ Go(c, "storing", there)
    /\ item' = [item EXCEPT ![c] = Nothing]
    /\ left' = [left EXCEPT ![c] = {}]
    /\ target' = [target EXCEPT ![c] = 0]

Insert(c, there) ==
    /\ left[c] = Columns /\ target[c] = 0
    /\ \A i \in Of(item[c].name) : table[i].by # c
    /\ table' = Append(table, [workload |-> item[c], by |-> c])
    /\ Over(c, there)

Puts(c, i, columns) ==
    /\ phase[c] = "storing"
    /\ i \in Of(item[c].name) /\ target[c] \in {0, i}
    /\ table' = [table EXCEPT ![i].workload = Put(@, item[c], columns)]

\* Some of the columns that are left; or all, and that is the end; or all but the
\* caller fails.
StoreSome(c) ==
    \E i \in DOMAIN table, columns \in SUBSET left[c] :
        /\ Puts(c, i, columns)
        /\ left' = [left EXCEPT ![c] = @ \ columns]
        /\ target' = [target EXCEPT ![c] = i]
        /\ UNCHANGED <<phase, item>>
StoreRest(c, there) ==
    /\ \E i \in DOMAIN table : Puts(c, i, left[c])
    /\ Over(c, there)

GiveUp(c) == Over(c, "away") /\ UNCHANGED table

Next ==
    \E c \in Callers :
        \/ Come(c) \/ Leave(c) \/ Begin(c)
        \/ StoreSome(c) \/ GiveUp(c)
        \/ \E there \in {"ready", "away"} : Insert(c, there) \/ StoreRest(c, there)

Spec == Init /\ [][Next]_vars
=============================================================================
