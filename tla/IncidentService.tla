---------------------------- MODULE IncidentService ----------------------------
(***************************************************************************)
(* app/services/incident_service.py with its two kinds of callers: the     *)
(* incident detection job of each replica                                  *)
(* (app/services/monitoring_service.py:126-141), which creates incidents   *)
(* one after the other, and the HTTP requests that get, acknowledge and    *)
(* resolve them (app/api/routes/incidents.py).                             *)
(*                                                                         *)
(* The incidents table has no unique constraint and transactions are READ  *)
(* COMMITTED, so a select and the write that follows it are two steps.     *)
(* rows[i] is the row whose id is i.  A key stands for the workload, the   *)
(* namespace and the type of an incident.                                  *)
(***************************************************************************)
EXTENDS Naturals, Sequences, FiniteSets

CONSTANTS
    Replicas,          \* the processes, each with one detection job
    Keys,              \* what an incident can be about
    Detections,        \* the sequences of keys a job can find
    Clients,           \* HTTP requests in flight at a time
    MaxRows,           \* bound on the rows inserted
    UseEnumValues,     \* whether a validated enum field is kept as a string
    CacheSerialises,   \* whether json.dumps accepts what model_dump returns
    Faults,            \* which of "redis", "database", "crash" may fail
    NoRow              \* what is cached, loaded or answered when nothing is

Ids == 1 .. MaxRows
Statuses == {"OPEN", "ACKNOWLEDGED", "RESOLVED"}
Ops == {"get", "acknowledge", "resolve"}

\* acked and resolved: whether acknowledged_at and resolved_at are set; by: the
\* replica that inserted the row, which the table does not tell.
Rows == [key : Keys, status : Statuses, acked : BOOLEAN, resolved : BOOLEAN, by : Replicas]

ASSUME IncidentAssumptions ==
    /\ Detections \subseteq Seq(Keys)
    /\ MaxRows \in Nat \ {0}
    /\ UseEnumValues \in BOOLEAN /\ CacheSerialises \in BOOLEAN
    /\ Faults \subseteq {"redis", "database", "crash"}
    /\ NoRow \notin Rows

VARIABLES
    rows,                    \* the incidents table
    job, inserting,          \* keys a job has left; whether it is past its select
    at, op, id, seen,        \* each HTTP request, and the row it has loaded
    cache                    \* Redis: incident:{id}

jobVars == <<job, inserting>>
requestVars == <<at, op, id, seen>>
vars == <<rows, jobVars, requestVars, cache>>

Locations == {"idle", "cached", "load", "fill", "commit", "refresh", "invalidate",
              "done", "failed"}

TypeOK ==
    /\ rows \in Seq(Rows) /\ Len(rows) <= MaxRows
    /\ job \in [Replicas -> Seq(Keys)]
    /\ inserting \in [Replicas -> BOOLEAN]
    /\ \A p \in Replicas : inserting[p] => job[p] # <<>>
    /\ at \in [Clients -> Locations]
    /\ op \in [Clients -> Ops]
    /\ id \in [Clients -> Ids]
    /\ seen \in [Clients -> Rows \cup {NoRow}]
    /\ cache \in [Ids -> Rows \cup {NoRow}]
    /\ \A c \in Clients : at[c] \in {"fill", "commit", "refresh", "invalidate"} =>
                            id[c] \in DOMAIN rows /\ seen[c] # NoRow

Init ==
    /\ rows = <<>>
    /\ job = [p \in Replicas |-> <<>>]
    /\ inserting = [p \in Replicas |-> FALSE]
    /\ at = [c \in Clients |-> "idle"]
    /\ op = [c \in Clients |-> "get"]
    /\ id = [c \in Clients |-> 1]
    /\ seen = [c \in Clients |-> NoRow]
    /\ cache = [i \in Ids |-> NoRow]

-----------------------------------------------------------------------------
(* The detection job and create_incident.                                  *)

StartJob(p) ==
    /\ job[p] = <<>>
    /\ \E found \in Detections : job' = [job EXCEPT ![p] = found]
    /\ UNCHANGED <<rows, inserting, requestVars, cache>>

\* Slip: the filter is on acknowledged_at.
AcknowledgedRows(k) == {i \in DOMAIN rows : rows[i].key = k /\ rows[i].acked}

\* The rows the select of create_incident returns.
OpenRows(k) == {i \in DOMAIN rows : rows[i].key = k /\ rows[i].status = "OPEN"}

NextIncident(p) == job' = [job EXCEPT ![p] = Tail(@)]

\* An exception leaves the loop of the job: the incidents after it are dropped.
AbortJob(p) == job' = [job EXCEPT ![p] = <<>>]

\* The select: an OPEN row is returned, none leads to an insert, and with two
\* scalar_one_or_none raises.
SelectOpen(p) ==
    /\ job[p] # <<>> /\ ~inserting[p] /\ ~UseEnumValues
    /\ LET open == OpenRows(Head(job[p]))
       IN  \/ /\ open = {}
              /\ inserting' = [inserting EXCEPT ![p] = TRUE]
              /\ UNCHANGED job
           \/ /\ Cardinality(open) = 1
              /\ NextIncident(p)
              /\ UNCHANGED inserting
           \/ /\ Cardinality(open) > 1
              /\ AbortJob(p)
              /\ UNCHANGED inserting
    /\ UNCHANGED <<rows, requestVars, cache>>

\* incident.type.value raises on a string, or the select fails.
SelectRaises(p) ==
    /\ job[p] # <<>> /\ ~inserting[p]
    /\ UseEnumValues \/ "database" \in Faults
    /\ AbortJob(p)
    /\ UNCHANGED <<rows, inserting, requestVars, cache>>

NewRow(p) == [key |-> Head(job[p]), status |-> "OPEN", acked |-> FALSE,
              resolved |-> FALSE, by |-> p]

\* Slip: an insert that fails is made again.
InsertRetries(p) ==
    /\ inserting[p] /\ Len(rows) < MaxRows
    /\ \/ /\ rows' = Append(rows, NewRow(p)) /\ NextIncident(p)
          /\ inserting' = [inserting EXCEPT ![p] = FALSE]
       \/ /\ "database" \in Faults /\ UNCHANGED <<job, inserting>>
          /\ UNCHANGED rows \/ rows' = Append(rows, NewRow(p))
    /\ UNCHANGED <<requestVars, cache>>

\* The insert, its commit and its refresh.  The deletion of "incidents:all"
\* that follows is of a key nothing ever sets.
Insert(p) ==
    /\ inserting[p] /\ Len(rows) < MaxRows
    /\ inserting' = [inserting EXCEPT ![p] = FALSE]
    /\ \/ rows' = Append(rows, NewRow(p)) /\ NextIncident(p)
       \/ "database" \in Faults /\ AbortJob(p)
            /\ (UNCHANGED rows \/ rows' = Append(rows, NewRow(p)))
    /\ UNCHANGED <<requestVars, cache>>

-----------------------------------------------------------------------------
(* The HTTP requests.                                                      *)

Goto(c, here, there) ==
    /\ at[c] = here
    /\ at' = [at EXCEPT ![c] = there]

Request(c) ==
    /\ at[c] \in {"idle", "done", "failed"}
    /\ \E o \in Ops, i \in Ids :
         /\ op' = [op EXCEPT ![c] = o]
         /\ id' = [id EXCEPT ![c] = i]
         /\ at' = [at EXCEPT ![c] = IF o = "get" THEN "cached" ELSE "load"]
    /\ seen' = [seen EXCEPT ![c] = NoRow]
    /\ UNCHANGED <<rows, jobVars, cache>>

\* get_incident: a hit is the answer; a miss, or a RedisError, goes to the table.
ReadCache(c) ==
    /\ \/ /\ Goto(c, "cached", "done")
          /\ cache[id[c]] # NoRow
          /\ seen' = [seen EXCEPT ![c] = cache[id[c]]]
       \/ /\ Goto(c, "cached", "load")
          /\ cache[id[c]] = NoRow \/ "redis" \in Faults
          /\ UNCHANGED seen
    /\ UNCHANGED <<rows, jobVars, op, id, cache>>

\* Slip: an incident that is cached is not selected again.
LoadCached(c) ==
    /\ id[c] \in DOMAIN rows
    /\ Goto(c, "load", IF op[c] = "get" THEN "fill" ELSE "commit")
    /\ seen' = [seen EXCEPT ![c] = IF cache[id[c]] = NoRow THEN rows[id[c]] ELSE cache[id[c]]]
    /\ UNCHANGED <<rows, jobVars, op, id, cache>>

\* The select by id of get, acknowledge and resolve.
Load(c) ==
    /\ id[c] \in DOMAIN rows
    /\ Goto(c, "load", IF op[c] = "get" THEN "fill" ELSE "commit")
    /\ seen' = [seen EXCEPT ![c] = rows[id[c]]]
    /\ UNCHANGED <<rows, jobVars, op, id, cache>>

\* IncidentNotFoundError, or the select fails.
LoadRaises(c) ==
    /\ Goto(c, "load", "failed")
    /\ id[c] \notin DOMAIN rows \/ "database" \in Faults
    /\ UNCHANGED <<rows, jobVars, op, id, seen, cache>>

\* The commit that ends a session (connection.py:69) may fail when all is done.
EndSession(c, here) ==
    \/ Goto(c, here, "done")
    \/ Goto(c, here, "failed") /\ "database" \in Faults

\* The cache is written with the row as it was loaded; a RedisError is swallowed,
\* a TypeError of json.dumps is not.
Fill(c) ==
    /\ \/ /\ CacheSerialises /\ EndSession(c, "fill")
          /\ \/ cache' = [cache EXCEPT ![id[c]] = seen[c]]
             \/ "redis" \in Faults /\ UNCHANGED cache
       \/ Goto(c, "fill", "failed") /\ ~CacheSerialises /\ UNCHANGED cache
    /\ UNCHANGED <<rows, jobVars, op, id, seen>>

\* The literals at 142 and 167; slip: one that IncidentStatus does not have.
UnknownStatus(o) == IF o = "acknowledge" THEN "ACKNOWLEDGED" ELSE "CLOSED"
NewStatus(o) == IF o = "acknowledge" THEN "ACKNOWLEDGED" ELSE "RESOLVED"

\* Slips: every column of the loaded object is written back; no time is set.
WriteBack(row, loaded, o) ==
    [loaded EXCEPT !.status = NewStatus(o),
                   !.acked = @ \/ o = "acknowledge", !.resolved = @ \/ o = "resolve"]
WriteStatusOnly(row, loaded, o) == [row EXCEPT !.status = NewStatus(o)]

\* The UPDATE SQLAlchemy emits: the attributes that differ from the loaded ones.
\* The timestamp always does; the status only if the operation changes it.
Write(row, loaded, o) ==
    [row EXCEPT !.status = IF loaded.status = NewStatus(o) THEN @ ELSE NewStatus(o),
                !.acked = @ \/ o = "acknowledge", !.resolved = @ \/ o = "resolve"]

Commit(c) ==
    /\ Goto(c, "commit", "refresh")
    /\ rows' = [rows EXCEPT ![id[c]] = Write(@, seen[c], op[c])]
    /\ UNCHANGED <<jobVars, op, id, seen, cache>>

\* Slip: a commit that fails is ignored.
CommitIgnoringErrors(c) ==
    /\ "database" \in Faults
    /\ Goto(c, "commit", "refresh")
    /\ UNCHANGED <<rows, jobVars, op, id, seen, cache>>

CommitRaises(c) ==
    /\ "database" \in Faults
    /\ Goto(c, "commit", "failed")
    /\ \/ UNCHANGED rows
       \/ rows' = [rows EXCEPT ![id[c]] = Write(@, seen[c], op[c])]
    /\ UNCHANGED <<jobVars, op, id, seen, cache>>

\* The answer is the row as refreshed, in a transaction of its own.
Refresh(c) ==
    /\ \/ Goto(c, "refresh", "invalidate") /\ seen' = [seen EXCEPT ![c] = rows[id[c]]]
       \/ Goto(c, "refresh", "failed") /\ "database" \in Faults /\ UNCHANGED seen
    /\ UNCHANGED <<rows, jobVars, op, id, cache>>

Invalidate(c) ==
    /\ EndSession(c, "invalidate")
    /\ \/ cache' = [cache EXCEPT ![id[c]] = NoRow]
       \/ "redis" \in Faults /\ UNCHANGED cache
    /\ UNCHANGED <<rows, jobVars, op, id, seen>>

-----------------------------------------------------------------------------
(* The world.                                                              *)

\* Slip: the entry is set without its ttl.
NeverExpires(i) == FALSE

\* A cached incident expires (ttl=300).
Expire(i) ==
    /\ cache[i] # NoRow
    /\ cache' = [cache EXCEPT ![i] = NoRow]
    /\ UNCHANGED <<rows, jobVars, requestVars>>

\* A replica dies and starts again: its job is gone.
Crash(p) ==
    /\ "crash" \in Faults /\ job[p] # <<>>
    /\ AbortJob(p)
    /\ inserting' = [inserting EXCEPT ![p] = FALSE]
    /\ UNCHANGED <<rows, requestVars, cache>>

\* A request's process dies, at any step.
Drop(c) ==
    /\ "crash" \in Faults
    /\ at[c] \notin {"idle", "done", "failed"}
    /\ at' = [at EXCEPT ![c] = "failed"]
    /\ UNCHANGED <<rows, jobVars, op, id, seen, cache>>

JobStep(p) == SelectOpen(p) \/ SelectRaises(p) \/ Insert(p)
RequestStep(c) ==
    \/ ReadCache(c) \/ Load(c) \/ LoadRaises(c) \/ Fill(c)
    \/ Commit(c) \/ CommitRaises(c) \/ Refresh(c) \/ Invalidate(c)

Next ==
    \/ \E p \in Replicas : StartJob(p) \/ JobStep(p) \/ Crash(p)
    \/ \E c \in Clients : Request(c) \/ RequestStep(c) \/ Drop(c)
    \/ \E i \in Ids : Expire(i)

Spec == Init /\ [][Next]_vars

\* The event loop resumes what it has begun, the scheduler starts its jobs and
\* Redis expires keys.
Fairness ==
    /\ \A p \in Replicas : WF_vars(JobStep(p)) /\ WF_vars(StartJob(p))
    /\ \A c \in Clients : WF_vars(RequestStep(c))
    /\ \A i \in Ids : WF_vars(Expire(i))
LiveSpec == Spec /\ Fairness

-----------------------------------------------------------------------------
(* Properties.                                                             *)

\* incident_service.py:28: "Check if similar open incident already exists": no
\* two OPEN incidents have the same key.
OneOpenPerKey ==
    \A i, j \in DOMAIN rows :
        rows[i].key = rows[j].key /\ rows[i].status = "OPEN" /\ rows[j].status = "OPEN"
        => i = j

\* What the select before the insert (28-39) does achieve, its job creating one
\* incident at a time: two OPEN incidents of a key come from different replicas.
OneOpenPerReplica ==
    \A i, j \in DOMAIN rows :
        /\ rows[i].key = rows[j].key /\ rows[i].by = rows[j].by
        /\ rows[i].status = "OPEN" /\ rows[j].status = "OPEN"
        => i = j

\* Why: between its select and its insert (29-73) a replica has no OPEN row of
\* the key, and no one else makes one of its own.
NothingOpenWhileInserting ==
    \A p \in Replicas : inserting[p] =>
        \A i \in OpenRows(Head(job[p])) : rows[i].by # p

OpenInv == OneOpenPerReplica /\ NothingOpenWhileInserting

\* Concurrent acknowledgements and resolutions never undo each other's times and
\* never reopen an incident: each writes what it changed only (142-144, 167-171).
NothingIsUndone ==
    [][\A i \in DOMAIN rows :
         /\ i \in DOMAIN rows' /\ rows'[i].key = rows[i].key
         /\ rows[i].acked => rows'[i].acked
         /\ rows[i].resolved => rows'[i].resolved
         /\ rows'[i].status = "OPEN" => rows[i].status = "OPEN"]_vars

\* Whatever the interleaving, the status of a row is one an operation gave it and
\* that operation's time is there.
StatusIsDated ==
    \A i \in DOMAIN rows :
        /\ rows[i].status = "ACKNOWLEDGED" => rows[i].acked
        /\ rows[i].status = "RESOLVED" => rows[i].resolved
        /\ rows[i].status = "OPEN" => ~rows[i].acked /\ ~rows[i].resolved

\* An answered acknowledgement or resolution is stored, and its answer shows it,
\* although the row is read again after the commit (145-148, 172-175).
AnsweredIsStored ==
    \A c \in Clients : at[c] = "done" =>
        /\ op[c] = "acknowledge" => rows[id[c]].acked /\ seen[c].acked
        /\ op[c] = "resolve" => rows[id[c]].resolved /\ seen[c].resolved

\* old is a state the row had before it became new.
EarlierState(old, new) ==
    /\ old.key = new.key /\ old.by = new.by
    /\ old.acked => new.acked
    /\ old.resolved => new.resolved
    /\ new.status = "OPEN" => old = new

\* A cached incident is an earlier state of its row: a reader may be late (a fill
\* that races an invalidation) but never sees what has not been committed.
CacheIsPast ==
    \A i \in Ids : cache[i] # NoRow => i \in DOMAIN rows /\ EarlierState(cache[i], rows[i])

\* An acknowledgement and a resolution read in one transaction, write what differs in a
\* second and read again in a third (131-148, 156-175), and yet take effect in one step:
\* the one that writes, or the select if that already found the status it sets.
Contract == INSTANCE IncidentContract WITH
    table <- rows,
    phase <- [c \in Clients |->
                CASE at[c] \in {"cached", "load", "fill"} -> "asked"
                  [] at[c] = "commit" -> IF seen[c].status = NewStatus(op[c])
                                         THEN "applied" ELSE "asked"
                  [] at[c] \in {"refresh", "invalidate"} -> "applied"
                  [] at[c] = "done" -> "answered"
                  [] OTHER -> at[c]],
    answer <- [c \in Clients |-> IF at[c] = "done" THEN seen[c] ELSE NoRow]
RefinesContract == Contract!Spec

\* A late reader catches up: a cached incident that is not its row's state goes.
CacheCatchesUp ==
    \A i \in Ids : (cache[i] # NoRow /\ i \in DOMAIN rows /\ cache[i] # rows[i])
                   ~> (cache[i] = NoRow \/ cache[i] = rows[i])

\* README.md:61: "Automatic incident creation": what a job has found has an
\* incident in the end.
DetectedIsReported ==
    \A k \in Keys :
        (\E p \in Replicas : \E n \in DOMAIN job[p] : job[p][n] = k)
        ~> (\E i \in DOMAIN rows : rows[i].key = k)
=============================================================================
