------------------------- MODULE IncidentServiceProofs -------------------------
(***************************************************************************)
(* Theorems of IncidentService for every value of its constants.           *)
(***************************************************************************)
EXTENDS IncidentService, TLAPS

-----------------------------------------------------------------------------
(* What the strengthened invariants add.                                   *)

\* Which operation a request at a location is: get_incident alone reads and fills
\* the cache, acknowledge_incident and resolve_incident alone write.
OpMatches ==
    \A c \in Clients :
        /\ at[c] \in {"cached", "fill"} => op[c] = "get"
        /\ at[c] \in {"commit", "refresh", "invalidate"} => op[c] # "get"

\* The row a request has loaded is an earlier state of the stored one.
SeenIsPast ==
    \A c \in Clients : seen[c] # NoRow =>
        id[c] \in DOMAIN rows /\ EarlierState(seen[c], rows[id[c]])

\* From its commit on the time of a request is stored, from its refresh on it is
\* in the answer.
CommittedIsStored ==
    \A c \in Clients :
        /\ at[c] = "done" => seen[c] # NoRow
        /\ at[c] \in {"refresh", "invalidate", "done"} =>
             /\ op[c] = "acknowledge" => rows[id[c]].acked
             /\ op[c] = "resolve" => rows[id[c]].resolved
        /\ at[c] \in {"invalidate", "done"} =>
             /\ op[c] = "acknowledge" => seen[c].acked
             /\ op[c] = "resolve" => seen[c].resolved

\* What an operation has loaded to change is dated, as rows are.
LoadedIsDated ==
    \A c \in Clients : at[c] = "commit" =>
        /\ seen[c].status = "ACKNOWLEDGED" => seen[c].acked
        /\ seen[c].status = "RESOLVED" => seen[c].resolved

HistoryInv ==
    /\ OpMatches /\ SeenIsPast /\ CacheIsPast /\ StatusIsDated
    /\ CommittedIsStored /\ LoadedIsDated

-----------------------------------------------------------------------------
(* Type correctness.                                                       *)

\* The types hold initially.
LEMMA InitTypeOK == Init => TypeOK
  <1> SUFFICES ASSUME Init PROVE TypeOK
    OBVIOUS
  <1> USE IncidentAssumptions DEF Init
  <1>1. rows \in Seq(Rows) /\ Len(rows) <= MaxRows
    OBVIOUS
  <1>2. job \in [Replicas -> Seq(Keys)]
    OBVIOUS
  <1>3. 1 \in Ids
    BY DEF Ids
  <1>4. QED
    BY <1>1, <1>2, <1>3 DEF TypeOK, Locations, Ops

\* The row an acknowledgement or a resolution writes is a row.
LEMMA WriteType ==
  ASSUME NEW row \in Rows, NEW loaded, NEW o
  PROVE  Write(row, loaded, o) \in Rows
  BY DEF Write, NewStatus, Rows, Statuses

\* A request's write keeps the table and its length.
LEMMA UpdateType ==
  ASSUME TypeOK, NEW c \in Clients, at[c] = "commit",
         rows' = [rows EXCEPT ![id[c]] = Write(@, seen[c], op[c])]
  PROVE  /\ rows' \in Seq(Rows) /\ Len(rows') = Len(rows) /\ DOMAIN rows' = DOMAIN rows
         /\ id[c] \in DOMAIN rows /\ seen[c] \in Rows /\ op[c] \in Ops
         /\ rows'[id[c]] = Write(rows[id[c]], seen[c], op[c])
         /\ \A i \in DOMAIN rows : i # id[c] => rows'[i] = rows[i]
  <1>1. rows \in Seq(Rows) /\ id[c] \in DOMAIN rows /\ seen[c] \in Rows /\ op[c] \in Ops
    BY DEF TypeOK
  <1>2. rows[id[c]] \in Rows
    BY <1>1
  <1>3. Write(rows[id[c]], seen[c], op[c]) \in Rows
    BY <1>2, WriteType
  <1>4. QED
    BY <1>1, <1>3

\* An insert appends a row.
LEMMA InsertType ==
  ASSUME TypeOK, NEW p \in Replicas, inserting[p], Len(rows) < MaxRows,
         rows' = Append(rows, NewRow(p))
  PROVE  /\ rows' \in Seq(Rows) /\ Len(rows') = Len(rows) + 1 /\ Len(rows') <= MaxRows
         /\ DOMAIN rows' = DOMAIN rows \cup {Len(rows) + 1}
         /\ \A i \in DOMAIN rows : rows'[i] = rows[i]
         /\ rows'[Len(rows) + 1] = NewRow(p)
         /\ NewRow(p) \in Rows
  <1>1. job[p] \in Seq(Keys) /\ job[p] # <<>>
    BY DEF TypeOK
  <1>2. NewRow(p) \in Rows
    BY <1>1 DEF NewRow, Rows, Statuses
  <1>3. rows \in Seq(Rows) /\ Len(rows) \in Nat /\ MaxRows \in Nat
    BY IncidentAssumptions DEF TypeOK
  <1>4. QED
    BY <1>2, <1>3

\* Every step of a detection job preserves the types.
LEMMA JobTypeOK ==
  ASSUME TypeOK, NEW p \in Replicas, StartJob(p) \/ JobStep(p) \/ Crash(p)
  PROVE  TypeOK'
  <1>1. job[p] # <<>> => Tail(job[p]) \in Seq(Keys)
    BY DEF TypeOK
  <1>a. ASSUME job[p] # <<>>, NextIncident(p) \/ AbortJob(p) \/ UNCHANGED job
        PROVE  job' \in [Replicas -> Seq(Keys)] /\ \A q \in Replicas : q # p => job'[q] = job[q]
    <2>1. job \in [Replicas -> Seq(Keys)] /\ <<>> \in Seq(Keys)
      BY DEF TypeOK
    <2>2. CASE NextIncident(p)
      BY <1>1, <1>a, <2>1, <2>2 DEF NextIncident
    <2>3. CASE AbortJob(p)
      BY <2>1, <2>3 DEF AbortJob
    <2>4. QED
      BY <1>a, <2>1, <2>2, <2>3
  <1>2. CASE StartJob(p)
    BY <1>2, IncidentAssumptions DEF StartJob, TypeOK, requestVars
  <1>3. CASE SelectOpen(p)
    <2>1. job' \in [Replicas -> Seq(Keys)] /\ \A q \in Replicas : q # p => job'[q] = job[q]
      BY <1>a, <1>3 DEF SelectOpen
    <2>2. inserting' \in [Replicas -> BOOLEAN] /\ \A q \in Replicas : inserting'[q] => job'[q] # <<>>
      BY <1>3, <2>1 DEF SelectOpen, TypeOK
    <2>3. QED
      BY <1>3, <2>1, <2>2 DEF SelectOpen, TypeOK, requestVars
  <1>4. CASE SelectRaises(p)
    BY <1>4 DEF SelectRaises, AbortJob, TypeOK, requestVars
  <1>5. CASE Insert(p)
    <2>1. rows' \in Seq(Rows) /\ Len(rows') <= MaxRows /\ DOMAIN rows \subseteq DOMAIN rows'
      BY <1>5, InsertType DEF Insert, TypeOK
    <2>2. job' \in [Replicas -> Seq(Keys)] /\ \A q \in Replicas : q # p => job'[q] = job[q]
      BY <1>a, <1>5 DEF Insert, TypeOK
    <2>3. QED
      BY <1>5, <2>1, <2>2 DEF Insert, TypeOK, requestVars
  <1>6. CASE Crash(p)
    BY <1>6 DEF Crash, AbortJob, TypeOK, requestVars
  <1>7. QED
    BY <1>2, <1>3, <1>4, <1>5, <1>6 DEF JobStep

\* Every step of a request preserves the types.
LEMMA RequestTypeOK ==
  ASSUME TypeOK, NEW c \in Clients, Request(c) \/ RequestStep(c) \/ Drop(c)
  PROVE  TypeOK'
  <1> USE IncidentAssumptions DEF TypeOK, Locations, jobVars, Goto, EndSession
  <1>1. CASE Request(c)
    BY <1>1 DEF Request
  <1>2. CASE ReadCache(c)
    BY <1>2 DEF ReadCache
  <1>3. CASE Load(c)
    <2>1. rows[id[c]] \in Rows
      BY <1>3 DEF Load
    <2>2. QED
      BY <1>3, <2>1 DEF Load
  <1>4. CASE LoadRaises(c)
    BY <1>4 DEF LoadRaises
  <1>5. CASE Fill(c)
    BY <1>5 DEF Fill
  <1>6. CASE Commit(c)
    <2>1. rows' \in Seq(Rows) /\ Len(rows') <= MaxRows /\ DOMAIN rows' = DOMAIN rows
      BY <1>6, UpdateType DEF Commit
    <2>2. QED
      BY <1>6, <2>1 DEF Commit
  <1>7. CASE CommitRaises(c)
    <2>1. rows' \in Seq(Rows) /\ Len(rows') <= MaxRows /\ DOMAIN rows' = DOMAIN rows
      BY <1>7, UpdateType DEF CommitRaises
    <2>2. QED
      BY <1>7, <2>1 DEF CommitRaises
  <1>8. CASE Refresh(c)
    <2>1. at' \in [Clients -> Locations]
          /\ at[c] = "refresh" /\ \A d \in Clients : d # c => at'[d] = at[d]
      BY <1>8 DEF Refresh
    <2>2. rows[id[c]] \in Rows /\ rows[id[c]] # NoRow
      BY <2>1
    <2>3. seen' \in [Clients -> Rows \cup {NoRow}]
          /\ seen'[c] # NoRow /\ \A d \in Clients : d # c => seen'[d] = seen[d]
      BY <1>8, <2>1, <2>2 DEF Refresh
    <2>4. QED
      BY <1>8, <2>1, <2>3 DEF Refresh
  <1>9. CASE Invalidate(c)
    BY <1>9 DEF Invalidate
  <1>10. CASE Drop(c)
    BY <1>10 DEF Drop
  <1>11. QED
    BY <1>1, <1>2, <1>3, <1>4, <1>5, <1>6, <1>7, <1>8, <1>9, <1>10 DEF RequestStep

\* Every step preserves the types.
LEMMA NextTypeOK == TypeOK /\ [Next]_vars => TypeOK'
  <1> SUFFICES ASSUME TypeOK, [Next]_vars PROVE TypeOK'
    OBVIOUS
  <1>1. ASSUME NEW p \in Replicas, StartJob(p) \/ JobStep(p) \/ Crash(p)
        PROVE  TypeOK'
    BY <1>1, JobTypeOK
  <1>2. ASSUME NEW c \in Clients, Request(c) \/ RequestStep(c) \/ Drop(c)
        PROVE  TypeOK'
    BY <1>2, RequestTypeOK
  <1>3. ASSUME NEW i \in Ids, Expire(i)
        PROVE  TypeOK'
    BY <1>3 DEF Expire, TypeOK, jobVars, requestVars
  <1>4. CASE UNCHANGED vars
    BY <1>4 DEF vars, jobVars, requestVars, TypeOK
  <1>5. QED
    BY <1>1, <1>2, <1>3, <1>4 DEF Next

\* Every reachable state is well typed: a request that is past its select has a row
\* that is in the table, whatever jobs, crashes and other requests do meanwhile.
THEOREM TypeCorrect == Spec => []TypeOK
  <1>1. QED
    BY InitTypeOK, NextTypeOK, PTL DEF Spec
-----------------------------------------------------------------------------
(* How the table grows.                                                    *)

\* A row is an earlier state of itself.
LEMMA EarlierReflexive == \A r : EarlierState(r, r)
  BY DEF EarlierState

\* What was earlier than an earlier state is earlier.
LEMMA EarlierTransitive ==
  \A r, s, t : EarlierState(r, s) /\ EarlierState(s, t) => EarlierState(r, t)
  BY DEF EarlierState

\* No row disappears and each becomes a later state of itself.
RowsAdvance ==
    \A i \in DOMAIN rows : i \in DOMAIN rows' /\ EarlierState(rows[i], rows'[i])

\* A write whose loaded object is an earlier state of the row advances the row, sets
\* its operation's time and leaves it closed and dated.
LEMMA WriteAdvances ==
  ASSUME NEW row \in Rows, NEW loaded \in Rows, NEW o \in {"acknowledge", "resolve"},
         EarlierState(loaded, row)
  PROVE  LET new == Write(row, loaded, o)
         IN  /\ EarlierState(row, new)
             /\ new.status # "OPEN"
             /\ o = "acknowledge" => new.acked
             /\ o = "resolve" => new.resolved
             /\ (row.status = "ACKNOWLEDGED" => row.acked)
                /\ (row.status = "RESOLVED" => row.resolved)
                => (new.status = "ACKNOWLEDGED" => new.acked)
                   /\ (new.status = "RESOLVED" => new.resolved)
  <1> DEFINE new == Write(row, loaded, o)
             st == IF loaded.status = NewStatus(o) THEN row.status ELSE NewStatus(o)
             ac == row.acked \/ o = "acknowledge"
             re == row.resolved \/ o = "resolve"
  <1>1. /\ new.status = st /\ new.acked = ac /\ new.resolved = re
        /\ new.key = row.key /\ new.by = row.by
    BY DEF Write, Rows
  <1>2. NewStatus(o) = IF o = "acknowledge" THEN "ACKNOWLEDGED" ELSE "RESOLVED"
    BY DEF NewStatus
  <1>3. row.acked \in BOOLEAN /\ row.resolved \in BOOLEAN
    BY DEF Rows
  <1>4. st # "OPEN"
    BY <1>2 DEF EarlierState
  <1>5. ac \in BOOLEAN /\ re \in BOOLEAN
    BY <1>3
  <1>6. EarlierState(row, new)
    BY <1>1, <1>3, <1>4 DEF EarlierState
  <1>7. /\ o = "acknowledge" => new.acked
        /\ o = "resolve" => new.resolved
    BY <1>1
  <1>8. (row.status = "ACKNOWLEDGED" => row.acked) /\ (row.status = "RESOLVED" => row.resolved)
        => (new.status = "ACKNOWLEDGED" => new.acked)
           /\ (new.status = "RESOLVED" => new.resolved)
    BY <1>1, <1>2
  <1>9. new.status # "OPEN"
    BY <1>1, <1>4
  <1>10. QED
    BY <1>6, <1>7, <1>8, <1>9

\* The two steps with which a request writes.
Writes(c) ==
    /\ at[c] = "commit"
    /\ rows' = [rows EXCEPT ![id[c]] = Write(@, seen[c], op[c])]

\* A step leaves the table alone, inserts a row or writes one.
LEMMA RowsSteps ==
  ASSUME [Next]_vars
  PROVE  \/ UNCHANGED rows
         \/ \E p \in Replicas : /\ inserting[p] /\ Len(rows) < MaxRows
                                /\ rows' = Append(rows, NewRow(p)) /\ Insert(p)
         \/ \E c \in Clients : Writes(c) /\ (Commit(c) \/ CommitRaises(c))
  <1>1. ASSUME NEW p \in Replicas, StartJob(p) \/ JobStep(p) \/ Crash(p)
        PROVE  \/ UNCHANGED rows
               \/ /\ inserting[p] /\ Len(rows) < MaxRows
                  /\ rows' = Append(rows, NewRow(p)) /\ Insert(p)
    BY <1>1 DEF StartJob, JobStep, SelectOpen, SelectRaises, Insert, Crash
  <1>2. ASSUME NEW c \in Clients, Request(c) \/ RequestStep(c) \/ Drop(c)
        PROVE  UNCHANGED rows \/ (Writes(c) /\ (Commit(c) \/ CommitRaises(c)))
    BY <1>2 DEF Request, RequestStep, ReadCache, Load, LoadRaises, Fill, Commit, CommitRaises,
       Refresh, Invalidate, Drop, Writes, Goto, EndSession
  <1>3. ASSUME NEW i \in Ids, Expire(i)
        PROVE  UNCHANGED rows
    BY <1>3 DEF Expire
  <1>4. CASE UNCHANGED vars
    BY <1>4 DEF vars
  <1>5. QED
    BY <1>1, <1>2, <1>3, <1>4 DEF Next

\* A write advances the table.
LEMMA WriteRows ==
  ASSUME TypeOK, OpMatches, SeenIsPast, NEW c \in Clients, Writes(c)
  PROVE  LET new == Write(rows[id[c]], seen[c], op[c])
         IN  /\ id[c] \in DOMAIN rows /\ DOMAIN rows' = DOMAIN rows
             /\ rows[id[c]] \in Rows /\ seen[c] \in Rows
             /\ op[c] \in {"acknowledge", "resolve"}
             /\ EarlierState(seen[c], rows[id[c]])
             /\ rows'[id[c]] = new
             /\ EarlierState(rows[id[c]], new)
             /\ \A i \in DOMAIN rows : i # id[c] => rows'[i] = rows[i]
  <1>1. at[c] = "commit" /\ rows' = [rows EXCEPT ![id[c]] = Write(@, seen[c], op[c])]
    BY DEF Writes
  <1>2. /\ id[c] \in DOMAIN rows /\ DOMAIN rows' = DOMAIN rows
        /\ seen[c] \in Rows /\ op[c] \in Ops
        /\ rows'[id[c]] = Write(rows[id[c]], seen[c], op[c])
        /\ \A i \in DOMAIN rows : i # id[c] => rows'[i] = rows[i]
    BY <1>1, UpdateType
  <1>3. rows[id[c]] \in Rows
    BY <1>2 DEF TypeOK
  <1>4. op[c] \in {"acknowledge", "resolve"}
    BY <1>1, <1>2 DEF OpMatches, Ops
  <1>5. EarlierState(seen[c], rows[id[c]])
    BY <1>2, IncidentAssumptions DEF SeenIsPast
  <1>6. EarlierState(rows[id[c]], Write(rows[id[c]], seen[c], op[c]))
    BY <1>2, <1>3, <1>4, <1>5, WriteAdvances
  <1>7. QED
    BY <1>2, <1>3, <1>4, <1>5, <1>6

\* Whatever is stale, every step advances the table.
LEMMA NextRowsAdvance ==
  ASSUME TypeOK, OpMatches, SeenIsPast, [Next]_vars
  PROVE  RowsAdvance
  <1>1. CASE UNCHANGED rows
    BY <1>1, EarlierReflexive DEF RowsAdvance
  <1>2. ASSUME NEW p \in Replicas, inserting[p], Len(rows) < MaxRows,
               rows' = Append(rows, NewRow(p))
        PROVE  RowsAdvance
    BY <1>2, InsertType, EarlierReflexive DEF RowsAdvance
  <1>3. ASSUME NEW c \in Clients, Writes(c)
        PROVE  RowsAdvance
    BY <1>3, WriteRows, EarlierReflexive DEF RowsAdvance
  <1>4. QED
    BY <1>1, <1>2, <1>3, RowsSteps
-----------------------------------------------------------------------------
(* What is never undone, and what an answer or a cache entry may be.        *)

\* Earlier states stay earlier states as the table advances.
LEMMA StillEarlier ==
  ASSUME RowsAdvance, NEW i \in DOMAIN rows, NEW r, EarlierState(r, rows[i])
  PROVE  i \in DOMAIN rows' /\ EarlierState(r, rows'[i])
  BY EarlierTransitive DEF RowsAdvance

\* Only these steps of a request change where it is, what it asks or what it has
\* loaded: each with the facts the history invariant needs.
LEMMA OpMatchesNext ==
  ASSUME TypeOK, OpMatches, [Next]_vars
  PROVE  OpMatches'
  <1> USE DEF TypeOK, OpMatches, Goto, EndSession, requestVars
  <1>1. ASSUME NEW p \in Replicas, StartJob(p) \/ JobStep(p) \/ Crash(p)
        PROVE  OpMatches'
    BY <1>1 DEF StartJob, JobStep, SelectOpen, SelectRaises, Insert, Crash
  <1>2. ASSUME NEW c \in Clients, Request(c)
        PROVE  OpMatches'
    BY <1>2 DEF Request
  <1>3. ASSUME NEW c \in Clients, RequestStep(c) \/ Drop(c)
        PROVE  OpMatches'
    BY <1>3 DEF RequestStep, ReadCache, Load, LoadRaises, Fill, Commit, CommitRaises,
       Refresh, Invalidate, Drop
  <1>4. ASSUME NEW i \in Ids, Expire(i)
        PROVE  OpMatches'
    BY <1>4 DEF Expire
  <1>5. CASE UNCHANGED vars
    BY <1>5 DEF vars
  <1>6. QED
    BY <1>1, <1>2, <1>3, <1>4, <1>5 DEF Next

\* What a step makes of the rows loaded: nothing, none for a new request, the cached
\* row for a hit and the stored row for a select or a refresh.
LEMMA SeenSteps ==
  ASSUME TypeOK, [Next]_vars, NEW c \in Clients
  PROVE  \/ seen'[c] = seen[c] /\ id'[c] = id[c]
         \/ seen'[c] = NoRow
         \/ id'[c] = id[c] /\ cache[id[c]] # NoRow /\ seen'[c] = cache[id[c]] /\ UNCHANGED rows
         \/ /\ id'[c] = id[c] /\ id[c] \in DOMAIN rows
            /\ seen'[c] = rows[id[c]] /\ UNCHANGED rows
  <1> DEFINE Goal == \/ seen'[c] = seen[c] /\ id'[c] = id[c]
                     \/ seen'[c] = NoRow
                     \/ /\ id'[c] = id[c] /\ cache[id[c]] # NoRow
                        /\ seen'[c] = cache[id[c]] /\ UNCHANGED rows
                     \/ /\ id'[c] = id[c] /\ id[c] \in DOMAIN rows
                        /\ seen'[c] = rows[id[c]] /\ UNCHANGED rows
  <1> USE DEF requestVars
  <1>1. ASSUME NEW p \in Replicas, StartJob(p) \/ JobStep(p) \/ Crash(p)
        PROVE  Goal
    BY <1>1 DEF StartJob, JobStep, SelectOpen, SelectRaises, Insert, Crash
  <1>2. ASSUME NEW d \in Clients, Request(d)
        PROVE  Goal
    BY <1>2 DEF Request, TypeOK
  <1>3. ASSUME NEW d \in Clients, ReadCache(d)
        PROVE  Goal
    BY <1>3 DEF ReadCache, TypeOK
  <1>4. ASSUME NEW d \in Clients, Load(d)
        PROVE  Goal
    BY <1>4 DEF Load, TypeOK
  <1>5. ASSUME NEW d \in Clients, Refresh(d)
        PROVE  Goal
    <2>1. id[d] \in DOMAIN rows
      BY <1>5 DEF Refresh, Goto, TypeOK
    <2>2. seen' = [seen EXCEPT ![d] = rows[id[d]]] \/ seen' = seen
      BY <1>5 DEF Refresh
    <2>3. id' = id /\ rows' = rows /\ seen \in [Clients -> Rows \cup {NoRow}]
      BY <1>5 DEF Refresh, TypeOK
    <2>4. QED
      BY <2>1, <2>2, <2>3
  <1>6. ASSUME NEW d \in Clients,
               \/ LoadRaises(d) \/ Fill(d) \/ Commit(d) \/ CommitRaises(d)
               \/ Invalidate(d) \/ Drop(d)
        PROVE  Goal
    BY <1>6 DEF LoadRaises, Fill, Commit, CommitRaises, Invalidate, Drop
  <1>7. ASSUME NEW i \in Ids, Expire(i)
        PROVE  Goal
    BY <1>7 DEF Expire
  <1>8. CASE UNCHANGED vars
    BY <1>8 DEF vars
  <1>9. Goal
    BY <1>1, <1>2, <1>3, <1>4, <1>5, <1>6, <1>7, <1>8 DEF Next, RequestStep
  <1>10. QED
    BY <1>9

\* A request never holds a row the table did not have.
LEMMA SeenIsPastNext ==
  ASSUME TypeOK, OpMatches, SeenIsPast, CacheIsPast, [Next]_vars
  PROVE  SeenIsPast'
  <1> SUFFICES ASSUME NEW c \in Clients, seen'[c] # NoRow
               PROVE  id'[c] \in DOMAIN rows' /\ EarlierState(seen'[c], rows'[id'[c]])
    BY DEF SeenIsPast
  <1>1. RowsAdvance
    BY NextRowsAdvance
  <1>2. CASE seen'[c] = seen[c] /\ id'[c] = id[c]
    BY <1>1, <1>2, StillEarlier DEF SeenIsPast
  <1>3. CASE id'[c] = id[c] /\ cache[id[c]] # NoRow /\ seen'[c] = cache[id[c]] /\ UNCHANGED rows
    BY <1>3 DEF CacheIsPast, TypeOK
  <1>4. CASE /\ id'[c] = id[c] /\ id[c] \in DOMAIN rows
             /\ seen'[c] = rows[id[c]] /\ UNCHANGED rows
    BY <1>4, EarlierReflexive
  <1>5. QED
    BY <1>2, <1>3, <1>4, SeenSteps

\* What a step makes of the cache: nothing, an entry less, or a loaded row.
LEMMA CacheSteps ==
  ASSUME TypeOK, [Next]_vars, NEW i \in Ids
  PROVE  \/ cache'[i] = cache[i]
         \/ cache'[i] = NoRow
         \/ \E c \in Clients : /\ at[c] = "fill" /\ id[c] = i /\ seen[c] # NoRow
                               /\ cache'[i] = seen[c] /\ UNCHANGED rows
  <1> DEFINE Goal == \/ cache'[i] = cache[i]
                     \/ cache'[i] = NoRow
                     \/ \E c \in Clients : /\ at[c] = "fill" /\ id[c] = i /\ seen[c] # NoRow
                                           /\ cache'[i] = seen[c] /\ UNCHANGED rows
  <1>1. ASSUME NEW p \in Replicas, StartJob(p) \/ JobStep(p) \/ Crash(p)
        PROVE  Goal
    BY <1>1 DEF StartJob, JobStep, SelectOpen, SelectRaises, Insert, Crash
  <1>2. ASSUME NEW c \in Clients, Fill(c)
        PROVE  Goal
    <2>1. at[c] = "fill" /\ seen[c] # NoRow /\ cache \in [Ids -> Rows \cup {NoRow}]
      BY <1>2 DEF Fill, Goto, EndSession, TypeOK
    <2>2. rows' = rows /\ (cache' = cache \/ cache' = [cache EXCEPT ![id[c]] = seen[c]])
      BY <1>2 DEF Fill
    <2>3. QED
      BY <2>1, <2>2
  <1>3. ASSUME NEW c \in Clients, Invalidate(c)
        PROVE  Goal
    BY <1>3 DEF Invalidate, TypeOK
  <1>4. ASSUME NEW c \in Clients,
               \/ Request(c) \/ ReadCache(c) \/ Load(c) \/ LoadRaises(c) \/ Commit(c)
               \/ CommitRaises(c) \/ Refresh(c) \/ Drop(c)
        PROVE  Goal
    BY <1>4 DEF Request, ReadCache, Load, LoadRaises, Commit, CommitRaises, Refresh, Drop
  <1>5. ASSUME NEW j \in Ids, Expire(j)
        PROVE  Goal
    BY <1>5 DEF Expire, TypeOK
  <1>6. CASE UNCHANGED vars
    BY <1>6 DEF vars
  <1>7. Goal
    BY <1>1, <1>2, <1>3, <1>4, <1>5, <1>6 DEF Next, RequestStep
  <1>8. QED
    BY <1>7

\* Nor does the cache.
LEMMA CacheIsPastNext ==
  ASSUME TypeOK, OpMatches, SeenIsPast, CacheIsPast, [Next]_vars
  PROVE  CacheIsPast'
  <1> SUFFICES ASSUME NEW i \in Ids, cache'[i] # NoRow
               PROVE  i \in DOMAIN rows' /\ EarlierState(cache'[i], rows'[i])
    BY DEF CacheIsPast
  <1>1. RowsAdvance
    BY NextRowsAdvance
  <1>2. CASE cache'[i] = cache[i]
    BY <1>1, <1>2, StillEarlier DEF CacheIsPast
  <1>3. CASE \E c \in Clients : /\ at[c] = "fill" /\ id[c] = i /\ seen[c] # NoRow
                               /\ cache'[i] = seen[c] /\ UNCHANGED rows
    BY <1>3 DEF SeenIsPast
  <1>4. QED
    BY <1>2, <1>3, CacheSteps
\* Every row keeps the time of the operation that gave it its status.
LEMMA StatusIsDatedNext ==
  ASSUME TypeOK, OpMatches, SeenIsPast, StatusIsDated, [Next]_vars
  PROVE  StatusIsDated'
  <1>1. CASE UNCHANGED rows
    BY <1>1 DEF StatusIsDated
  <1>2. ASSUME NEW p \in Replicas, inserting[p], Len(rows) < MaxRows,
               rows' = Append(rows, NewRow(p))
        PROVE  StatusIsDated'
    <2>1. NewRow(p).status = "OPEN" /\ ~NewRow(p).acked /\ ~NewRow(p).resolved
      BY DEF NewRow
    <2>2. QED
      BY <1>2, <2>1, InsertType DEF StatusIsDated
  <1>3. ASSUME NEW c \in Clients, Writes(c)
        PROVE  StatusIsDated'
    <2> DEFINE old == rows[id[c]]
               new == Write(old, seen[c], op[c])
    <2>1. /\ id[c] \in DOMAIN rows /\ DOMAIN rows' = DOMAIN rows
          /\ old \in Rows /\ seen[c] \in Rows
          /\ op[c] \in {"acknowledge", "resolve"}
          /\ EarlierState(seen[c], old)
          /\ rows'[id[c]] = new
          /\ \A i \in DOMAIN rows : i # id[c] => rows'[i] = rows[i]
      BY <1>3, WriteRows
    <2>2. (old.status = "ACKNOWLEDGED" => old.acked) /\ (old.status = "RESOLVED" => old.resolved)
      BY <2>1 DEF StatusIsDated
    <2>3. /\ new.status # "OPEN"
          /\ new.status = "ACKNOWLEDGED" => new.acked
          /\ new.status = "RESOLVED" => new.resolved
      BY <2>1, <2>2, WriteAdvances
    <2> HIDE DEF new
    <2>4. QED
      BY <2>1, <2>3 DEF StatusIsDated
  <1>4. QED
    BY <1>1, <1>2, <1>3, RowsSteps

\* A request is moved by its own steps only.
LEMMA OthersStayPut ==
  ASSUME TypeOK, [Next]_vars, NEW c \in Clients
  PROVE  \/ Request(c) \/ RequestStep(c) \/ Drop(c)
         \/ at'[c] = at[c] /\ op'[c] = op[c] /\ id'[c] = id[c] /\ seen'[c] = seen[c]
  <1> DEFINE Goal == \/ Request(c) \/ RequestStep(c) \/ Drop(c)
                     \/ /\ at'[c] = at[c] /\ op'[c] = op[c]
                        /\ id'[c] = id[c] /\ seen'[c] = seen[c]
  <1> USE DEF requestVars
  <1>1. ASSUME NEW p \in Replicas, StartJob(p) \/ JobStep(p) \/ Crash(p)
        PROVE  Goal
    BY <1>1 DEF StartJob, JobStep, SelectOpen, SelectRaises, Insert, Crash
  <1>2. ASSUME NEW d \in Clients, d # c, Request(d) \/ RequestStep(d) \/ Drop(d)
        PROVE  Goal
    <2> USE DEF TypeOK, Goto, EndSession
    <2>1. CASE Request(d)
      BY <1>2, <2>1 DEF Request
    <2>2. CASE ReadCache(d) \/ Load(d) \/ Refresh(d)
      BY <1>2, <2>2 DEF ReadCache, Load, Refresh
    <2>3. CASE \/ LoadRaises(d) \/ Fill(d) \/ Commit(d) \/ CommitRaises(d)
               \/ Invalidate(d) \/ Drop(d)
      BY <1>2, <2>3 DEF LoadRaises, Fill, Commit, CommitRaises, Invalidate, Drop
    <2>4. QED
      BY <1>2, <2>1, <2>2, <2>3 DEF RequestStep
  <1>3. ASSUME NEW i \in Ids, Expire(i)
        PROVE  Goal
    BY <1>3 DEF Expire
  <1>4. CASE UNCHANGED vars
    BY <1>4 DEF vars
  <1>5. Goal
    BY <1>1, <1>2, <1>3, <1>4 DEF Next
  <1>6. QED
    BY <1>5

\* The time a request has stored stays stored, and its answer shows it.
LEMMA CommittedIsStoredNext ==
  ASSUME TypeOK, OpMatches, SeenIsPast, CommittedIsStored, [Next]_vars
  PROVE  CommittedIsStored'
  <1> DEFINE Stored(c) ==
        /\ at[c] = "done" => seen[c] # NoRow
        /\ at[c] \in {"refresh", "invalidate", "done"} =>
             /\ op[c] = "acknowledge" => rows[id[c]].acked
             /\ op[c] = "resolve" => rows[id[c]].resolved
        /\ at[c] \in {"invalidate", "done"} =>
             /\ op[c] = "acknowledge" => seen[c].acked
             /\ op[c] = "resolve" => seen[c].resolved
  <1> SUFFICES ASSUME NEW c \in Clients PROVE Stored(c)'
    BY DEF CommittedIsStored
  <1>1. Stored(c)
    BY DEF CommittedIsStored
  <1> USE DEF Goto, EndSession
  <1>2. RowsAdvance
    BY NextRowsAdvance
  <1>3. CASE at'[c] = at[c] /\ op'[c] = op[c] /\ id'[c] = id[c] /\ seen'[c] = seen[c]
    <2>1. at[c] \in {"refresh", "invalidate", "done"} => id[c] \in DOMAIN rows
      BY <1>1 DEF TypeOK, SeenIsPast
    <2>2. id[c] \in DOMAIN rows =>
            /\ rows[id[c]].acked => rows'[id[c]].acked
            /\ rows[id[c]].resolved => rows'[id[c]].resolved
      BY <1>2 DEF RowsAdvance, EarlierState
    <2>3. QED
      BY <1>1, <1>3, <2>1, <2>2
  <1>4. CASE Request(c) \/ LoadRaises(c) \/ CommitRaises(c) \/ Drop(c) \/ Load(c)
    <2>1. at'[c] \notin {"refresh", "invalidate", "done"}
      BY <1>4 DEF Request, LoadRaises, CommitRaises, Drop, Load, TypeOK
    <2>2. QED
      BY <2>1
  <1>5. CASE ReadCache(c) \/ Fill(c)
    <2>1. op'[c] = "get" /\ (at'[c] = "done" => seen'[c] # NoRow)
      BY <1>5 DEF ReadCache, Fill, TypeOK, OpMatches
    <2>2. QED
      BY <2>1
  <1>6. CASE Commit(c)
    <2>1. Writes(c) /\ at'[c] = "refresh" /\ op'[c] = op[c] /\ id'[c] = id[c]
      BY <1>6 DEF Commit, Writes, TypeOK
    <2> DEFINE new == Write(rows[id[c]], seen[c], op[c])
    <2>2. /\ rows[id[c]] \in Rows /\ seen[c] \in Rows
          /\ op[c] \in {"acknowledge", "resolve"}
          /\ EarlierState(seen[c], rows[id[c]])
          /\ rows'[id[c]] = new
      BY <2>1, WriteRows
    <2>3. (op[c] = "acknowledge" => new.acked) /\ (op[c] = "resolve" => new.resolved)
      BY <2>2, WriteAdvances
    <2> HIDE DEF new
    <2>4. QED
      BY <2>1, <2>2, <2>3
  <1>7. CASE Refresh(c)
    <2>1. /\ at[c] = "refresh" /\ op'[c] = op[c] /\ id'[c] = id[c] /\ rows' = rows
          /\ at'[c] = "failed" \/ (at'[c] = "invalidate" /\ seen'[c] = rows[id[c]])
      BY <1>7 DEF Refresh, TypeOK
    <2>2. QED
      BY <1>1, <2>1
  <1>8. CASE Invalidate(c)
    <2>1. /\ at[c] = "invalidate" /\ at'[c] \in {"done", "failed"} /\ seen[c] # NoRow
          /\ UNCHANGED <<op, id, seen, rows>>
      BY <1>8 DEF Invalidate, TypeOK
    <2>2. QED
      BY <1>1, <2>1
  <1>9. QED
    BY <1>3, <1>4, <1>5, <1>6, <1>7, <1>8, OthersStayPut DEF RequestStep

\* A select finds a dated row, and nobody else touches what was loaded.
LEMMA LoadedIsDatedNext ==
  ASSUME TypeOK, StatusIsDated, LoadedIsDated, [Next]_vars
  PROVE  LoadedIsDated'
  <1> SUFFICES ASSUME NEW c \in Clients, at'[c] = "commit"
               PROVE  /\ seen'[c].status = "ACKNOWLEDGED" => seen'[c].acked
                      /\ seen'[c].status = "RESOLVED" => seen'[c].resolved
    BY DEF LoadedIsDated
  <1>1. CASE at'[c] = at[c] /\ seen'[c] = seen[c]
    BY <1>1 DEF LoadedIsDated
  <1>2. CASE Load(c)
    BY <1>2 DEF Load, TypeOK, StatusIsDated
  <1>3. ~(\/ Request(c) \/ ReadCache(c) \/ LoadRaises(c) \/ Fill(c) \/ Commit(c)
          \/ CommitRaises(c) \/ Refresh(c) \/ Invalidate(c) \/ Drop(c))
    BY DEF Request, ReadCache, LoadRaises, Fill, Commit, CommitRaises, Refresh, Invalidate,
           Drop, Goto, EndSession, TypeOK
  <1>4. QED
    BY <1>1, <1>2, <1>3, OthersStayPut DEF RequestStep

\* The history invariant holds initially.
LEMMA InitHistory == Init => HistoryInv
  BY DEF Init, HistoryInv, OpMatches, SeenIsPast, CacheIsPast, StatusIsDated, CommittedIsStored,
         LoadedIsDated

\* With the types, every step preserves it.
LEMMA NextHistory == TypeOK /\ HistoryInv /\ [Next]_vars => HistoryInv'
  BY OpMatchesNext, SeenIsPastNext, CacheIsPastNext, StatusIsDatedNext,
     CommittedIsStoredNext, LoadedIsDatedNext DEF HistoryInv

\* In every reachable state what a request has loaded, what it has answered and what
\* Redis keeps are earlier states of the stored rows, and the rows are dated.
THEOREM HistoryHolds == Spec => []HistoryInv
  <1>1. QED
    BY InitTypeOK, NextTypeOK, InitHistory, NextHistory, PTL DEF Spec

\* For any number of replicas, requests and failures: a status stored by
\* acknowledge_incident or resolve_incident has its time beside it, and an OPEN
\* row has neither.
THEOREM StatusesAreDated == Spec => []StatusIsDated
  <1>1. QED
    BY HistoryHolds, PTL DEF HistoryInv

\* A cached incident is a state its row has had, although get_incident fills the
\* cache after its select and an invalidation may have come between (101-102, 150).
THEOREM CacheIsNeverAhead == Spec => []CacheIsPast
  <1>1. QED
    BY HistoryHolds, PTL DEF HistoryInv

\* An answered acknowledgement or resolution is stored, and shown by its answer.
THEOREM AnswersAreStored == Spec => []AnsweredIsStored
  <1>1. HistoryInv => AnsweredIsStored
    BY DEF HistoryInv, CommittedIsStored, AnsweredIsStored
  <1>2. QED
    BY <1>1, HistoryHolds, PTL

\* Concurrent acknowledgements and resolutions undo nothing of each other and reopen
\* nothing, although each writes over a row it read earlier.
THEOREM NothingEverUndone == Spec => NothingIsUndone
  <1>1. ASSUME TypeOK, HistoryInv, [Next]_vars
        PROVE  [\A i \in DOMAIN rows :
                  /\ i \in DOMAIN rows' /\ rows'[i].key = rows[i].key
                  /\ rows[i].acked => rows'[i].acked
                  /\ rows[i].resolved => rows'[i].resolved
                  /\ rows'[i].status = "OPEN" => rows[i].status = "OPEN"]_vars
    <2>1. RowsAdvance
      BY <1>1, NextRowsAdvance DEF HistoryInv
    <2>2. QED
      BY <2>1 DEF RowsAdvance, EarlierState
  <1>2. QED
    BY <1>1, TypeCorrect, HistoryHolds, PTL DEF Spec, NothingIsUndone

-----------------------------------------------------------------------------
(* How many OPEN incidents there may be.                                   *)

\* A write opens nothing: the OPEN rows of a key only become fewer.
LEMMA WriteOpensNothing ==
  ASSUME TypeOK, HistoryInv, NEW c \in Clients, Writes(c)
  PROVE  /\ DOMAIN rows' = DOMAIN rows
         /\ \A i \in DOMAIN rows :
              /\ rows'[i].key = rows[i].key /\ rows'[i].by = rows[i].by
              /\ rows'[i].status = "OPEN" => rows[i].status = "OPEN"
  <1>1. DOMAIN rows' = DOMAIN rows
    BY WriteRows DEF HistoryInv
  <1>2. \A i \in DOMAIN rows : EarlierState(rows[i], rows'[i])
    BY WriteRows, EarlierReflexive DEF HistoryInv
  <1>3. QED
    BY <1>1, <1>2 DEF EarlierState

\* A job between its select and its insert has still no OPEN row of its own: a step
\* that is not its own inserts none for it.
LEMMA NothingOpenNext ==
  ASSUME TypeOK, HistoryInv, NothingOpenWhileInserting, [Next]_vars
  PROVE  NothingOpenWhileInserting'
  <1> SUFFICES ASSUME NEW p \in Replicas, inserting'[p],
                      NEW i \in DOMAIN rows',
                      rows'[i].key = Head(job'[p]), rows'[i].status = "OPEN"
               PROVE  rows'[i].by # p
    BY DEF NothingOpenWhileInserting, OpenRows
  <1>1. \/ inserting[p] /\ job'[p] = job[p]
        \/ /\ OpenRows(Head(job[p])) = {} /\ job'[p] = job[p] /\ UNCHANGED rows
    <2> USE DEF TypeOK, NextIncident, AbortJob
    <2>1. ASSUME NEW q \in Replicas, StartJob(q)
          PROVE  inserting[p] /\ job'[p] = job[p]
      BY <2>1 DEF StartJob
    <2>2. ASSUME NEW q \in Replicas, SelectOpen(q)
          PROVE  \/ inserting[p] /\ job'[p] = job[p]
                 \/ OpenRows(Head(job[p])) = {} /\ job'[p] = job[p] /\ UNCHANGED rows
      BY <2>2 DEF SelectOpen
    <2>3. ASSUME NEW q \in Replicas, SelectRaises(q) \/ Crash(q)
          PROVE  inserting[p] /\ job'[p] = job[p]
      BY <2>3 DEF SelectRaises, Crash
    <2>4. ASSUME NEW q \in Replicas, Insert(q)
          PROVE  inserting[p] /\ job'[p] = job[p]
      BY <2>4 DEF Insert
    <2>5. ASSUME NEW c \in Clients, Request(c) \/ RequestStep(c) \/ Drop(c)
          PROVE  inserting[p] /\ job'[p] = job[p]
      BY <2>5 DEF Request, RequestStep, ReadCache, Load, LoadRaises, Fill, Commit,
         CommitRaises, Refresh, Invalidate, Drop, jobVars
    <2>6. ASSUME NEW j \in Ids, Expire(j)
          PROVE  inserting[p] /\ job'[p] = job[p]
      BY <2>6 DEF Expire, jobVars
    <2>7. CASE UNCHANGED vars
      BY <2>7 DEF vars, jobVars
    <2>8. QED
      BY <2>1, <2>2, <2>3, <2>4, <2>5, <2>6, <2>7 DEF Next, JobStep
  <1>2. CASE /\ OpenRows(Head(job[p])) = {} /\ job'[p] = job[p] /\ UNCHANGED rows
    BY <1>2 DEF OpenRows
  <1>3. ASSUME inserting[p], job'[p] = job[p], i \in DOMAIN rows,
               rows[i].key = rows'[i].key, rows[i].by = rows'[i].by, rows[i].status = "OPEN"
        PROVE  rows'[i].by # p
    BY <1>3 DEF NothingOpenWhileInserting, OpenRows
  <1>4. CASE inserting[p] /\ job'[p] = job[p]
    <2>1. CASE UNCHANGED rows
      BY <1>3, <1>4, <2>1
    <2>2. ASSUME NEW q \in Replicas, inserting[q], Len(rows) < MaxRows,
                 rows' = Append(rows, NewRow(q)), Insert(q)
          PROVE  rows'[i].by # p
      <3>1. ~inserting'[q]
        BY <2>2 DEF Insert, TypeOK
      <3>2. CASE i \in DOMAIN rows
        BY <1>3, <1>4, <2>2, <3>2, InsertType
      <3>3. CASE i = Len(rows) + 1
        <4>1. rows'[i] = NewRow(q)
          BY <2>2, <3>3, InsertType
        <4>2. QED
          BY <3>1, <4>1 DEF NewRow
      <3>4. QED
        BY <2>2, <3>2, <3>3, InsertType
    <2>3. ASSUME NEW c \in Clients, Writes(c)
          PROVE  rows'[i].by # p
      BY <1>3, <1>4, <2>3, WriteOpensNothing
    <2>4. QED
      BY <2>1, <2>2, <2>3, RowsSteps
  <1>5. QED
    BY <1>1, <1>2, <1>4

\* So an insert makes the only OPEN row its replica has for the key.
LEMMA OneOpenNext ==
  ASSUME TypeOK, HistoryInv, OpenInv, [Next]_vars
  PROVE  OneOpenPerReplica'
  <1> SUFFICES ASSUME NEW i \in DOMAIN rows', NEW j \in DOMAIN rows',
                      rows'[i].key = rows'[j].key, rows'[i].by = rows'[j].by,
                      rows'[i].status = "OPEN", rows'[j].status = "OPEN"
               PROVE  i = j
    BY DEF OneOpenPerReplica
  <1> USE DEF OpenInv
  <1>1. CASE UNCHANGED rows
    BY <1>1 DEF OneOpenPerReplica
  <1>2. ASSUME NEW p \in Replicas, inserting[p], Len(rows) < MaxRows,
               rows' = Append(rows, NewRow(p))
        PROVE  i = j
    <2> DEFINE last == Len(rows) + 1
    <2>1. /\ DOMAIN rows' = DOMAIN rows \cup {last}
          /\ \A k \in DOMAIN rows : rows'[k] = rows[k]
          /\ rows'[last] = NewRow(p)
      BY <1>2, InsertType
    <2>2. NewRow(p).key = Head(job[p]) /\ NewRow(p).by = p
      BY DEF NewRow
    <2>3. \A k \in DOMAIN rows :
            rows[k].key = Head(job[p]) /\ rows[k].status = "OPEN" => rows[k].by # p
      BY <1>2 DEF NothingOpenWhileInserting, OpenRows
    <2> HIDE DEF last
    <2>4. CASE i \in DOMAIN rows /\ j \in DOMAIN rows
      BY <2>1, <2>4 DEF OneOpenPerReplica
    <2>5. CASE i = last /\ j \in DOMAIN rows
      BY <2>1, <2>2, <2>3, <2>5
    <2>6. CASE j = last /\ i \in DOMAIN rows
      BY <2>1, <2>2, <2>3, <2>6
    <2>7. QED
      BY <2>1, <2>4, <2>5, <2>6
  <1>3. ASSUME NEW c \in Clients, Writes(c)
        PROVE  i = j
    BY <1>3, WriteOpensNothing DEF OneOpenPerReplica
  <1>4. QED
    BY <1>1, <1>2, <1>3, RowsSteps

LEMMA OpenHolds == Spec => []OpenInv
  <1>1. Init => OpenInv
    BY DEF Init, OpenInv, OneOpenPerReplica, NothingOpenWhileInserting
  <1>2. TypeOK /\ HistoryInv /\ OpenInv /\ [Next]_vars => OpenInv'
    BY NothingOpenNext, OneOpenNext DEF OpenInv
  <1>3. QED
    BY <1>1, <1>2, TypeCorrect, HistoryHolds, PTL DEF Spec

\* The check before the insert (28-39) does achieve this much for any number of
\* replicas, whatever fails: a replica has one OPEN incident of a key at most.
THEOREM OneOpenEach == Spec => []OneOpenPerReplica
  <1>1. QED
    BY OpenHolds, PTL DEF OpenInv

\* "Check if similar open incident already exists" (28) is therefore true of a
\* deployment of one replica; of two it is false.
THEOREM OneReplicaNoDuplicates ==
  ASSUME \A p, q \in Replicas : p = q
  PROVE  Spec => []OneOpenPerKey
  <1>1. TypeOK /\ OneOpenPerReplica => OneOpenPerKey
    <2> SUFFICES ASSUME TypeOK, OneOpenPerReplica,
                        NEW i \in DOMAIN rows, NEW j \in DOMAIN rows,
                        rows[i].key = rows[j].key, rows[i].status = "OPEN",
                        rows[j].status = "OPEN"
                 PROVE  i = j
      BY DEF OneOpenPerKey
    <2>1. rows[i] \in Rows /\ rows[j] \in Rows
      BY DEF TypeOK
    <2>2. rows[i].by = rows[j].by
      BY <2>1 DEF Rows
    <2>3. QED
      BY <2>2 DEF OneOpenPerReplica
  <1>2. QED
    BY <1>1, TypeCorrect, OneOpenEach, PTL
=============================================================================
