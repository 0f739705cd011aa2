------------------------- MODULE IncidentContractProofs -------------------------
(***************************************************************************)
(* IncidentService implements IncidentContract for every value of the      *)
(* constants.  An operation takes effect when it commits, unless the row   *)
(* it has loaded already has the status it sets: then there was nothing    *)
(* for it to change, and it took effect when it loaded that row.           *)
(***************************************************************************)
EXTENDS IncidentServiceProofs

\* How far the contract takes a request to be, and its answer.
Phase(c) ==
    CASE at[c] \in {"cached", "load", "fill"} -> "asked"
      [] at[c] = "commit" -> IF seen[c].status = NewStatus(op[c]) THEN "applied" ELSE "asked"
      [] at[c] \in {"refresh", "invalidate"} -> "applied"
      [] at[c] = "done" -> "answered"
      [] OTHER -> at[c]
AnswerOf(c) == IF at[c] = "done" THEN seen[c] ELSE NoRow

\* A step no promise is about.
LEMMA ContractStutters ==
  ASSUME UNCHANGED <<rows, op, id>>,
         \A d \in Clients : Phase(d)' = Phase(d) /\ AnswerOf(d)' = AnswerOf(d)
  PROVE  UNCHANGED Contract!vars
  BY DEF Contract!vars, Phase, AnswerOf

\* A request that moves leaves the others where they are.
LEMMA OthersKeepPhase ==
  ASSUME NEW d \in Clients, at'[d] = at[d], op'[d] = op[d], seen'[d] = seen[d]
  PROVE  Phase(d)' = Phase(d) /\ AnswerOf(d)' = AnswerOf(d)
  BY DEF Phase, AnswerOf

\* One request enters another phase; the answers are as given.
LEMMA Enters ==
  ASSUME NEW c \in Clients, NEW v, NEW r,
         Phase(c)' = v, AnswerOf(c)' = r,
         \A d \in Clients \ {c} : Phase(d)' = Phase(d) /\ AnswerOf(d)' = AnswerOf(d)
  PROVE  /\ Contract!Enter(c, v)
         /\ [d \in Clients |-> AnswerOf(d)]' = [[d \in Clients |-> AnswerOf(d)] EXCEPT ![c] = r]
  BY DEF Contract!Enter, Phase

-----------------------------------------------------------------------------
(* What an operation does to a row.                                        *)

\* Where the loaded row has another status, a write is the operation.
LEMMA WriteOperates ==
  ASSUME NEW row \in Rows, NEW loaded, NEW o \in {"acknowledge", "resolve"},
         loaded.status # NewStatus(o)
  PROVE  Write(row, loaded, o) = Contract!Operate(row, o)
  BY DEF Write, NewStatus, Contract!Operate, Rows

\* Where it has the status, the row has the time as well and nothing is written.
LEMMA WriteKeeps ==
  ASSUME NEW row \in Rows, NEW loaded \in Rows, NEW o \in {"acknowledge", "resolve"},
         EarlierState(loaded, row), loaded.status = NewStatus(o),
         loaded.status = "ACKNOWLEDGED" => loaded.acked,
         loaded.status = "RESOLVED" => loaded.resolved
  PROVE  Write(row, loaded, o) = row
  BY DEF Write, NewStatus, EarlierState, Rows

\* On such a row the operation changes nothing.
LEMMA OperateKeeps ==
  ASSUME NEW row \in Rows, NEW o \in {"acknowledge", "resolve"},
         row.status = NewStatus(o),
         row.status = "ACKNOWLEDGED" => row.acked,
         row.status = "RESOLVED" => row.resolved
  PROVE  Contract!Operate(row, o) = row
  BY DEF NewStatus, Contract!Operate, Rows

-----------------------------------------------------------------------------
(* The steps of a request.                                                 *)

\* A new request asks.
LEMMA RequestAsks ==
  ASSUME TypeOK, NEW c \in Clients, Request(c)
  PROVE  Contract!Ask(c)
  <1>1. Phase(c) \in {"idle", "answered", "failed"}
    BY DEF Request, Phase
  <1>2. Phase(c)' = "asked" /\ AnswerOf(c)' = NoRow
    BY DEF Request, Phase, AnswerOf, TypeOK
  <1>3. \A d \in Clients \ {c} : Phase(d)' = Phase(d) /\ AnswerOf(d)' = AnswerOf(d)
    BY OthersKeepPhase DEF Request, TypeOK
  <1>4. \E o \in Contract!Ops, i \in Ids : op' = [op EXCEPT ![c] = o] /\ id' = [id EXCEPT ![c] = i]
    BY DEF Request, Contract!Ops, Ops
  <1>5. UNCHANGED rows
    BY DEF Request
  <1>6. QED
    BY <1>1, <1>2, <1>3, <1>4, <1>5, Enters DEF Contract!Ask, Phase, AnswerOf

\* An answer is a state the row has had, with what the operation did.
LEMMA Answers ==
  ASSUME TypeOK, NEW c \in Clients, NEW r \in Rows, UNCHANGED <<rows, op, id>>,
         Phase(c) = IF op[c] = "get" THEN "asked" ELSE "applied",
         id[c] \in DOMAIN rows, EarlierState(r, rows[id[c]]),
         op[c] = "acknowledge" => r.acked, op[c] = "resolve" => r.resolved,
         at'[c] = "done", seen'[c] = r,
         \A d \in Clients \ {c} : at'[d] = at[d] /\ seen'[d] = seen[d]
  PROVE  Contract!Answer(c)
  <1>1. Phase(c)' = "answered" /\ AnswerOf(c)' = r
    BY DEF Phase, AnswerOf
  <1>2. \A d \in Clients \ {c} : Phase(d)' = Phase(d) /\ AnswerOf(d)' = AnswerOf(d)
    BY OthersKeepPhase
  <1>3. r \in Contract!Incidents
    BY DEF Rows, Statuses, Contract!Incidents
  <1>4. Contract!HasBeen(rows[id[c]], r) /\ Contract!Shows(r, op[c])
    BY DEF EarlierState, Contract!HasBeen, Contract!Shows
  <1>5. Contract!Enter(c, "answered")
    BY <1>1, <1>2, Enters
  <1>6. [d \in Clients |-> AnswerOf(d)]' = [[d \in Clients |-> AnswerOf(d)] EXCEPT ![c] = r]
    BY <1>1, <1>2, Enters
  <1>7. \E old \in Contract!Incidents :
          /\ Contract!HasBeen(rows[id[c]], old) /\ Contract!Shows(old, op[c])
          /\ [d \in Clients |-> AnswerOf(d)]' =
               [[d \in Clients |-> AnswerOf(d)] EXCEPT ![c] = old]
    BY <1>3, <1>4, <1>6, Zenon
  <1>8. [d \in Clients |-> Phase(d)][c] = IF op[c] = "get" THEN "asked" ELSE "applied"
    OBVIOUS
  <1>9. QED
    BY <1>5, <1>7, <1>8, Zenon DEF Contract!Answer, Phase, AnswerOf

\* A request that fails may have taken effect.
LEMMA Fails ==
  ASSUME TypeOK, NEW c \in Clients, UNCHANGED <<op, id>>,
         at[c] \notin {"idle", "done", "failed"}, at'[c] = "failed",
         \A d \in Clients \ {c} : at'[d] = at[d] /\ seen'[d] = seen[d],
         UNCHANGED rows \/ Contract!TakesEffect(c)
  PROVE  Contract!Fail(c)
  <1>1. Phase(c) \in {"asked", "applied"}
    BY DEF Phase, TypeOK, Locations
  <1>2. Phase(c)' = "failed" /\ AnswerOf(c)' = NoRow /\ AnswerOf(c) = NoRow
    BY DEF Phase, AnswerOf
  <1>3. \A d \in Clients \ {c} : Phase(d)' = Phase(d) /\ AnswerOf(d)' = AnswerOf(d)
    BY OthersKeepPhase
  <1>4. \A d \in Clients : AnswerOf(d)' = AnswerOf(d)
    BY <1>2, <1>3
  <1>5. QED
    BY <1>1, <1>2, <1>3, <1>4, Enters DEF Contract!Fail, Phase, AnswerOf

\* What a commit writes is the operation, or nothing because it has been applied.
LEMMA WritesTakeEffect ==
  ASSUME TypeOK, HistoryInv, NEW c \in Clients, Writes(c)
  PROVE  \/ Phase(c) = "asked" /\ Contract!TakesEffect(c)
         \/ Phase(c) = "applied" /\ UNCHANGED rows
  <1>1. /\ id[c] \in DOMAIN rows /\ rows[id[c]] \in Rows /\ seen[c] \in Rows
        /\ op[c] \in {"acknowledge", "resolve"}
        /\ EarlierState(seen[c], rows[id[c]])
    BY WriteRows DEF HistoryInv
  <1>2. /\ at[c] = "commit"
        /\ rows' = [rows EXCEPT ![id[c]] = Write(rows[id[c]], seen[c], op[c])]
    BY DEF Writes
  <1>3. CASE seen[c].status # NewStatus(op[c])
    <2>1. rows' = [rows EXCEPT ![id[c]] = Contract!Operate(rows[id[c]], op[c])]
      BY <1>1, <1>2, <1>3, WriteOperates
    <2>2. Phase(c) = "asked"
      BY <1>2, <1>3 DEF Phase
    <2>3. QED
      BY <1>1, <2>1, <2>2 DEF Contract!TakesEffect, Phase
  <1>4. CASE seen[c].status = NewStatus(op[c])
    <2>1. Write(rows[id[c]], seen[c], op[c]) = rows[id[c]]
      BY <1>1, <1>2, <1>4, WriteKeeps DEF HistoryInv, LoadedIsDated
    <2>2. rows' = rows
      BY <1>1, <1>2, <2>1 DEF TypeOK
    <2>3. QED
      BY <1>2, <1>4, <2>2 DEF Phase
  <1>5. QED
    BY <1>3, <1>4

\* What the steps of one request leave alone.
LEMMA OthersAlone ==
  ASSUME TypeOK, NEW c \in Clients, RequestStep(c) \/ Drop(c)
  PROVE  /\ UNCHANGED <<op, id>>
         /\ \A d \in Clients \ {c} : at'[d] = at[d] /\ seen'[d] = seen[d]
  <1> USE DEF Goto, EndSession, TypeOK
  <1>1. CASE ReadCache(c) \/ Load(c) \/ Refresh(c)
    BY <1>1 DEF ReadCache, Load, Refresh
  <1>2. CASE \/ LoadRaises(c) \/ Fill(c) \/ Commit(c) \/ CommitRaises(c)
             \/ Invalidate(c) \/ Drop(c)
    BY <1>2 DEF LoadRaises, Fill, Commit, CommitRaises, Invalidate, Drop
  <1>3. QED
    BY <1>1, <1>2 DEF RequestStep

\* A step that moves a request within its phase.
LEMMA SamePhase ==
  ASSUME NEW c \in Clients, UNCHANGED <<rows, op, id>>,
         \A d \in Clients \ {c} : at'[d] = at[d] /\ seen'[d] = seen[d],
         Phase(c)' = Phase(c), at[c] # "done", at'[c] # "done"
  PROVE  UNCHANGED Contract!vars
  <1>1. \A d \in Clients : Phase(d)' = Phase(d) /\ AnswerOf(d)' = AnswerOf(d)
    BY OthersKeepPhase DEF AnswerOf
  <1>2. QED
    BY <1>1, ContractStutters

\* An operation is applied.
LEMMA Applies ==
  ASSUME NEW c \in Clients, UNCHANGED <<op, id>>, Contract!TakesEffect(c),
         \A d \in Clients \ {c} : at'[d] = at[d] /\ seen'[d] = seen[d],
         Phase(c)' = "applied", at[c] # "done", at'[c] # "done"
  PROVE  Contract!Apply(c)
  <1>1. \A d \in Clients \ {c} : Phase(d)' = Phase(d) /\ AnswerOf(d)' = AnswerOf(d)
    BY OthersKeepPhase
  <1>2. \A d \in Clients : AnswerOf(d)' = AnswerOf(d)
    BY <1>1 DEF AnswerOf
  <1>3. QED
    BY <1>1, <1>2, Enters DEF Contract!Apply, Phase, AnswerOf

LEMMA RequestKeepsContract ==
  ASSUME TypeOK, HistoryInv, NEW c \in Clients, RequestStep(c) \/ Drop(c)
  PROVE  \/ Contract!Apply(c) \/ Contract!Answer(c) \/ Contract!Fail(c)
         \/ UNCHANGED Contract!vars
  <1>0. /\ UNCHANGED <<op, id>>
        /\ \A d \in Clients \ {c} : at'[d] = at[d] /\ seen'[d] = seen[d]
    BY OthersAlone
  <1>1. CASE ReadCache(c)
    <2>1. at[c] = "cached" /\ op[c] = "get" /\ UNCHANGED rows
      BY <1>1 DEF ReadCache, Goto, HistoryInv, OpMatches
    <2>2. CASE at'[c] = "done" /\ cache[id[c]] # NoRow /\ seen'[c] = cache[id[c]]
      <3>1. PICK r : r = cache[id[c]]
        OBVIOUS
      <3>2. r \in Rows /\ id[c] \in DOMAIN rows /\ EarlierState(r, rows[id[c]])
        BY <2>2, <3>1 DEF TypeOK, HistoryInv, CacheIsPast
      <3>3. Phase(c) = "asked"
        BY <2>1 DEF Phase
      <3>4. QED
        BY <1>0, <2>1, <2>2, <3>1, <3>2, <3>3, Answers
    <2>3. CASE at'[c] = "load"
      BY <1>0, <2>1, <2>3, SamePhase DEF Phase
    <2>4. QED
      BY <1>1, <2>2, <2>3 DEF ReadCache, Goto, TypeOK
  <1>2. CASE Load(c)
    <2>1. /\ at[c] = "load" /\ id[c] \in DOMAIN rows /\ UNCHANGED rows
          /\ seen'[c] = rows[id[c]]
          /\ at'[c] = IF op[c] = "get" THEN "fill" ELSE "commit"
      BY <1>2 DEF Load, Goto, TypeOK
    <2>2. CASE op[c] = "get" \/ rows[id[c]].status # NewStatus(op[c])
      <3>1. Phase(c) = "asked" /\ Phase(c)' = "asked"
        BY <1>0, <2>1, <2>2 DEF Phase
      <3>2. QED
        BY <1>0, <2>1, <3>1, SamePhase
    <2>3. CASE op[c] # "get" /\ rows[id[c]].status = NewStatus(op[c])
      <3>1. rows[id[c]] \in Rows /\ op[c] \in {"acknowledge", "resolve"}
        BY <2>1, <2>3 DEF TypeOK, Ops
      <3>2. Contract!Operate(rows[id[c]], op[c]) = rows[id[c]]
        BY <2>1, <2>3, <3>1, OperateKeeps DEF HistoryInv, StatusIsDated
      <3>3. rows' = [rows EXCEPT ![id[c]] = Contract!Operate(rows[id[c]], op[c])]
        BY <2>1, <3>2 DEF TypeOK
      <3>4. Phase(c) = "asked" /\ Phase(c)' = "applied"
        BY <1>0, <2>1, <2>3 DEF Phase
      <3>5. Contract!TakesEffect(c)
        BY <2>1, <2>3, <3>3, <3>4 DEF Contract!TakesEffect, Phase
      <3>6. QED
        BY <1>0, <2>1, <3>4, <3>5, Applies
    <2>4. QED
      BY <2>2, <2>3
  <1>3. CASE Fill(c)
    <2>1. at[c] = "fill" /\ op[c] = "get" /\ UNCHANGED <<rows, seen>>
      BY <1>3 DEF Fill, Goto, EndSession, HistoryInv, OpMatches
    <2>2. CASE at'[c] = "done"
      <3>1. PICK r : r = seen[c]
        OBVIOUS
      <3>2. r \in Rows /\ id[c] \in DOMAIN rows /\ EarlierState(r, rows[id[c]])
        BY <2>1, <3>1 DEF TypeOK, HistoryInv, SeenIsPast
      <3>3. Phase(c) = "asked"
        BY <2>1 DEF Phase
      <3>4. QED
        BY <1>0, <2>1, <2>2, <3>1, <3>2, <3>3, Answers
    <2>3. CASE at'[c] = "failed"
      BY <1>0, <2>1, <2>3, Fails
    <2>4. QED
      BY <1>3, <2>2, <2>3 DEF Fill, Goto, EndSession, TypeOK
  <1>4. CASE Commit(c)
    <2>1. Writes(c) /\ at[c] = "commit" /\ at'[c] = "refresh"
      BY <1>4 DEF Commit, Writes, Goto, TypeOK
    <2>2. Phase(c)' = "applied"
      BY <2>1 DEF Phase
    <2>3. CASE Contract!TakesEffect(c)
      BY <1>0, <2>1, <2>2, <2>3, Applies
    <2>4. CASE Phase(c) = "applied" /\ UNCHANGED rows
      BY <1>0, <2>1, <2>2, <2>4, SamePhase
    <2>5. QED
      BY <2>1, <2>3, <2>4, WritesTakeEffect
  <1>5. CASE CommitRaises(c)
    <2>1. at[c] = "commit" /\ at'[c] = "failed" /\ (UNCHANGED rows \/ Writes(c))
      BY <1>5 DEF CommitRaises, Writes, Goto, TypeOK
    <2>2. UNCHANGED rows \/ Contract!TakesEffect(c)
      BY <2>1, WritesTakeEffect
    <2>3. QED
      BY <1>0, <2>1, <2>2, Fails
  <1>6. CASE Refresh(c)
    <2>1. at[c] = "refresh" /\ UNCHANGED rows /\ at'[c] \in {"invalidate", "failed"}
      BY <1>6 DEF Refresh, Goto, TypeOK
    <2>2. CASE at'[c] = "invalidate"
      <3>1. Phase(c) = "applied" /\ Phase(c)' = "applied"
        BY <2>1, <2>2 DEF Phase
      <3>2. QED
        BY <1>0, <2>1, <3>1, SamePhase
    <2>3. CASE at'[c] = "failed"
      BY <1>0, <2>1, <2>3, Fails
    <2>4. QED
      BY <2>1, <2>2, <2>3
  <1>7. CASE Invalidate(c)
    <2>1. at[c] = "invalidate" /\ op[c] # "get" /\ UNCHANGED <<rows, seen>>
      BY <1>7 DEF Invalidate, Goto, EndSession, HistoryInv, OpMatches
    <2>2. CASE at'[c] = "done"
      <3>1. PICK r : r = seen[c]
        OBVIOUS
      <3>2. r \in Rows /\ id[c] \in DOMAIN rows /\ EarlierState(r, rows[id[c]])
        BY <2>1, <3>1 DEF TypeOK, HistoryInv, SeenIsPast
      <3>3. Phase(c) = "applied"
        BY <2>1 DEF Phase
      <3>4. (op[c] = "acknowledge" => r.acked) /\ (op[c] = "resolve" => r.resolved)
        BY <2>1, <3>1 DEF HistoryInv, CommittedIsStored
      <3>5. QED
        BY <1>0, <2>1, <2>2, <3>1, <3>2, <3>3, <3>4, Answers
    <2>3. CASE at'[c] = "failed"
      BY <1>0, <2>1, <2>3, Fails
    <2>4. QED
      BY <1>7, <2>2, <2>3 DEF Invalidate, Goto, EndSession, TypeOK
  <1>8. CASE LoadRaises(c) \/ Drop(c)
    BY <1>0, <1>8, Fails DEF LoadRaises, Drop, Goto, TypeOK
  <1>9. QED
    BY <1>1, <1>2, <1>3, <1>4, <1>5, <1>6, <1>7, <1>8 DEF RequestStep

-----------------------------------------------------------------------------
(* The jobs, and the theorem.                                              *)

\* A job inserts what its replica has not open, and is not seen otherwise.
LEMMA JobKeepsContract ==
  ASSUME TypeOK, OpenInv, NEW p \in Replicas, StartJob(p) \/ JobStep(p) \/ Crash(p)
  PROVE  (\E k \in Keys : Contract!Create(p, k)) \/ UNCHANGED Contract!vars
  <1>1. UNCHANGED <<at, op, id, seen>>
    BY DEF StartJob, JobStep, SelectOpen, SelectRaises, Insert, Crash, requestVars
  <1>2. \A d \in Clients : Phase(d)' = Phase(d) /\ AnswerOf(d)' = AnswerOf(d)
    BY <1>1, OthersKeepPhase
  <1>3. CASE UNCHANGED rows
    BY <1>1, <1>2, <1>3, ContractStutters
  <1>4. CASE inserting[p] /\ rows' = Append(rows, NewRow(p))
    <2>1. PICK k \in Keys : k = Head(job[p])
      BY <1>4 DEF TypeOK
    <2>2. \A i \in DOMAIN rows : rows[i].key = k /\ rows[i].by = p => rows[i].status # "OPEN"
      BY <1>4, <2>1 DEF OpenInv, NothingOpenWhileInserting, OpenRows
    <2>3. rows' = Append(rows, [key |-> k, status |-> "OPEN", acked |-> FALSE,
                                resolved |-> FALSE, by |-> p])
      BY <1>4, <2>1 DEF NewRow
    <2>4. Contract!Create(p, k)
      BY <1>1, <1>2, <2>2, <2>3 DEF Contract!Create, Phase, AnswerOf
    <2>5. QED
      BY <2>4
  <1>5. QED
    BY <1>3, <1>4 DEF StartJob, JobStep, SelectOpen, SelectRaises, Insert, Crash

\* Three transactions and a cache between them, and still every acknowledgement and
\* every resolution takes effect in one step, for any replicas, requests and faults
\* (incident_service.py:84-181).
THEOREM ServiceKeepsContract == Spec => RefinesContract
  <1>1. Init => Contract!Init
    BY DEF Init, Contract!Init
  <1>2. TypeOK /\ HistoryInv /\ OpenInv /\ [Next]_vars => [Contract!Next]_(Contract!vars)
    <2> SUFFICES ASSUME TypeOK, HistoryInv, OpenInv, [Next]_vars
                 PROVE  [Contract!Next]_(Contract!vars)
      OBVIOUS
    <2>1. ASSUME NEW p \in Replicas, StartJob(p) \/ JobStep(p) \/ Crash(p)
          PROVE  [Contract!Next]_(Contract!vars)
      BY <2>1, JobKeepsContract DEF Contract!Next
    <2>2. ASSUME NEW c \in Clients, Request(c)
          PROVE  [Contract!Next]_(Contract!vars)
      BY <2>2, RequestAsks DEF Contract!Next
    <2>3. ASSUME NEW c \in Clients, RequestStep(c) \/ Drop(c)
          PROVE  [Contract!Next]_(Contract!vars)
      BY <2>3, RequestKeepsContract DEF Contract!Next
    <2>4. CASE (\E i \in Ids : Expire(i)) \/ UNCHANGED vars
      <3>1. UNCHANGED <<rows, at, op, id, seen>>
        BY <2>4 DEF Expire, vars, requestVars
      <3>2. QED
        BY <3>1, ContractStutters, OthersKeepPhase
    <2>5. QED
      BY <2>1, <2>2, <2>3, <2>4 DEF Next
  <1>3. QED
    BY <1>1, <1>2, TypeCorrect, HistoryHolds, OpenHolds, PTL
       DEF Spec, RefinesContract, Contract!Spec
=============================================================================
