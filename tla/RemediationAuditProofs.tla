------------------------- MODULE RemediationAuditProofs -------------------------
(***************************************************************************)
(* Theorems of RemediationService about what a call leaves behind: its     *)
(* rows, its changes of the cluster and its lock key.                      *)
(***************************************************************************)
EXTENDS RemediationServiceProofs

\* A call before it has a request has done nothing.
IdleIsFresh ==
    \A c \in Calls : pc[c] = "idle" =>
        req[c] = NoRequest /\ rows[c] = <<>> /\ applied[c] = 0

\* A status is what the way to the await tells.
StatusAtAwait ==
    \A c \in Calls :
        /\ pc[c] \in {"idle", "proposed", "acquiring"} => status[c] = "PENDING"
        /\ pc[c] \in {"refused", "failing", "unwinding"} => status[c] = "FAILED"
        /\ pc[c] = "succeeded" => status[c] = "SUCCESS"
        /\ pc[c] \in {"finished", "releasing", "returned"} => status[c] \in {"SUCCESS", "FAILED"}
        /\ status[c] = "SUCCESS" => req[c].dry_run \/ applied[c] > 0

\* The outcome is the last row from the final persist on.
OutcomeIsLast ==
    \A c \in Calls : pc[c] \in {"releasing", "returned"} =>
        rows[c] # <<>> /\ Last(rows[c]) = status[c]

\* Changes of the cluster are attempts, and no dry run makes any.
ChangesAreAttempts ==
    \A c \in Calls :
        /\ applied[c] <= attempts[c]
        /\ applied[c] > 0 => req[c] # NoRequest /\ ~req[c].dry_run

\* A call has a row before it acts.
RowBeforeAct == \A c \in Calls : pc[c] = "acting" => rows[c] # <<>>

AuditInv ==
    /\ IdleIsFresh /\ StatusAtAwait /\ OutcomeIsLast /\ ChangesAreAttempts
    /\ SuccessRowsAreTrue /\ RowBeforeAct /\ ChangeIsOnRecord

-----------------------------------------------------------------------------
(* What an append does to the rows of a call.                              *)

\* A persist appends the status, since the id is never set.
LEMMA PersistAppends ==
  ASSUME TypeOK, NEW c \in Calls, WriteRow(c, status[c])
  PROVE  /\ rows' = [rows EXCEPT ![c] = Append(@, status[c])]
         /\ UNCHANGED id
  BY DEF TypeOK, WriteRow, IdAfterAdd

LEMMA AppendedRows ==
  ASSUME NEW s \in Seq(Statuses), NEW x \in Statuses
  PROVE  /\ Append(s, x) # <<>> /\ Last(Append(s, x)) = x
         /\ ToSet(Append(s, x)) = ToSet(s) \cup {x}
  <1> DEFINE t == Append(s, x)
  <1>1. /\ t \in Seq(Statuses) /\ Len(t) = Len(s) + 1 /\ Len(s) \in Nat
        /\ t[Len(t)] = x /\ \A i \in 1 .. Len(s) : t[i] = s[i]
        /\ DOMAIN t = 1 .. Len(t) /\ DOMAIN s = 1 .. Len(s)
    OBVIOUS
  <1> HIDE DEF t
  <1>2. t # <<>> /\ Last(t) = x
    BY <1>1 DEF Last
  <1>3. ToSet(t) = ToSet(s) \cup {x}
    BY <1>1 DEF ToSet
  <1>4. QED
    BY <1>2, <1>3 DEF t

-----------------------------------------------------------------------------
(* AuditInv holds of every call; one step moves one call, but for a crash. *)

\* AuditInv of one call, so that a step is looked at where it acts.
Audit(c) ==
    /\ pc[c] = "idle" => req[c] = NoRequest /\ rows[c] = <<>> /\ applied[c] = 0
    /\ pc[c] \in {"idle", "proposed", "acquiring"} => status[c] = "PENDING"
    /\ pc[c] \in {"refused", "failing", "unwinding"} => status[c] = "FAILED"
    /\ pc[c] = "succeeded" => status[c] = "SUCCESS"
    /\ pc[c] \in {"finished", "releasing", "returned"} => status[c] \in {"SUCCESS", "FAILED"}
    /\ status[c] = "SUCCESS" => req[c].dry_run \/ applied[c] > 0
    /\ pc[c] \in {"releasing", "returned"} => rows[c] # <<>> /\ Last(rows[c]) = status[c]
    /\ applied[c] <= attempts[c]
    /\ applied[c] > 0 => req[c] # NoRequest /\ ~req[c].dry_run
    /\ "SUCCESS" \in ToSet(rows[c]) => req[c].dry_run \/ applied[c] > 0
    /\ pc[c] = "acting" => rows[c] # <<>>
    /\ applied[c] > 0 => rows[c] # <<>>

LEMMA AuditOfEach == AuditInv <=> \A c \in Calls : Audit(c)
  BY DEF AuditInv, Audit, IdleIsFresh, StatusAtAwait, OutcomeIsLast, ChangesAreAttempts,
         SuccessRowsAreTrue, RowBeforeAct, ChangeIsOnRecord

\* The rows a persist leaves are honest if the status is.
LEMMA PersistAudit ==
  ASSUME TypeOK, NEW c \in Calls, Audit(c),
         UNCHANGED <<rows, id>> \/ WriteRow(c, status[c])
  PROVE  /\ rows' \in [Calls -> Seq(Statuses)]
         /\ \A d \in Calls : d # c => rows'[d] = rows[d]
         /\ "SUCCESS" \in ToSet(rows'[c]) => req[c].dry_run \/ applied[c] > 0
         /\ WriteRow(c, status[c]) => rows'[c] # <<>> /\ Last(rows'[c]) = status[c]
         /\ rows[c] # <<>> => rows'[c] # <<>>
  <1>1. rows[c] \in Seq(Statuses) /\ status[c] \in Statuses /\ rows \in [Calls -> Seq(Statuses)]
    BY DEF TypeOK
  <1>2. CASE WriteRow(c, status[c])
    <2>1. rows' = [rows EXCEPT ![c] = Append(rows[c], status[c])]
      BY <1>2, PersistAppends
    <2>2. Append(rows[c], status[c]) \in Seq(Statuses)
      BY <1>1
    <2>3. rows'[c] = Append(rows[c], status[c]) /\ \A d \in Calls : d # c => rows'[d] = rows[d]
      BY <1>1, <2>1
    <2>4. rows' \in [Calls -> Seq(Statuses)]
      BY <1>1, <2>1, <2>2
    <2>5. /\ rows'[c] # <<>> /\ Last(rows'[c]) = status[c]
          /\ ToSet(rows'[c]) = ToSet(rows[c]) \cup {status[c]}
      BY <1>1, <2>3, AppendedRows
    <2>6. QED
      BY <2>3, <2>4, <2>5 DEF Audit
  <1>3. CASE UNCHANGED <<rows, id>> /\ ~WriteRow(c, status[c])
    BY <1>1, <1>3 DEF Audit
  <1>4. QED
    BY <1>2, <1>3

LEMMA StepAudit ==
  ASSUME TypeOK, NEW c \in Calls, Audit(c), Step(c)
  PROVE  Audit(c)' /\ \A d \in Calls : d # c /\ Audit(d) => Audit(d)'
  <1> DEFINE Others == \A d \in Calls : d # c =>
                         /\ pc'[d] = pc[d] /\ req'[d] = req[d] /\ status'[d] = status[d]
                         /\ rows'[d] = rows[d] /\ applied'[d] = applied[d]
                         /\ attempts'[d] = attempts[d]
  <1>1. ASSUME Others PROVE \A d \in Calls : d # c /\ Audit(d) => Audit(d)'
    BY <1>1 DEF Audit
  <1>2. /\ pc \in [Calls -> Locations] /\ status \in [Calls -> Statuses]
        /\ attempts \in [Calls -> 0 .. MaxRetries] /\ applied \in [Calls -> Nat]
        /\ MaxRetries \in Nat
    BY ServiceAssumptions DEF TypeOK
  <1>3. CASE StartExecution(c) \/ LockTimeout(c) \/ LockError(c) \/ TryLock(c)
    <2>1. /\ UNCHANGED <<req, rows, applied, attempts>>
          /\ \A d \in Calls : d # c => pc'[d] = pc[d] /\ status'[d] = status[d]
      BY <1>2, <1>3 DEF StartExecution, LockTimeout, LockError, TryLock, Refuse, Goto,
                        SetStatus, worldVars
    <2>2. \/ pc[c] = "proposed" /\ pc'[c] \in {"raised", "acquiring"} /\ status'[c] = status[c]
          \/ pc[c] = "acquiring" /\ pc'[c] = "locked" /\ status'[c] = "IN_PROGRESS"
          \/ pc[c] = "acquiring" /\ pc'[c] = "refused" /\ status'[c] = "FAILED"
      BY <1>2, <1>3 DEF StartExecution, LockTimeout, LockError, TryLock, Refuse, Goto,
                        SetStatus, StartStatus
    <2>3. Audit(c)'
      BY <2>1, <2>2 DEF Audit
    <2>4. QED
      BY <1>1, <2>1, <2>3
  <1>4. CASE PersistRefusal(c) \/ PersistStart(c) \/ PersistFinal(c) \/ PersistFailure(c)
    <2>1. /\ UNCHANGED <<req, applied, attempts>>
          /\ \A d \in Calls : d # c => pc'[d] = pc[d] /\ status'[d] = status[d]
      BY <1>2, <1>4 DEF PersistRefusal, PersistStart, PersistFinal, PersistFailure, Goto,
                        SetStatus, worldVars
    <2>2. UNCHANGED <<rows, id>> \/ WriteRow(c, status[c])
      BY <1>4 DEF PersistRefusal, PersistStart, PersistFinal, PersistFailure, PersistOk,
                  PersistError
    <2>3. /\ \A d \in Calls : d # c => rows'[d] = rows[d]
          /\ "SUCCESS" \in ToSet(rows'[c]) => req[c].dry_run \/ applied[c] > 0
          /\ WriteRow(c, status[c]) => rows'[c] # <<>> /\ Last(rows'[c]) = status[c]
          /\ rows[c] # <<>> => rows'[c] # <<>>
      BY <2>2, PersistAudit
    <2>4. \/ pc[c] = "refused" /\ pc'[c] = "raised" /\ status'[c] = status[c]
          \/ pc[c] = "refused" /\ pc'[c] = "returned" /\ status'[c] = status[c]
             /\ WriteRow(c, status[c])
          \/ pc[c] = "locked" /\ pc'[c] = "acting" /\ status'[c] = status[c]
             /\ WriteRow(c, status[c])
          \/ pc[c] \in {"locked", "finished"} /\ pc'[c] = "failing" /\ status'[c] = "FAILED"
          \/ pc[c] = "finished" /\ pc'[c] = "releasing" /\ status'[c] = status[c]
             /\ WriteRow(c, status[c])
          \/ pc[c] = "failing" /\ pc'[c] = "unwinding" /\ status'[c] = status[c]
      BY <1>2, <1>4 DEF PersistRefusal, PersistStart, PersistFinal, PersistFailure, Goto,
                        SetStatus, PersistOk, OnPersistError
    <2>5. Audit(c)'
      BY <2>1, <2>3, <2>4 DEF Audit
    <2>6. QED
      BY <1>1, <2>1, <2>3, <2>5
  <1>5. CASE DryRunAction(c) \/ Act(c) \/ ActUnknown(c) \/ ActRaises(c)
    <2>1. /\ UNCHANGED <<req, rows>> /\ pc[c] = "acting"
          /\ \A d \in Calls : d # c => /\ pc'[d] = pc[d] /\ status'[d] = status[d]
                                       /\ applied'[d] = applied[d]
                                       /\ attempts'[d] = attempts[d]
      BY <1>2, <1>5 DEF DryRunAction, Act, ActUnknown, ActRaises, ChangeCluster, Goto,
                        SetStatus, worldVars
    <2>2. req[c] # NoRequest
      BY <2>1 DEF TypeOK, Running, Holding
    <2>3. \/ /\ pc'[c] = "succeeded" /\ status'[c] = "SUCCESS" /\ req[c].dry_run
             /\ applied'[c] = applied[c] /\ attempts'[c] = attempts[c]
          \/ /\ pc'[c] = "succeeded" /\ status'[c] = "SUCCESS" /\ ~req[c].dry_run
             /\ applied'[c] = applied[c] + 1 /\ attempts'[c] = attempts[c] + 1
          \/ /\ pc'[c] \in {"finished", "failing"} /\ status'[c] = "FAILED" /\ ~req[c].dry_run
             /\ applied'[c] \in {applied[c], applied[c] + 1} /\ attempts'[c] = attempts[c] + 1
          \/ /\ pc'[c] = "acting" /\ status'[c] = status[c] /\ ~req[c].dry_run
             /\ applied'[c] \in {applied[c], applied[c] + 1} /\ attempts'[c] = attempts[c] + 1
      <3>1. CASE DryRunAction(c)
        BY <1>2, <3>1 DEF DryRunAction, Simulates, Goto, SetStatus, worldVars
      <3>2. CASE Act(c)
        BY <1>2, <3>2 DEF Act, Simulates, ChangeCluster, Goto, SetStatus
      <3>3. CASE ActUnknown(c)
        BY <1>2, <3>3 DEF ActUnknown, Simulates, Goto, SetStatus, worldVars
      <3>4. CASE ActRaises(c)
        BY <1>2, <2>1, <3>4 DEF ActRaises, Simulates, ChangeCluster, Goto, SetStatus, worldVars
      <3>5. QED
        BY <1>5, <3>1, <3>2, <3>3, <3>4
    <2>4. applied[c] \in Nat /\ attempts[c] \in Nat
      BY <1>2
    <2>5. Audit(c)'
      BY <2>1, <2>2, <2>3, <2>4 DEF Audit
    <2>6. QED
      BY <1>1, <2>1, <2>5
  <1>6. CASE SetCooldown(c) \/ Release(c)
    <2>1. /\ UNCHANGED <<req, rows, applied, attempts, status>>
          /\ \A d \in Calls : d # c => pc'[d] = pc[d]
      BY <1>2, <1>6 DEF SetCooldown, Release, Goto, worldVars
    <2>2. \/ pc[c] = "succeeded" /\ pc'[c] = "finished"
          \/ pc[c] = "releasing" /\ pc'[c] = "returned"
          \/ pc[c] = "unwinding" /\ pc'[c] = "raised"
      BY <1>2, <1>6 DEF SetCooldown, Release, Goto
    <2>3. Audit(c)'
      BY <2>1, <2>2 DEF Audit
    <2>4. QED
      BY <1>1, <2>1, <2>3
  <1>7. QED
    BY <1>3, <1>4, <1>5, <1>6 DEF Step

\* A call is asked once, before it has done anything.
LEMMA RequestAudit ==
  ASSUME TypeOK, NEW c \in Calls, Audit(c),
         \/ \E i \in Incidents : Evaluate(c, i)
         \/ \E r \in RouteRequests \cup OtherRequests : Submit(c, r)
  PROVE  Audit(c)' /\ \A d \in Calls : d # c /\ Audit(d) => Audit(d)'
  <1>1. /\ UNCHANGED <<status, rows, applied, attempts>>
        /\ \A d \in Calls : d # c => pc'[d] = pc[d] /\ req'[d] = req[d]
    BY DEF Evaluate, Submit, Goto, TypeOK, worldVars
  <1>2. pc[c] = "idle" /\ pc'[c] \in {"proposed", "raised", "skipped"}
    BY DEF Evaluate, Submit, Goto, TypeOK
  <1>3. "SUCCESS" \notin ToSet(<<>>)
    BY DEF ToSet
  <1>4. Audit(c)'
    BY <1>1, <1>2, <1>3 DEF Audit
  <1>5. QED
    BY <1>1, <1>4 DEF Audit

LEMMA AuditHolds == Spec => []AuditInv
  <1>1. Init => AuditInv
    <2> SUFFICES ASSUME Init, NEW c \in Calls PROVE Audit(c)
      BY AuditOfEach
    <2>1. "SUCCESS" \notin ToSet(<<>>)
      BY DEF ToSet
    <2>2. QED
      BY <2>1 DEF Init, Audit
  <1>2. TypeOK /\ AuditInv /\ [Next]_vars => AuditInv'
    <2> SUFFICES ASSUME TypeOK, \A c \in Calls : Audit(c), [Next]_vars
                 PROVE  \A c \in Calls : Audit(c)'
      BY AuditOfEach DEF AuditInv, Audit, IdleIsFresh, StatusAtAwait, OutcomeIsLast,
                         ChangesAreAttempts, SuccessRowsAreTrue, RowBeforeAct,
                         ChangeIsOnRecord
    <2>1. CASE UNCHANGED vars \/ Tick
      BY <2>1 DEF Audit, vars, callVars, worldVars, Tick
    <2>2. ASSUME NEW c \in Calls, Step(c) PROVE \A d \in Calls : Audit(d)'
      BY <2>2, StepAudit
    <2>3. ASSUME NEW c \in Calls,
                 \/ \E i \in Incidents : Evaluate(c, i)
                 \/ \E r \in RouteRequests \cup OtherRequests : Submit(c, r)
          PROVE  \A d \in Calls : Audit(d)'
      BY <2>3, RequestAudit
    <2>4. ASSUME NEW p \in Replicas, Crash(p) PROVE \A c \in Calls : Audit(c)'
      <3>1. UNCHANGED <<req, status, rows, applied, attempts>>
        BY <2>4 DEF Crash, worldVars
      <3>2. \A c \in Calls : pc'[c] = pc[c] \/ pc'[c] = "crashed"
        BY <2>4 DEF Crash
      <3>3. QED
        BY <3>1, <3>2 DEF Audit
    <2>5. QED
      BY <2>1, <2>2, <2>3, <2>4 DEF Next
  <1>3. QED
    BY <1>1, <1>2, TypeCorrect, PTL DEF Spec

\* A SUCCESS row stands for a dry run or for a change that was made, for any calls,
\* replicas and faults (remediation_service.py:111-151).
THEOREM SuccessIsTrue == Spec => []SuccessRowsAreTrue
  BY AuditHolds, PTL DEF AuditInv

\* Every change of the cluster has a row of its call, which was there before the change
\* was made and outlives the call (remediation_service.py:111-118).
THEOREM ChangesAreOnRecord == Spec => []ChangeIsOnRecord
  BY AuditHolds, PTL DEF AuditInv

\* A call that returned has its outcome in its newest row, whatever failed on the way
\* (remediation_service.py:103-166).
THEOREM OutcomeIsRecorded == Spec => []ReturnedOutcomeIsRecorded
  <1>1. AuditInv => ReturnedOutcomeIsRecorded
    BY DEF AuditInv, StatusAtAwait, OutcomeIsLast, ReturnedOutcomeIsRecorded
  <1>2. QED
    BY <1>1, AuditHolds, PTL

-----------------------------------------------------------------------------
(* What of the cluster is touched.                                         *)

\* A request is a dry run or is about an approved workload.
ApprovedOrDry ==
    OtherRequests = {} =>
        \A c \in Calls : req[c] # NoRequest =>
            req[c].dry_run \/ Approved(req[c].workload)

\* Only the two ways to ask set a request.
LEMMA StepsKeepRequests ==
  ASSUME TypeOK, [Next]_vars,
         ~\E c \in Calls : \/ \E i \in Incidents : Evaluate(c, i)
                           \/ \E r \in RouteRequests \cup OtherRequests : Submit(c, r)
  PROVE  UNCHANGED req
  <1>1. ASSUME NEW c \in Calls, Step(c) PROVE UNCHANGED req
    BY <1>1 DEF Step, StartExecution, TryLock, LockTimeout, LockError, Refuse,
       PersistRefusal, PersistStart, PersistFinal, PersistFailure, DryRunAction, Act,
       ActUnknown, ActRaises, SetCooldown, Release
  <1>2. QED
    BY <1>1 DEF Next, vars, callVars, Crash, Tick

\* No call changes the cluster outside the whitelists, whatever the constants, as
\* long as evaluate_remediation and the two routes are what builds requests
\* (remediation_service.py:47-62, routes/remediation.py:56,87).
THEOREM OnlyApproved == Spec => []OnlyApprovedTouched
  <1>1. Init => ApprovedOrDry
    BY DEF Init, ApprovedOrDry
  <1>2. TypeOK /\ ApprovedOrDry /\ [Next]_vars => ApprovedOrDry'
    <2> SUFFICES ASSUME TypeOK, ApprovedOrDry, [Next]_vars, OtherRequests = {}
                 PROVE  \A c \in Calls : req'[c] # NoRequest =>
                            req'[c].dry_run \/ Approved(req'[c].workload)
      BY DEF ApprovedOrDry, Approved
    <2>1. ASSUME NEW c \in Calls, NEW i \in Incidents, Evaluate(c, i)
          PROVE  \A d \in Calls : req'[d] # NoRequest =>
                     req'[d].dry_run \/ Approved(req'[d].workload)
      <3>1. CASE UNCHANGED req
        BY <3>1 DEF ApprovedOrDry
      <3>2. CASE /\ Approved(i.workload)
                 /\ req' = [req EXCEPT ![c] = [workload |-> i.workload,
                                              action |-> DetermineAction(i.type),
                                              dry_run |-> DryRun]]
        BY <3>2 DEF ApprovedOrDry, TypeOK
      <3>3. QED
        BY <2>1, <3>1, <3>2 DEF Evaluate, MayPropose
    <2>2. ASSUME NEW c \in Calls, NEW r \in RouteRequests, Submit(c, r)
          PROVE  \A d \in Calls : req'[d] # NoRequest =>
                     req'[d].dry_run \/ Approved(req'[d].workload)
      BY <2>2 DEF Submit, RouteRequests, ApprovedOrDry, TypeOK
    <2>3. QED
      BY <2>1, <2>2, StepsKeepRequests DEF ApprovedOrDry
  <1>3. ApprovedOrDry /\ AuditInv => OnlyApprovedTouched
    BY DEF ApprovedOrDry, AuditInv, ChangesAreAttempts, OnlyApprovedTouched
  <1>4. QED
    BY <1>1, <1>2, <1>3, TypeCorrect, AuditHolds, PTL DEF Spec

-----------------------------------------------------------------------------
(* What is left in Redis.                                                  *)

\* A call that may leave a key behind: it holds the lock or died.
LEMMA OwnerStays ==
  ASSUME TypeOK, "redis" \notin Faults, NEW c \in Calls, Step(c), ~Release(c)
  PROVE  /\ \A d \in Calls : pc[d] \in Holding \cup {"crashed"} =>
                               pc'[d] \in Holding \cup {"crashed"}
         /\ \/ UNCHANGED lock
            \/ /\ req[c].workload \in Workloads /\ req[c] # NoRequest /\ pc'[c] \in Holding
               /\ lock' = [lock EXCEPT ![req[c].workload] = LockTTL]
  <1> USE DEF Goto, redisVars, worldVars, Holding
  <1>1. CASE TryLock(c)
    BY <1>1 DEF TryLock, Lock, TypeOK, Running, Requests
  <1>2. CASE StartExecution(c) \/ LockTimeout(c) \/ PersistRefusal(c)
    BY <1>2 DEF StartExecution, LockTimeout, Refuse, PersistRefusal, TypeOK
  <1>3. CASE PersistStart(c) \/ PersistFinal(c) \/ PersistFailure(c)
    BY <1>3 DEF PersistStart, PersistFinal, PersistFailure, OnPersistError, TypeOK
  <1>4. CASE DryRunAction(c) \/ Act(c) \/ ActUnknown(c) \/ SetCooldown(c)
    BY <1>4 DEF DryRunAction, Act, ActUnknown, SetCooldown, TypeOK
  <1>5. CASE ActRaises(c)
    BY <1>5 DEF ActRaises, TypeOK
  <1>6. QED
    BY <1>1, <1>2, <1>3, <1>4, <1>5 DEF Step, LockError

\* With Redis up, a lock key always belongs to a call that will delete it or that
\* died before it could (the finally clause, remediation_service.py:165-166).
THEOREM NoKeyIsOrphaned == Spec => []NoOrphanLock
  <1>1. Init => NoOrphanLock
    BY DEF Init, NoOrphanLock
  <1>2. TypeOK /\ NoOrphanLock /\ [Next]_vars => NoOrphanLock'
    <2> SUFFICES ASSUME TypeOK, NoOrphanLock, [Next]_vars, "redis" \notin Faults,
                        NEW w \in Workloads, lock'[w] > 0
                 PROVE  \E c \in Calls : /\ pc'[c] \in Holding \cup {"crashed"}
                                         /\ req'[c] # NoRequest /\ req'[c].workload = w
      BY DEF NoOrphanLock
    <2> DEFINE Owns(c) == /\ pc[c] \in Holding \cup {"crashed"}
                          /\ req[c] # NoRequest /\ req[c].workload = w
    <2>1. lock[w] > 0 => \E c \in Calls : Owns(c)
      BY DEF NoOrphanLock
    <2>2. ASSUME NEW c \in Calls, Step(c), ~Release(c)
          PROVE  \E d \in Calls : Owns(d)'
      <3>1. UNCHANGED req
        BY <2>2 DEF Step, StartExecution, TryLock, LockTimeout, LockError, Refuse,
           PersistRefusal, PersistStart, PersistFinal, PersistFailure, DryRunAction, Act,
           ActUnknown, ActRaises, SetCooldown
      <3>0. /\ \A d \in Calls : pc[d] \in Holding \cup {"crashed"} =>
                                pc'[d] \in Holding \cup {"crashed"}
            /\ \/ UNCHANGED lock
               \/ /\ req[c].workload \in Workloads /\ req[c] # NoRequest /\ pc'[c] \in Holding
                  /\ lock' = [lock EXCEPT ![req[c].workload] = LockTTL]
        BY <2>2, OwnerStays
      <3>2. CASE lock[w] > 0
        <4>1. PICK d \in Calls : Owns(d)
          BY <2>1, <3>2
        <4>2. Owns(d)'
          BY <3>0, <3>1, <4>1
        <4>3. QED
          BY <4>2
      <3>3. CASE ~(lock[w] > 0)
        <4>1. lock' # lock
          BY <3>3
        <4>2. pc'[c] \in Holding /\ req[c] # NoRequest
              /\ lock' = [lock EXCEPT ![req[c].workload] = LockTTL]
          BY <3>0, <4>1
        <4>3. lock \in [Workloads -> 0 .. LockTTL]
          BY DEF TypeOK
        <4>4. req[c].workload = w
          BY <3>3, <4>2, <4>3
        <4>5. Owns(c)'
          BY <3>1, <4>2, <4>4
        <4>6. QED
          BY <4>5
      <3>4. QED
        BY <3>2, <3>3
    <2>3. ASSUME NEW c \in Calls, Release(c)
          PROVE  \E d \in Calls : Owns(d)'
      <3>1. /\ lock' = [lock EXCEPT ![req[c].workload] = 0] /\ UNCHANGED req
            /\ \A d \in Calls : d # c => pc'[d] = pc[d]
        BY <2>3 DEF Release, ReleaseLock, Goto, TypeOK
      <3>2. w # req[c].workload /\ lock[w] > 0
        BY <3>1 DEF TypeOK
      <3>3. QED
        BY <2>1, <3>1, <3>2
    <2>4. ASSUME NEW c \in Calls,
                 \/ \E i \in Incidents : Evaluate(c, i)
                 \/ \E r \in RouteRequests \cup OtherRequests : Submit(c, r)
          PROVE  \E d \in Calls : Owns(d)'
      <3>1. /\ UNCHANGED lock /\ pc[c] = "idle"
            /\ \A d \in Calls : d # c => pc'[d] = pc[d] /\ req'[d] = req[d]
        BY <2>4 DEF Evaluate, Submit, Goto, TypeOK, redisVars
      <3>2. PICK d \in Calls : Owns(d)
        BY <2>1, <3>1
      <3>3. d # c
        BY <3>1, <3>2 DEF Holding
      <3>4. QED
        BY <3>1, <3>2, <3>3
    <2>5. ASSUME NEW p \in Replicas, Crash(p)
          PROVE  \E d \in Calls : Owns(d)'
      BY <2>1, <2>5 DEF Crash, redisVars
    <2>6. CASE Tick
      <3>1. lock'[w] = CountDown(lock[w]) /\ UNCHANGED <<pc, req>> /\ lock[w] \in Nat
        BY <2>6, ServiceAssumptions DEF Tick, AgeLocks, TypeOK
      <3>2. lock[w] > 0
        BY <3>1 DEF CountDown
      <3>3. QED
        BY <2>1, <3>1, <3>2
    <2>7. CASE UNCHANGED vars
      BY <2>1, <2>7 DEF vars, callVars, redisVars
    <2>8. QED
      BY <2>2, <2>3, <2>4, <2>5, <2>6, <2>7 DEF Next
  <1>3. QED
    BY <1>1, <1>2, TypeCorrect, PTL DEF Spec
=============================================================================
