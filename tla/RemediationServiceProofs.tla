------------------------ MODULE RemediationServiceProofs ------------------------
(***************************************************************************)
(* Theorems of RemediationService for every value of its constants.        *)
(***************************************************************************)
EXTENDS RemediationService, TLAPS

\* The types hold initially.
LEMMA InitTypeOK == Init => TypeOK
  <1> SUFFICES ASSUME Init PROVE TypeOK
    OBVIOUS
  <1> USE ServiceAssumptions DEF Init, NoId
  <1>1. pc \in [Calls -> Locations] /\ status \in [Calls -> Statuses]
    BY DEF Locations, Statuses
  <1>2. replicas \in [Workloads -> Nat]
    OBVIOUS
  <1>3. rows \in [Calls -> Seq(Statuses)]
    OBVIOUS
  <1>4. \A c \in Calls : pc[c] \notin Running
    BY DEF Running, Holding
  <1>5. 0 \in 0 .. CooldownLife
    BY DEF CooldownLife
  <1>6. QED
    BY <1>1, <1>2, <1>3, <1>4, <1>5 DEF TypeOK

\* Counting a time to live down keeps it within its bounds.
LEMMA CountDownType ==
  ASSUME NEW n \in Nat, NEW t \in 0 .. n
  PROVE  CountDown(t) \in 0 .. n
  BY DEF CountDown

LEMMA CooldownLifeType == CooldownLife \in Nat /\ CooldownLife \in 0 .. CooldownLife
  BY ServiceAssumptions DEF CooldownLife

\* A persist, successful or not, keeps the rows well formed and the id unset.
LEMMA PersistType ==
  ASSUME TypeOK, NEW c \in Calls, PersistOk(c) \/ PersistError(c)
  PROVE  /\ rows' \in [Calls -> Seq(Statuses)]
         /\ id' \in [Calls -> {NoId}]
  <1>1. id[c] = NoId /\ status[c] \in Statuses /\ rows[c] \in Seq(Statuses)
    BY DEF TypeOK
  <1>2. CASE UNCHANGED <<rows, id>>
    BY <1>2 DEF TypeOK
  <1>3. CASE WriteRow(c, status[c])
    <2>1. Append(rows[c], status[c]) \in Seq(Statuses)
      BY <1>1
    <2>2. rows' = [rows EXCEPT ![c] = Append(rows[c], status[c])]
      BY <1>1, <1>3 DEF WriteRow
    <2>3. id' = [id EXCEPT ![c] = NoId]
      BY <1>1, <1>3 DEF WriteRow, IdAfterAdd
    <2>4. QED
      BY <2>1, <2>2, <2>3 DEF TypeOK
  <1>4. QED
    BY <1>2, <1>3 DEF PersistOk, PersistError

\* The lock keys stay well formed however they are written.
LEMMA LockType ==
  ASSUME TypeOK, NEW c \in Calls,
         Lock(req[c].workload) \/ ReleaseLock(c) \/ UNCHANGED lock
  PROVE  lock' \in [Workloads -> 0 .. LockTTL]
  BY ServiceAssumptions, SMTT(30) DEF TypeOK, Lock, ReleaseLock

\* What a change of the cluster leaves is well typed.
LEMMA ChangeType ==
  ASSUME TypeOK, NEW c \in Calls, ChangeCluster(c) \/ UNCHANGED worldVars
  PROVE  applied' \in [Calls -> Nat] /\ replicas' \in [Workloads -> Nat]
  <1>1. CASE UNCHANGED worldVars
    BY <1>1 DEF TypeOK, worldVars
  <1>2. CASE ChangeCluster(c)
    <2>1. applied' \in [Calls -> Nat]
      BY <1>2 DEF TypeOK, ChangeCluster
    <2>2. replicas' \in [Workloads -> Nat]
      <3>1. replicas' = [replicas EXCEPT ![req[c].workload] = 4] \/ replicas' = replicas
        BY <1>2 DEF ChangeCluster, ScaleTarget
      <3>2. replicas \in [Workloads -> Nat]
        BY DEF TypeOK
      <3>3. QED
        BY <3>1, <3>2
    <2>3. QED
      BY <2>1, <2>2
  <1>3. QED
    BY <1>1, <1>2

\* Each step of a call preserves the types.
LEMMA StepTypeOK ==
  ASSUME TypeOK, NEW c \in Calls, Step(c)
  PROVE  TypeOK'
  <1> USE ServiceAssumptions DEF TypeOK, Locations, Statuses, Running, Holding, Goto,
      SetStatus, redisVars, worldVars
  <1>1. CASE StartExecution(c)
    BY <1>1 DEF StartExecution
  <1>2. CASE TryLock(c)
    BY <1>2, SMTT(30) DEF TryLock, Lock, StartStatus, Requests
  <1>3. CASE LockTimeout(c)
    BY <1>3 DEF LockTimeout, Refuse
  <1>4. CASE LockError(c)
    <2>1. lock' \in [Workloads -> 0 .. LockTTL]
      BY <1>4, LockType DEF LockError
    <2>2. QED
      BY <1>4, <2>1 DEF LockError, Refuse
  <1>5. CASE PersistRefusal(c)
    BY <1>5, PersistType DEF PersistRefusal
  <1>6. CASE PersistStart(c)
    BY <1>6, PersistType DEF PersistStart
  <1>7. CASE PersistFinal(c)
    BY <1>7, PersistType DEF PersistFinal, OnPersistError
  <1>8. CASE PersistFailure(c)
    BY <1>8, PersistType DEF PersistFailure
  <1>9. CASE DryRunAction(c)
    BY <1>9 DEF DryRunAction
  <1>10. CASE Act(c)
    <2>1. applied' \in [Calls -> Nat] /\ replicas' \in [Workloads -> Nat]
      BY <1>10, ChangeType DEF Act
    <2>2. attempts' \in [Calls -> 0 .. MaxRetries]
      BY <1>10 DEF Act
    <2>3. pc' \in [Calls -> Locations] /\ status' \in [Calls -> Statuses]
      BY <1>10 DEF Act
    <2>4. QED
      BY <1>10, <2>1, <2>2, <2>3 DEF Act
  <1>11. CASE ActUnknown(c)
    BY <1>11 DEF ActUnknown
  <1>12. CASE ActRaises(c)
    <2>1. applied' \in [Calls -> Nat] /\ replicas' \in [Workloads -> Nat]
      BY <1>12, ChangeType DEF ActRaises
    <2>2. attempts' \in [Calls -> 0 .. MaxRetries]
      BY <1>12 DEF ActRaises
    <2>3. CASE LastAttempt(c)
      BY <1>12, <2>1, <2>2, <2>3, ZenonT(60) DEF ActRaises
    <2>4. CASE ~LastAttempt(c)
      <3>1. attempts' = [attempts EXCEPT ![c] = attempts[c] + 1] /\ pc' = pc
        BY <1>12, <2>4 DEF ActRaises
      <3>2. \A d \in Calls : pc'[d] \in {"idle", "proposed", "acquiring", "locked",
                                          "acting"} => attempts'[d] < MaxRetries
        BY <3>1, <2>4 DEF LastAttempt
      <3>3. QED
        BY <1>12, <2>1, <2>2, <2>4, <3>2 DEF ActRaises
    <2>5. QED
      BY <2>3, <2>4
  <1>13. CASE SetCooldown(c)
    <2>1. cooldown' \in [CooldownKeys -> 0 .. CooldownLife]
      <3> DEFINE key == CooldownKey(req[c].workload, req[c].action)
      <3>1. cooldown \in [CooldownKeys -> 0 .. CooldownLife] /\ CooldownLife \in 0 .. CooldownLife
        BY CooldownLifeType
      <3>2. cooldown' = [cooldown EXCEPT ![key] = CooldownLife] \/ cooldown' = cooldown
        BY <1>13 DEF SetCooldown
      <3> HIDE DEF key, TypeOK
      <3>3. QED
        BY <3>1, <3>2
    <2>2. QED
      BY <1>13, <2>1 DEF SetCooldown
  <1>14. CASE Release(c)
    <2>1. lock' \in [Workloads -> 0 .. LockTTL]
      BY <1>14, LockType DEF Release
    <2>2. QED
      BY <1>14, <2>1 DEF Release
  <1>15. QED
    BY <1>1, <1>2, <1>3, <1>4, <1>5, <1>6, <1>7, <1>8, <1>9, <1>10, <1>11,
       <1>12, <1>13, <1>14 DEF Step

\* Building a request preserves the types.
LEMMA RequestTypeOK ==
  ASSUME TypeOK, NEW c \in Calls,
         \/ \E i \in Incidents : Evaluate(c, i)
         \/ \E r \in RouteRequests \cup OtherRequests : Submit(c, r)
  PROVE  TypeOK'
  <1> USE ServiceAssumptions DEF TypeOK, Locations, Running, Holding, Goto, redisVars,
      worldVars
  <1>1. ASSUME NEW i \in Incidents, Evaluate(c, i)
        PROVE  TypeOK'
    <2>1. CASE Goto(c, "idle", "raised") /\ UNCHANGED req
      BY <1>1, <2>1 DEF Evaluate
    <2>2. CASE Goto(c, "idle", "skipped") /\ UNCHANGED req
      BY <1>1, <2>2 DEF Evaluate
    <2>3. CASE /\ DetermineAction(i.type) # NoAction
               /\ Goto(c, "idle", "proposed")
               /\ req' = [req EXCEPT ![c] = [workload |-> i.workload,
                                            action |-> DetermineAction(i.type),
                                            dry_run |-> DryRun]]
      <3>1. DetermineAction(i.type) \in Actions
        BY <2>3 DEF DetermineAction, Actions, Types
      <3>2. i.workload \in Workloads
        OBVIOUS
      <3>3. [workload |-> i.workload, action |-> DetermineAction(i.type),
             dry_run |-> DryRun] \in Requests
        BY <3>1, <3>2 DEF Requests
      <3>4. QED
        BY <1>1, <2>3, <3>3 DEF Evaluate
    <2>4. QED
      BY <1>1, <2>1, <2>2, <2>3 DEF Evaluate, MayPropose
  <1>2. ASSUME NEW r \in RouteRequests \cup OtherRequests, Submit(c, r)
        PROVE  TypeOK'
    <2>1. r \in Requests
      BY DEF RouteRequests, Requests, Actions
    <2>2. QED
      BY <1>2, <2>1 DEF Submit
  <1>3. QED
    BY <1>1, <1>2

\* A crash and the passing of time preserve the types.
LEMMA WorldTypeOK ==
  ASSUME TypeOK, Tick \/ \E p \in Replicas : Crash(p)
  PROVE  TypeOK'
  <1> USE ServiceAssumptions DEF TypeOK
  <1>1. ASSUME NEW p \in Replicas, Crash(p)
        PROVE  TypeOK'
    BY <1>1 DEF Crash, Locations, Running, Holding, redisVars, worldVars
  <1>2. CASE Tick
    <2>1. waited' \in [Calls -> 0 .. LockWait]
      BY <1>2 DEF Tick
    <2>2. elapsed' \in [Calls -> 0 .. MaxRun]
      BY <1>2 DEF Tick
    <2>3. lock' \in [Workloads -> 0 .. LockTTL]
      BY <1>2, CountDownType DEF Tick, AgeLocks
    <2>4. cooldown' \in [CooldownKeys -> 0 .. CooldownLife]
      BY <1>2, CountDownType, CooldownLifeType DEF Tick, AgeCooldowns
    <2>5. QED
      BY <1>2, <2>1, <2>2, <2>3, <2>4 DEF Tick, worldVars
  <1>3. QED
    BY <1>1, <1>2

\* Every reachable state is well typed, and a call that may still act has an
\* attempt left.
THEOREM TypeCorrect == Spec => []TypeOK
  <1>1. TypeOK /\ [Next]_vars => TypeOK'
    <2> SUFFICES ASSUME TypeOK, [Next]_vars PROVE TypeOK'
      OBVIOUS
    <2>1. CASE UNCHANGED vars
      BY <2>1 DEF TypeOK, vars, callVars, redisVars, worldVars
    <2>2. CASE Next
      BY <2>2, StepTypeOK, RequestTypeOK, WorldTypeOK DEF Next
    <2>3. QED
      BY <2>1, <2>2
  <1>2. QED
    BY InitTypeOK, <1>1, PTL DEF Spec

-----------------------------------------------------------------------------
(* Mutual exclusion, for every lock that outlives its holders.             *)

\* A free key means that no call holds the lock of the workload.
LEMMA FreeMeansNoHolder ==
  ASSUME SafeTiming, TypeOK, HolderHasLock, NEW w \in Workloads, lock[w] = 0,
         NEW c \in Calls, pc[c] \in Holding
  PROVE  req[c].workload # w
  <1>1. elapsed[c] <= MaxRun
    BY ServiceAssumptions DEF TypeOK
  <1>2. QED
    BY <1>1, ServiceAssumptions DEF HolderHasLock, SafeTiming, TypeOK

\* A step that moves no call into Holding and leaves the locks, the requests and
\* the clocks alone keeps the invariant.
LEMMA QuietStep ==
  ASSUME LockInv, UNCHANGED <<lock, elapsed, req>>,
         \A c \in Calls : pc'[c] \in Holding => pc[c] \in Holding
  PROVE  LockInv'
  BY DEF LockInv, HolderHasLock, MutualExclusion

\* The workload of a call that runs is one of Workloads.
LEMMA RequestOfRunning ==
  ASSUME TypeOK, NEW c \in Calls, pc[c] \in Running
  PROVE  req[c] \in Requests /\ req[c].workload \in Workloads
  BY DEF TypeOK, Requests

\* Each step of a call preserves the lock invariant.
LEMMA StepLockInv ==
  ASSUME SafeTiming, TypeOK, LockInv, NEW c \in Calls, Step(c)
  PROVE  LockInv'
  <1> USE DEF Goto, redisVars, worldVars
  <1>1. CASE StartExecution(c) \/ LockTimeout(c) \/ PersistRefusal(c)
    BY <1>1, QuietStep DEF StartExecution, LockTimeout, Refuse, PersistRefusal, TypeOK,
       Holding
  <1>2. CASE PersistStart(c) \/ PersistFinal(c) \/ PersistFailure(c)
    BY <1>2, QuietStep DEF PersistStart, PersistFinal, PersistFailure, OnPersistError,
       TypeOK, Holding
  <1>3. CASE DryRunAction(c) \/ Act(c) \/ ActUnknown(c) \/ SetCooldown(c)
    BY <1>3, QuietStep DEF DryRunAction, Act, ActUnknown, SetCooldown, TypeOK, Holding
  <1>4. CASE ActRaises(c)
    BY <1>4, QuietStep DEF ActRaises, TypeOK, Holding
  <1>5. CASE TryLock(c)
    <2> DEFINE w == req[c].workload
    <2>1. w \in Workloads /\ lock[w] = 0 /\ UNCHANGED req
      BY <1>5, RequestOfRunning DEF TryLock, SetsIfAbsent, Running
    <2>2. /\ lock' = [lock EXCEPT ![w] = LockTTL]
          /\ pc' = [pc EXCEPT ![c] = "locked"]
          /\ elapsed' = [elapsed EXCEPT ![c] = 0]
      BY <1>5 DEF TryLock, Lock
    <2>3. \A d \in Calls : d # c /\ pc'[d] \in Holding =>
             pc[d] \in Holding /\ req[d].workload # w
      BY <2>1, <2>2, FreeMeansNoHolder DEF LockInv, TypeOK
    <2>4. HolderHasLock'
      BY <2>1, <2>2, <2>3, ServiceAssumptions, SMTT(30) DEF LockInv, HolderHasLock, TypeOK
    <2>5. MutualExclusion'
      BY <2>1, <2>2, <2>3 DEF LockInv, MutualExclusion
    <2>6. QED
      BY <2>4, <2>5 DEF LockInv
  <1>6. CASE LockError(c)
    <2> DEFINE w == req[c].workload
    <2>1. UNCHANGED <<req, elapsed>>
      BY <1>6 DEF LockError, Refuse
    <2>2. \A d \in Calls : pc'[d] \in Holding => pc[d] \in Holding
      BY <1>6 DEF LockError, Refuse, TypeOK, Holding
    <2>3. CASE UNCHANGED lock
      BY <2>1, <2>2, <2>3, QuietStep
    <2>4. CASE lock[w] = 0 /\ lock' = [lock EXCEPT ![w] = LockTTL]
      <3>1. w \in Workloads
        BY <1>6, RequestOfRunning DEF LockError, Refuse, Running
      <3>2. \A d \in Calls : pc'[d] \in Holding => req[d].workload # w
        BY <2>2, <2>4, <3>1, FreeMeansNoHolder DEF LockInv
      <3>3. QED
        BY <2>1, <2>2, <2>4, <3>2 DEF LockInv, HolderHasLock, MutualExclusion, TypeOK
    <2>5. QED
      BY <1>6, <2>3, <2>4 DEF LockError, SetsIfAbsent, Lock
  <1>7. CASE Release(c)
    <2> DEFINE w == req[c].workload
    <2>1. UNCHANGED <<req, elapsed>> /\ pc[c] \in Holding
      BY <1>7 DEF Release, Holding
    <2>2. \A d \in Calls : pc'[d] \in Holding => d # c /\ pc[d] \in Holding
      BY <1>7 DEF Release, TypeOK, Holding
    <2>3. \A d \in Calls : pc'[d] \in Holding => req[d].workload # w
      BY <2>1, <2>2 DEF LockInv, MutualExclusion
    <2>4. lock' = [lock EXCEPT ![w] = 0] \/ lock' = lock
      BY <1>7 DEF Release, ReleaseLock
    <2>5. \A d \in Calls : pc'[d] \in Holding =>
             lock'[req[d].workload] = lock[req[d].workload]
      BY <2>2, <2>3, <2>4, RequestOfRunning DEF TypeOK, Running
    <2>6. QED
      BY <2>1, <2>2, <2>5 DEF LockInv, HolderHasLock, MutualExclusion
  <1>8. QED
    BY <1>1, <1>2, <1>3, <1>4, <1>5, <1>6, <1>7 DEF Step

\* Building a request keeps it too: an idle call holds nothing.
LEMMA RequestLockInv ==
  ASSUME TypeOK, LockInv, NEW c \in Calls, pc[c] = "idle",
         \/ Goto(c, "idle", "raised") \/ Goto(c, "idle", "skipped")
         \/ Goto(c, "idle", "proposed"),
         UNCHANGED <<lock, elapsed>>,
         \A d \in Calls : d # c => req'[d] = req[d]
  PROVE  LockInv'
  <1>1. \A d \in Calls : pc'[d] \in Holding => d # c /\ pc[d] \in Holding
    BY DEF Goto, TypeOK, Holding
  <1>2. QED
    BY <1>1 DEF LockInv, HolderHasLock, MutualExclusion

\* Time takes from the key what it adds to the holder's run.
LEMMA TickLockInv ==
  ASSUME SafeTiming, TypeOK, LockInv, Tick
  PROVE  LockInv'
  <1>1. UNCHANGED <<pc, req>>
    BY DEF Tick
  <1>2. ASSUME NEW c \in Calls, pc'[c] \in Holding
        PROVE  lock'[req'[c].workload] + elapsed'[c] = LockTTL
    <2> DEFINE w == req[c].workload
    <2>1. pc[c] \in Holding /\ w \in Workloads
      BY <1>1, <1>2, RequestOfRunning DEF Running
    <2>2. lock[w] + elapsed[c] = LockTTL /\ elapsed[c] < MaxRun
      BY <2>1 DEF LockInv, HolderHasLock, Tick
    <2>3. lock[w] \in Nat /\ elapsed[c] \in Nat /\ lock[w] # 0
      BY <2>1, <2>2, ServiceAssumptions DEF TypeOK, SafeTiming
    <2>4. elapsed'[c] = elapsed[c] + 1
      BY <2>1 DEF Tick
    <2>5. lock'[w] = lock[w] - 1
      BY <2>1, <2>3 DEF Tick, AgeLocks, CountDown
    <2>6. QED
      BY <1>1, <2>2, <2>3, <2>4, <2>5, ServiceAssumptions
  <1>3. QED
    BY <1>1, <1>2 DEF LockInv, HolderHasLock, MutualExclusion

\* A lock that outlives its holders is always the holder's.
LEMMA LockHolds == SafeTiming => (Spec => []LockInv)
  <1> SUFFICES ASSUME SafeTiming PROVE Spec => []LockInv
    OBVIOUS
  <1>1. Init => LockInv
    BY DEF Init, LockInv, HolderHasLock, MutualExclusion, Holding
  <1>2. TypeOK /\ LockInv /\ [Next]_vars => LockInv'
    <2> SUFFICES ASSUME TypeOK, LockInv, [Next]_vars PROVE LockInv'
      OBVIOUS
    <2>1. CASE UNCHANGED vars
      BY <2>1, QuietStep DEF vars, callVars, redisVars
    <2>2. ASSUME NEW c \in Calls, Step(c) PROVE LockInv'
      BY <2>2, StepLockInv
    <2>3. ASSUME NEW c \in Calls, NEW i \in Incidents, Evaluate(c, i) PROVE LockInv'
      <3>1. UNCHANGED <<lock, elapsed>> /\ pc[c] = "idle"
        BY <2>3 DEF Evaluate, Goto, redisVars
      <3>2. \/ Goto(c, "idle", "raised") \/ Goto(c, "idle", "skipped")
            \/ Goto(c, "idle", "proposed")
        BY <2>3 DEF Evaluate
      <3>3. \A d \in Calls : d # c => req'[d] = req[d]
        BY <2>3 DEF Evaluate, TypeOK
      <3>4. QED
        BY <3>1, <3>2, <3>3, RequestLockInv
    <2>4. ASSUME NEW c \in Calls, NEW r, Submit(c, r) PROVE LockInv'
      <3>1. UNCHANGED <<lock, elapsed>> /\ pc[c] = "idle" /\ Goto(c, "idle", "proposed")
        BY <2>4 DEF Submit, Goto, redisVars
      <3>2. \A d \in Calls : d # c => req'[d] = req[d]
        BY <2>4 DEF Submit, TypeOK
      <3>3. QED
        BY <3>1, <3>2, RequestLockInv
    <2>5. ASSUME NEW p \in Replicas, Crash(p) PROVE LockInv'
      BY <2>5, QuietStep DEF Crash, TypeOK, Holding, redisVars
    <2>6. CASE Tick
      BY <2>6, TickLockInv
    <2>7. QED
      BY <2>1, <2>2, <2>3, <2>4, <2>5, <2>6 DEF Next
  <1>3. QED
    BY <1>1, <1>2, TypeCorrect, PTL DEF Spec

\* No two calls work on a workload at the same time, on whatever replicas they
\* run and whatever fails, as long as no call holds on for the lock's ttl
\* (remediation_service.py:103-166 with redis.py:168-206).
THEOREM LockIsExclusive == SafeTiming => (Spec => []MutualExclusion)
  <1>1. LockInv => MutualExclusion
    BY DEF LockInv
  <1>2. QED
    BY <1>1, LockHolds, PTL

-----------------------------------------------------------------------------
(* The steps of a call run out.                                            *)

\* Where a call has no more attempts than it may, it has that many steps left at most.
LEMMA StepsAreBounded ==
  ASSUME TypeOK, NEW c \in Calls
  PROVE  StepsLeft(c) \in 0 .. MaxRetries + 7
  <1>1. /\ MaxRetries \in Nat \ {0} /\ attempts[c] \in 0 .. MaxRetries
    BY ServiceAssumptions DEF TypeOK
  <1>2. QED
    BY <1>1 DEF StepsLeft

\* A step of one call leaves the others where they are.
LEMMA StepMovesOne ==
  ASSUME TypeOK, NEW c \in Calls, Step(c), NEW d \in Calls \ {c}
  PROVE  pc'[d] = pc[d] /\ attempts'[d] = attempts[d]
  <1> USE DEF Goto, TypeOK
  <1>1. CASE StartExecution(c) \/ TryLock(c) \/ LockTimeout(c) \/ LockError(c)
    BY <1>1 DEF StartExecution, TryLock, LockTimeout, LockError, Refuse
  <1>2. CASE PersistRefusal(c) \/ PersistStart(c) \/ PersistFinal(c) \/ PersistFailure(c)
    BY <1>2 DEF PersistRefusal, PersistStart, PersistFinal, PersistFailure
  <1>3. CASE \/ DryRunAction(c) \/ Act(c) \/ ActUnknown(c) \/ ActRaises(c)
             \/ SetCooldown(c) \/ Release(c)
    BY <1>3 DEF DryRunAction, Act, ActUnknown, ActRaises, SetCooldown, Release
  <1>4. QED
    BY <1>1, <1>2, <1>3 DEF Step

LEMMA SameSteps ==
  ASSUME NEW c \in Calls, pc'[c] = pc[c], attempts'[c] = attempts[c]
  PROVE  StepsLeft(c)' = StepsLeft(c)
  BY DEF StepsLeft

LEMMA StepUsesOne ==
  ASSUME TypeOK, NEW c \in Calls, Step(c)
  PROVE  StepsLeft(c)' < StepsLeft(c)
  <1> USE DEF Goto, TypeOK
  <1>0. /\ MaxRetries \in Nat /\ attempts[c] \in 0 .. MaxRetries
        /\ pc[c] \in {"proposed", "acquiring", "locked", "acting"} => attempts[c] < MaxRetries
    BY ServiceAssumptions
  <1>1. CASE StartExecution(c)
    BY <1>0, <1>1 DEF StartExecution, StepsLeft
  <1>2. CASE TryLock(c)
    BY <1>0, <1>2 DEF TryLock, StepsLeft
  <1>3. CASE LockTimeout(c) \/ LockError(c)
    BY <1>0, <1>3 DEF LockTimeout, LockError, Refuse, StepsLeft
  <1>4. CASE PersistRefusal(c)
    BY <1>0, <1>4 DEF PersistRefusal, StepsLeft
  <1>5. CASE PersistStart(c)
    BY <1>0, <1>5 DEF PersistStart, StepsLeft
  <1>6. CASE PersistFinal(c)
    BY <1>0, <1>6 DEF PersistFinal, OnPersistError, StepsLeft
  <1>7. CASE PersistFailure(c)
    BY <1>0, <1>7 DEF PersistFailure, StepsLeft
  <1>8. CASE DryRunAction(c) \/ Act(c) \/ ActUnknown(c)
    BY <1>0, <1>8 DEF DryRunAction, Act, ActUnknown, StepsLeft
  <1>9. CASE ActRaises(c)
    <2>1. CASE LastAttempt(c)
      BY <1>0, <1>9, <2>1 DEF ActRaises, StepsLeft
    <2>2. CASE ~LastAttempt(c)
      BY <1>0, <1>9, <2>2 DEF ActRaises, StepsLeft
    <2>3. QED
      BY <2>1, <2>2
  <1>10. CASE SetCooldown(c)
    BY <1>0, <1>10 DEF SetCooldown, StepsLeft
  <1>11. CASE Release(c)
    BY <1>0, <1>11 DEF Release, StepsLeft
  <1>12. QED
    BY <1>1, <1>2, <1>3, <1>4, <1>5, <1>6, <1>7, <1>8, <1>9, <1>10, <1>11 DEF Step

\* A call takes at most MaxRetries + 7 steps (98-170): what is left of the proof that it
\* ends is that its steps are taken.
THEOREM CallsRunOut == Spec => StepsRunOut
  <1> DEFINE RunsOut(c) == pc[c] # "idle" =>
                             /\ StepsLeft(c)' \in 0 .. StepsLeft(c)
                             /\ Step(c) => StepsLeft(c)' # StepsLeft(c)
  <1>1. TypeOK /\ TypeOK' /\ [Next]_vars => [\A c \in Calls : RunsOut(c)]_vars
    <2> SUFFICES ASSUME TypeOK, TypeOK', [Next]_vars, NEW d \in Calls, vars' # vars
                 PROVE  RunsOut(d)
      OBVIOUS
    <2>0. StepsLeft(d) \in Nat /\ StepsLeft(d)' \in Nat
      <3>1. StepsLeft(d) \in Nat
        BY StepsAreBounded, ServiceAssumptions
      <3>2. MaxRetries \in Nat /\ attempts'[d] \in 0 .. MaxRetries
        BY ServiceAssumptions DEF TypeOK
      <3>3. StepsLeft(d)' \in Nat
        BY <3>2 DEF StepsLeft
      <3>4. QED
        BY <3>1, <3>3
    <2>1. CASE Step(d)
      BY <2>0, <2>1, StepUsesOne
    <2>2. ASSUME ~Step(d), pc[d] # "idle"
          PROVE  StepsLeft(d)' \in 0 .. StepsLeft(d)
      <3>1. CASE pc'[d] = pc[d] /\ attempts'[d] = attempts[d]
        BY <2>0, <3>1, SameSteps
      <3>2. CASE \E p \in Replicas : Crash(p)
        <4>1. pc'[d] \in {pc[d], "crashed"} /\ attempts'[d] = attempts[d]
          BY <3>2 DEF Crash, TypeOK
        <4>2. CASE pc'[d] = "crashed"
          BY <2>0, <4>2 DEF StepsLeft
        <4>3. QED
          BY <2>0, <4>1, <4>2, SameSteps
      <3>3. CASE Tick
        BY <2>0, <3>3, SameSteps DEF Tick
      <3>4. ASSUME NEW c \in Calls \ {d}, Step(c)
            PROVE  pc'[d] = pc[d] /\ attempts'[d] = attempts[d]
        BY <3>4, StepMovesOne
      <3>5. ASSUME NEW c \in Calls,
                   \/ \E i \in Incidents : Evaluate(c, i)
                   \/ \E r \in RouteRequests \cup OtherRequests : Submit(c, r)
            PROVE  pc'[d] = pc[d] /\ attempts'[d] = attempts[d]
        BY <2>2, <3>5 DEF Evaluate, Submit, Goto, TypeOK
      <3>6. QED
        BY <2>2, <3>1, <3>2, <3>3, <3>4, <3>5 DEF Next
    <2>3. QED
      BY <2>1, <2>2
  <1> HIDE DEF RunsOut
  <1>2. QED
    BY <1>1, TypeCorrect, PTL DEF Spec, StepsRunOut, RunsOut
=============================================================================
