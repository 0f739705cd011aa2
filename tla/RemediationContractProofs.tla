------------------------ MODULE RemediationContractProofs ------------------------
(***************************************************************************)
(* RemediationService implements RemediationContract for every value of    *)
(* the constants with which the lock outlives its holders.  The three      *)
(* invariants of the other proofs are what the mapping needs: TypeOK for   *)
(* the bound on attempts, LockInv for Begin, AuditInv for the verdicts.    *)
(***************************************************************************)
EXTENDS RemediationAuditProofs

\* The calls at work on each workload, and how each call ended.
WorkOn(w) == {c \in Calls : pc[c] \in Holding /\ req[c].workload = w}
Verdict(c) ==
    CASE pc[c] \in {"returned", "raised"} -> status[c]
      [] pc[c] = "crashed" -> "LOST"
      [] OTHER -> "NONE"

\* A step that no promise is about.
LEMMA ContractStutters ==
  ASSUME UNCHANGED <<req, applied>>,
         \A d \in Calls : /\ pc'[d] \in Holding <=> pc[d] \in Holding
                          /\ Verdict(d)' = Verdict(d)
  PROVE  UNCHANGED Contract!vars
  BY DEF Contract!vars, Verdict

\* A call that has not ended and holds nothing is pending.
LEMMA PendingCalls ==
  ASSUME NEW c \in Calls, pc[c] \notin Holding \cup {"returned", "raised", "crashed"}
  PROVE  Contract!Pending(c)
  BY DEF Contract!Pending, Contract!AtWork

\* A holder is at work on its workload.
LEMMA HoldersAtWork ==
  ASSUME TypeOK, NEW c \in Calls, pc[c] \in Holding
  PROVE  Contract!AtWork(c)
  BY RequestOfRunning DEF Contract!AtWork, Running

\* A call that ends without the lock.
LEMMA EndsAsGivenUp ==
  ASSUME TypeOK, NEW c \in Calls, pc[c] \notin Holding \cup {"returned", "raised", "crashed"},
         status[c] \in {"PENDING", "FAILED"}, UNCHANGED <<req, applied, status>>,
         NEW l \in {"returned", "raised"}, pc' = [pc EXCEPT ![c] = l]
  PROVE  Contract!GiveUp(c)
  <1>1. Contract!Pending(c)
    BY PendingCalls
  <1>2. \A d \in Calls : pc'[d] \in Holding <=> pc[d] \in Holding
    BY DEF TypeOK, Holding
  <1>3. \A d \in Calls : Verdict(d)' = IF d = c THEN status[c] ELSE Verdict(d)
    BY DEF TypeOK, Verdict
  <1>4. \A v : status[c] = v => Contract!Conclude(c, v)
    BY <1>3 DEF Contract!Conclude, Verdict
  <1>5. \A w \in Workloads : WorkOn(w)' = WorkOn(w)
    BY <1>2 DEF WorkOn
  <1>6. QED
    BY <1>1, <1>4, <1>5 DEF Contract!GiveUp, WorkOn

\* TryLock begins the work, since a free key has no holder.
LEMMA TryLockBegins ==
  ASSUME SafeTiming, TypeOK, LockInv, NEW c \in Calls, TryLock(c),
         NEW w \in Workloads, req[c].workload = w
  PROVE  Contract!Begin(c, w)
  <1>1. /\ pc[c] = "acquiring" /\ pc' = [pc EXCEPT ![c] = "locked"] /\ lock[w] = 0
        /\ UNCHANGED <<req, applied>> /\ status' = [status EXCEPT ![c] = StartStatus]
    BY DEF TryLock, Goto, SetsIfAbsent, SetStatus, worldVars
  <1>2. req[c] # NoRequest
    BY <1>1 DEF Running, TypeOK
  <1>3. Contract!Pending(c)
    BY <1>1, PendingCalls DEF Holding
  <1>4. WorkOn(w) = {}
    BY <1>1, <1>2, FreeMeansNoHolder DEF LockInv, WorkOn
  <1>5. \A v \in Workloads : WorkOn(v)' = IF v = w THEN {c} ELSE WorkOn(v)
    BY <1>1, <1>4 DEF WorkOn, TypeOK, Holding
  <1>6. \A d \in Calls : Verdict(d)' = Verdict(d)
    BY <1>1 DEF Verdict, TypeOK
  <1>7. QED
    BY <1>1, <1>2, <1>3, <1>4, <1>5, <1>6 DEF Contract!Begin, WorkOn, Verdict

\* Release finishes the work with the verdict of the status.
LEMMA ReleaseFinishes ==
  ASSUME TypeOK, AuditInv, NEW c \in Calls, Release(c),
         NEW w \in Workloads, req[c].workload = w
  PROVE  Contract!Finish(c, w)
  <1>1. /\ \/ pc[c] = "releasing" /\ pc' = [pc EXCEPT ![c] = "returned"]
           \/ pc[c] = "unwinding" /\ pc' = [pc EXCEPT ![c] = "raised"]
        /\ UNCHANGED <<req, applied, status>>
    BY DEF Release, Goto, worldVars
  <1>2. pc[c] \in Holding
    BY <1>1 DEF Holding
  <1>3. c \in WorkOn(w)
    BY <1>2 DEF WorkOn
  <1>4. \A v \in Workloads : WorkOn(v)' = IF v = w THEN WorkOn(w) \ {c} ELSE WorkOn(v)
    BY <1>1 DEF WorkOn, TypeOK, Holding
  <1>5. \A d \in Calls : Verdict(d)' = IF d = c THEN status[c] ELSE Verdict(d)
    BY <1>1 DEF Verdict, TypeOK
  <1>6. \/ status[c] = "FAILED"
        \/ status[c] = "SUCCESS" /\ (req[c].dry_run \/ applied[c] > 0)
    BY <1>1 DEF AuditInv, StatusAtAwait
  <1>7. \A v : status[c] = v => Contract!Conclude(c, v)
    BY <1>5 DEF Contract!Conclude, Verdict
  <1>8. QED
    BY <1>1, <1>3, <1>4, <1>6, <1>7 DEF Contract!Finish, WorkOn

\* An attempt that reaches the cluster is one of the MaxRetries.
LEMMA AttemptsAffect ==
  ASSUME TypeOK, AuditInv, NEW c \in Calls, Act(c) \/ ActRaises(c)
  PROVE  Contract!Affect(c) \/ UNCHANGED Contract!vars
  <1>1. /\ pc[c] = "acting" /\ ~req[c].dry_run /\ UNCHANGED req
        /\ \A d \in Calls : d # c => pc'[d] = pc[d] /\ status'[d] = status[d]
        /\ pc'[c] \in {"acting", "succeeded", "failing"}
    BY DEF Act, ActRaises, Simulates, Goto, SetStatus, TypeOK
  <1>2. \A d \in Calls : /\ pc'[d] \in Holding <=> pc[d] \in Holding
                         /\ Verdict(d)' = Verdict(d)
    BY <1>1 DEF Holding, Verdict
  <1>3. CASE applied' = [applied EXCEPT ![c] = @ + 1]
    <2>1. applied[c] < MaxRetries
      BY <1>1, ServiceAssumptions DEF TypeOK, AuditInv, ChangesAreAttempts
    <2>2. Contract!AtWork(c)
      BY <1>1, HoldersAtWork DEF Holding
    <2>3. QED
      BY <1>1, <1>2, <1>3, <2>1, <2>2 DEF Contract!Affect, Verdict
  <1>4. CASE UNCHANGED applied
    BY <1>1, <1>2, <1>4, ContractStutters
  <1>5. QED
    BY <1>3, <1>4 DEF Act, ActRaises, ChangeCluster, worldVars

\* What a call does once it has its request is what the contract lets it do.
LEMMA StepKeepsContract ==
  ASSUME SafeTiming, TypeOK, LockInv, AuditInv, NEW c \in Calls, Step(c)
  PROVE  [Contract!Next]_(Contract!vars)
  <1> USE DEF Goto, SetStatus, worldVars
  <1>1. CASE StartExecution(c)
    <2>1. CASE pc' = [pc EXCEPT ![c] = "raised"]
      <3>1. status[c] = "PENDING" /\ pc[c] \notin Holding \cup {"returned", "raised", "crashed"}
        BY <1>1 DEF StartExecution, AuditInv, StatusAtAwait, Holding
      <3>2. Contract!GiveUp(c)
        BY <1>1, <2>1, <3>1, EndsAsGivenUp DEF StartExecution
      <3>3. QED
        BY <3>2 DEF Contract!Next
    <2>2. CASE pc' = [pc EXCEPT ![c] = "acquiring"]
      BY <1>1, <2>2, ContractStutters DEF StartExecution, TypeOK, Holding, Verdict
    <2>3. QED
      BY <1>1, <2>1, <2>2 DEF StartExecution
  <1>2. CASE LockTimeout(c) \/ LockError(c)
    BY <1>2, ContractStutters DEF LockTimeout, LockError, Refuse, TypeOK, Holding, Verdict
  <1>3. CASE TryLock(c)
    <2>1. PICK w \in Workloads : req[c].workload = w
      BY <1>3, RequestOfRunning DEF TryLock, Running
    <2>2. Contract!Begin(c, w)
      BY <1>3, <2>1, TryLockBegins
    <2>3. QED
      BY <2>2 DEF Contract!Next
  <1>4. CASE PersistRefusal(c)
    <2>1. status[c] = "FAILED" /\ pc[c] \notin Holding \cup {"returned", "raised", "crashed"}
      BY <1>4 DEF PersistRefusal, AuditInv, StatusAtAwait, Holding
    <2>2. UNCHANGED <<req, applied, status>> /\ \E l \in {"returned", "raised"} :
              pc' = [pc EXCEPT ![c] = l]
      BY <1>4 DEF PersistRefusal
    <2>3. Contract!GiveUp(c)
      BY <2>1, <2>2, EndsAsGivenUp
    <2>4. QED
      BY <2>3 DEF Contract!Next
  <1>5. CASE PersistStart(c) \/ PersistFinal(c) \/ PersistFailure(c)
    BY <1>5, ContractStutters DEF PersistStart, PersistFinal, PersistFailure, OnPersistError,
       TypeOK, Holding, Verdict
  <1>6. CASE DryRunAction(c) \/ ActUnknown(c) \/ SetCooldown(c)
    BY <1>6, ContractStutters DEF DryRunAction, ActUnknown, SetCooldown, TypeOK, Holding,
       Verdict
  <1>7. CASE Act(c) \/ ActRaises(c)
    BY <1>7, AttemptsAffect DEF Contract!Next
  <1>8. CASE Release(c)
    <2>1. PICK w \in Workloads : req[c].workload = w
      BY <1>8, RequestOfRunning DEF Release, Running, Holding
    <2>2. Contract!Finish(c, w)
      BY <1>8, <2>1, ReleaseFinishes
    <2>3. QED
      BY <2>2 DEF Contract!Next
  <1>9. QED
    BY <1>1, <1>2, <1>3, <1>4, <1>5, <1>6, <1>7, <1>8 DEF Step

\* Building a request asks for it, gives up, or says nothing.
LEMMA RequestKeepsContract ==
  ASSUME TypeOK, AuditInv, NEW c \in Calls,
         \/ \E i \in Incidents : Evaluate(c, i)
         \/ \E r \in RouteRequests \cup OtherRequests : Submit(c, r)
  PROVE  [Contract!Next]_(Contract!vars)
  <1>1. /\ pc[c] = "idle" /\ UNCHANGED <<applied, status>>
        /\ req[c] = NoRequest /\ status[c] = "PENDING"
    BY DEF Evaluate, Submit, Goto, worldVars, AuditInv, IdleIsFresh, StatusAtAwait
  <1>2. pc[c] \notin Holding \cup {"returned", "raised", "crashed"}
    BY <1>1 DEF Holding
  <1>3. CASE pc' = [pc EXCEPT ![c] = "raised"] /\ UNCHANGED req
    <2>1. Contract!GiveUp(c)
      BY <1>1, <1>2, <1>3, EndsAsGivenUp
    <2>2. QED
      BY <2>1 DEF Contract!Next
  <1>4. CASE pc' = [pc EXCEPT ![c] = "skipped"] /\ UNCHANGED req
    BY <1>1, <1>4, ContractStutters DEF TypeOK, Holding, Verdict
  <1>5. CASE /\ pc' = [pc EXCEPT ![c] = "proposed"]
             /\ \E r \in Requests : req' = [req EXCEPT ![c] = r]
    <2>1. Contract!Pending(c)
      BY <1>2, PendingCalls
    <2>2. \A w \in Workloads : WorkOn(w)' = WorkOn(w)
      BY <1>1, <1>5 DEF WorkOn, TypeOK, Holding
    <2>3. \A d \in Calls : Verdict(d)' = Verdict(d)
      BY <1>1, <1>5 DEF Verdict, TypeOK
    <2>4. Contract!Ask(c)
      BY <1>1, <1>5, <2>1, <2>2, <2>3 DEF Contract!Ask, WorkOn, Verdict
    <2>5. QED
      BY <2>4 DEF Contract!Next
  <1>6. \/ pc' = [pc EXCEPT ![c] = "raised"] /\ UNCHANGED req
        \/ pc' = [pc EXCEPT ![c] = "skipped"] /\ UNCHANGED req
        \/ /\ pc' = [pc EXCEPT ![c] = "proposed"]
           /\ \E r \in Requests : req' = [req EXCEPT ![c] = r]
    <2>1. ASSUME NEW i \in Incidents, Evaluate(c, i), MayPropose(i, TRUE) \/ MayPropose(i, FALSE)
          PROVE  [workload |-> i.workload, action |-> DetermineAction(i.type),
                  dry_run |-> DryRun] \in Requests
      <3>1. DetermineAction(i.type) \in Actions
        BY <2>1 DEF MayPropose, DetermineAction, Actions, Types
      <3>2. QED
        BY <3>1, ServiceAssumptions DEF Requests
    <2>2. ASSUME NEW i \in Incidents, Evaluate(c, i) PROVE <1>6!1 \/ <1>6!2 \/ <1>6!3
      BY <2>1, <2>2 DEF Evaluate, Goto, MayPropose, CooldownAnswers
    <2>3. ASSUME NEW r \in RouteRequests \cup OtherRequests, Submit(c, r)
          PROVE  <1>6!3
      <3>1. r \in Requests
        BY ServiceAssumptions DEF RouteRequests, Requests, Actions
      <3>2. QED
        BY <2>3, <3>1 DEF Submit, Goto
    <2>4. QED
      BY <2>2, <2>3
  <1>7. QED
    BY <1>3, <1>4, <1>5, <1>6

\* A crash loses the running calls of the replica.
LEMMA CrashLoses ==
  ASSUME TypeOK, NEW p \in Replicas, Crash(p)
  PROVE  [Contract!Next]_(Contract!vars)
  <1> PICK S \in SUBSET Calls : S = {c \in Calls : Host[c] = p /\ pc[c] \in Running}
    OBVIOUS
  <1>1. /\ pc' = [c \in Calls |-> IF c \in S THEN "crashed" ELSE pc[c]]
        /\ UNCHANGED <<req, applied, status>>
    BY DEF Crash, worldVars
  <1>2. \A c \in S : Verdict(c) = "NONE"
    BY DEF Verdict, Running, Holding
  <1>3. \A w \in Workloads : WorkOn(w)' = WorkOn(w) \ S
    BY <1>1 DEF WorkOn, Holding
  <1>4. \A c \in Calls : Verdict(c)' = IF c \in S THEN "LOST" ELSE Verdict(c)
    BY <1>1 DEF Verdict
  <1>5. Contract!Lose(S)
    BY <1>1, <1>2, <1>3, <1>4 DEF Contract!Lose, WorkOn, Verdict
  <1>6. QED
    BY <1>5 DEF Contract!Next

\* The service keeps its contract whatever the replicas, the calls and the faults,
\* as long as the lock outlives its holders (remediation_service.py:40-166).
THEOREM ServiceKeepsContract == SafeTiming => (Spec => RefinesContract)
  <1> SUFFICES ASSUME SafeTiming PROVE Spec => RefinesContract
    OBVIOUS
  <1>1. Init => Contract!Init
    BY DEF Init, Contract!Init, Holding
  <1>2. TypeOK /\ LockInv /\ AuditInv /\ [Next]_vars => [Contract!Next]_(Contract!vars)
    <2> SUFFICES ASSUME TypeOK, LockInv, AuditInv, [Next]_vars
                 PROVE  [Contract!Next]_(Contract!vars)
      OBVIOUS
    <2>1. CASE UNCHANGED vars \/ Tick
      <3>1. UNCHANGED <<pc, req, applied, status>>
        BY <2>1 DEF vars, callVars, worldVars, Tick
      <3>2. QED
        BY <3>1, ContractStutters DEF Verdict
    <2>2. QED
      BY <2>1, StepKeepsContract, RequestKeepsContract, CrashLoses DEF Next
  <1>3. QED
    BY <1>1, <1>2, TypeCorrect, LockHolds, AuditHolds, PTL DEF Spec, RefinesContract, Contract!Spec
=============================================================================
