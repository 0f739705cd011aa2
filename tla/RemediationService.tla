--------------------------- MODULE RemediationService ---------------------------
(***************************************************************************)
(* app/services/remediation_service.py with the Redis lock and cooldown it *)
(* uses (app/cache/redis.py) and the routes that call it                   *)
(* (app/api/routes/remediation.py).                                        *)
(*                                                                         *)
(* A call is one remediation: its request is built by evaluate_remediation *)
(* or by a route, then execute_remediation runs it.  Calls run on several  *)
(* replicas and interleave at every await.  pc[c] names the await at which *)
(* call c is suspended:                                                    *)
(*                                                                         *)
(*   idle -> proposed -> acquiring -> locked -> acting -> succeeded        *)
(*                          |           |         |           |            *)
(*                          |           +----+----+        finished        *)
(*                          |                v                |            *)
(*                       refused          failing <-----------+            *)
(*                          |                v                v            *)
(*                       returned        unwinding        releasing        *)
(*                       or raised      then raised     then returned      *)
(*                                                                         *)
(* Time is discrete: Tick is the passing of one unit.  What the world can  *)
(* do to a call is given by Faults.                                        *)
(***************************************************************************)
EXTENDS Naturals, Sequences, SequencesExt

CONSTANTS
    Calls,              \* the remediations attempted
    Replicas,           \* the processes of the deployment
    Host,               \* [Calls -> Replicas]
    Workloads,          \* records [namespace, name]
    NoRequest,          \* what a call has before its request is built
    Incidents,          \* records [workload, type], what evaluate is given
    OtherRequests,      \* requests built by direct callers of the service
    RemediationEnabled, AllowedNamespaces, AllowedWorkloads, DryRun,
    MaxRetries,         \* settings.remediation_max_retries
    CooldownTTL,        \* settings.remediation_cooldown_seconds
    LockTTL, LockWait,  \* ttl and wait_timeout of DistributedLock.acquire
    MaxRun,             \* the longest a call holds on between SET and DELETE
    InitialReplicas,    \* replica counts a workload may start with
    UseEnumValues,      \* whether a validated enum field is kept as a string
    Faults              \* which faults the world may show

Types == {"POD_CRASH_LOOP", "HIGH_CPU", "HIGH_MEMORY", "REPLICA_SHORTAGE",
          "HIGH_ERROR_RATE", "HIGH_LATENCY", "DEPLOYMENT_FAILURE", "NETWORK_ISSUE"}
Actions == {"RESTART", "SCALE", "ROLLOUT_RESTART", "DELETE_POD", "PATCH_DEPLOYMENT"}
Statuses == {"PENDING", "IN_PROGRESS", "SUCCESS", "FAILED", "SKIPPED"}
FaultKinds == {"redis", "database", "cluster", "crash"}

Requests == [workload : Workloads, action : Actions, dry_run : BOOLEAN]
NoAction == "no action"
NoId == 0

ASSUME ServiceAssumptions ==
    /\ Host \in [Calls -> Replicas]
    /\ Incidents \subseteq [workload : Workloads, type : Types]
    /\ OtherRequests \subseteq Requests
    /\ NoRequest \notin Requests
    /\ RemediationEnabled \in BOOLEAN /\ DryRun \in BOOLEAN /\ UseEnumValues \in BOOLEAN
    /\ MaxRetries \in Nat \ {0} /\ LockTTL \in Nat \ {0}
    /\ CooldownTTL \in Nat /\ LockWait \in Nat /\ MaxRun \in Nat
    /\ InitialReplicas \subseteq Nat
    /\ Faults \subseteq FaultKinds

VARIABLES
    pc, req, status, id,       \* the call and its RemediationAction object
    waited, elapsed, attempts, \* time in acquire, time since SET, attempts made
    rows,                      \* remediation_actions rows of each call, in order
    lock, cooldown,            \* Redis: time to live of each key, 0 when absent
    applied, replicas          \* the cluster: changes made, desired replicas

callVars == <<pc, req, status, id, waited, elapsed, attempts>>
redisVars == <<lock, cooldown>>
worldVars == <<applied, replicas>>
vars == <<callVars, rows, redisVars, worldVars>>

Locations == {"idle", "proposed", "acquiring", "refused", "locked", "acting",
              "succeeded", "finished", "failing", "releasing", "unwinding",
              "returned", "raised", "skipped", "crashed"}
Holding == {"locked", "acting", "succeeded", "finished", "failing",
            "releasing", "unwinding"}
Running == Holding \cup {"proposed", "acquiring", "refused"}
Ended == {"returned", "raised", "skipped", "crashed"}

\* cooldown_key: the third part is an incident type or an action.
CooldownKey(w, suffix) == <<w, suffix>>
CooldownKeys == {CooldownKey(w, suffix) : w \in Workloads, suffix \in Types \cup Actions}

\* What is set without a time to live stays: it has a unit that is never used up.
CooldownLife == IF CooldownTTL = 0 THEN 1 ELSE CooldownTTL

TypeOK ==
    /\ pc \in [Calls -> Locations]
    /\ req \in [Calls -> Requests \cup {NoRequest}]
    /\ status \in [Calls -> Statuses]
    /\ id \in [Calls -> {NoId}]      \* IdAfterAdd: no persist ever sets it
    /\ waited \in [Calls -> 0 .. LockWait]
    /\ elapsed \in [Calls -> 0 .. MaxRun]
    /\ attempts \in [Calls -> 0 .. MaxRetries]
    /\ rows \in [Calls -> Seq(Statuses)]
    /\ lock \in [Workloads -> 0 .. LockTTL]
    /\ cooldown \in [CooldownKeys -> 0 .. CooldownLife]
    /\ applied \in [Calls -> Nat]
    /\ replicas \in [Workloads -> Nat]
    /\ \A c \in Calls : pc[c] \in Running => req[c] # NoRequest
    /\ \A c \in Calls : pc[c] \in {"idle", "proposed", "acquiring", "locked", "acting"}
                           => attempts[c] < MaxRetries

Init ==
    /\ pc = [c \in Calls |-> "idle"]
    /\ req = [c \in Calls |-> NoRequest]
    /\ status = [c \in Calls |-> "PENDING"]
    /\ id = [c \in Calls |-> NoId]
    /\ waited = [c \in Calls |-> 0]
    /\ elapsed = [c \in Calls |-> 0]
    /\ attempts = [c \in Calls |-> 0]
    /\ rows = [c \in Calls |-> <<>>]
    /\ lock = [w \in Workloads |-> 0]
    /\ cooldown = [k \in CooldownKeys |-> 0]
    /\ applied = [c \in Calls |-> 0]
    /\ replicas \in [Workloads -> InitialReplicas]

Goto(c, here, there) ==
    /\ pc[c] = here
    /\ pc' = [pc EXCEPT ![c] = there]

SetStatus(c, s) == status' = [status EXCEPT ![c] = s]

-----------------------------------------------------------------------------
(* Building a request: evaluate_remediation and the two routes.            *)

DetermineAction(type) ==
    CASE type = "POD_CRASH_LOOP" -> "RESTART"
      [] type \in {"REPLICA_SHORTAGE", "HIGH_CPU", "HIGH_MEMORY"} -> "SCALE"
      [] OTHER -> NoAction

Approved(w) ==
    /\ RemediationEnabled
    /\ w.namespace \in AllowedNamespaces
    /\ AllowedWorkloads # {} => w.name \in AllowedWorkloads

\* RedisCache.exists answers False when Redis fails.
CooldownAnswers(key) ==
    {cooldown[key] > 0} \cup (IF "redis" \in Faults THEN {FALSE} ELSE {})

EvaluationKey(i) == CooldownKey(i.workload, i.type)

MayPropose(i, inCooldown) ==
    /\ Approved(i.workload)
    /\ ~inCooldown
    /\ DetermineAction(i.type) # NoAction

\* evaluate_remediation reads incident.type.value once the whitelists passed:
\* with the enum kept as a string this raises.
Evaluate(c, i) ==
    /\ UNCHANGED <<status, id, waited, elapsed, attempts, rows, redisVars, worldVars>>
    /\ IF Approved(i.workload) /\ UseEnumValues
       THEN Goto(c, "idle", "raised") /\ UNCHANGED req
       ELSE \E inCooldown \in CooldownAnswers(EvaluationKey(i)) :
              IF MayPropose(i, inCooldown)
              THEN /\ Goto(c, "idle", "proposed")
                   /\ req' = [req EXCEPT ![c] =
                                [workload |-> i.workload,
                                 action |-> DetermineAction(i.type),
                                 dry_run |-> DryRun]]
              ELSE Goto(c, "idle", "skipped") /\ UNCHANGED req

\* Slip: the routes take dry_run from the caller.
RouteRequestsAnyMode ==
    [workload : Workloads, action : {"RESTART", "SCALE"}, dry_run : BOOLEAN]

\* POST /remediation/{workload}/restart and /scale: any workload, no evaluation.
RouteRequests ==
    [workload : Workloads, action : {"RESTART", "SCALE"}, dry_run : {TRUE}]

Submit(c, r) ==
    /\ Goto(c, "idle", "proposed")
    /\ req' = [req EXCEPT ![c] = r]
    /\ UNCHANGED <<status, id, waited, elapsed, attempts, rows, redisVars, worldVars>>

-----------------------------------------------------------------------------
(* execute_remediation: the lock.                                          *)

Lock(w) == lock' = [lock EXCEPT ![w] = LockTTL]

\* The first statement logs remediation.action.value: as Evaluate.
StartExecution(c) ==
    /\ Goto(c, "proposed", IF UseEnumValues THEN "raised" ELSE "acquiring")
    /\ UNCHANGED <<req, status, id, waited, elapsed, attempts, rows, redisVars, worldVars>>

\* SET NX; slip: without nx.
SetsAnyway(w) == TRUE
SetsIfAbsent(w) == lock[w] = 0

\* The row of the first persist says IN_PROGRESS; slip: it says SUCCESS.
OptimisticStatus == "SUCCESS"
StartStatus == "IN_PROGRESS"

TryLock(c) ==
    /\ Goto(c, "acquiring", "locked")
    /\ waited[c] < LockWait
    /\ SetsIfAbsent(req[c].workload)
    /\ Lock(req[c].workload)
    /\ elapsed' = [elapsed EXCEPT ![c] = 0]
    /\ SetStatus(c, StartStatus)
    /\ UNCHANGED <<req, id, waited, attempts, rows, cooldown, worldVars>>

Refuse(c) ==
    /\ Goto(c, "acquiring", "refused")
    /\ SetStatus(c, "FAILED")
    /\ UNCHANGED <<req, id, waited, elapsed, attempts, rows, cooldown, worldVars>>

LockTimeout(c) ==
    /\ Refuse(c)
    /\ waited[c] >= LockWait
    /\ UNCHANGED lock

\* A RedisError: the SET may have reached the server all the same.
LockError(c) ==
    /\ Refuse(c)
    /\ "redis" \in Faults
    /\ waited[c] < LockWait
    /\ \/ UNCHANGED lock
       \/ SetsIfAbsent(req[c].workload) /\ Lock(req[c].workload)

\* DistributedLock.release deletes the key, whoever set it.
ReleaseLock(c) ==
    \/ lock' = [lock EXCEPT ![req[c].workload] = 0]
    \/ "redis" \in Faults /\ UNCHANGED lock

-----------------------------------------------------------------------------
(* _persist_remediation.                                                   *)

\* remediation.id = db_remediation.id runs before the flush that sets the
\* column default, so the new row's id is still None.
IdAfterAdd(c) == NoId

\* The row update or insert of one persist with status s.
WriteRow(c, s) ==
    IF id[c] # NoId
    THEN rows' = [rows EXCEPT ![c][id[c]] = s] /\ UNCHANGED id
    ELSE /\ rows' = [rows EXCEPT ![c] = Append(@, s)]
         /\ id' = [id EXCEPT ![c] = IdAfterAdd(c)]

PersistOk(c) == WriteRow(c, status[c])

\* The session raises: nothing is written, or the commit's answer is lost.
PersistError(c) ==
    /\ "database" \in Faults
    /\ \/ UNCHANGED <<rows, id>>
       \/ WriteRow(c, status[c])

\* Slip: a refused call queues for the lock again.
PersistRefusalRetrying(c) ==
    /\ Goto(c, "refused", "acquiring")
    /\ waited' = [waited EXCEPT ![c] = 0]
    /\ UNCHANGED <<req, status, id, elapsed, attempts, rows, redisVars, worldVars>>

PersistRefusal(c) ==
    /\ \/ Goto(c, "refused", "returned") /\ PersistOk(c)
       \/ Goto(c, "refused", "raised") /\ PersistError(c)
    /\ UNCHANGED <<req, status, waited, elapsed, attempts, redisVars, worldVars>>

\* Slip: the remediation goes on although its first row could not be written.
PersistStartAnyway(c) ==
    /\ Goto(c, "locked", "acting")
    /\ PersistOk(c) \/ PersistError(c)
    /\ UNCHANGED <<req, status, waited, elapsed, attempts, redisVars, worldVars>>

PersistStart(c) ==
    /\ \/ Goto(c, "locked", "acting") /\ PersistOk(c) /\ UNCHANGED status
       \/ Goto(c, "locked", "failing") /\ PersistError(c) /\ SetStatus(c, "FAILED")
    /\ UNCHANGED <<req, waited, elapsed, attempts, redisVars, worldVars>>

\* A raising persist ends in the except clause; slip: it is swallowed.
SwallowsError == "releasing"
OnPersistError == "failing"

PersistFinal(c) ==
    /\ \/ Goto(c, "finished", "releasing") /\ PersistOk(c) /\ UNCHANGED status
       \/ Goto(c, "finished", OnPersistError) /\ PersistError(c) /\ SetStatus(c, "FAILED")
    /\ UNCHANGED <<req, waited, elapsed, attempts, redisVars, worldVars>>

\* The except clause: the call raises whether or not its row is written.
PersistFailure(c) ==
    /\ Goto(c, "failing", "unwinding")
    /\ PersistOk(c) \/ PersistError(c)
    /\ UNCHANGED <<req, status, waited, elapsed, attempts, redisVars, worldVars>>

-----------------------------------------------------------------------------
(* The remediation itself.                                                 *)

ScaleTarget == 4

\* The cluster carries out the request of c.
ChangeCluster(c) ==
    /\ applied' = [applied EXCEPT ![c] = @ + 1]
    /\ IF req[c].action = "SCALE"
       THEN replicas' = [replicas EXCEPT ![req[c].workload] = ScaleTarget]
       ELSE UNCHANGED replicas

Known(action) == action \in {"RESTART", "SCALE", "ROLLOUT_RESTART"}

\* The branch at line 114; slip: it is lost.
NeverSimulates(c) == FALSE
Simulates(c) == req[c].dry_run

DryRunAction(c) ==
    /\ Goto(c, "acting", "succeeded")
    /\ Simulates(c)
    /\ SetStatus(c, "SUCCESS")
    /\ UNCHANGED <<req, id, waited, elapsed, attempts, rows, redisVars, worldVars>>

\* One attempt of _execute_remediation_action that answers True ...
Act(c) ==
    /\ Goto(c, "acting", "succeeded")
    /\ ~Simulates(c) /\ Known(req[c].action)
    /\ SetStatus(c, "SUCCESS")
    /\ ChangeCluster(c)
    /\ attempts' = [attempts EXCEPT ![c] = @ + 1]
    /\ UNCHANGED <<req, id, waited, elapsed, rows, redisVars>>

\* ... that answers False ...
ActUnknown(c) ==
    /\ Goto(c, "acting", "finished")
    /\ ~Simulates(c) /\ ~Known(req[c].action)
    /\ SetStatus(c, "FAILED")
    /\ attempts' = [attempts EXCEPT ![c] = @ + 1]
    /\ UNCHANGED <<req, id, waited, elapsed, rows, redisVars, worldVars>>

\* stop_after_attempt; slip: one too many.
LastAttemptLate(c) == attempts[c] >= MaxRetries
LastAttempt(c) == attempts[c] + 1 >= MaxRetries

\* ... and that raises, with the change made or not: tenacity tries again
\* until the last attempt, whose RetryError reaches the except clause.
ActRaises(c) ==
    /\ "cluster" \in Faults
    /\ pc[c] = "acting"
    /\ ~Simulates(c) /\ Known(req[c].action)
    /\ attempts' = [attempts EXCEPT ![c] = @ + 1]
    /\ IF LastAttempt(c)
       THEN Goto(c, "acting", "failing") /\ SetStatus(c, "FAILED")
       ELSE UNCHANGED <<pc, status>>
    /\ ChangeCluster(c) \/ UNCHANGED worldVars
    /\ UNCHANGED <<req, id, waited, elapsed, rows, redisVars>>

\* RedisCache.set swallows a RedisError.
SetCooldown(c) ==
    /\ Goto(c, "succeeded", "finished")
    /\ \/ cooldown' = [cooldown EXCEPT
                         ![CooldownKey(req[c].workload, req[c].action)] = CooldownLife]
       \/ "redis" \in Faults /\ UNCHANGED cooldown
    /\ UNCHANGED <<req, status, id, waited, elapsed, attempts, rows, lock, worldVars>>

\* Slip: the lock is released on the way to return only, not in a finally.
ReleaseOnReturn(c) ==
    /\ \/ Goto(c, "releasing", "returned") /\ ReleaseLock(c)
       \/ Goto(c, "unwinding", "raised") /\ UNCHANGED lock
    /\ UNCHANGED <<req, status, id, waited, elapsed, attempts, rows, cooldown, worldVars>>

\* finally: the lock goes whatever happened, then the call returns or raises.
Release(c) ==
    /\ Goto(c, "releasing", "returned") \/ Goto(c, "unwinding", "raised")
    /\ ReleaseLock(c)
    /\ UNCHANGED <<req, status, id, waited, elapsed, attempts, rows, cooldown, worldVars>>

-----------------------------------------------------------------------------
(* The world.                                                              *)

\* A replica dies: its calls are gone and what they left in Redis stays.
Crash(p) ==
    /\ "crash" \in Faults
    /\ \E c \in Calls : Host[c] = p /\ pc[c] \in Running
    /\ pc' = [c \in Calls |-> IF Host[c] = p /\ pc[c] \in Running
                              THEN "crashed" ELSE pc[c]]
    /\ UNCHANGED <<req, status, id, waited, elapsed, attempts, rows, redisVars, worldVars>>

CountDown(ttl) == IF ttl = 0 THEN 0 ELSE ttl - 1

\* Slip: SET without ex.
LocksStay == UNCHANGED lock

\* Redis expires the lock keys, and the cooldown keys that have a time to live.
AgeLocks == lock' = [w \in Workloads |-> CountDown(lock[w])]
AgeCooldowns ==
    cooldown' = IF CooldownTTL = 0 THEN cooldown
                ELSE [k \in CooldownKeys |-> CountDown(cooldown[k])]

\* One unit of time.  A holder that has run for MaxRun moves on first.
Tick ==
    /\ \A c \in Calls : pc[c] \in Holding => elapsed[c] < MaxRun
    /\ waited' = [c \in Calls |-> IF pc[c] = "acquiring" /\ waited[c] < LockWait
                                  THEN waited[c] + 1 ELSE waited[c]]
    /\ elapsed' = [c \in Calls |-> IF pc[c] \in Holding THEN elapsed[c] + 1
                                   ELSE elapsed[c]]
    /\ AgeLocks
    /\ AgeCooldowns
    /\ UNCHANGED <<pc, req, status, id, attempts, rows, worldVars>>

\* What a call does once it has its request.
Step(c) ==
    \/ StartExecution(c) \/ TryLock(c) \/ LockTimeout(c) \/ LockError(c)
    \/ PersistRefusal(c) \/ PersistStart(c) \/ PersistFinal(c) \/ PersistFailure(c)
    \/ DryRunAction(c) \/ Act(c) \/ ActUnknown(c) \/ ActRaises(c)
    \/ SetCooldown(c) \/ Release(c)

Next ==
    \/ \E c \in Calls :
         \/ \E i \in Incidents : Evaluate(c, i)
         \/ \E r \in RouteRequests \cup OtherRequests : Submit(c, r)
         \/ Step(c)
    \/ \E p \in Replicas : Crash(p)
    \/ Tick

Spec == Init /\ [][Next]_vars

\* The event loop resumes a call whose await is over, and time passes.
Fairness == WF_vars(Tick) /\ \A c \in Calls : WF_vars(Step(c))
LiveSpec == Spec /\ Fairness

-----------------------------------------------------------------------------
(* Properties.                                                             *)

\* The lock outlives every holder: what the constants must satisfy for the
\* lock to protect anything.
SafeTiming == MaxRun < LockTTL

\* No two calls are between the SET and the DELETE of the lock of the same
\* workload (remediation_service.py:103-166, redis.py:168-206).
MutualExclusion ==
    \A c, d \in Calls :
        /\ pc[c] \in Holding /\ pc[d] \in Holding
        /\ req[c].workload = req[d].workload
        => c = d

\* Why: the key of a holder is still there, with what the holder's run has left
\* of its time to live (ttl=60 at remediation_service.py:103).
HolderHasLock ==
    \A c \in Calls : pc[c] \in Holding =>
        lock[req[c].workload] + elapsed[c] = LockTTL

\* The inductive invariant of the lock.
LockInv == HolderHasLock /\ MutualExclusion

\* Only a crash or Redis itself can leave a lock key behind: with Redis up a key
\* has a call that will delete it, whichever way out of execute_remediation that
\* call takes (the finally clause, 165-166), or that died before it could.
NoOrphanLock ==
    "redis" \notin Faults =>
        \A w \in Workloads : lock[w] > 0 =>
            \E c \in Calls : /\ pc[c] \in Holding \cup {"crashed"}
                            /\ req[c] # NoRequest /\ req[c].workload = w

\* Whatever failed on the way, a SUCCESS row stands for a dry run or for a
\* change the cluster made (rows written at 111-112, 151 and 162).
SuccessRowsAreTrue ==
    \A c \in Calls : "SUCCESS" \in ToSet(rows[c]) => req[c].dry_run \/ applied[c] > 0

\* No change of the cluster goes without a row, whatever fails and whoever dies between
\* the change and the row that tells its outcome: there is a row before the first attempt
\* (111-118).
ChangeIsOnRecord == \A c \in Calls : applied[c] > 0 => rows[c] # <<>>

\* A call that returns has told its outcome to the audit table last: the
\* returned status is final and is the status of the call's newest row.
ReturnedOutcomeIsRecorded ==
    \A c \in Calls : pc[c] = "returned" =>
        /\ status[c] \in {"SUCCESS", "FAILED"}
        /\ rows[c] # <<>>
        /\ Last(rows[c]) = status[c]

\* The cluster is only ever changed in approved namespaces and workloads: the
\* routes skip evaluate_remediation and its whitelists (47-62), and their
\* requests are dry runs (routes/remediation.py:56,87).
OnlyApprovedTouched ==
    OtherRequests = {} =>
        \A c \in Calls : applied[c] > 0 => Approved(req[c].workload)

\* The service keeps its contract: a call is at work while it holds the lock
\* and its verdict is the status with which it returned or raised.
Contract == INSTANCE RemediationContract WITH
    request <- req,
    active <- [w \in Workloads |->
                 {c \in Calls : pc[c] \in Holding /\ req[c].workload = w}],
    effects <- applied,
    verdict <- [c \in Calls |->
                  CASE pc[c] \in {"returned", "raised"} -> status[c]
                    [] pc[c] = "crashed" -> "LOST"
                    [] OTHER -> "NONE"]
RefinesContract == Contract!Spec

\* The steps a call has left at most.
StepsLeft(c) ==
    LET retries == MaxRetries - attempts[c]
    IN  CASE pc[c] = "proposed" -> 7 + retries [] pc[c] = "acquiring" -> 6 + retries
          [] pc[c] = "locked" -> 5 + retries   [] pc[c] = "acting" -> 4 + retries
          [] pc[c] = "succeeded" -> 4          [] pc[c] = "finished" -> 3
          [] pc[c] = "failing" -> 2
          [] pc[c] \in {"refused", "releasing", "unwinding"} -> 1
          [] OTHER -> 0

\* Whatever fails, and whatever the others do, each step of a call uses up one of at most
\* MaxRetries + 7: no error path leads back, and an attempt is only repeated while there
\* is one left (98-166; stop_after_attempt at 167-170).
StepsRunOut ==
    [][\A c \in Calls : pc[c] # "idle" =>
         /\ StepsLeft(c)' \in 0 .. StepsLeft(c)
         /\ Step(c) => StepsLeft(c)' # StepsLeft(c)]_vars

\* A call that has its request ends: the wait for the lock and the retries
\* are bounded, and no failure leaves it suspended.
EveryCallEnds == \A c \in Calls : pc[c] = "proposed" ~> pc[c] \in Ended

\* A lock key never stays: whoever set it, crashed or not, it is deleted or it
\* expires (the ex argument of SET, redis.py:182-187).
LocksExpire == \A w \in Workloads : lock[w] > 0 ~> lock[w] = 0

\* README.md:306: "Cooldown Periods: Prevent repeated remediation on same
\* workload": an action in cooldown on a workload is not proposed again.
CooldownPreventsRepeat ==
    [][\A c \in Calls, i \in Incidents :
         Evaluate(c, i) /\ pc'[c] = "proposed" =>
             cooldown[CooldownKey(i.workload, req'[c].action)] = 0]_vars
=============================================================================
