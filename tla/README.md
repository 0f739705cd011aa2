# Opscode in TLA+

A verification project for Opscode, the Kubernetes operations platform under
`src/python-k8s-opscode/`. Paths below are relative to `src/python-k8s-opscode/app/`
unless they say otherwise.

## The system

A FastAPI application runs as two replicas (`kubernetes/deployment.yaml:10`). Each is
one asyncio event loop: coroutines interleave at every `await`, and nothing in memory is
shared between replicas. They share a PostgreSQL database and a Redis server.

| Component | State | Operations | Interacts with |
|---|---|---|---|
| `services/remediation_service.py` | rows of `remediation_actions`; the lock and cooldown keys in Redis | evaluate, execute (lock, persist, act, cooldown, persist, release), list | Redis, database, cluster, routes |
| `cache/redis.py` | keys with a time to live | get, set, delete, exists; `DistributedLock` acquire and release | every service |
| `services/incident_service.py` | rows of `incidents`; cached incidents | create (select, then insert), get (through the cache), list, acknowledge, resolve | database, Redis, monitoring, routes |
| `services/workload_service.py` | rows of `workloads`; cached workloads | get, persist (select, then update or insert), invalidate | cluster, database, Redis, monitoring |
| `services/monitoring_service.py` | the scheduler, `_running` | start, stop, three interval jobs: discovery, health, incident detection | workload and incident services, Redis |
| health and detection rules (`monitoring_service.py:143-283`, `kubernetes/workload_manager.py:20-57`) | none | pure functions of a workload and its pods | monitoring |
| `services/alert_service.py` | rows of `alerts` | create, get, list, resolve | database |
| `main.py`, `database/connection.py` | global engine, Redis client, services | startup, shutdown | all |
| `kubernetes/client.py` | connection | reads; restart, scale, delete pod | cluster |
| routes, configuration, logging, metrics, cloud | little or none | see `PROJECT.json` | |

### What is hard here

* **Two replicas, no unique constraint.** `create_incident` and `persist_workload` look
  for a row and then insert it in READ COMMITTED transactions; nothing in the schema
  refuses the second row, and `scalar_one_or_none` raises for ever once there are two.
* **A lock with a time to live and no owner.** `DistributedLock` stores the same value for
  every holder and `release` deletes the key unconditionally.
* **Failure in the middle.** A call persists, acts, persists; each step may raise, and the
  process may die between any two.
* **A cache filled after a read that has become stale**, beside an invalidation that has
  already run.
* **A workload read in two calls** (deployments, then pods) from a cluster that goes on
  changing, cached for a minute and written column by column by jobs that overlap.
* **One `except` for a whole round** of each job: whatever fails hides what comes after.
* **A shutdown that does not wait** for the jobs it interrupts.
* **Keys and thresholds that must agree** across functions that are tested apart.

### What each component must guarantee

* Remediation: one call at work per workload; a dry run changes nothing; only approved
  workloads are changed; a recorded success is true; a returned call's outcome is its
  newest row; no change is made without a row on record; the lock is given back or expires;
  every call ends; a cooldown prevents a repeat.
* Incidents: at most one OPEN incident per workload and type; an incident is never reopened;
  a reader sees an acknowledgement once it has been answered.
* Workloads: a caller inserts one row of a workload; a row and a cached copy tell what the
  cluster is like once it is still, however many callers have mixed their columns.
* Monitoring: a condition that lasts is reported, again and again; what is an incident has
  failed a health check; the same rule written in three places is one rule; every job ends.
* Lifespan: requests have their connections to the end; nothing goes on once the scheduler's
  shutdown has run; a shutdown that ended has closed everything; the process exits.

## As committed, the process does not start

Four facts of the commit decide how the models are to be read.

1. `database/models.py` names a column attribute `metadata`, which SQLAlchemy reserves, so
   the module cannot be imported; the routes annotate parameters with names they do not
   import. The models translate the control flow of the services, which the unit tests
   describe, and not an import error.
2. The domain models are configured with `use_enum_values = True`: an enum field that was
   validated is a plain string and reading `.value` of it raises `AttributeError`. The
   constant `UseEnumValues` says which reading a run or theorem is about: `TRUE` is the
   code as configured, in which every remediation raises before it has the lock
   (`remediation_service.py:97`, the unit test's dry run included), each detected incident
   before the select, and the health job at the first workload that comes from Redis
   (`monitoring_service.py:180`); `FALSE` is the code with enum fields that are enums, what
   the services assume. The theorems hold for both.
3. `RedisCache.set` serialises with `json.dumps`, which raises `TypeError` on the
   `datetime` values `model_dump()` leaves; the exception is not a `RedisError` and leaves
   the caller. A `GET` of an incident that exists is answered 404, and the health and
   detection jobs never get past filling the list. The constant `CacheSerialises` is `FALSE`
   for that and `TRUE` for a cache that accepts what it is given; the theorems again hold
   for both.
4. `kubernetes/configmap.yaml:41` gives a comma-separated value to a list setting, which
   pydantic-settings reads as JSON and refuses.

The cluster client uses names its library does not have (`metadata.creation_time`,
`V1RolloutConfig`, `timeout_seconds` of a read), and the phase of a pod is never
"CrashLoopBackOff" but in the mock. The modules take the client for what its callers
think it is: calls that answer or raise `KubernetesConnectionError`.

Some plain facts are easier read in the code than in a counterexample, and have no run:

* Every persist of a remediation inserts (`remediation_service.py:242` takes the id before
  the flush that sets it), so an IN_PROGRESS row is never updated, though a later row of
  the same call tells its outcome (`ReturnedOutcomeIsRecorded`).
* SCALE sets four replicas whatever there are (line 185); a workload of five loses one.
* Two replicas that both select before either inserts leave two OPEN incidents of a key
  (`incident_service.py:29`), and two overlapping persists two rows of a workload
  (`workload_service.py:68`). From then on `scalar_one_or_none` raises.
* Nothing ever deletes the row of a deployment that is gone.
* `get_workload` of a deployment that is not there raises `WorkloadNotFoundError`, which
  its route does not catch. `health_check_key` is called with its arguments swapped, and
  nothing reads that key. The mock answers `True` for deployments it does not have, and
  in development each request gets a mock of its own.

## Modules

| Module | Models |
|---|---|
| `RemediationContract` | what the remediation service promises, with no lock, database or time |
| `RemediationService` | `services/remediation_service.py`, the lock and cooldown of `cache/redis.py`, the two POST routes |
| `RemediationServiceProofs` | theorems about `RemediationService`: types, the lock and the steps of a call |
| `RemediationAuditProofs` | theorems about what a call leaves: rows, changes of the cluster, the lock key |
| `RemediationContractProofs` | the theorem that `RemediationService` implements `RemediationContract` |
| `IncidentContract` | what the incident service promises, with no sessions, cache or loaded objects |
| `IncidentService` | `services/incident_service.py`, its routes, the detection job's loop, the cached incidents |
| `IncidentServiceProofs` | theorems about `IncidentService` |
| `IncidentContractProofs` | the theorem that `IncidentService` implements `IncidentContract` |
| `WorkloadManager` | `kubernetes/workload_manager.py` and the reads of `kubernetes/client.py`: what is made of the cluster |
| `HealthRules` | the rules of health and detection (`monitoring_service.py:143-283`, `domain/models/workload.py:36-52`) |
| `HealthRulesProofs` | theorems about `HealthRules` |
| `WorkloadContract` | what `persist_workload` promises: each column of a row is a register |
| `WorkloadService` | `services/workload_service.py`, its routes, the three monitoring jobs, the `workloads` table, the cached workloads |
| `WorkloadServiceProofs` | theorems about `WorkloadService`, among them that it implements `WorkloadContract` |
| `Lifespan` | `lifespan` of `main.py`, the connections it opens and closes, start and stop of monitoring, jobs and requests as far as they hold a session |
| `LifespanProofs` | theorems about `Lifespan` |
| `MCRemediationService`, `MCIncidentService`, `MCWorkloadService`, `MCLifespan` | values of the constants for TLC |

`WorkloadService` extends `HealthRules`, which extends `WorkloadManager`: a job reads the
cluster through the manager, applies the rules to what it has read and stores the
result. `IncidentService` and `WorkloadService` meet in `create_incident`: the former
models it with its two transactions and what its failure does to a job, the latter as the
one step it is for a job without rival, which is made or raises (`Wedged`).

A definition whose comment begins with "Slip" is a mistake the code might have had. It is
used by nothing in the specification; put in the place of the definition after it, it must
break the property `PROJECT.json` pairs it with.

### RemediationService

A *call* is one remediation. `pc[c]` names the `await` at which its coroutine is suspended;
the diagram at the head of the module is the control flow of `execute_remediation`, and
each action is the code from one `await` to the next.

| State | Code |
|---|---|
| `req`, `status`, `id` | the `RemediationAction` object of the call |
| `waited`, `elapsed` | the time spent in `acquire`, the time since the `SET` |
| `attempts` | tenacity's attempt counter |
| `rows[c]` | the rows of `remediation_actions` the call has inserted, in order |
| `lock`, `cooldown` | time to live of the Redis keys, 0 when absent |
| `applied`, `replicas` | what the cluster has done for a call; desired replicas |

`Evaluate` is `evaluate_remediation`, whitelists, cooldown and all; `Submit` a route or a
direct caller. `TryLock`, `LockTimeout` and `LockError` are the three ways out of
`DistributedLock.acquire`; the polling loop inside it is abstracted to trying whenever the
key is free until `LockWait` has passed. `PersistRefusal`, `PersistStart`, `PersistFinal`
and `PersistFailure` are the four calls of `_persist_remediation`, each of which may
raise before or after its commit took effect. `Act`, `ActUnknown` and `ActRaises` are one
attempt of `_execute_remediation_action`; one that raises may have changed the cluster.
`SetCooldown` stores the key as `RedisCache.set` does, with no time to live if it is given
none (`CooldownLife`). `Release` is the `finally` clause. `Crash` ends a replica's calls where
they are; `Tick` is a unit of time.

`RemediationContract` knows no lock, rows or time: a call asks, begins when nobody
works on the workload, affects the cluster at most `MaxRetries` times, and finishes. The
refinement mapping of `RemediationService` says that the calls at work are those between
their `SET` and their `DELETE`, and that the verdict is the status of a call that has
returned or raised.

### IncidentService

`rows[i]` is the row whose id is `i`, a *key* the triple of workload, namespace and type
that the select of `create_incident` compares. `by` is a history variable: which
replica inserted the row.

| State | Code |
|---|---|
| `rows` | the table `incidents` |
| `job[p]`, `inserting[p]` | incidents the running detection job has left to create; whether it is between the select and the insert |
| `at[c]`, `op[c]`, `id[c]` | an HTTP request: the await it is at, what and whom it asks |
| `seen[c]` | the object the request has loaded, its answer in the end |
| `cache` | the keys `incident:{id}` in Redis |

`SelectOpen` and `Insert` are the two transactions of `create_incident`, `SelectRaises` and
a failing `Insert` what leaves the loop of the job (`AbortJob`: one `except` for all the
workloads). `ReadCache`, `Load`, `LoadRaises` and `Fill` are `get_incident`; `Load`,
`Commit`, `CommitRaises`, `Refresh` and `Invalidate` acknowledge and resolve. `Write` is
the `UPDATE` the ORM emits, which contains the attributes that differ from the loaded ones
and no others: that is what lets two requests that loaded the same row not undo each other.
Times are abstracted to whether they are set, and descriptions and notes left out.

In `IncidentContract` an acknowledgement or a resolution is one step on its incident,
somewhere between its request and its answer; an answer is a state the incident has had
and shows what was asked; a request that failed may have taken effect; a replica creates
an incident only if it has none OPEN of the key. The mapping says when the step is: an
operation takes effect at its commit, unless the row it has loaded already has the status
it sets. Then there is nothing to write and it has taken effect at its select, whatever
others have made of the row before it commits.

### WorkloadManager and HealthRules

A deployment is its name and a state: replicas desired and available, whether it has pods,
their restarts, whether one is in a crash loop. `Contains` says whose pods' names contain
which workload's name, which is how `discover_workloads` matches them. `Readings(n)` are all
the workloads that can come of a deployment and its pods read at two different times;
the properties of `HealthRules` are about every reading. The usage is the one the code
simulates from the health.

### WorkloadService

A *caller* is a job of a replica or a request: `Kind` tells which. `at[c]` names the await at
which it is suspended; the diagram at the head of the module is the common path.

| State | Code |
|---|---|
| `cluster` | the deployments and pods the API would answer with |
| `rows` | the table `workloads`; `by` is a history variable: who inserted the row |
| `all`, `one` | the keys `workloads:all` and `workload:{namespace}:{name}` in Redis |
| `list[c]`, `current[c]`, `hit[c]` | the workloads a caller has left, the one it is at, whether they are copies from Redis |
| `found[c]`, `loaded[c]` | the row `persist_workload` has selected and its columns as loaded |
| `todo[c]`, `incidents` | incidents the detection job has left to create; keys with an OPEN row |
| `crashed` | history: whose pods have been in a crash loop |

`Start`, `ReadList`, `ReadDeployments`, `ReadPods`, `DiscoveryRaises` and `FillList` are
`get_workloads`; `GetOne`, `ReadPodsOfOne` and `FillOne` are `get_workload`; `NextWorkload`
and `AbortHealthJob` the loops of the discovery and health jobs; `SelectRow`, `Insert`,
`Update` and `PersistRaises` are `persist_workload`, where `Write` is again the columns that
differ from the loaded ones; `Examine`, `Report`, `ReportRaises` and `Examined` the detection
job. The client is synchronous, but the cluster and the other replicas go on while it
blocks, so the deployments are one step and the pods, listed anew
for each deployment, one step each (`ReadPods`). Namespaces share nothing and one is modelled.

`WorkloadContract` keeps of all this the table and, for each caller, the workload it is
storing and the columns it has yet to store. A caller stores each of them once, in one row,
before it takes up the next workload; one that fails may leave some. A row of its own it
inserts at most once. By the mapping a column that does not differ from the row is stored
at the select and any other at the commit, so that rows are mixtures of what callers have
found, but no caller ever puts back what another has replaced.

### Lifespan

`phase` is the await at which `lifespan` is; `engine` and `client` are the globals it opens
and closes, `running` and `scheduler` the state of `MonitoringService`. A job or request
(`at[w]`) waits for Redis, holds a session, or is closing one after it was cancelled.
The libraries are modelled as they are used: `AsyncIOScheduler.shutdown` queues a callback
that cancels the jobs it has begun, the server drains its requests before the code after
the `yield`, `asyncio.run` awaits what is left. `stop` returns before its jobs
have ended, so a session may still be open when `lifespan` has ended; and an error of
`close_db` leaves the client to the process's exit. A startup that fails before the `yield`
may already have created the engine (`OpenRaises`), and closes nothing.

## Runs

| Run | Constants | Shows |
|---|---|---|
| `remediation_faults` | two calls on two replicas, one approved and one unapproved workload, every fault, two attempts | `MutualExclusion`, `OnlyApprovedTouched`, `SuccessRowsAreTrue`, `ReturnedOutcomeIsRecorded`, `ChangeIsOnRecord`, `StepsRunOut`, and that the service implements `RemediationContract` |
| `remediation_liveness` | as above on one workload, Redis up, fairness, also an action only a direct caller asks for | `NoOrphanLock`, `EveryCallEnds`, `LocksExpire` |
| `incident_create` | two replicas, one request, two rows, every fault | `OneOpenPerReplica`, and that the service implements `IncidentContract` when both create |
| `incident_updates` | two requests on one row, every fault, fairness | `StatusIsDated`, `AnsweredIsStored`, `CacheIsPast`, `NothingIsUndone`, `CacheCatchesUp`, and the same when two update |
| `workload_jobs` | discovery and health job, one workload, one change, one fault, two rows, strings for enums, three states of the deployment | `OneRowPerCaller`, `UnhealthyHasCause`, `UsageIsOfOneReading`, `CallersEnd`, `IncidentFailsCheck`, `RulesAgree`, `SilentFailures`, and that the service implements `WorkloadContract` |
| `workload_usage` | the same two jobs and requests for the list, one workload and its row, one change, no fault, enums as enums | `RowCatchesUp`, `UsageComesBack` |
| `monitoring` | detection job, `api` and `api-gateway`, requests for `api`, one change, one fault, a shortage of `api` that raises | `LastingIsReported`, `CrashLoopHasCause`, `CallersRunOut`, `CachesCatchUp` |
| `lifespan` | three jobs, one request, every failure | `RequestsHaveConnections`, `StoppedIsQuiet`, `EndedIsClosed`, `ShutdownEnds` |

`UsageComesBack` and `RowCatchesUp` are what is left of "the row is right": discovery clears
the usage the health job has stored and two jobs may mix their columns, but never for
good. Requests for the list, which come at any time or never, do to the cache what the
detection job does, so that the jobs also store lists that are older than the last change.
`UsageComesBack` is a property of the code whose enum fields are enums. As configured it is
not one of the code: the health job ends at every list that comes from Redis (fact 2), so
that it stores a usage only in a round that finds the cache empty, and a list which detection or
requests fill again whenever it expires may keep it from doing so for ever while discovery
stores zeros. `ChangeIsOnRecord` is what an operator has of a replica that died: whatever was
done to the cluster has a row that says at least IN_PROGRESS.
`UnhealthyHasCause` and `UsageIsOfOneReading` say what a mixture still keeps: it
makes no crash loop of its own, and processor and memory stay those of one health.
`SilentFailures` lists what fails a health check and is no incident; the list is
exhaustive, and it includes a workload of one replica that is down.
`LastingIsReported` excludes exactly what an incident that raises hides.

The runs that must find a violation each show one disagreement of the code with what the
repository says of it; `PROJECT.json` quotes both under `findings`.

| Run | What the trace shows |
|---|---|
| `remediation_slow_holder` | a holder outlasts the 60 s of its key and a second call gets to work beside it |
| `remediation_cooldown` | the cooldown is stored under the action and looked for under the incident type, so it never blocks |
| `incident_wedge` | two replicas insert an incident each; from then on each job aborts at that key and never reports what it found after it |
| `monitoring_usage` | the health job stores a usage of 95 % on its own copy, and the detection job, which reads another, reports nothing |

**Bounds.** Every bound is a constant. Two calls, or two replicas, are enough for each race:
every property is about one call or a pair, and the code never distinguishes a third
(the theorems below have no bound). Two attempts separate the first and the last; times
to live of one or two units are enough to tell "before", "at" and "after" since only
comparisons with them occur, and `MaxRun` below or at `LockTTL` is the whole difference
between `remediation_faults` and `remediation_slow_holder`. `MaxRows` is two where
duplicates matter and one where requests race on a row or the row is there before the jobs
(`workload_usage`); `incident_wedge` has four, the most its two jobs ever insert, so that the
bound stops nobody there. `remediation_faults` uses
the symmetry of its two calls, which with their replicas are interchangeable; the runs that
check liveness use none. In `workload_jobs` `MaxRows` is two, one for each caller that can
race; one change lets every read before it be out of date, and one fault fails any step
(`workload_usage` has none: its question is the order of three callers' steps); the
states are those on each side of the thresholds (at the limit of restarts, short of more
replicas than the threshold, in a crash loop). Two names, one contained in the other's pods,
are what substring matching needs. `Asked` is the workloads that requests ask for: one, since
the cached entry of each is a key of its own and nothing but such requests touches it. `CHECK_DEADLOCK FALSE` is said of the remediation
runs, whose calls end and time runs out, and of `lifespan`, whose process exits.

**Fairness.** Weak fairness of what a coroutine does next: asyncio resumes a coroutine whose
await is over, and every call of a library ends (with an answer or an error, which is left
open: fairness is of the disjunction, never of success). Weak fairness of `Tick` and
`Expire`: clocks run and Redis expires keys. Weak fairness of `StartJob`, and of `Start` for
jobs: the interval trigger, whose job is started again once it has ended. In `Lifespan`
strong fairness of the end of a request: its body may await any number of times, but not
for ever. Nothing is assumed of the arrival of requests and signals, of changes of the
cluster, of crashes or of failures; that a failure does not recur for ever is `MaxFaults`.

## Proofs

Proved with TLAPS for every value of the constants that satisfies the named assumptions of
its module (`ServiceAssumptions`, `IncidentAssumptions`, `ClusterAssumptions` with
`ThresholdAssumptions` and `WorkloadAssumptions`, `LifespanAssumptions`): any number of calls, replicas,
workloads and requests, any of the faults, both readings of the enum fields and of the
cache.

*Remediation.* `TypeCorrect` is the type invariant, of which the part about `attempts` needs
the position of the call. `LockIsExclusive` says that `SafeTiming`, i.e. a holder never lasts
as long as its key lives, implies `MutualExclusion`. Exclusion is not inductive: `Release`
deletes the key of whoever holds it and `Tick` lets keys expire. `LockInv` adds
`HolderHasLock`, an equation: the time to live left and the time a holder has run
make up `LockTTL`. So a free key means no holder, and only a holder deletes it.
`SafeTiming` is what the code does not provide, hence `remediation_slow_holder`.

`AuditInv` is the inductive invariant of one call at a time: what its status is at each await
(`StatusAtAwait`), that the newest row is the outcome from the last persist on
(`OutcomeIsLast`), that a call which may act has a row (`RowBeforeAct`, of which
`ChangesAreOnRecord` is the consequence), and that changes of the cluster are attempts of a
call that is no dry run (`ChangesAreAttempts`). `SuccessIsTrue` and `OutcomeIsRecorded` follow from it, and
`OnlyApproved` with `ApprovedOrDry`: a request is a dry run or has passed the whitelists.
`NoKeyIsOrphaned` is inductive with the type invariant. `ServiceKeepsContract` is the
refinement, under `SafeTiming`: a call may begin since a free key has no holder (`LockInv`),
affects the cluster at most `MaxRetries` times (`TypeOK` with `ChangesAreAttempts`), and
what it concludes is allowed (`StatusAtAwait`); every step without promise is a stutter.
`CallsRunOut` is the part of `EveryCallEnds` that needs no fairness: each step of a call
uses up one of at most `MaxRetries + 7`, of which an attempt takes one, and no step of
another call, no crash and no passing of time gives any back. That there is an attempt left
wherever the code may go on to one (`TypeCorrect`) is what the count rests on. What remains
for TLC is that the steps are taken: that the wait for the lock ends by its timeout.

*Incidents.* `HistoryInv` is the inductive invariant: whatever a request has loaded
(`SeenIsPast`) and whatever Redis keeps (`CacheIsPast`) is an earlier state of the row, rows
are dated, and what a request has committed is stored. The lemma it turns on is
`WriteAdvances`: a write over an out-of-date object still advances the row, since an OPEN row
has changed nothing since it was loaded and any other row cannot become OPEN again. From it
follow `StatusesAreDated`, `CacheIsNeverAhead`, `AnswersAreStored` and, as an action
property, `NothingEverUndone`. `OneOpenEach` adds `NothingOpenWhileInserting`: between the
select and the insert of a replica no one else makes an OPEN row of that replica's. Its
corollary `OneReplicaNoDuplicates` says that with one replica there is at most one OPEN
incident of a key; with two that is not so.

`ServiceKeepsContract` of `IncidentContractProofs` is the refinement. Three things carry it.
A commit writes either the whole operation or nothing (`WritesTakeEffect`): the ORM leaves
out columns only when the loaded row has the status, and such a row is dated
(`LoadedIsDated`) and has never lost a date since (`SeenIsPast`). A select that finds the
status set leaves the table as the operation would (`OperateKeeps` with `StatusIsDated`).
And an answer, from Redis, the select or the refresh, is a state the row has had, in which
what has been committed shows (`SeenIsPast`, `CommittedIsStored`).

*Workloads.* `TypeCorrect` says, beside types, that a caller which will store a workload has
one, and that the row an update writes to is in the table. `OneRowEach` strengthens
`OneRowPerCaller` by `NoneWhileInserting`: from its select to its insert a caller has no
row of the workload. Other callers may insert one meanwhile, so the bound is one
row of a workload for each caller. `CauseInv` is inductive: nothing
that is listed, held, stored or in Redis is UNHEALTHY unless pods that count as its own
have been in a crash loop, which is history and so stays true of old lists; and its usage is
none or that of one health. The latter survives updates by columns since two usages of
different health differ in both columns (`PairsDiffer`), so that an update writes both or
neither. `CrashLoopsHaveCauses`, `UnhealthyHasCauses` and `UsageStaysPaired` follow.
`ServiceKeepsContract` needs `FoundIsRow` of it (the row a caller updates is one of its
workload), `NoneWhileInserting`, and that the columns `Write` takes from the new workload
are those that differ from the loaded one (`WritePuts`). `CallersTakeBoundedSteps` bounds
the steps of a round of a job, `StepsLeft`, by seven for each deployment and four more,
whatever fails. It rests on `ListsAreShort`: no list, in Redis or in the hands of a
caller, has more workloads than there are names. A list is read from one listing, its pods
put one workload in the place of another, and Redis returns what a caller has stored; other
callers and changes of the cluster never lengthen it. `FourTypes` bounds the incidents
of a workload.

*Rules.* `IncidentsAreFailures` holds for all thresholds: each of the four conditions of
`_detect_incidents` fails a check of `_evaluate_workload_health`, the usage because a
fresh workload has none. `RulesAlwaysAgree` and `FailuresAreSmall` compare restarts with a
limit and need the restarts of all pods to be a natural number. Their sum is therefore not
a recursion, of which nothing could be proved, but the size of a disjoint union
(`TotalRestarts`), which is finite because the names are (`NamesAreFinite`).
`ClusterAssumptions` says that a listing names a deployment once.

*Lifespan.* `LifespanInv` adds to the type invariant that the connections are open from
their opening to their closing (`OpenWhen`) and that jobs and requests are idle outside the
phases that may have begun them (`QuietWhen`). `StoppedStaysQuiet` is inductive with
it since nothing but the scheduler starts a job.

*Model-checked only.* Liveness (`EveryCallEnds`, `LocksExpire`, `CacheCatchesUp`,
`RowCatchesUp`, `UsageComesBack`, `CachesCatchUp`, `CallersEnd`,
`LastingIsReported`, `ShutdownEnds`) is out of the prover's reach, as is anything about
ENABLED. Every invariant and action property of a passing run is stated by a theorem, and so
are the three refinements. Of `EveryCallEnds` and `CallersEnd` the bound on the steps is
proved, their fair taking model-checked.

## Not modelled

`PROJECT.json` lists every component with its status. Left out for good: the writes of the
cluster client and what a rollout does (choices of the environment), logging, configuration
(constants), Prometheus metrics no service updates, the cloud mocks nothing calls, the
schema (its missing constraints are what the modules assume), `AlertService`, whose writes
nothing calls, so that its list is always empty, `invalidate_cache`, which nothing calls
either, and read-only operations. Error rates and latencies of a workload, which the health job
always sets to zero, are not kept.
Two things the repository's README describes have no code: "Recovery Verification"
(README.md:309), and a path from incident to remediation (README.md:62), as nothing but the
unit tests calls `evaluate_remediation`.

## Plan

1. *Done*: `RemediationService`, `IncidentService`, `WorkloadService` with the manager, the
   rules and the three jobs, `Lifespan`; a contract each for the first three; type
   invariants, all safety invariants and action properties, the three refinements and the
   bounds on the steps of calls and callers proved.
2. The lock and its key as a module of its own, with a contract that remediation
   implements through it, should anything else come to use `DistributedLock`.
3. `AlertService`, should anything come to call its writes.
