--------------------------- MODULE WorkloadService ---------------------------
(***************************************************************************)
(* The workload service (app/services/workload_service.py) and its         *)
(* callers: the discovery, health and detection jobs of each replica       *)
(* (app/services/monitoring_service.py:88-141) and the HTTP requests that  *)
(* read workloads (app/api/routes/workloads.py).                           *)
(*                                                                         *)
(* The workloads table has no unique constraint and transactions are READ  *)
(* COMMITTED, so a select and the write that follows it are two steps, and *)
(* the ORM writes the columns that differ from the loaded ones.  rows[i]   *)
(* is the row that was inserted as the i-th.                               *)
(*                                                                         *)
(*  idle -> cached -> deployments -> pods -> fill -> next -> persist       *)
(*                    (discovery starts here)       | ^        |           *)
(*                                            examine + +- insert, update  *)
(*                                                                         *)
(* create_incident is the step IncidentService shows it to be for a job    *)
(* that has no rival: the OPEN incident of a key is there afterwards.      *)
(***************************************************************************)
EXTENDS HealthRules

CONSTANTS
    Callers, Kind,     \* jobs and requests; what each is
    Asked,             \* the names that requests ask for
    Known,             \* the sequence of the names that have a row from before
    MaxRows,           \* bound on the rows
    MaxChanges,        \* bound on the changes of the cluster
    MaxFaults,         \* bound on what fails beside Redis
    UseEnumValues,     \* whether a validated enum field is kept as a string
    CacheSerialises,   \* whether json.dumps accepts what model_dump returns
    Wedged,            \* the incidents with two OPEN rows, at which create_incident raises
    Nothing            \* what is cached, examined or loaded when nothing is

Jobs == {c \in Callers : Kind[c] \in {"discovery", "health", "detection"}}
Workload == [name : Names, desired : Nat, available : Nat, health : HealthStatus,
             restarts : Nat, cpu : Nat, memory : Nat]

\* by: the caller that inserted the row, which the table does not tell.
Rows == [workload : Workload, by : Callers \cup {Nothing}]

ASSUME WorkloadAssumptions ==
    /\ Kind \in [Callers -> {"discovery", "health", "detection", "list", "get"}]
    /\ Asked \subseteq Names
    /\ Known \in Seq(Names) /\ Len(Known) <= MaxRows
    /\ \A i, j \in DOMAIN Known : Known[i] = Known[j] => i = j
    /\ MaxRows \in Nat \ {0} /\ MaxChanges \in Nat /\ MaxFaults \in Nat
    /\ UseEnumValues \in BOOLEAN /\ CacheSerialises \in BOOLEAN
    /\ Wedged \subseteq Names \X Types
    /\ Nothing \notin Workload /\ Nothing \notin Callers

VARIABLES
    cluster, changes,      \* what there is, and how often it has changed
    crashed,               \* history: whose pods have been in a crash loop
    rows,                  \* the workloads table
    all, one,              \* Redis: workloads:all, workload:{namespace}:{name}
    at,                    \* the await at which a caller is suspended
    list, current,         \* the workloads it has left, and the one it is at
    todo,                  \* the incidents of that one it has left to create
    hit,                   \* whether its list is a copy from Redis
    found, loaded,         \* the row that its select found, as it was then
    incidents,             \* the incidents with an OPEN row
    faults                 \* how much has failed

clusterVars == <<cluster, changes, crashed>>
storeVars == <<rows, incidents, all, one>>
callerVars == <<at, list, current, todo, hit, found, loaded>>
vars == <<clusterVars, storeVars, callerVars, faults>>

Locations == {"idle", "cached", "deployments", "pods", "fill", "next", "persist",
              "insert", "update", "examine", "podsOne", "fillOne"}

TypeOK ==
    /\ cluster \in Clusters /\ changes \in 0 .. MaxChanges /\ faults \in 0 .. MaxFaults
    /\ crashed \subseteq Names
    /\ rows \in Seq(Rows) /\ Len(rows) <= MaxRows
    /\ incidents \subseteq Names \X Types
    /\ all \subseteq Workload
    /\ one \in [Names -> Workload \cup {Nothing}]
    /\ at \in [Callers -> Locations]
    /\ list \in [Callers -> SUBSET Workload]
    /\ current \in [Callers -> Workload \cup {Nothing}]
    /\ todo \in [Callers -> SUBSET Types]
    /\ hit \in [Callers -> BOOLEAN]
    /\ found \in [Callers -> 0 .. MaxRows]
    /\ loaded \in [Callers -> Workload \cup {Nothing}]
    /\ \A c \in Callers :
         /\ at[c] \in {"persist", "insert", "update", "examine", "podsOne", "fillOne"} =>
              current[c] # Nothing
         /\ at[c] = "update" => found[c] \in DOMAIN rows /\ loaded[c] # Nothing

CrashLooping(there) == {n \in ListPods(there) : there[n].crashing}

\* The rows from before tell what the cluster is like.
Init ==
    /\ cluster \in Clusters /\ changes = 0 /\ faults = 0
    /\ \A i \in DOMAIN Known : cluster[Known[i]] # Gone
    /\ rows = [i \in DOMAIN Known |->
                 [workload |-> Discovered(Known[i], cluster), by |-> Nothing]]
    /\ crashed = CrashLooping(cluster)
    /\ incidents = Wedged
    /\ all = {} /\ one = [n \in Names |-> Nothing]
    /\ at = [c \in Callers |-> "idle"]
    /\ list = [c \in Callers |-> {}]
    /\ current = [c \in Callers |-> Nothing]
    /\ todo = [c \in Callers |-> {}]
    /\ hit = [c \in Callers |-> FALSE]
    /\ found = [c \in Callers |-> 0]
    /\ loaded = [c \in Callers |-> Nothing]

\* Something fails that need not.
Fail == faults < MaxFaults /\ faults' = faults + 1

Goto(c, here, there) == at[c] = here /\ at' = [at EXCEPT ![c] = there]

\* The workload at hand is done with; an exception ends the caller as well.
Forget(c) ==
    /\ current' = [current EXCEPT ![c] = Nothing]
    /\ todo' = [todo EXCEPT ![c] = {}]
    /\ found' = [found EXCEPT ![c] = 0]
    /\ loaded' = [loaded EXCEPT ![c] = Nothing]
End(c) ==
    /\ at' = [at EXCEPT ![c] = "idle"]
    /\ list' = [list EXCEPT ![c] = {}]
    /\ hit' = [hit EXCEPT ![c] = FALSE]
    /\ Forget(c)

-----------------------------------------------------------------------------
(* get_workloads.                                                          *)

First(w, workloads) == w \in workloads /\ \A v \in workloads : ~Before(v.name, w.name)

\* Discovery passes use_cache=False.
Start(c) ==
    /\ Kind[c] # "get"
    /\ Goto(c, "idle", IF Kind[c] = "discovery" THEN "deployments" ELSE "cached")
    /\ UNCHANGED <<clusterVars, storeVars, list, current, todo, hit, found, loaded, faults>>

\* A hit is a copy.  An empty list counts as a miss, and so does a RedisError.
ReadList(c) ==
    /\ \/ /\ Goto(c, "cached", "next")
          /\ all # {}
          /\ list' = [list EXCEPT ![c] = all]
          /\ hit' = [hit EXCEPT ![c] = TRUE]
          /\ UNCHANGED faults
       \/ /\ Goto(c, "cached", "deployments")
          /\ (all = {} /\ UNCHANGED faults) \/ Fail
          /\ UNCHANGED <<list, hit>>
    /\ UNCHANGED <<clusterVars, storeVars, current, todo, found, loaded>>

AfterDiscovery(c) == IF Kind[c] = "discovery" THEN "next" ELSE "fill"

\* discover_workloads: the deployments, then the pods, listed for each of them anew.
ReadDeployments(c) ==
    /\ Goto(c, "deployments",
            IF ListDeployments(cluster) = {} THEN AfterDiscovery(c) ELSE "pods")
    /\ list' = [list EXCEPT ![c] =
                  {DeploymentToWorkload(n, cluster[n]) : n \in ListDeployments(cluster)}]
    /\ UNCHANGED <<clusterVars, storeVars, current, todo, hit, found, loaded, faults>>

\* The workloads after the one whose pods have been read last.
Unread(c) == {w \in list[c] : current[c] = Nothing \/ Before(current[c].name, w.name)}

ReadPods(c) ==
    /\ at[c] = "pods"
    /\ \E w \in Unread(c) :
         /\ First(w, Unread(c))
         /\ list' = [list EXCEPT ![c] = (@ \ {w}) \cup {WithPods(w, cluster)}]
         /\ \/ /\ Unread(c) = {w}
               /\ Goto(c, "pods", AfterDiscovery(c))
               /\ current' = [current EXCEPT ![c] = Nothing]
            \/ /\ Unread(c) # {w}
               /\ current' = [current EXCEPT ![c] = w]
               /\ UNCHANGED at
    /\ UNCHANGED <<clusterVars, storeVars, todo, hit, found, loaded, faults>>

\* One call that fails is the end of the discovery of all.
DiscoveryRaises(c) ==
    /\ at[c] \in {"deployments", "pods"} /\ Fail
    /\ End(c)
    /\ UNCHANGED <<clusterVars, storeVars>>

\* A RedisError is swallowed, the TypeError of json.dumps is not.
FillList(c) ==
    /\ at[c] = "fill"
    /\ \/ /\ CacheSerialises \/ list[c] = {}
          /\ Goto(c, "fill", "next")
          /\ \/ all' = list[c] /\ UNCHANGED faults
             \/ Fail /\ UNCHANGED all
          /\ UNCHANGED <<list, current, todo, hit, found, loaded>>
       \/ /\ ~CacheSerialises /\ list[c] # {}
          /\ End(c)
          /\ UNCHANGED <<all, faults>>
    /\ UNCHANGED <<clusterVars, rows, incidents, one>>

\* A request is answered; a job has been through its list.
Finish(c) ==
    /\ at[c] = "next"
    /\ Kind[c] = "list" \/ list[c] = {}
    /\ End(c)
    /\ UNCHANGED <<clusterVars, storeVars, faults>>

-----------------------------------------------------------------------------
(* The bodies of the discovery and health jobs, and persist_workload.      *)

\* _evaluate_workload_health reads .value of a health that is a string if the
\* workload is a copy.
EvaluationRaises(c) == Kind[c] = "health" /\ UseEnumValues /\ hit[c]

\* Slip: what has failed its check is UNHEALTHY from then on.
MeasuredVerdict(w) ==
    [w EXCEPT !.cpu = CpuUsage(w), !.memory = MemoryUsage(w),
              !.health = IF EvaluateHealth(w) THEN @ ELSE "UNHEALTHY"]

\* The health job sets the usage it has found on its own copy.
Measured(w) == [w EXCEPT !.cpu = CpuUsage(w), !.memory = MemoryUsage(w)]

NextWorkload(c) ==
    /\ Kind[c] \in {"discovery", "health"} /\ ~EvaluationRaises(c)
    /\ Goto(c, "next", "persist")
    /\ \E w \in list[c] :
         /\ First(w, list[c])
         /\ list' = [list EXCEPT ![c] = @ \ {w}]
         /\ current' = [current EXCEPT ![c] = IF Kind[c] = "health" THEN Measured(w) ELSE w]
    /\ UNCHANGED <<clusterVars, storeVars, todo, hit, found, loaded, faults>>

AbortHealthJob(c) ==
    /\ at[c] = "next" /\ list[c] # {} /\ EvaluationRaises(c)
    /\ End(c)
    /\ UNCHANGED <<clusterVars, storeVars, faults>>

RowsOf(n) == {i \in DOMAIN rows : rows[i].workload.name = n}

\* Slip: with two rows the select is tried again.
SelectRetries(c) ==
    /\ at[c] = "persist"
    /\ \/ /\ RowsOf(current[c].name) = {}
          /\ Goto(c, "persist", "insert")
          /\ UNCHANGED <<list, current, todo, hit, found, loaded>>
       \/ \E i \in RowsOf(current[c].name) :
            /\ Goto(c, "persist", IF RowsOf(current[c].name) = {i} THEN "update" ELSE "persist")
            /\ found' = [found EXCEPT ![c] = i]
            /\ loaded' = [loaded EXCEPT ![c] = rows[i].workload]
            /\ UNCHANGED <<list, current, todo, hit>>
    /\ UNCHANGED <<clusterVars, storeVars, faults>>

\* The select: none leads to an insert, one to an update, and with two
\* scalar_one_or_none raises.
SelectRow(c) ==
    /\ at[c] = "persist"
    /\ \/ /\ RowsOf(current[c].name) = {}
          /\ Goto(c, "persist", "insert")
          /\ UNCHANGED <<list, current, todo, hit, found, loaded>>
       \/ \E i \in RowsOf(current[c].name) :
            /\ RowsOf(current[c].name) = {i}
            /\ Goto(c, "persist", "update")
            /\ found' = [found EXCEPT ![c] = i]
            /\ loaded' = [loaded EXCEPT ![c] = rows[i].workload]
            /\ UNCHANGED <<list, current, todo, hit>>
       \/ /\ Cardinality(RowsOf(current[c].name)) > 1
          /\ End(c)
    /\ UNCHANGED <<clusterVars, storeVars, faults>>

Insert(c) ==
    /\ Goto(c, "insert", "next")
    /\ Len(rows) < MaxRows
    /\ rows' = Append(rows, [workload |-> current[c], by |-> c])
    /\ Forget(c)
    /\ UNCHANGED <<clusterVars, incidents, all, one, list, hit, faults>>

\* Slips: the UPDATE has every column; the usage only; everything but; the memory is left out.
WriteAll(row, old, new) == new
WriteUsage(row, old, new) == [row EXCEPT !.cpu = new.cpu, !.memory = new.memory]
WriteReplicas(row, old, new) ==
    [row EXCEPT !.desired = new.desired, !.available = new.available,
                !.health = new.health, !.restarts = new.restarts]

WriteNoMemory(row, old, new) == [new EXCEPT !.memory = row.memory]

\* The UPDATE has the columns that differ from the loaded ones, and no others.
Write(row, old, new) ==
    LET Column(stored, before, now) == IF now = before THEN stored ELSE now
    IN  [row EXCEPT !.desired = Column(@, old.desired, new.desired),
                    !.available = Column(@, old.available, new.available),
                    !.health = Column(@, old.health, new.health),
                    !.restarts = Column(@, old.restarts, new.restarts),
                    !.cpu = Column(@, old.cpu, new.cpu),
                    !.memory = Column(@, old.memory, new.memory)]

Update(c) ==
    /\ Goto(c, "update", "next")
    /\ rows' = [rows EXCEPT ![found[c]].workload = Write(@, loaded[c], current[c])]
    /\ Forget(c)
    /\ UNCHANGED <<clusterVars, incidents, all, one, list, hit, faults>>

\* Slip: an insert that fails is made again.
InsertRetries(c) ==
    /\ at[c] = "insert" /\ Fail
    /\ Len(rows) < MaxRows
    /\ rows' = Append(rows, [workload |-> current[c], by |-> c])
    /\ UNCHANGED <<clusterVars, incidents, all, one, callerVars>>

\* A query or a commit fails, the latter perhaps after it took effect: the one
\* except of the job ends it.
PersistRaises(c) ==
    /\ at[c] \in {"persist", "insert", "update"} /\ Fail
    /\ \/ UNCHANGED rows
       \/ /\ at[c] = "insert" /\ Len(rows) < MaxRows
          /\ rows' = Append(rows, [workload |-> current[c], by |-> c])
       \/ /\ at[c] = "update"
          /\ rows' = [rows EXCEPT ![found[c]].workload = Write(@, loaded[c], current[c])]
    /\ End(c)
    /\ UNCHANGED <<clusterVars, incidents, all, one>>

-----------------------------------------------------------------------------
(* The body of the detection job.                                          *)

TypeOrder == <<"POD_CRASH_LOOP", "REPLICA_SHORTAGE", "HIGH_CPU", "HIGH_MEMORY">>

FirstOf(types) ==
    CHOOSE t \in types : \A i, j \in DOMAIN TypeOrder :
        TypeOrder[i] = t /\ TypeOrder[j] \in types => i <= j

Examine(c) ==
    /\ Kind[c] = "detection"
    /\ Goto(c, "next", "examine")
    /\ \E w \in list[c] :
         /\ First(w, list[c])
         /\ list' = [list EXCEPT ![c] = @ \ {w}]
         /\ current' = [current EXCEPT ![c] = w]
         /\ todo' = [todo EXCEPT ![c] = DetectIncidents(w)]
    /\ UNCHANGED <<clusterVars, storeVars, hit, found, loaded, faults>>

\* Slip: of several incidents of a workload the first is created.
ReportFirst(c) ==
    /\ at[c] = "examine" /\ ~UseEnumValues
    /\ todo[c] # {}
    /\ LET k == <<current[c].name, FirstOf(todo[c])>>
       IN  /\ k \notin Wedged
           /\ incidents' = incidents \cup {k}
           /\ todo' = [todo EXCEPT ![c] = {}]
    /\ UNCHANGED <<clusterVars, rows, all, one, at, list, current, hit, found, loaded, faults>>

\* create_incident: there is an OPEN incident, or one is inserted.
Report(c) ==
    /\ at[c] = "examine" /\ ~UseEnumValues
    /\ todo[c] # {}
    /\ LET t == FirstOf(todo[c])
           k == <<current[c].name, t>>
       IN  /\ k \notin Wedged
           /\ incidents' = incidents \cup {k}
           /\ todo' = [todo EXCEPT ![c] = @ \ {t}]
    /\ UNCHANGED <<clusterVars, rows, all, one, at, list, current, hit, found, loaded, faults>>

\* Slip: an incident that cannot be created is tried again.
ReportRetries(c) ==
    /\ at[c] = "examine" /\ todo[c] # {} /\ Fail
    /\ UNCHANGED <<clusterVars, storeVars, callerVars>>

\* An exception, after the commit perhaps: the one except of the job ends it.
ReportRaises(c) ==
    /\ at[c] = "examine"
    /\ todo[c] # {}
    /\ LET k == <<current[c].name, FirstOf(todo[c])>>
       IN  \/ /\ UseEnumValues \/ k \in Wedged
              /\ UNCHANGED <<incidents, faults>>
          \/ /\ Fail
             /\ \/ UNCHANGED incidents
                \/ ~UseEnumValues /\ incidents' = incidents \cup {k}
    /\ End(c)
    /\ UNCHANGED <<clusterVars, rows, all, one>>

Examined(c) ==
    /\ todo[c] = {}
    /\ Goto(c, "examine", "next")
    /\ Forget(c)
    /\ UNCHANGED <<clusterVars, storeVars, list, hit, faults>>

-----------------------------------------------------------------------------
(* get_workload, which only a request calls.                               *)

\* A hit is the answer and a deployment that is not there an error: neither
\* leaves a trace.
GetOne(c) ==
    /\ Kind[c] = "get"
    /\ Goto(c, "idle", "podsOne")
    /\ \E n \in ListDeployments(cluster) \cap Asked :
         /\ (one[n] = Nothing /\ UNCHANGED faults) \/ Fail
         /\ current' = [current EXCEPT ![c] = DeploymentToWorkload(n, cluster[n])]
    /\ UNCHANGED <<clusterVars, storeVars, list, todo, hit, found, loaded>>

ReadPodsOfOne(c) ==
    /\ Goto(c, "podsOne", "fillOne")
    /\ current' = [current EXCEPT ![c] = WithPods(@, cluster)]
    /\ UNCHANGED <<clusterVars, storeVars, list, todo, hit, found, loaded, faults>>

FillOne(c) ==
    /\ at[c] = "fillOne"
    /\ \/ /\ CacheSerialises /\ UNCHANGED faults
          /\ one' = [one EXCEPT ![current[c].name] = current[c]]
       \/ ~CacheSerialises /\ UNCHANGED <<one, faults>>
       \/ Fail /\ UNCHANGED one
    /\ End(c)
    /\ UNCHANGED <<clusterVars, rows, incidents, all>>

-----------------------------------------------------------------------------
(* The world.                                                              *)

\* A deployment is created, changes or is deleted.
Change ==
    /\ changes < MaxChanges /\ changes' = changes + 1
    /\ \E n \in Names, s \in States \cup {Gone} :
         s # cluster[n] /\ cluster' = [cluster EXCEPT ![n] = s]
    /\ crashed' = crashed \cup CrashLooping(cluster')
    /\ UNCHANGED <<storeVars, callerVars, faults>>

\* Somebody acknowledges or resolves an incident that has one OPEN row.
Close(k) ==
    /\ k \notin Wedged
    /\ k \in incidents /\ incidents' = incidents \ {k}
    /\ UNCHANGED <<clusterVars, rows, all, one, callerVars, faults>>

\* Slip: the list is cached without its ttl.
ListNeverExpires == FALSE

\* Cached workloads expire (ttl=60).
ExpireList ==
    /\ all # {} /\ all' = {}
    /\ UNCHANGED <<clusterVars, rows, incidents, one, callerVars, faults>>
ExpireOne(n) ==
    /\ one[n] # Nothing /\ one' = [one EXCEPT ![n] = Nothing]
    /\ UNCHANGED <<clusterVars, rows, incidents, all, callerVars, faults>>

\* The process of a caller dies.
Die(c) ==
    /\ at[c] # "idle" /\ Fail
    /\ End(c)
    /\ UNCHANGED <<clusterVars, storeVars>>

Step(c) ==
    \/ ReadList(c) \/ ReadDeployments(c) \/ ReadPods(c) \/ DiscoveryRaises(c)
    \/ FillList(c) \/ Finish(c)
    \/ NextWorkload(c) \/ AbortHealthJob(c)
    \/ SelectRow(c) \/ Insert(c) \/ Update(c) \/ PersistRaises(c)
    \/ Examine(c) \/ Report(c) \/ ReportRaises(c) \/ Examined(c)
    \/ ReadPodsOfOne(c) \/ FillOne(c)

World ==
    \/ Change \/ ExpireList
    \/ \E n \in Names : ExpireOne(n) \/ \E t \in Types : Close(<<n, t>>)

Next == World \/ \E c \in Callers : Start(c) \/ GetOne(c) \/ Step(c) \/ Die(c)

Spec == Init /\ [][Next]_vars

\* The event loop resumes what it has begun, the interval trigger starts the jobs
\* and Redis expires keys.  Nothing is assumed of changes, requests and faults.
Fairness ==
    /\ \A c \in Callers : WF_vars(Step(c))
    /\ \A c \in Jobs : WF_vars(Start(c))
    /\ WF_vars(ExpireList) /\ \A n \in Names : WF_vars(ExpireOne(n))
LiveSpec == Spec /\ Fairness

-----------------------------------------------------------------------------
(* Properties.                                                             *)

\* What the select before the insert (workload_service.py:68-108) achieves: a
\* caller never inserts a second row of a workload, whatever it was interrupted by,
\* so two rows of one come from two callers that overlapped.
OneRowPerCaller ==
    \A i, j \in DOMAIN rows :
        rows[i].workload.name = rows[j].workload.name /\ rows[i].by = rows[j].by => i = j

\* Why: between its select and its insert a caller has no row of the workload.
NoneWhileInserting ==
    \A c \in Callers : at[c] = "insert" =>
        \A i \in RowsOf(current[c].name) : rows[i].by # c

\* A select, then an UPDATE of the columns that differ from what it found (64-111), and
\* yet a caller stores every column of its workload in one step each, in one row, before
\* it goes on: those that do not differ when it selects, the others when it commits.
IsStoring(c) == at[c] \in {"persist", "insert", "update"}
Contract == INSTANCE WorkloadContract WITH
    table <- rows,
    phase <- [c \in Callers |-> IF IsStoring(c) THEN "storing"
                                ELSE IF at[c] = "next" THEN "ready" ELSE "away"],
    item <- [c \in Callers |-> IF IsStoring(c) THEN current[c] ELSE Nothing],
    left <- [c \in Callers |->
               {f \in {"desired", "available", "health", "restarts", "cpu", "memory"} :
                  IsStoring(c) /\ (at[c] = "update" => current[c][f] # loaded[c][f])}],
    target <- [c \in Callers |-> IF at[c] = "update" THEN found[c] ELSE 0]
RefinesContract == Contract!Spec

\* The replicas, health and restarts that a row tells are those of the cluster.
Tells(row, n) ==
    LET now == Discovered(n, cluster)
    IN  /\ cluster[n] # Gone
        /\ row.desired = now.desired /\ row.available = now.available
        /\ row.health = now.health /\ row.restarts = now.restarts

\* Old lists, torn readings, updates that mix the columns of two callers (64-111):
\* once the cluster is still, the row of a workload tells it and goes on to, unless
\* there are two rows, which nothing updates any more.
RowCatchesUp ==
    \A n \in Names :
        <>[](\/ cluster[n] = Gone
             \/ Cardinality(RowsOf(n)) > 1
             \/ \E i \in RowsOf(n) : Tells(rows[i].workload, n))

\* Discovery stores zeros over the usage that the health job has stored
\* (monitoring_service.py:92-95, 115-120), but where the health job can read a cached list
\* it always comes back: a row is never left without.  Where it cannot, a list that the
\* detection job or a request caches again and again keeps it from doing so.
UsageComesBack ==
    \A n \in Names :
        []<>(\/ cluster[n] = Gone
             \/ Cardinality(RowsOf(n)) > 1
             \/ \E i \in RowsOf(n) : rows[i].workload.cpu = CpuUsage(rows[i].workload))

\* Every job and every request ends, to make room for the next (88-141).
CallersEnd == \A c \in Callers : at[c] # "idle" ~> at[c] = "idle"

\* The steps a caller has left at most: one for the pods of each workload of its list, two
\* for its examination and one for each of four types of incident.
StepsLeft(c) ==
    LET ahead == 6 * Cardinality(list[c])
    IN  CASE at[c] = "cached" -> 7 * Cardinality(Names) + 4
          [] at[c] = "deployments" -> 7 * Cardinality(Names) + 3
          [] at[c] = "pods" -> ahead + 2 + Cardinality(Unread(c))
          [] at[c] = "fill" -> ahead + 2
          [] at[c] = "next" -> ahead + 1     [] at[c] = "persist" -> ahead + 3
          [] at[c] \in {"insert", "update"} -> ahead + 2
          [] at[c] = "examine" -> ahead + 2 + Cardinality(todo[c])
          [] at[c] = "podsOne" -> 2          [] at[c] = "fillOne" -> 1
          [] OTHER -> 0

\* Whatever fails, and whatever the others store, each step of a caller uses up one of at
\* most seven for each deployment and four more: a loop never gets longer while a job is
\* in it (monitoring_service.py:88-141), and a list from Redis is one of deployments.
CallersRunOut ==
    [][\A c \in Callers : at[c] # "idle" =>
         /\ StepsLeft(c)' \in 0 .. StepsLeft(c)
         /\ Step(c) => StepsLeft(c)' # StepsLeft(c)]_vars

\* A get or a list that is slow fills the cache with what has changed since
\* (workload_service.py:35-40, 58-60): what is cached is true in the end.
CachesCatchUp ==
    /\ <>[](\A w \in all : Tells(w, w.name))
    /\ \A n \in Names : <>[](one[n] = Nothing \/ Tells(one[n], n))

\* k is what a workload that is as it is now would be reported for.
IsDetectable(k) == cluster[k[1]] # Gone /\ k[2] \in DetectIncidents(Discovered(k[1], cluster))

\* k is created before m: the job goes through the listing and through the types.
Precedes(k, m) ==
    \/ Before(k[1], m[1])
    \/ k[1] = m[1] /\ FirstOf({k[2], m[2]}) = k[2]

\* README.md:61: "Automatic incident creation".  A condition that lasts has an OPEN
\* incident again and again, however often it is closed, if create_incident raises at
\* nothing before it (monitoring_service.py:132-141): an incident with two OPEN rows
\* hides those that come after it, and none that come before.
LastingIsReported ==
    \A k \in Names \X Types :
        <>[](IsDetectable(k) /\ \A m \in Wedged : Precedes(m, k) => ~IsDetectable(m))
        => []<>(k \in incidents)

\* A POD_CRASH_LOOP has a cause, however old the list it was found in: pods in a crash
\* loop whose name contains that of the workload.  They need not be its own
\* (workload_manager.py:35).
CrashLoopHasCause ==
    \A n \in Names : <<n, "POD_CRASH_LOOP">> \in incidents \ Wedged =>
        \E m \in crashed : <<n, m>> \in Contains

\* What says UNHEALTHY, in the table or in Redis, has such a cause too: an update that
\* mixes the columns of two callers (workload_service.py:78-89) and a list put together
\* from two moments (workload_manager.py:25-53) make no crash loop of their own.
UnhealthyHasCause ==
    LET HasCause(w) ==
            w.health = "UNHEALTHY" => \E m \in crashed : <<w.name, m>> \in Contains
    IN  /\ \A i \in DOMAIN rows : HasCause(rows[i].workload)
        /\ \A w \in all : HasCause(w)
        /\ \A n \in Names : one[n] # Nothing => HasCause(one[n])

\* The usage of a row is none or that of one health, although processor and memory are
\* written column by column, over what another caller has stored since they were
\* compared (workload_service.py:78-89).
UsageIsOfOneReading ==
    \A i \in DOMAIN rows :
        LET w == rows[i].workload
        IN  \/ w.cpu = 0 /\ w.memory = 0
            \/ \E h \in HealthStatus : /\ w.cpu = CpuUsage([health |-> h])
                                       /\ w.memory = MemoryUsage([health |-> h])

\* README.md:61: "based on configurable thresholds".  A row whose usage is above a
\* threshold again and again has an incident.
HighUsageIsReported ==
    \A n \in Names :
        []<>(\E i \in RowsOf(n) : rows[i].workload.cpu > CpuThreshold)
        => <>(<<n, "HIGH_CPU">> \in incidents)
=============================================================================
