------------------------- MODULE WorkloadServiceProofs -------------------------
(***************************************************************************)
(* Theorems of WorkloadService for any callers, workloads and bounds.      *)
(***************************************************************************)
EXTENDS WorkloadService, HealthRulesProofs, SequenceTheorems, TLAPS

-----------------------------------------------------------------------------
(* What is made of a workload is one.                                      *)

LEMMA DeploymentType ==
  ASSUME NEW n \in Names, NEW state \in States
  PROVE  DeploymentToWorkload(n, state) \in Workload
  <1>1. state.desired \in Nat /\ state.available \in Nat
    BY ClusterAssumptions
  <1>2. QED
    BY <1>1 DEF DeploymentToWorkload, Workload, HealthStatus

LEMMA WithPodsType ==
  ASSUME NEW w \in Workload, NEW there \in Clusters
  PROVE  WithPods(w, there) \in Workload /\ WithPods(w, there).name = w.name
  <1> DEFINE total == TotalRestarts(w.name, there)
             crash == \E m \in PodsOf(w.name, there) : there[m].crashing
             health == HealthOf(w, crash)
  <1>1. total \in Nat
    BY TotalIsNumber
  <1>2. health \in HealthStatus
    BY DEF HealthOf, HealthStatus
  <1>3. WithPods(w, there) = w \/ WithPods(w, there) = [w EXCEPT !.restarts = total, !.health = health]
    BY DEF WithPods
  <1> HIDE DEF total, health
  <1> DEFINE v == [w EXCEPT !.restarts = total, !.health = health]
  <1>4. v \in Workload /\ v.name = w.name
    BY <1>1, <1>2 DEF Workload
  <1>5. QED
    BY <1>3, <1>4

LEMMA MeasuredType ==
  ASSUME NEW w \in Workload
  PROVE  Measured(w) \in Workload
  <1>1. CpuUsage(w) \in Nat /\ MemoryUsage(w) \in Nat
    <2>1. CASE w.health = "UNHEALTHY"
      BY <2>1 DEF CpuUsage, MemoryUsage
    <2>2. CASE w.health = "DEGRADED"
      BY <2>2 DEF CpuUsage, MemoryUsage
    <2>3. CASE w.health \notin {"UNHEALTHY", "DEGRADED"}
      BY <2>3 DEF CpuUsage, MemoryUsage
    <2>4. QED
      BY <2>1, <2>2, <2>3
  <1>2. QED
    BY <1>1 DEF Measured, Workload

\* An update leaves the name of a row alone.
LEMMA WriteType ==
  ASSUME NEW row \in Workload, NEW old \in Workload, NEW new \in Workload
  PROVE  Write(row, old, new) \in Workload /\ Write(row, old, new).name = row.name
  BY ZenonT(60) DEF Write, Workload

-----------------------------------------------------------------------------
(* The type invariant, in three parts.                                     *)

StoreOK ==
    /\ cluster \in Clusters /\ changes \in 0 .. MaxChanges /\ faults \in 0 .. MaxFaults
    /\ crashed \subseteq Names
    /\ rows \in Seq(Rows) /\ Len(rows) <= MaxRows
    /\ incidents \subseteq Names \X Types
    /\ all \subseteq Workload
    /\ one \in [Names -> Workload \cup {Nothing}]
CallersOK ==
    /\ at \in [Callers -> Locations]
    /\ list \in [Callers -> SUBSET Workload]
    /\ current \in [Callers -> Workload \cup {Nothing}]
    /\ todo \in [Callers -> SUBSET Types]
    /\ hit \in [Callers -> BOOLEAN]
    /\ found \in [Callers -> 0 .. MaxRows]
    /\ loaded \in [Callers -> Workload \cup {Nothing}]
AwaitsOK ==
    \A c \in Callers :
      /\ at[c] \in {"persist", "insert", "update", "examine", "podsOne", "fillOne"} =>
           current[c] # Nothing
      /\ at[c] = "update" => found[c] \in DOMAIN rows /\ loaded[c] # Nothing

LEMMA TypeParts == TypeOK <=> StoreOK /\ CallersOK /\ AwaitsOK
  BY DEF TypeOK, StoreOK, CallersOK, AwaitsOK

LEMMA NextTypeParts == StoreOK' /\ CallersOK' /\ AwaitsOK' => TypeOK'
  BY DEF TypeOK, StoreOK, CallersOK, AwaitsOK

\* The exits of a caller.
LEMMA EndType ==
  ASSUME TypeOK, NEW c \in Callers, End(c), DOMAIN rows \subseteq DOMAIN rows'
  PROVE  CallersOK' /\ AwaitsOK'
  <1> USE TypeParts DEF CallersOK, AwaitsOK, End, Forget, Locations
  <1>1. CallersOK'
    BY WorkloadAssumptions
  <1>2. AwaitsOK'
    BY DEF Locations
  <1>3. QED
    BY <1>1, <1>2

LEMMA FailType ==
  ASSUME TypeOK, Fail \/ UNCHANGED faults
  PROVE  faults' \in 0 .. MaxFaults
  BY WorkloadAssumptions DEF TypeOK, Fail

\* Appending a workload, and writing over one.
LEMMA AppendType ==
  ASSUME TypeOK, NEW c \in Callers, at[c] = "insert", Len(rows) < MaxRows,
         rows' = Append(rows, [workload |-> current[c], by |-> c])
  PROVE  rows' \in Seq(Rows) /\ Len(rows') <= MaxRows /\ DOMAIN rows \subseteq DOMAIN rows'
  <1>1. current[c] \in Workload
    BY DEF TypeOK
  <1>2. [workload |-> current[c], by |-> c] \in Rows
    BY <1>1 DEF Rows
  <1>3. QED
    BY <1>2, WorkloadAssumptions DEF TypeOK

LEMMA OverwriteType ==
  ASSUME TypeOK, NEW c \in Callers, at[c] = "update",
         rows' = [rows EXCEPT ![found[c]].workload = Write(@, loaded[c], current[c])]
  PROVE  /\ rows' \in Seq(Rows) /\ Len(rows') = Len(rows)
         /\ \A i \in DOMAIN rows : /\ rows'[i].by = rows[i].by
                                  /\ rows'[i].workload.name = rows[i].workload.name
  <1> DEFINE i == found[c]
             new == [rows[i] EXCEPT !.workload = Write(rows[i].workload, loaded[c], current[c])]
  <1>1. i \in DOMAIN rows /\ loaded[c] \in Workload /\ current[c] \in Workload
    BY DEF TypeOK
  <1>0. rows \in Seq(Rows)
    BY DEF TypeOK
  <1>2. rows[i] \in Rows /\ rows[i].workload \in Workload
    <2>1. rows[i] \in Rows
      BY <1>0, <1>1
    <2>2. QED
      BY <2>1 DEF Rows
  <1>3. Write(rows[i].workload, loaded[c], current[c]) \in Workload
        /\ Write(rows[i].workload, loaded[c], current[c]).name = rows[i].workload.name
    BY <1>1, <1>2, WriteType
  <1>4. new \in Rows /\ new.by = rows[i].by /\ new.workload.name = rows[i].workload.name
    BY <1>2, <1>3 DEF Rows
  <1>5. rows' = [rows EXCEPT ![i] = new]
    OBVIOUS
  <1> HIDE DEF new, i
  <1>6. i \in 1 .. Len(rows) /\ DOMAIN rows = 1 .. Len(rows) /\ new \in Rows
    BY <1>0, <1>1, <1>4
  <1> DEFINE r == [rows EXCEPT ![i] = new]
  <1>7. /\ r \in Seq(Rows) /\ Len(r) = Len(rows)
        /\ \A k \in 1 .. Len(rows) : r[k] = IF k = i THEN new ELSE rows[k]
    <2> HIDE DEF r
    <2>1. r = [rows EXCEPT ![i] = new]
      BY DEF r
    <2>2. QED
      BY <1>0, <1>6, <2>1, ExceptSeq, ZenonT(60)
  <1>8. QED
    BY <1>4, <1>5, <1>6, <1>7

-----------------------------------------------------------------------------
(* One lemma for the actions that share a reason.                          *)

\* Steps that move a caller and what it holds, and store nothing.
LEMMA MoveType ==
  ASSUME TypeOK, NEW c \in Callers, UNCHANGED <<cluster, changes, crashed, storeVars>>,
         faults' \in 0 .. MaxFaults, CallersOK',
         /\ at'[c] \in {"persist", "insert", "update", "examine", "podsOne", "fillOne"} =>
              current'[c] # Nothing
         /\ at'[c] = "update" => found'[c] \in DOMAIN rows /\ loaded'[c] # Nothing,
         \A d \in Callers \ {c} : /\ at'[d] = at[d] /\ current'[d] = current[d]
                                 /\ found'[d] = found[d] /\ loaded'[d] = loaded[d]
  PROVE  TypeOK'
  <1>1. StoreOK'
    BY TypeParts DEF StoreOK, storeVars
  <1>2. AwaitsOK'
    <2> SUFFICES ASSUME NEW d \in Callers
                 PROVE  /\ at'[d] \in {"persist", "insert", "update", "examine", "podsOne", "fillOne"} =>
                             current'[d] # Nothing
                        /\ at'[d] = "update" => found'[d] \in DOMAIN rows' /\ loaded'[d] # Nothing
      BY DEF AwaitsOK
    <2>1. CASE d = c
      BY <2>1 DEF storeVars
    <2>2. CASE d # c
      BY <2>2, TypeParts DEF AwaitsOK, storeVars
    <2>3. QED
      BY <2>1, <2>2
  <1>3. QED
    BY <1>1, <1>2, NextTypeParts

\* A listing of the pods sets what is read of one workload, the next one.
LEMMA PodsOfOne ==
  ASSUME TypeOK, NEW c \in Callers, ReadPods(c)
  PROVE  \E w \in Workload, v \in Workload :
           /\ w \in Unread(c) /\ w \in list[c]
           /\ v = WithPods(w, cluster) /\ v.name = w.name
           /\ list' = [list EXCEPT ![c] = (list[c] \ {w}) \cup {v}]
           /\ at[c] = "pods"
           /\ \/ /\ at' = [at EXCEPT ![c] = AfterDiscovery(c)]
                 /\ current' = [current EXCEPT ![c] = Nothing]
              \/ /\ UNCHANGED at
                 /\ current' = [current EXCEPT ![c] = w]
  <1>1. PICK w \in Unread(c) :
           /\ list' = [list EXCEPT ![c] = (list[c] \ {w}) \cup {WithPods(w, cluster)}]
           /\ at[c] = "pods"
           /\ \/ /\ at' = [at EXCEPT ![c] = AfterDiscovery(c)]
                 /\ current' = [current EXCEPT ![c] = Nothing]
              \/ /\ UNCHANGED at
                 /\ current' = [current EXCEPT ![c] = w]
    BY DEF ReadPods, Goto
  <1>2. w \in list[c] /\ w \in Workload /\ cluster \in Clusters
    BY DEF Unread, TypeOK
  <1>3. PICK v \in Workload : v = WithPods(w, cluster) /\ v.name = w.name
    BY <1>2, WithPodsType
  <1>4. QED
    BY <1>1, <1>2, <1>3

LEMMA ReadPodsType ==
  ASSUME TypeOK, NEW c \in Callers, ReadPods(c)
  PROVE  TypeOK'
  <1>1. PICK w \in Workload, v \in Workload :
           /\ list' = [list EXCEPT ![c] = (list[c] \ {w}) \cup {v}]
           /\ \/ /\ at' = [at EXCEPT ![c] = AfterDiscovery(c)]
                 /\ current' = [current EXCEPT ![c] = Nothing]
              \/ /\ UNCHANGED at
                 /\ current' = [current EXCEPT ![c] = w]
           /\ at[c] = "pods"
    BY PodsOfOne
  <1>2. UNCHANGED <<cluster, changes, crashed, storeVars, todo, hit, found, loaded>>
        /\ faults' \in 0 .. MaxFaults
    BY DEF ReadPods, clusterVars, TypeOK
  <1>3. at' \in [Callers -> Locations] /\ at'[c] \in {"next", "fill", "pods"}
        /\ \A d \in Callers \ {c} : at'[d] = at[d]
    BY <1>1 DEF AfterDiscovery, Locations, TypeOK
  <1>4. list' \in [Callers -> SUBSET Workload]
    BY <1>1 DEF TypeOK
  <1>5. current' \in [Callers -> Workload \cup {Nothing}]
        /\ \A d \in Callers \ {c} : current'[d] = current[d]
    BY <1>1 DEF TypeOK
  <1>6. CallersOK'
    BY <1>2, <1>3, <1>4, <1>5, TypeParts DEF CallersOK
  <1>7. QED
    BY <1>2, <1>3, <1>5, <1>6, MoveType

\* The other steps of get_workloads before it has a list to store.
LEMMA ReadType ==
  ASSUME TypeOK, NEW c \in Callers, Start(c) \/ ReadList(c) \/ ReadDeployments(c)
  PROVE  TypeOK'
  <1>1. faults' \in 0 .. MaxFaults
    BY FailType DEF Start, ReadList, ReadDeployments
  <1>2. list' \in [Callers -> SUBSET Workload]
    <2>1. CASE Start(c) \/ ReadList(c)
      BY <2>1 DEF Start, ReadList, TypeOK
    <2>2. CASE ReadDeployments(c)
      <3>1. \A n \in ListDeployments(cluster) : n \in Names /\ cluster[n] \in States
        BY DEF TypeOK, Clusters, ListDeployments
      <3>2. {DeploymentToWorkload(n, cluster[n]) : n \in ListDeployments(cluster)} \subseteq Workload
        BY <3>1, DeploymentType
      <3>3. QED
        BY <2>2, <3>2 DEF ReadDeployments, TypeOK
    <2>3. QED
      BY <2>1, <2>2
  <1>3. at' \in [Callers -> Locations] /\ at'[c] \in {"deployments", "cached", "next", "pods", "fill"}
    BY DEF Start, ReadList, ReadDeployments, Goto, AfterDiscovery, TypeOK, Locations
  <1>4. \A d \in Callers \ {c} : at'[d] = at[d]
    BY DEF Start, ReadList, ReadDeployments, Goto, TypeOK
  <1>5. UNCHANGED <<cluster, changes, crashed, storeVars, current, todo, found, loaded>>
    BY DEF Start, ReadList, ReadDeployments, clusterVars
  <1>6. hit' \in [Callers -> BOOLEAN]
    BY DEF Start, ReadList, ReadDeployments, TypeOK
  <1>7. CallersOK'
    BY <1>2, <1>3, <1>5, <1>6, TypeParts DEF CallersOK
  <1>8. QED
    BY <1>1, <1>3, <1>4, <1>5, <1>7, MoveType

\* A caller that ends, well or not, and stores nothing.
LEMMA ExitType ==
  ASSUME TypeOK, NEW c \in Callers, End(c), UNCHANGED <<cluster, changes, crashed, storeVars>>,
         Fail \/ UNCHANGED faults
  PROVE  TypeOK'
  <1>1. CallersOK' /\ AwaitsOK'
    BY EndType DEF storeVars
  <1>2. StoreOK'
    BY FailType, TypeParts DEF StoreOK, storeVars
  <1>3. QED
    BY <1>1, <1>2, NextTypeParts

\* The steps that take a workload from the list or hold on to another.
LEMMA TakeType ==
  ASSUME TypeOK, NEW c \in Callers,
         NextWorkload(c) \/ Examine(c) \/ GetOne(c) \/ ReadPodsOfOne(c)
  PROVE  TypeOK'
  <1>1. faults' \in 0 .. MaxFaults
    BY FailType DEF NextWorkload, Examine, GetOne, ReadPodsOfOne
  <1>2. PICK w \in Workload : current' = [current EXCEPT ![c] = w]
    <2>1. CASE NextWorkload(c)
      BY <2>1, MeasuredType DEF NextWorkload, TypeOK
    <2>2. CASE Examine(c)
      BY <2>2 DEF Examine, TypeOK
    <2>3. CASE GetOne(c)
      <3>1. PICK n \in ListDeployments(cluster) :
              current' = [current EXCEPT ![c] = DeploymentToWorkload(n, cluster[n])]
        BY <2>3 DEF GetOne
      <3>2. n \in Names /\ cluster[n] \in States
        BY DEF TypeOK, Clusters, ListDeployments
      <3>3. QED
        BY <3>1, <3>2, DeploymentType
    <2>4. CASE ReadPodsOfOne(c)
      <3>1. at[c] = "podsOne"
        BY <2>4 DEF ReadPodsOfOne, Goto
      <3>2. current[c] \in Workload /\ cluster \in Clusters
        BY <3>1 DEF TypeOK
      <3>3. QED
        BY <2>4, <3>2, WithPodsType DEF ReadPodsOfOne
    <2>5. QED
      BY <2>1, <2>2, <2>3, <2>4
  <1>3. w # Nothing
    BY WorkloadAssumptions
  <1>4. list' \in [Callers -> SUBSET Workload]
    <2>1. CASE NextWorkload(c)
      BY <2>1 DEF NextWorkload, TypeOK
    <2>2. CASE Examine(c)
      BY <2>2 DEF Examine, TypeOK
    <2>3. CASE GetOne(c) \/ ReadPodsOfOne(c)
      BY <2>3 DEF GetOne, ReadPodsOfOne, TypeOK
    <2>4. QED
      BY <2>1, <2>2, <2>3
  <1>5. todo' \in [Callers -> SUBSET Types]
    <2>1. CASE Examine(c)
      <3>1. PICK v \in list[c] : todo' = [todo EXCEPT ![c] = DetectIncidents(v)]
        BY <2>1 DEF Examine
      <3>2. DetectIncidents(v) \subseteq Types
        BY DEF DetectIncidents
      <3>3. QED
        BY <3>1, <3>2 DEF TypeOK
    <2>2. CASE NextWorkload(c) \/ GetOne(c) \/ ReadPodsOfOne(c)
      BY <2>2 DEF NextWorkload, GetOne, ReadPodsOfOne, TypeOK
    <2>3. QED
      BY <2>1, <2>2
  <1>6. at' \in [Callers -> Locations] /\ at'[c] \in {"persist", "examine", "podsOne", "fillOne"}
        /\ \A d \in Callers \ {c} : at'[d] = at[d]
    BY DEF NextWorkload, Examine, GetOne, ReadPodsOfOne, Goto, TypeOK, Locations
  <1>7. UNCHANGED <<cluster, changes, crashed, storeVars, hit, found, loaded>>
    BY DEF NextWorkload, Examine, GetOne, ReadPodsOfOne, clusterVars
  <1>8. CallersOK'
    BY <1>2, <1>4, <1>5, <1>6, <1>7, TypeParts DEF CallersOK
  <1>9. current'[c] = w /\ \A d \in Callers \ {c} : current'[d] = current[d]
    BY <1>2 DEF TypeOK
  <1>10. QED
    BY <1>1, <1>3, <1>6, <1>7, <1>8, <1>9, MoveType

\* The select, whose row stays where it is.
LEMMA SelectType ==
  ASSUME TypeOK, NEW c \in Callers, SelectRow(c)
  PROVE  TypeOK'
  <1>1. CASE End(c)
    BY <1>1, ExitType DEF SelectRow, clusterVars
  <1>2. CASE /\ Goto(c, "persist", "insert")
             /\ UNCHANGED <<list, current, todo, hit, found, loaded>>
    <2>1. at'[c] = "insert" /\ at' \in [Callers -> Locations]
          /\ \A d \in Callers \ {c} : at'[d] = at[d]
      BY <1>2 DEF Goto, TypeOK, Locations
    <2>2. current[c] # Nothing
      BY <1>2 DEF Goto, TypeOK
    <2>3. CallersOK'
      BY <1>2, <2>1, TypeParts DEF CallersOK
    <2>4. UNCHANGED <<cluster, changes, crashed, storeVars>> /\ faults' \in 0 .. MaxFaults
      BY DEF SelectRow, clusterVars, TypeOK
    <2>5. QED
      BY <1>2, <2>1, <2>2, <2>3, <2>4, MoveType
  <1>3. ASSUME NEW i \in RowsOf(current[c].name),
               Goto(c, "persist", "update"),
               found' = [found EXCEPT ![c] = i],
               loaded' = [loaded EXCEPT ![c] = rows[i].workload],
               UNCHANGED <<list, current, todo, hit>>
        PROVE  TypeOK'
    <2>1. i \in DOMAIN rows /\ i \in 0 .. MaxRows
      BY WorkloadAssumptions DEF RowsOf, TypeOK
    <2>2. rows[i].workload \in Workload
      <3>1. rows \in Seq(Rows)
        BY DEF TypeOK
      <3>2. rows[i] \in Rows
        BY <2>1, <3>1
      <3>3. QED
        BY <3>2 DEF Rows
    <2>3. at'[c] = "update" /\ at' \in [Callers -> Locations]
          /\ \A d \in Callers \ {c} : at'[d] = at[d]
      BY <1>3 DEF Goto, TypeOK, Locations
    <2>4. /\ found' \in [Callers -> 0 .. MaxRows] /\ found'[c] = i
          /\ loaded' \in [Callers -> Workload \cup {Nothing}] /\ loaded'[c] = rows[i].workload
          /\ \A d \in Callers \ {c} : found'[d] = found[d] /\ loaded'[d] = loaded[d]
      BY <1>3, <2>1, <2>2 DEF TypeOK
    <2>5. current[c] # Nothing
      BY <1>3 DEF Goto, TypeOK
    <2>6. CallersOK'
      BY <1>3, <2>3, <2>4, TypeParts DEF CallersOK
    <2>7. UNCHANGED <<cluster, changes, crashed, storeVars>> /\ faults' \in 0 .. MaxFaults
      BY DEF SelectRow, clusterVars, TypeOK
    <2>8. loaded'[c] # Nothing
      BY <2>2, <2>4, WorkloadAssumptions
    <2>9. QED
      BY <1>3, <2>1, <2>3, <2>4, <2>5, <2>6, <2>7, <2>8, MoveType
  <1>4. QED
    BY <1>1, <1>2, <1>3 DEF SelectRow

\* A caller that goes on with the next workload.
LEMMA ForgetType ==
  ASSUME TypeOK, NEW c \in Callers, at' = [at EXCEPT ![c] = "next"], Forget(c),
         UNCHANGED <<list, hit>>, DOMAIN rows \subseteq DOMAIN rows'
  PROVE  CallersOK' /\ AwaitsOK'
  <1> USE TypeParts DEF CallersOK, AwaitsOK, Forget, Locations
  <1>1. CallersOK'
    BY WorkloadAssumptions
  <1>2. AwaitsOK'
    OBVIOUS
  <1>3. QED
    BY <1>1, <1>2

\* What is stored stays a table of workloads.
LEMMA PersistType ==
  ASSUME TypeOK, NEW c \in Callers, Insert(c) \/ Update(c) \/ PersistRaises(c)
  PROVE  TypeOK'
  <1>1. rows' \in Seq(Rows) /\ Len(rows') <= MaxRows /\ DOMAIN rows \subseteq DOMAIN rows'
    <2>1. CASE UNCHANGED rows
      BY <2>1 DEF TypeOK
    <2>2. CASE /\ at[c] = "insert" /\ Len(rows) < MaxRows
               /\ rows' = Append(rows, [workload |-> current[c], by |-> c])
      BY <2>2, AppendType
    <2>3. CASE /\ at[c] = "update"
               /\ rows' = [rows EXCEPT ![found[c]].workload = Write(@, loaded[c], current[c])]
      <3>1. rows' \in Seq(Rows) /\ Len(rows') = Len(rows) /\ rows \in Seq(Rows)
            /\ Len(rows) <= MaxRows
        BY <2>3, OverwriteType DEF TypeOK
      <3>2. QED
        BY <3>1
    <2>4. QED
      BY <2>1, <2>2, <2>3 DEF Insert, Update, PersistRaises, Goto
  <1>2. faults' \in 0 .. MaxFaults
    BY FailType DEF Insert, Update, PersistRaises
  <1>3. UNCHANGED <<cluster, changes, crashed, incidents, all, one>>
    BY DEF Insert, Update, PersistRaises, clusterVars
  <1>4. StoreOK'
    BY <1>1, <1>2, <1>3, TypeParts DEF StoreOK
  <1>5. CallersOK' /\ AwaitsOK'
    <2>1. CASE Insert(c) \/ Update(c)
      BY <1>1, <2>1, ForgetType DEF Insert, Update, Goto
    <2>2. CASE PersistRaises(c)
      BY <1>1, <2>2, EndType DEF PersistRaises
    <2>3. QED
      BY <2>1, <2>2
  <1>6. QED
    BY <1>4, <1>5, NextTypeParts

\* The steps that fill a cache.
LEMMA FillType ==
  ASSUME TypeOK, NEW c \in Callers, FillList(c) \/ FillOne(c)
  PROVE  TypeOK'
  <1>1. all' \subseteq Workload
    BY DEF FillList, FillOne, TypeOK
  <1>2. one' \in [Names -> Workload \cup {Nothing}]
    <2>1. CASE FillList(c)
      BY <2>1 DEF FillList, TypeOK
    <2>2. CASE FillOne(c)
      <3>1. at[c] = "fillOne"
        BY <2>2 DEF FillOne
      <3>2. current[c] \in Workload
        BY <3>1 DEF TypeOK
      <3>3. QED
        BY <2>2, <3>2 DEF FillOne, TypeOK
    <2>3. QED
      BY <2>1, <2>2
  <1>3. faults' \in 0 .. MaxFaults
    BY FailType DEF FillList, FillOne
  <1>4. UNCHANGED <<cluster, changes, crashed, rows, incidents>>
    BY DEF FillList, FillOne, clusterVars
  <1>5. StoreOK'
    BY <1>1, <1>2, <1>3, <1>4, TypeParts DEF StoreOK
  <1>6. CallersOK' /\ AwaitsOK'
    <2>1. CASE End(c)
      BY <1>4, <2>1, EndType
    <2>2. CASE Goto(c, "fill", "next") /\ UNCHANGED <<list, current, todo, hit, found, loaded>>
      BY <1>4, <2>2, TypeParts DEF CallersOK, AwaitsOK, Goto, Locations
    <2>3. QED
      BY <2>1, <2>2 DEF FillList, FillOne
  <1>7. QED
    BY <1>5, <1>6, NextTypeParts

\* FirstOf chooses one of the types it is given.
LEMMA FirstOfType ==
  ASSUME NEW types \in SUBSET Types, types # {}
  PROVE  FirstOf(types) \in types
  <1> DEFINE Earliest(t) == \A i, j \in DOMAIN TypeOrder :
                               TypeOrder[i] = t /\ TypeOrder[j] \in types => i <= j
  <1>0. DOMAIN TypeOrder = 1 .. 4 /\ TypeOrder[1] = "POD_CRASH_LOOP"
        /\ TypeOrder[2] = "REPLICA_SHORTAGE" /\ TypeOrder[3] = "HIGH_CPU"
        /\ TypeOrder[4] = "HIGH_MEMORY"
    BY DEF TypeOrder
  <1>1. \E t \in types : Earliest(t)
    <2>1. CASE "POD_CRASH_LOOP" \in types
      BY <1>0, <2>1
    <2>2. CASE "POD_CRASH_LOOP" \notin types /\ "REPLICA_SHORTAGE" \in types
      BY <1>0, <2>2
    <2>3. CASE types \cap {"POD_CRASH_LOOP", "REPLICA_SHORTAGE"} = {} /\ "HIGH_CPU" \in types
      BY <1>0, <2>3
    <2>4. CASE types = {"HIGH_MEMORY"}
      BY <1>0, <2>4
    <2>5. QED
      BY <2>1, <2>2, <2>3, <2>4 DEF Types
  <1>2. QED
    BY <1>1 DEF FirstOf

\* The steps of the detection job that create an incident or have created all.
LEMMA ReportType ==
  ASSUME TypeOK, NEW c \in Callers, Report(c) \/ ReportRaises(c) \/ Examined(c)
  PROVE  TypeOK'
  <1>1. incidents' \subseteq Names \X Types
    <2>1. CASE UNCHANGED incidents
      BY <2>1 DEF TypeOK
    <2>2. CASE /\ at[c] = "examine" /\ todo[c] # {}
               /\ incidents' = incidents \cup {<<current[c].name, FirstOf(todo[c])>>}
      <3>1. current[c] \in Workload /\ todo[c] \in SUBSET Types
        BY <2>2 DEF TypeOK
      <3>2. FirstOf(todo[c]) \in Types /\ current[c].name \in Names
        BY <2>2, <3>1, FirstOfType DEF Workload
      <3>3. QED
        BY <2>2, <3>2 DEF TypeOK
    <2>3. QED
      BY <2>1, <2>2 DEF Report, ReportRaises, Examined, storeVars
  <1>2. faults' \in 0 .. MaxFaults
    BY FailType DEF Report, ReportRaises, Examined
  <1>3. UNCHANGED <<cluster, changes, crashed, rows, all, one>>
    BY DEF Report, ReportRaises, Examined, clusterVars, storeVars
  <1>4. StoreOK'
    BY <1>1, <1>2, <1>3, TypeParts DEF StoreOK
  <1>5. CallersOK' /\ AwaitsOK'
    <2>1. CASE Report(c)
      BY <1>3, <2>1, TypeParts DEF Report, CallersOK, AwaitsOK
    <2>2. CASE ReportRaises(c)
      BY <1>3, <2>2, EndType DEF ReportRaises
    <2>3. CASE Examined(c)
      BY <1>3, <2>3, ForgetType DEF Examined, Goto
    <2>4. QED
      BY <2>1, <2>2, <2>3
  <1>6. QED
    BY <1>4, <1>5, NextTypeParts

\* The cluster, the users and the clock of Redis.
LEMMA WorldType ==
  ASSUME TypeOK, World
  PROVE  TypeOK'
  <1>1. UNCHANGED <<rows, callerVars, faults>>
    BY DEF World, Change, Close, ExpireList, ExpireOne, storeVars
  <1>2. CallersOK' /\ AwaitsOK'
    BY <1>1, TypeParts DEF CallersOK, AwaitsOK, callerVars
  <1>3. StoreOK'
    <2>1. CASE Change
      <3>1. PICK n \in Names, s \in States \cup {Gone} : cluster' = [cluster EXCEPT ![n] = s]
        BY <2>1 DEF Change
      <3>2. cluster' \in Clusters
        BY <3>1 DEF TypeOK, Clusters
      <3>3. changes' \in 0 .. MaxChanges
        BY <2>1, WorkloadAssumptions DEF Change, TypeOK
      <3>4. crashed' \subseteq Names
        BY <2>1 DEF Change, TypeOK, CrashLooping, ListPods, ListDeployments
      <3>5. QED
        BY <1>1, <2>1, <3>2, <3>3, <3>4, TypeParts DEF Change, StoreOK, storeVars
    <2>2. CASE ExpireList
      BY <2>2, TypeParts DEF ExpireList, StoreOK, clusterVars
    <2>3. ASSUME NEW n \in Names, ExpireOne(n)
          PROVE  StoreOK'
      BY <2>3, TypeParts DEF ExpireOne, StoreOK, clusterVars
    <2>4. ASSUME NEW k, Close(k)
          PROVE  StoreOK'
      BY <2>4, TypeParts DEF Close, StoreOK, clusterVars
    <2>5. QED
      BY <2>1, <2>2, <2>3, <2>4 DEF World
  <1>4. QED
    BY <1>2, <1>3, NextTypeParts

-----------------------------------------------------------------------------
(* Every reachable state is well typed.                                    *)

LEMMA InitType == Init => TypeOK
  <1> SUFFICES ASSUME Init
               PROVE  TypeOK
    OBVIOUS
  <1>1. \A i \in DOMAIN Known : Known[i] \in Names /\ cluster[Known[i]] \in States
    BY WorkloadAssumptions DEF Init, Clusters
  <1>2. \A i \in DOMAIN Known : Discovered(Known[i], cluster) \in Workload
    BY <1>1, DeploymentType, WithPodsType DEF Init, Discovered
  <1>3. \A i \in DOMAIN Known :
          [workload |-> Discovered(Known[i], cluster), by |-> Nothing] \in Rows
    BY <1>2 DEF Rows
  <1>4. rows \in Seq(Rows) /\ Len(rows) = Len(Known)
    <2>1. Len(Known) \in Nat /\ DOMAIN Known = 1 .. Len(Known)
      BY WorkloadAssumptions
    <2>2. rows \in [1 .. Len(Known) -> Rows]
      BY <1>3, <2>1 DEF Init
    <2>3. QED
      BY <2>1, <2>2
  <1>5. StoreOK
    BY <1>4, WorkloadAssumptions DEF Init, StoreOK, CrashLooping, ListPods, ListDeployments
  <1>6. CallersOK
    BY WorkloadAssumptions DEF Init, CallersOK, Locations
  <1>7. AwaitsOK
    BY DEF Init, AwaitsOK
  <1>8. QED
    BY <1>5, <1>6, <1>7, TypeParts

LEMMA NextType ==
  ASSUME TypeOK, [Next]_vars
  PROVE  TypeOK'
  <1>1. CASE World
    BY <1>1, WorldType
  <1>2. ASSUME NEW c \in Callers, Start(c) \/ GetOne(c) \/ Step(c) \/ Die(c)
        PROVE  TypeOK'
    <2>1. CASE Start(c) \/ ReadList(c) \/ ReadDeployments(c) \/ ReadPods(c)
      BY <2>1, ReadType, ReadPodsType
    <2>2. CASE DiscoveryRaises(c) \/ Finish(c) \/ AbortHealthJob(c) \/ Die(c)
      BY <2>2, ExitType DEF DiscoveryRaises, Finish, AbortHealthJob, Die, clusterVars
    <2>3. CASE NextWorkload(c) \/ Examine(c) \/ GetOne(c) \/ ReadPodsOfOne(c)
      BY <2>3, TakeType
    <2>4. CASE FillList(c) \/ FillOne(c)
      BY <2>4, FillType
    <2>5. CASE SelectRow(c)
      BY <2>5, SelectType
    <2>6. CASE Insert(c) \/ Update(c) \/ PersistRaises(c)
      BY <2>6, PersistType
    <2>7. CASE Report(c) \/ ReportRaises(c) \/ Examined(c)
      BY <2>7, ReportType
    <2>8. QED
      BY <1>2, <2>1, <2>2, <2>3, <2>4, <2>5, <2>6, <2>7 DEF Step
  <1>3. CASE UNCHANGED vars
    BY <1>3 DEF TypeOK, vars, clusterVars, storeVars, callerVars
  <1>4. QED
    BY <1>1, <1>2, <1>3 DEF Next

\* Every reachable state is well typed, and a caller on its way to the database or the
\* cache has what it will store (workload_service.py:26-111), for any callers,
\* workloads, clusters and faults.
THEOREM TypeCorrect == Spec => []TypeOK
  <1>1. TypeOK /\ [Next]_vars => TypeOK'
    BY NextType
  <1>2. QED
    BY <1>1, InitType, PTL DEF Spec

-----------------------------------------------------------------------------
(* A caller inserts one row of a workload.                                 *)

\* Both parts only ask for the names of the rows and for who inserted them.
LEMMA SameRowsKeepOne ==
  ASSUME TypeOK, OneRowPerCaller, NoneWhileInserting,
         DOMAIN rows' = DOMAIN rows,
         \A i \in DOMAIN rows : /\ rows'[i].by = rows[i].by
                                /\ rows'[i].workload.name = rows[i].workload.name,
         \A c \in Callers : at'[c] = "insert" =>
             \/ at[c] = "insert" /\ current'[c] = current[c]
             \/ RowsOf(current[c].name) = {} /\ current'[c] = current[c]
  PROVE  OneRowPerCaller' /\ NoneWhileInserting'
  <1>1. OneRowPerCaller'
    BY DEF OneRowPerCaller
  <1>2. NoneWhileInserting'
    BY DEF NoneWhileInserting, RowsOf
  <1>3. QED
    BY <1>1, <1>2

\* An insert that took effect, answered or not.
LEMMA InsertKeepsOne ==
  ASSUME TypeOK, OneRowPerCaller, NoneWhileInserting, NEW c \in Callers,
         at[c] = "insert", Len(rows) < MaxRows,
         rows' = Append(rows, [workload |-> current[c], by |-> c]),
         at'[c] # "insert",
         \A d \in Callers \ {c} : at'[d] = at[d] /\ current'[d] = current[d]
  PROVE  OneRowPerCaller' /\ NoneWhileInserting'
  <1> DEFINE new == [workload |-> current[c], by |-> c]
  <1>1. rows \in Seq(Rows)
    BY DEF TypeOK
  <1>2. new \in Rows
    BY DEF TypeOK, Rows
  <1>3. /\ Len(rows) \in Nat /\ DOMAIN rows = 1 .. Len(rows)
        /\ DOMAIN rows' = 1 .. (Len(rows) + 1)
        /\ \A i \in 1 .. Len(rows) : rows'[i] = rows[i]
        /\ rows'[Len(rows) + 1] = new
    <2> HIDE DEF new
    <2>1. rows' = Append(rows, new)
      BY DEF new
    <2>2. QED
      BY <1>1, <1>2, <2>1
  <1>4. \A i \in DOMAIN rows : rows[i].workload.name = current[c].name => rows[i].by # c
    BY DEF NoneWhileInserting, RowsOf
  <1>5. OneRowPerCaller'
    <2> SUFFICES ASSUME NEW i \in DOMAIN rows', NEW j \in DOMAIN rows',
                        rows'[i].workload.name = rows'[j].workload.name,
                        rows'[i].by = rows'[j].by
                 PROVE  i = j
      BY DEF OneRowPerCaller
    <2>1. CASE i \in DOMAIN rows /\ j \in DOMAIN rows
      BY <1>3, <2>1 DEF OneRowPerCaller
    <2>2. CASE i = Len(rows) + 1 /\ j = Len(rows) + 1
      BY <2>2
    <2>3. CASE i \in DOMAIN rows /\ j = Len(rows) + 1
      BY <1>3, <1>4, <2>3
    <2>4. CASE i = Len(rows) + 1 /\ j \in DOMAIN rows
      BY <1>3, <1>4, <2>4
    <2>5. QED
      BY <1>3, <2>1, <2>2, <2>3, <2>4
  <1>6. NoneWhileInserting'
    <2> SUFFICES ASSUME NEW d \in Callers, at'[d] = "insert",
                        NEW i \in DOMAIN rows', rows'[i].workload.name = current'[d].name
                 PROVE  rows'[i].by # d
      BY DEF NoneWhileInserting, RowsOf
    <2>1. d # c /\ at[d] = "insert" /\ current'[d] = current[d]
      OBVIOUS
    <2>2. CASE i \in DOMAIN rows
      BY <1>3, <2>1, <2>2 DEF NoneWhileInserting, RowsOf
    <2>3. CASE i = Len(rows) + 1
      BY <1>3, <2>1, <2>3
    <2>4. QED
      BY <1>3, <2>2, <2>3
  <1>7. QED
    BY <1>5, <1>6

\* An update writes over the workload of a row and keeps its name.
LEMMA UpdateKeepsOne ==
  ASSUME TypeOK, OneRowPerCaller, NoneWhileInserting, NEW c \in Callers,
         at[c] = "update",
         rows' = [rows EXCEPT ![found[c]].workload = Write(@, loaded[c], current[c])],
         at'[c] # "insert",
         \A d \in Callers \ {c} : at'[d] = at[d] /\ current'[d] = current[d]
  PROVE  OneRowPerCaller' /\ NoneWhileInserting'
  <1>1. /\ rows' \in Seq(Rows) /\ Len(rows') = Len(rows)
        /\ \A i \in DOMAIN rows : /\ rows'[i].by = rows[i].by
                                 /\ rows'[i].workload.name = rows[i].workload.name
    BY OverwriteType
  <1>2. DOMAIN rows' = DOMAIN rows
    BY <1>1 DEF TypeOK
  <1>3. QED
    BY <1>1, <1>2, SameRowsKeepOne

LEMMA NextKeepsOne ==
  ASSUME TypeOK, OneRowPerCaller, NoneWhileInserting, [Next]_vars
  PROVE  OneRowPerCaller' /\ NoneWhileInserting'
  <1>1. CASE UNCHANGED <<rows, at, current>>
    BY <1>1, SameRowsKeepOne
  <1>2. ASSUME NEW c \in Callers, Start(c) \/ GetOne(c) \/ Step(c) \/ Die(c)
        PROVE  OneRowPerCaller' /\ NoneWhileInserting'
    <2>1. ASSUME UNCHANGED rows, at'[c] # "insert",
                 \A d \in Callers \ {c} : at'[d] = at[d] /\ current'[d] = current[d]
          PROVE  OneRowPerCaller' /\ NoneWhileInserting'
      BY <2>1, SameRowsKeepOne
    <2>2. CASE \/ Start(c) \/ ReadList(c) \/ ReadDeployments(c) \/ ReadPods(c)
               \/ NextWorkload(c) \/ Examine(c) \/ GetOne(c) \/ ReadPodsOfOne(c)
      <3>1. UNCHANGED rows
        BY <2>2 DEF Start, ReadList, ReadDeployments, ReadPods, NextWorkload, Examine,
                    GetOne, ReadPodsOfOne, storeVars
      <3>2. at'[c] # "insert" /\ \A d \in Callers \ {c} : at'[d] = at[d]
        BY <2>2 DEF Start, ReadList, ReadDeployments, ReadPods, NextWorkload, Examine,
                    GetOne, ReadPodsOfOne, Goto, AfterDiscovery, TypeOK
      <3>3. \A d \in Callers \ {c} : current'[d] = current[d]
        BY <2>2 DEF Start, ReadList, ReadDeployments, ReadPods, NextWorkload, Examine,
                    GetOne, ReadPodsOfOne, TypeOK
      <3>4. QED
        BY <2>1, <3>1, <3>2, <3>3
    <2>3. CASE UNCHANGED rows /\ End(c)
      BY <2>1, <2>3 DEF End, Forget, TypeOK
    <2>4. CASE DiscoveryRaises(c) \/ Finish(c) \/ AbortHealthJob(c) \/ Die(c)
               \/ FillOne(c) \/ ReportRaises(c)
      BY <2>3, <2>4 DEF DiscoveryRaises, Finish, AbortHealthJob, Die, FillOne, ReportRaises,
                        storeVars
    <2>5. CASE FillList(c) \/ Report(c) \/ Examined(c)
      <3>1. UNCHANGED rows
        BY <2>5 DEF FillList, Report, Examined, storeVars
      <3>2. CASE End(c)
        BY <2>3, <3>1, <3>2
      <3>3. CASE FillList(c) /\ ~End(c)
        BY <2>1, <3>1, <3>3 DEF FillList, Goto, TypeOK
      <3>4. CASE Report(c)
        BY <1>1, <3>1, <3>4 DEF Report
      <3>5. CASE Examined(c)
        BY <2>1, <3>1, <3>5 DEF Examined, Goto, Forget, TypeOK
      <3>6. QED
        BY <2>5, <3>2, <3>3, <3>4, <3>5
    <2>6. CASE SelectRow(c)
      <3>1. UNCHANGED rows
        BY <2>6 DEF SelectRow, storeVars
      <3>2. CASE End(c)
        BY <2>3, <3>1, <3>2
      <3>3. CASE Goto(c, "persist", "update") /\ UNCHANGED current
        BY <2>1, <3>1, <3>3 DEF Goto, TypeOK
      <3>4. CASE /\ Goto(c, "persist", "insert") /\ UNCHANGED current
                 /\ RowsOf(current[c].name) = {}
        BY <3>1, <3>4, SameRowsKeepOne DEF Goto, TypeOK
      <3>5. QED
        BY <2>6, <3>2, <3>3, <3>4 DEF SelectRow
    <2>7. CASE Insert(c) \/ Update(c) \/ PersistRaises(c)
      <3>1. at'[c] # "insert" /\ \A d \in Callers \ {c} : at'[d] = at[d]
        BY <2>7 DEF Insert, Update, PersistRaises, End, Goto, TypeOK
      <3>2. \A d \in Callers \ {c} : current'[d] = current[d]
        BY <2>7 DEF Insert, Update, PersistRaises, End, Forget, TypeOK
      <3>3. CASE UNCHANGED rows
        BY <2>1, <3>1, <3>2, <3>3
      <3>4. CASE /\ at[c] = "insert" /\ Len(rows) < MaxRows
                 /\ rows' = Append(rows, [workload |-> current[c], by |-> c])
        BY <3>1, <3>2, <3>4, InsertKeepsOne
      <3>5. CASE /\ at[c] = "update"
                 /\ rows' = [rows EXCEPT ![found[c]].workload = Write(@, loaded[c], current[c])]
        BY <3>1, <3>2, <3>5, UpdateKeepsOne
      <3>6. QED
        BY <2>7, <3>3, <3>4, <3>5 DEF Insert, Update, PersistRaises, Goto
    <2>8. QED
      BY <1>2, <2>2, <2>4, <2>5, <2>6, <2>7 DEF Step
  <1>3. CASE World
    BY <1>1, <1>3 DEF World, Change, Close, ExpireList, ExpireOne, storeVars, callerVars
  <1>4. CASE UNCHANGED vars
    BY <1>1, <1>4 DEF vars, storeVars, callerVars
  <1>5. QED
    BY <1>2, <1>3, <1>4 DEF Next

LEMMA InitHasOne == Init => OneRowPerCaller /\ NoneWhileInserting
  <1> SUFFICES ASSUME Init
               PROVE  OneRowPerCaller /\ NoneWhileInserting
    OBVIOUS
  <1>1. \A i \in DOMAIN Known : Known[i] \in Names /\ cluster[Known[i]] \in States
    BY WorkloadAssumptions DEF Init, Clusters
  <1>2. \A n \in Names : cluster[n] \in States => Discovered(n, cluster).name = n
    BY DEF Discovered, WithPods, DeploymentToWorkload
  <1>3. DOMAIN rows = DOMAIN Known
        /\ \A i \in DOMAIN Known : rows[i].workload.name = Known[i]
    BY <1>1, <1>2 DEF Init
  <1>4. OneRowPerCaller
    BY <1>3, WorkloadAssumptions DEF OneRowPerCaller
  <1>5. NoneWhileInserting
    BY DEF Init, NoneWhileInserting
  <1>6. QED
    BY <1>4, <1>5

LEMMA OneHolds == Spec => [](OneRowPerCaller /\ NoneWhileInserting)
  <1> DEFINE IInv == OneRowPerCaller /\ NoneWhileInserting
  <1>1. Init => IInv
    BY InitHasOne
  <1>2. TypeOK /\ IInv /\ [Next]_vars => IInv'
    BY NextKeepsOne
  <1> HIDE DEF IInv
  <1>3. Spec => []IInv
    BY <1>1, <1>2, TypeCorrect, PTL DEF Spec
  <1>4. QED
    BY <1>3 DEF IInv

\* For any callers, faults and interleavings, two rows of a workload are never inserted
\* by one caller (workload_service.py:68-108): its select sees what it has inserted.
THEOREM OneRowEach == Spec => []OneRowPerCaller
  BY OneHolds, PTL

-----------------------------------------------------------------------------
(* What says UNHEALTHY has a cause, and usage stays in pairs.              *)

\* Pods that have been in a crash loop count as those of n.
HasCause(n) == \E m \in crashed : <<n, m>> \in Contains

Paired(w) ==
    \/ w.cpu = 0 /\ w.memory = 0
    \/ \E h \in HealthStatus : /\ w.cpu = CpuUsage([health |-> h])
                               /\ w.memory = MemoryUsage([health |-> h])
Sound(w) == (w.health = "UNHEALTHY" => HasCause(w.name)) /\ Paired(w)

CrashLoopsAreSeen == CrashLooping(cluster) \subseteq crashed
StoreIsSound ==
    /\ \A i \in DOMAIN rows : Sound(rows[i].workload)
    /\ \A w \in all : Sound(w)
    /\ \A n \in Names : one[n] # Nothing => Sound(one[n])
HeldIsSound ==
    \A c \in Callers :
        /\ \A w \in list[c] : Sound(w)
        /\ current[c] # Nothing => Sound(current[c])
        /\ loaded[c] # Nothing => Sound(loaded[c])
        /\ todo[c] # {} => at[c] = "examine"
        /\ "POD_CRASH_LOOP" \in todo[c] => HasCause(current[c].name)
\* The row a caller updates is of the workload it has.
FoundIsRow ==
    \A c \in Callers : at[c] = "update" =>
        rows[found[c]].workload.name = current[c].name

\* Nothing that is read, held, stored or cached is UNHEALTHY without a cause.
CauseInv ==
    /\ CrashLoopsAreSeen /\ StoreIsSound /\ HeldIsSound
    /\ FoundIsRow /\ CrashLoopHasCause

\* What has been in a crash loop stays so: only what a caller has anew is looked at.
LEMMA KeepsCause ==
  ASSUME TypeOK, CauseInv, NEW c \in Callers, UNCHANGED <<cluster, crashed>>,
         \A i \in DOMAIN rows' : Sound(rows'[i].workload),
         \A i \in DOMAIN rows : rows'[i].workload.name = rows[i].workload.name,
         all' \subseteq all \cup list[c],
         \A n \in Names : one'[n] # Nothing => Sound(one'[n]),
         \A d \in Callers \ {c} :
           /\ list'[d] = list[d] /\ todo'[d] = todo[d] /\ current'[d] = current[d]
           /\ at'[d] = at[d] /\ found'[d] = found[d] /\ loaded'[d] = loaded[d],
         \A w \in list'[c] : Sound(w),
         current'[c] # Nothing => Sound(current'[c]),
         loaded'[c] # Nothing => Sound(loaded'[c]),
         todo'[c] # {} => at'[c] = "examine",
         "POD_CRASH_LOOP" \in todo'[c] => HasCause(current'[c].name),
         at'[c] = "update" => rows'[found'[c]].workload.name = current'[c].name,
         \A n \in Names : <<n, "POD_CRASH_LOOP">> \in incidents' =>
             <<n, "POD_CRASH_LOOP">> \in incidents \/ HasCause(n)
  PROVE  CauseInv'
  <1>1. CrashLoopsAreSeen'
    BY DEF CauseInv, CrashLoopsAreSeen, CrashLooping, ListPods, ListDeployments
  <1>2. StoreIsSound'
    BY DEF CauseInv, StoreIsSound, HeldIsSound, Sound, HasCause
  <1>3. HeldIsSound'
    <2> SUFFICES ASSUME NEW d \in Callers
                 PROVE  /\ \A w \in list'[d] : Sound(w)
                        /\ current'[d] # Nothing => Sound(current'[d])
                        /\ loaded'[d] # Nothing => Sound(loaded'[d])
                        /\ todo'[d] # {} => at'[d] = "examine"
                        /\ "POD_CRASH_LOOP" \in todo'[d] => HasCause(current'[d].name)
      BY DEF HeldIsSound, Sound, HasCause
    <2>1. CASE d = c
      BY <2>1
    <2>2. CASE d # c
      BY <2>2 DEF CauseInv, HeldIsSound
    <2>3. QED
      BY <2>1, <2>2
  <1>4. FoundIsRow'
    <2> SUFFICES ASSUME NEW d \in Callers, at'[d] = "update"
                 PROVE  rows'[found'[d]].workload.name = current'[d].name
      BY DEF FoundIsRow
    <2>1. CASE d = c
      BY <2>1
    <2>2. CASE d # c
      <3>1. found[d] \in DOMAIN rows /\ rows[found[d]].workload.name = current[d].name
        BY <2>2, TypeParts DEF AwaitsOK, CauseInv, FoundIsRow
      <3>2. QED
        BY <2>2, <3>1
    <2>3. QED
      BY <2>1, <2>2
  <1>5. CrashLoopHasCause'
    BY DEF CauseInv, CrashLoopHasCause, HasCause
  <1>6. QED
    BY <1>1, <1>2, <1>3, <1>4, <1>5 DEF CauseInv

\* The same of a step that stores nothing.
LEMMA HoldingKeepsCause ==
  ASSUME TypeOK, CauseInv, NEW c \in Callers,
         UNCHANGED <<cluster, crashed, rows, all, one, incidents>>,
         \A d \in Callers \ {c} :
           /\ list'[d] = list[d] /\ todo'[d] = todo[d] /\ current'[d] = current[d]
           /\ at'[d] = at[d] /\ found'[d] = found[d] /\ loaded'[d] = loaded[d],
         \A w \in list'[c] : Sound(w),
         current'[c] # Nothing => Sound(current'[c]),
         loaded'[c] # Nothing => Sound(loaded'[c]),
         todo'[c] # {} => at'[c] = "examine",
         "POD_CRASH_LOOP" \in todo'[c] => HasCause(current'[c].name),
         at'[c] = "update" => rows[found'[c]].workload.name = current'[c].name
  PROVE  CauseInv'
  <1>1. \A i \in DOMAIN rows' : Sound(rows'[i].workload)
    BY DEF CauseInv, StoreIsSound
  <1>2. \A n \in Names : one'[n] # Nothing => Sound(one'[n])
    BY DEF CauseInv, StoreIsSound
  <1>3. QED
    BY <1>1, <1>2, KeepsCause

\* A caller that ends has nothing left.
LEMMA EndKeepsCause ==
  ASSUME TypeOK, CauseInv, NEW c \in Callers, End(c), UNCHANGED <<cluster, crashed>>,
         \A i \in DOMAIN rows' : Sound(rows'[i].workload),
         \A i \in DOMAIN rows : rows'[i].workload.name = rows[i].workload.name,
         all' \subseteq all,
         \A n \in Names : one'[n] # Nothing => Sound(one'[n]),
         \A n \in Names : <<n, "POD_CRASH_LOOP">> \in incidents' =>
             <<n, "POD_CRASH_LOOP">> \in incidents \/ HasCause(n)
  PROVE  CauseInv'
  <1>1. /\ list'[c] = {} /\ todo'[c] = {} /\ at'[c] = "idle"
        /\ current'[c] = Nothing /\ loaded'[c] = Nothing
    BY DEF End, Forget, TypeOK
  <1>2. \A d \in Callers \ {c} :
           /\ list'[d] = list[d] /\ todo'[d] = todo[d] /\ current'[d] = current[d]
           /\ at'[d] = at[d] /\ found'[d] = found[d] /\ loaded'[d] = loaded[d]
    BY DEF End, Forget, TypeOK
  <1>3. QED
    BY <1>1, <1>2, KeepsCause

\* A deployment as it is converted claims nothing.
LEMMA DeploymentIsSound ==
  ASSUME NEW n, NEW state
  PROVE  Sound(DeploymentToWorkload(n, state))
  BY DEF Sound, Paired, DeploymentToWorkload

\* Reading the pods of a workload finds a cause or leaves its health.
LEMMA PodsAreCause ==
  ASSUME CrashLoopsAreSeen, NEW w \in Workload, Sound(w)
  PROVE  Sound(WithPods(w, cluster))
  <1> DEFINE total == TotalRestarts(w.name, cluster)
             crash == \E m \in PodsOf(w.name, cluster) : cluster[m].crashing
             health == HealthOf(w, crash)
  <1>1. WithPods(w, cluster) = w \/ WithPods(w, cluster) = [w EXCEPT !.restarts = total, !.health = health]
    BY DEF WithPods
  <1>2. health = "UNHEALTHY" => HasCause(w.name)
    BY DEF HealthOf, PodsOf, CrashLoopsAreSeen, CrashLooping, HasCause
  <1> HIDE DEF total, health
  <1> DEFINE v == [w EXCEPT !.restarts = total, !.health = health]
  <1>3. v.health = health /\ v.name = w.name /\ v.cpu = w.cpu /\ v.memory = w.memory
    BY DEF Workload
  <1> HIDE DEF v
  <1>4. Sound(v)
    BY <1>2, <1>3 DEF Sound, Paired
  <1>5. QED
    BY <1>1, <1>4 DEF v

\* The usage that is measured is that of the health.
LEMMA MeasuredIsSound ==
  ASSUME NEW w \in Workload, Sound(w)
  PROVE  Sound(Measured(w))
  <1>1. /\ Measured(w).name = w.name /\ Measured(w).health = w.health
        /\ Measured(w).cpu = CpuUsage(w) /\ Measured(w).memory = MemoryUsage(w)
    BY DEF Measured, Workload
  <1>2. w.health \in HealthStatus
    BY DEF Workload
  <1>3. CpuUsage(w) = CpuUsage([health |-> w.health]) /\ MemoryUsage(w) = MemoryUsage([health |-> w.health])
    BY DEF CpuUsage, MemoryUsage
  <1>4. Paired(Measured(w))
    BY <1>1, <1>2, <1>3 DEF Paired
  <1>5. QED
    BY <1>1, <1>4 DEF Sound

\* Of two usages in pairs either both columns differ or neither.
LEMMA PairsDiffer ==
  ASSUME NEW v, NEW w, Paired(v), Paired(w)
  PROVE  v.cpu = w.cpu <=> v.memory = w.memory
  <1> DEFINE P(x, y) == \/ x = 0 /\ y = 0
                        \/ x = 45 /\ y = 50
                        \/ x = 75 /\ y = 80
                        \/ x = 95 /\ y = 90
  <1>1. ASSUME NEW h \in HealthStatus
        PROVE  P(CpuUsage([health |-> h]), MemoryUsage([health |-> h]))
    <2>1. CASE h = "UNHEALTHY"
      BY <2>1 DEF CpuUsage, MemoryUsage
    <2>2. CASE h = "DEGRADED"
      BY <2>2 DEF CpuUsage, MemoryUsage
    <2>3. CASE h \notin {"UNHEALTHY", "DEGRADED"}
      BY <2>3 DEF CpuUsage, MemoryUsage
    <2>4. QED
      BY <2>1, <2>2, <2>3
  <1>2. P(v.cpu, v.memory)
    BY <1>1 DEF Paired
  <1>3. P(w.cpu, w.memory)
    BY <1>1 DEF Paired
  <1>4. QED
    BY <1>2, <1>3, SMTT(30)

\* An update takes its health from one of two and its usage from one of two.
LEMMA WriteIsSound ==
  ASSUME NEW row \in Workload, NEW old \in Workload, NEW new \in Workload,
         Sound(row), Sound(old), Sound(new), row.name = new.name
  PROVE  Sound(Write(row, old, new))
  <1> DEFINE w == Write(row, old, new)
  <1>1. /\ w.name = row.name
        /\ w.health \in {row.health, new.health}
        /\ w.cpu = IF new.cpu = old.cpu THEN row.cpu ELSE new.cpu
        /\ w.memory = IF new.memory = old.memory THEN row.memory ELSE new.memory
    BY DEF Write, Workload
  <1>2. new.cpu = old.cpu <=> new.memory = old.memory
    BY PairsDiffer DEF Sound
  <1> HIDE DEF w
  <1>3. Paired(w)
    BY <1>1, <1>2 DEF Sound, Paired
  <1>4. QED
    BY <1>1, <1>3 DEF Sound, w

\* What persist_workload stores is sound.
LEMMA StoredIsSound ==
  ASSUME TypeOK, CauseInv, NEW c \in Callers,
         \/ UNCHANGED rows
         \/ /\ at[c] = "insert" /\ Len(rows) < MaxRows
            /\ rows' = Append(rows, [workload |-> current[c], by |-> c])
         \/ /\ at[c] = "update"
            /\ rows' = [rows EXCEPT ![found[c]].workload = Write(@, loaded[c], current[c])]
  PROVE  /\ \A i \in DOMAIN rows' : Sound(rows'[i].workload)
         /\ \A i \in DOMAIN rows : rows'[i].workload.name = rows[i].workload.name
  <1>0. rows \in Seq(Rows) /\ \A i \in DOMAIN rows : Sound(rows[i].workload)
    BY DEF TypeOK, CauseInv, StoreIsSound
  <1>1. CASE UNCHANGED rows
    BY <1>0, <1>1
  <1>2. CASE /\ at[c] = "insert" /\ Len(rows) < MaxRows
             /\ rows' = Append(rows, [workload |-> current[c], by |-> c])
    <2>1. Sound(current[c])
      BY <1>2 DEF TypeOK, CauseInv, HeldIsSound
    <2>2. \A i \in DOMAIN rows' : IF i \in DOMAIN rows THEN rows'[i] = rows[i]
                                  ELSE rows'[i].workload = current[c]
      BY <1>0, <1>2
    <2>3. DOMAIN rows \subseteq DOMAIN rows'
      BY <1>2, AppendType
    <2>4. QED
      BY <1>0, <2>1, <2>2, <2>3
  <1>3. CASE /\ at[c] = "update"
             /\ rows' = [rows EXCEPT ![found[c]].workload = Write(@, loaded[c], current[c])]
    <2> DEFINE i == found[c]
    <2>1. /\ i \in DOMAIN rows /\ loaded[c] \in Workload /\ current[c] \in Workload
          /\ Sound(loaded[c]) /\ Sound(current[c])
          /\ rows[i].workload.name = current[c].name
      BY <1>3, WorkloadAssumptions DEF TypeOK, CauseInv, HeldIsSound, FoundIsRow
    <2>2. rows[i] \in Rows
      BY <1>0, <2>1
    <2>3. rows[i].workload \in Workload
      BY <2>2 DEF Rows
    <2>4. Sound(Write(rows[i].workload, loaded[c], current[c]))
      BY <1>0, <2>1, <2>3, WriteIsSound
    <2>5. /\ DOMAIN rows' = DOMAIN rows
          /\ rows'[i].workload = Write(rows[i].workload, loaded[c], current[c])
          /\ \A j \in DOMAIN rows : j # i => rows'[j] = rows[j]
      BY <1>0, <1>3, <2>1, <2>2 DEF Rows
    <2>6. Write(rows[i].workload, loaded[c], current[c]).name = rows[i].workload.name
      BY <2>1, <2>3, WriteType
    <2>7. QED
      BY <1>0, <2>4, <2>5, <2>6
  <1>4. QED
    BY <1>1, <1>2, <1>3

\* The steps of get_workloads.
LEMMA ReadKeepsCause ==
  ASSUME TypeOK, CauseInv, NEW c \in Callers,
         Start(c) \/ ReadList(c) \/ ReadDeployments(c)
  PROVE  CauseInv'
  <1>1. \A w \in list'[c] : Sound(w)
    <2>1. CASE Start(c) \/ ReadList(c)
      BY <2>1 DEF Start, ReadList, TypeOK, CauseInv, HeldIsSound, StoreIsSound
    <2>2. CASE ReadDeployments(c)
      BY <2>2, DeploymentIsSound DEF ReadDeployments, TypeOK
    <2>3. QED
      BY <2>1, <2>2
  <1>2. at[c] # "examine" /\ todo[c] = {}
    BY DEF Start, ReadList, ReadDeployments, Goto, CauseInv, HeldIsSound
  <1>3. UNCHANGED <<cluster, crashed, rows, all, one, incidents, current, todo, found, loaded>>
    BY DEF Start, ReadList, ReadDeployments, clusterVars, storeVars
  <1>4. at'[c] # "update" /\ \A d \in Callers \ {c} : at'[d] = at[d] /\ list'[d] = list[d]
    BY DEF Start, ReadList, ReadDeployments, Goto, AfterDiscovery, TypeOK
  <1>5. /\ current[c] # Nothing => Sound(current[c])
        /\ loaded[c] # Nothing => Sound(loaded[c])
    BY DEF CauseInv, HeldIsSound
  <1>6. QED
    BY <1>1, <1>2, <1>3, <1>4, <1>5, HoldingKeepsCause

LEMMA ReadPodsKeepsCause ==
  ASSUME TypeOK, CauseInv, NEW c \in Callers, ReadPods(c)
  PROVE  CauseInv'
  <1>1. PICK w \in Workload, v \in Workload :
           /\ w \in list[c] /\ v = WithPods(w, cluster)
           /\ list' = [list EXCEPT ![c] = (list[c] \ {w}) \cup {v}]
           /\ at[c] = "pods"
           /\ \/ /\ at' = [at EXCEPT ![c] = AfterDiscovery(c)]
                 /\ current' = [current EXCEPT ![c] = Nothing]
              \/ /\ UNCHANGED at
                 /\ current' = [current EXCEPT ![c] = w]
    BY PodsOfOne
  <1>2. Sound(w) /\ Sound(v)
    BY <1>1, PodsAreCause DEF CauseInv, HeldIsSound
  <1>3. \A u \in list'[c] : Sound(u)
    BY <1>1, <1>2 DEF TypeOK, CauseInv, HeldIsSound
  <1>4. current'[c] # Nothing => Sound(current'[c])
    BY <1>1, <1>2 DEF TypeOK
  <1>5. UNCHANGED <<cluster, crashed, rows, all, one, incidents, todo, found, loaded>>
        /\ todo[c] = {}
    BY <1>1 DEF ReadPods, clusterVars, storeVars, CauseInv, HeldIsSound
  <1>6. at'[c] # "update"
        /\ \A d \in Callers \ {c} :
             at'[d] = at[d] /\ list'[d] = list[d] /\ current'[d] = current[d]
    BY <1>1 DEF AfterDiscovery, TypeOK
  <1>7. loaded[c] # Nothing => Sound(loaded[c])
    BY DEF CauseInv, HeldIsSound
  <1>8. QED
    BY <1>3, <1>4, <1>5, <1>6, <1>7, HoldingKeepsCause

\* The incident at hand is one of those left.
LEMMA ReportedHasCause ==
  ASSUME TypeOK, CauseInv, NEW c \in Callers, todo[c] # {},
         NEW n, <<n, "POD_CRASH_LOOP">> = <<current[c].name, FirstOf(todo[c])>>
  PROVE  HasCause(n)
  <1>1. todo[c] \in SUBSET Types
    BY DEF TypeOK
  <1>2. FirstOf(todo[c]) \in todo[c]
    BY <1>1, FirstOfType
  <1>3. QED
    BY <1>2 DEF CauseInv, HeldIsSound

\* The exits that store nothing or what a request has read.
LEMMA ExitKeepsCause ==
  ASSUME TypeOK, CauseInv, NEW c \in Callers,
         \/ DiscoveryRaises(c) \/ Finish(c) \/ AbortHealthJob(c) \/ Die(c)
         \/ FillOne(c) \/ PersistRaises(c)
  PROVE  CauseInv'
  <1>1. End(c) /\ UNCHANGED <<cluster, crashed, all, incidents>>
    BY DEF DiscoveryRaises, Finish, AbortHealthJob, Die, FillOne, PersistRaises,
           clusterVars, storeVars
  <1>2. /\ \A i \in DOMAIN rows' : Sound(rows'[i].workload)
        /\ \A i \in DOMAIN rows : rows'[i].workload.name = rows[i].workload.name
    BY StoredIsSound DEF DiscoveryRaises, Finish, AbortHealthJob, Die, FillOne, PersistRaises,
                         storeVars
  <1>3. \A n \in Names : one'[n] # Nothing => Sound(one'[n])
    <2>1. CASE UNCHANGED one
      BY <2>1 DEF CauseInv, StoreIsSound
    <2>2. CASE at[c] = "fillOne" /\ one' = [one EXCEPT ![current[c].name] = current[c]]
      <3>1. current[c] \in Workload /\ Sound(current[c])
        BY <2>2 DEF TypeOK, CauseInv, HeldIsSound
      <3>2. QED
        BY <2>2, <3>1 DEF TypeOK, CauseInv, StoreIsSound
    <2>3. QED
      BY <2>1, <2>2 DEF DiscoveryRaises, Finish, AbortHealthJob, Die, FillOne, PersistRaises,
                        storeVars
  <1>4. QED
    BY <1>1, <1>2, <1>3, EndKeepsCause

\* The steps that take a workload from the list or read one.
LEMMA TakeKeepsCause ==
  ASSUME TypeOK, CauseInv, NEW c \in Callers, NextWorkload(c) \/ GetOne(c) \/ ReadPodsOfOne(c)
  PROVE  CauseInv'
  <1>1. UNCHANGED <<cluster, crashed, rows, all, one, incidents, todo, found, loaded>>
        /\ at[c] # "examine" /\ at'[c] # "update"
    BY DEF NextWorkload, GetOne, ReadPodsOfOne, Goto, clusterVars, storeVars, TypeOK
  <1>2. list'[c] \subseteq list[c] /\ todo'[c] = {}
    BY <1>1 DEF NextWorkload, GetOne, ReadPodsOfOne, TypeOK, CauseInv, HeldIsSound
  <1>3. \A d \in Callers \ {c} : /\ list'[d] = list[d]
                                /\ current'[d] = current[d] /\ at'[d] = at[d]
    BY DEF NextWorkload, GetOne, ReadPodsOfOne, Goto, TypeOK
  <1>4. Sound(current'[c])
    <2>1. CASE NextWorkload(c)
      <3>1. PICK w \in list[c] : current'[c] = w \/ current'[c] = Measured(w)
        BY <2>1 DEF NextWorkload, TypeOK
      <3>2. w \in Workload /\ Sound(w)
        BY DEF TypeOK, CauseInv, HeldIsSound
      <3>3. QED
        BY <3>1, <3>2, MeasuredIsSound
    <2>2. CASE GetOne(c)
      <3>1. PICK n \in Names : current'[c] = DeploymentToWorkload(n, cluster[n])
        BY <2>2 DEF GetOne, ListDeployments, TypeOK
      <3>2. QED
        BY <3>1, DeploymentIsSound
    <2>3. CASE ReadPodsOfOne(c)
      <3>1. current[c] \in Workload /\ Sound(current[c])
        BY <2>3 DEF ReadPodsOfOne, Goto, TypeOK, CauseInv, HeldIsSound
      <3>2. current'[c] = WithPods(current[c], cluster)
        BY <2>3 DEF ReadPodsOfOne, TypeOK
      <3>3. QED
        BY <3>1, <3>2, PodsAreCause DEF CauseInv
    <2>4. QED
      BY <2>1, <2>2, <2>3
  <1>5. QED
    BY <1>1, <1>2, <1>3, <1>4, HoldingKeepsCause DEF CauseInv, HeldIsSound

\* The list that is cached is the caller's.
LEMMA FillKeepsCause ==
  ASSUME TypeOK, CauseInv, NEW c \in Callers, FillList(c)
  PROVE  CauseInv'
  <1>0. /\ \A i \in DOMAIN rows : Sound(rows[i].workload)
        /\ \A n \in Names : one[n] # Nothing => Sound(one[n])
    BY DEF CauseInv, StoreIsSound
  <1>1. UNCHANGED <<cluster, crashed, rows, one, incidents>>
    BY DEF FillList, clusterVars
  <1>2. CASE End(c) /\ UNCHANGED all
    BY <1>0, <1>1, <1>2, EndKeepsCause
  <1>3. CASE /\ Goto(c, "fill", "next") /\ UNCHANGED <<list, current, todo, found, loaded>>
             /\ all' = list[c] \/ UNCHANGED all
    <2>1. at'[c] = "next" /\ todo[c] = {} /\ \A d \in Callers \ {c} : at'[d] = at[d]
      BY <1>3 DEF Goto, CauseInv, HeldIsSound, TypeOK
    <2>2. /\ \A w \in list[c] : Sound(w)
          /\ current[c] # Nothing => Sound(current[c])
          /\ loaded[c] # Nothing => Sound(loaded[c])
      BY DEF CauseInv, HeldIsSound
    <2>3. QED
      BY <1>0, <1>1, <1>3, <2>1, <2>2, KeepsCause
  <1>4. QED
    BY <1>2, <1>3 DEF FillList

\* The select, the writes that succeed and the end of an examination.
LEMMA PersistKeepsCause ==
  ASSUME TypeOK, CauseInv, NEW c \in Callers,
         SelectRow(c) \/ Insert(c) \/ Update(c) \/ Examined(c)
  PROVE  CauseInv'
  <1>0. /\ \A i \in DOMAIN rows : Sound(rows[i].workload)
        /\ \A n \in Names : one[n] # Nothing => Sound(one[n])
        /\ \A w \in list[c] : Sound(w)
        /\ current[c] # Nothing => Sound(current[c])
        /\ loaded[c] # Nothing => Sound(loaded[c])
    BY DEF CauseInv, StoreIsSound, HeldIsSound
  <1>1. UNCHANGED <<cluster, crashed, all, one, incidents>>
    BY DEF SelectRow, Insert, Update, Examined, clusterVars, storeVars
  <1>2. CASE SelectRow(c)
    <2>0. UNCHANGED rows /\ at[c] = "persist" /\ todo[c] = {}
      BY <1>2 DEF SelectRow, storeVars, CauseInv, HeldIsSound
    <2>1. CASE End(c)
      BY <1>0, <1>1, <2>0, <2>1, EndKeepsCause
    <2>2. CASE Goto(c, "persist", "insert") /\ UNCHANGED <<list, current, todo, found, loaded>>
      <3>1. at'[c] = "insert" /\ \A d \in Callers \ {c} : at'[d] = at[d]
        BY <2>2 DEF Goto, TypeOK
      <3>2. QED
        BY <1>0, <1>1, <2>0, <2>2, <3>1, HoldingKeepsCause
    <2>3. ASSUME NEW i \in RowsOf(current[c].name),
                 Goto(c, "persist", "update"),
                 found' = [found EXCEPT ![c] = i],
                 loaded' = [loaded EXCEPT ![c] = rows[i].workload],
                 UNCHANGED <<list, current, todo>>
          PROVE  CauseInv'
      <3>1. i \in DOMAIN rows /\ rows[i].workload.name = current[c].name
        BY DEF RowsOf
      <3>2. /\ at'[c] = "update" /\ found'[c] = i /\ loaded'[c] = rows[i].workload
            /\ \A d \in Callers \ {c} : /\ at'[d] = at[d] /\ found'[d] = found[d]
                                       /\ loaded'[d] = loaded[d]
        BY <2>3 DEF Goto, TypeOK
      <3>3. QED
        BY <1>0, <1>1, <2>0, <2>3, <3>1, <3>2, HoldingKeepsCause
    <2>4. QED
      BY <1>2, <2>1, <2>2, <2>3 DEF SelectRow
  <1>3. CASE Insert(c) \/ Update(c) \/ Examined(c)
    <2>1. /\ \A i \in DOMAIN rows' : Sound(rows'[i].workload)
          /\ \A i \in DOMAIN rows : rows'[i].workload.name = rows[i].workload.name
      BY <1>3, StoredIsSound DEF Insert, Update, Examined, Goto, storeVars
    <2>2. /\ UNCHANGED list /\ at'[c] = "next" /\ todo'[c] = {}
          /\ current'[c] = Nothing /\ loaded'[c] = Nothing
          /\ \A d \in Callers \ {c} :
               /\ todo'[d] = todo[d] /\ current'[d] = current[d] /\ at'[d] = at[d]
               /\ found'[d] = found[d] /\ loaded'[d] = loaded[d]
      BY <1>3 DEF Insert, Update, Examined, Goto, Forget, TypeOK
    <2>3. QED
      BY <1>0, <1>1, <2>1, <2>2, KeepsCause
  <1>4. QED
    BY <1>2, <1>3

\* The detection of incidents and their creation.
LEMMA DetectionKeepsCause ==
  ASSUME TypeOK, CauseInv, NEW c \in Callers, Examine(c) \/ Report(c) \/ ReportRaises(c)
  PROVE  CauseInv'
  <1>0. /\ \A i \in DOMAIN rows : Sound(rows[i].workload)
        /\ \A n \in Names : one[n] # Nothing => Sound(one[n])
        /\ \A w \in list[c] : Sound(w)
        /\ current[c] # Nothing => Sound(current[c])
        /\ loaded[c] # Nothing => Sound(loaded[c])
    BY DEF CauseInv, StoreIsSound, HeldIsSound
  <1>1. UNCHANGED <<cluster, crashed, rows, all, one>>
    BY DEF Examine, Report, ReportRaises, clusterVars, storeVars
  <1>2. CASE Examine(c)
    <2>1. PICK w \in list[c] : /\ list' = [list EXCEPT ![c] = @ \ {w}]
                               /\ current' = [current EXCEPT ![c] = w]
                               /\ todo' = [todo EXCEPT ![c] = DetectIncidents(w)]
      BY <1>2 DEF Examine
    <2>2. /\ list'[c] \subseteq list[c] /\ current'[c] = w /\ todo'[c] = DetectIncidents(w)
          /\ at'[c] = "examine"
          /\ \A d \in Callers \ {c} : /\ list'[d] = list[d] /\ todo'[d] = todo[d]
                                     /\ current'[d] = current[d] /\ at'[d] = at[d]
      BY <1>2, <2>1 DEF Examine, Goto, TypeOK
    <2>3. "POD_CRASH_LOOP" \in DetectIncidents(w) => HasCause(w.name)
      BY <1>0 DEF DetectIncidents, Sound
    <2>4. UNCHANGED <<incidents, found, loaded>>
      BY <1>2 DEF Examine, storeVars
    <2>5. QED
      BY <1>0, <1>1, <2>2, <2>3, <2>4, HoldingKeepsCause
  <1>3. CASE Report(c)
    <2>1. /\ incidents' = incidents \cup {<<current[c].name, FirstOf(todo[c])>>}
          /\ todo[c] # {} /\ at[c] = "examine"
          /\ UNCHANGED <<list, current, at, found, loaded>>
      BY <1>3 DEF Report
    <2>2. todo'[c] \subseteq todo[c] /\ \A d \in Callers \ {c} : todo'[d] = todo[d]
      BY <1>3 DEF Report, TypeOK
    <2>3. \A n \in Names : <<n, "POD_CRASH_LOOP">> \in incidents' =>
             <<n, "POD_CRASH_LOOP">> \in incidents \/ HasCause(n)
      BY <2>1, ReportedHasCause
    <2>4. "POD_CRASH_LOOP" \in todo'[c] => HasCause(current'[c].name)
      BY <2>1, <2>2 DEF CauseInv, HeldIsSound
    <2>5. QED
      BY <1>0, <1>1, <2>1, <2>2, <2>3, <2>4, KeepsCause
  <1>4. CASE ReportRaises(c)
    <2>1. /\ \/ UNCHANGED incidents
             \/ incidents' = incidents \cup {<<current[c].name, FirstOf(todo[c])>>}
          /\ todo[c] # {} /\ End(c)
      BY <1>4 DEF ReportRaises
    <2>2. \A n \in Names : <<n, "POD_CRASH_LOOP">> \in incidents' =>
             <<n, "POD_CRASH_LOOP">> \in incidents \/ HasCause(n)
      BY <2>1, ReportedHasCause
    <2>3. QED
      BY <1>0, <1>1, <2>1, <2>2, EndKeepsCause
  <1>5. QED
    BY <1>2, <1>3, <1>4

\* Changes of the cluster are seen, and what expires or is closed is gone.
LEMMA WorldKeepsCause ==
  ASSUME TypeOK, CauseInv, World
  PROVE  CauseInv'
  <1>1. /\ UNCHANGED <<rows, list, todo, current, at, found, loaded>> /\ all' \subseteq all
        /\ crashed \subseteq crashed' /\ incidents' \subseteq incidents
        /\ \A n \in Names : one'[n] # Nothing => one'[n] = one[n]
    BY DEF TypeOK, World, Change, Close, ExpireList, ExpireOne, storeVars, callerVars, clusterVars
  <1>2. \A n : HasCause(n) => HasCause(n)'
    BY <1>1 DEF HasCause
  <1>3. CrashLoopsAreSeen'
    <2>1. CASE Change
      BY <2>1 DEF Change, CrashLoopsAreSeen
    <2>2. CASE UNCHANGED clusterVars
      BY <2>2 DEF CauseInv, CrashLoopsAreSeen, clusterVars
    <2>3. QED
      BY <2>1, <2>2 DEF World, Close, ExpireList, ExpireOne
  <1>4. StoreIsSound'
    BY <1>1 DEF CauseInv, StoreIsSound, Sound, HasCause
  <1>5. HeldIsSound'
    BY <1>1 DEF CauseInv, HeldIsSound, Sound, HasCause
  <1>6. FoundIsRow'
    BY <1>1 DEF CauseInv, FoundIsRow
  <1>7. CrashLoopHasCause'
    BY <1>1, <1>2 DEF CauseInv, CrashLoopHasCause, HasCause
  <1>8. QED
    BY <1>3, <1>4, <1>5, <1>6, <1>7 DEF CauseInv

LEMMA NextKeepsCause ==
  ASSUME TypeOK, CauseInv, [Next]_vars
  PROVE  CauseInv'
  <1>1. ASSUME NEW c \in Callers, Start(c) \/ GetOne(c) \/ Step(c) \/ Die(c)
        PROVE  CauseInv'
    BY <1>1, ReadKeepsCause, ReadPodsKeepsCause, ExitKeepsCause, TakeKeepsCause, FillKeepsCause,
       PersistKeepsCause, DetectionKeepsCause DEF Step
  <1>2. CASE World
    BY <1>2, WorldKeepsCause
  <1>3. CASE UNCHANGED vars
    BY <1>3 DEF vars, clusterVars, storeVars, callerVars, CauseInv, CrashLoopsAreSeen,
                CrashLooping, ListPods, ListDeployments, StoreIsSound, HeldIsSound, Sound,
                FoundIsRow, CrashLoopHasCause, HasCause
  <1>4. QED
    BY <1>1, <1>2, <1>3 DEF Next

\* The rows from before have been discovered in the cluster as it is.
LEMMA InitHasCause ==
  ASSUME Init
  PROVE  CauseInv
  <1>1. CrashLoopsAreSeen
    BY DEF Init, CrashLoopsAreSeen
  <1>2. \A i \in DOMAIN rows : Sound(rows[i].workload)
    <2> SUFFICES ASSUME NEW i \in DOMAIN Known
                 PROVE  Sound(Discovered(Known[i], cluster))
      BY DEF Init
    <2>1. Known[i] \in Names /\ cluster[Known[i]] \in States
      BY WorkloadAssumptions DEF Init, Clusters
    <2>2. QED
      BY <1>1, <2>1, DeploymentType, DeploymentIsSound, PodsAreCause DEF Discovered
  <1>3. QED
    BY <1>1, <1>2 DEF Init, CauseInv, StoreIsSound, HeldIsSound, FoundIsRow, CrashLoopHasCause

LEMMA CauseHolds == Spec => []CauseInv
  <1>1. Init => CauseInv
    BY InitHasCause
  <1>2. TypeOK /\ CauseInv /\ [Next]_vars => CauseInv'
    BY NextKeepsCause
  <1>3. QED
    BY <1>1, <1>2, TypeCorrect, PTL DEF Spec

\* However old the list it was found in, a POD_CRASH_LOOP has a cause: pods that have been
\* in a crash loop and count as the workload's (workload_manager.py:35-48,
\* monitoring_service.py:228-283).
THEOREM CrashLoopsHaveCauses == Spec => []CrashLoopHasCause
  <1>1. CauseInv => CrashLoopHasCause
    BY DEF CauseInv
  <1>2. QED
    BY <1>1, CauseHolds, PTL

\* So has whatever says UNHEALTHY in the table or in Redis, for all that updates mix and
\* readings tear (workload_service.py:78-89, workload_manager.py:25-53).
THEOREM UnhealthyHasCauses == Spec => []UnhealthyHasCause
  <1>1. CauseInv => UnhealthyHasCause
    BY DEF CauseInv, StoreIsSound, Sound, HasCause, UnhealthyHasCause
  <1>2. QED
    BY <1>1, CauseHolds, PTL

\* The two columns of usage change together, whoever writes between a caller's select and
\* its update (workload_service.py:78-89): of two usages both columns differ or neither.
THEOREM UsageStaysPaired == Spec => []UsageIsOfOneReading
  <1>1. CauseInv => UsageIsOfOneReading
    BY DEF CauseInv, StoreIsSound, Sound, Paired, UsageIsOfOneReading
  <1>2. QED
    BY <1>1, CauseHolds, PTL

-----------------------------------------------------------------------------
(* The service implements WorkloadContract.  A column is stored when the   *)
(* caller selects, if the row has its value already, and when it commits   *)
(* otherwise.                                                              *)

\* Where the contract has a caller.
Phase(c) == IF IsStoring(c) THEN "storing" ELSE IF at[c] = "next" THEN "ready" ELSE "away"
Item(c) == IF IsStoring(c) THEN current[c] ELSE Nothing
Left(c) == {f \in Contract!Columns :
              IsStoring(c) /\ (at[c] = "update" => current[c][f] # loaded[c][f])}
Target(c) == IF at[c] = "update" THEN found[c] ELSE 0

LEMMA OthersKeepPlace ==
  ASSUME NEW d \in Callers,
         at'[d] = at[d], current'[d] = current[d], found'[d] = found[d], loaded'[d] = loaded[d]
  PROVE  /\ Phase(d)' = Phase(d) /\ Item(d)' = Item(d)
         /\ Left(d)' = Left(d) /\ Target(d)' = Target(d)
  BY DEF Phase, Item, Left, Target, IsStoring

LEMMA ContractStutters ==
  ASSUME UNCHANGED rows,
         \A d \in Callers : /\ Phase(d)' = Phase(d) /\ Item(d)' = Item(d)
                            /\ Left(d)' = Left(d) /\ Target(d)' = Target(d)
  PROVE  UNCHANGED Contract!vars
  BY DEF Contract!vars, Contract!callerVars, Phase, Item, Left, Target, Contract!Columns

\* One caller gets to another place.
LEMMA Moves ==
  ASSUME NEW c \in Callers, NEW ph, NEW it, NEW le, NEW ta,
         Phase(c)' = ph, Item(c)' = it, Left(c)' = le, Target(c)' = ta,
         \A d \in Callers \ {c} : /\ Phase(d)' = Phase(d) /\ Item(d)' = Item(d)
                                  /\ Left(d)' = Left(d) /\ Target(d)' = Target(d)
  PROVE  /\ [d \in Callers |-> Phase(d)]' = [[d \in Callers |-> Phase(d)] EXCEPT ![c] = ph]
         /\ [d \in Callers |-> Item(d)]' = [[d \in Callers |-> Item(d)] EXCEPT ![c] = it]
         /\ [d \in Callers |-> Left(d)]' = [[d \in Callers |-> Left(d)] EXCEPT ![c] = le]
         /\ [d \in Callers |-> Target(d)]' = [[d \in Callers |-> Target(d)] EXCEPT ![c] = ta]
  OBVIOUS

\* An update stores the columns that differ from the loaded ones.
LEMMA WritePuts ==
  ASSUME NEW row \in Workload, NEW old \in Workload, NEW new \in Workload
  PROVE  Write(row, old, new) =
           Contract!Put(row, new, {f \in Contract!Columns : new[f] # old[f]})
  BY DEF Write, Workload, Contract!Put, Contract!Columns

\* The columns that do not differ are stored already.
LEMMA PutsNothing ==
  ASSUME NEW row \in Workload, NEW w \in Workload
  PROVE  Contract!Put(row, w, {f \in Contract!Columns : w[f] = row[f]}) = row
  BY DEF Workload, Contract!Put, Contract!Columns

\* A caller without a workload to store.
LEMMA Elsewhere ==
  ASSUME NEW c \in Callers, ~IsStoring(c)
  PROVE  Item(c) = Nothing /\ Left(c) = {} /\ Target(c) = 0
  BY DEF IsStoring, Item, Left, Target

LEMMA NextElsewhere ==
  ASSUME NEW c \in Callers, ~IsStoring(c)'
  PROVE  Item(c)' = Nothing /\ Left(c)' = {} /\ Target(c)' = 0
  BY DEF IsStoring, Item, Left, Target

LEMMA IsOver ==
  ASSUME NEW c \in Callers, NEW there, IsStoring(c), ~IsStoring(c)', Phase(c)' = there,
         \A d \in Callers \ {c} : /\ at'[d] = at[d] /\ current'[d] = current[d]
                                 /\ found'[d] = found[d] /\ loaded'[d] = loaded[d]
  PROVE  Contract!Over(c, there)
  <1>1. \A d \in Callers \ {c} : /\ Phase(d)' = Phase(d) /\ Item(d)' = Item(d)
                                 /\ Left(d)' = Left(d) /\ Target(d)' = Target(d)
    BY OthersKeepPlace
  <1>2. Phase(c) = "storing"
    BY DEF Phase
  <1>3. Item(c)' = Nothing /\ Left(c)' = {} /\ Target(c)' = 0
    BY NextElsewhere
  <1>4. /\ [d \in Callers |-> Phase(d)]' = [[d \in Callers |-> Phase(d)] EXCEPT ![c] = there]
        /\ [d \in Callers |-> Item(d)]' = [[d \in Callers |-> Item(d)] EXCEPT ![c] = Nothing]
        /\ [d \in Callers |-> Left(d)]' = [[d \in Callers |-> Left(d)] EXCEPT ![c] = {}]
        /\ [d \in Callers |-> Target(d)]' = [[d \in Callers |-> Target(d)] EXCEPT ![c] = 0]
    BY <1>1, <1>3, Moves, ZenonT(60)
  <1>5. [d \in Callers |-> Phase(d)][c] = "storing"
    BY <1>2
  <1>6. QED
    BY <1>4, <1>5, Zenon
       DEF Contract!Over, Contract!Go, Phase, Item, Left, Target, Contract!Columns

\* A caller that stores nothing before or after.
LEMMA ComesAndLeaves ==
  ASSUME NEW c \in Callers, ~IsStoring(c), ~IsStoring(c)', UNCHANGED rows,
         \A d \in Callers \ {c} : /\ at'[d] = at[d] /\ current'[d] = current[d]
                                 /\ found'[d] = found[d] /\ loaded'[d] = loaded[d]
  PROVE  Contract!Come(c) \/ Contract!Leave(c) \/ UNCHANGED Contract!vars
  <1>1. \A d \in Callers \ {c} : /\ Phase(d)' = Phase(d) /\ Item(d)' = Item(d)
                                 /\ Left(d)' = Left(d) /\ Target(d)' = Target(d)
    BY OthersKeepPlace
  <1>2. /\ Item(c) = Nothing /\ Left(c) = {} /\ Target(c) = 0
        /\ Item(c)' = Nothing /\ Left(c)' = {} /\ Target(c)' = 0
    BY Elsewhere, NextElsewhere
  <1>3. CASE Phase(c)' = Phase(c)
    BY <1>1, <1>2, <1>3, ContractStutters
  <1>4. CASE Phase(c)' # Phase(c)
    <2>1. PICK there \in {"ready", "away"} : Phase(c)' = there
      BY DEF Phase
    <2>2. PICK here \in {"ready", "away"} : Phase(c) = here
      BY DEF Phase
    <2>3. here # there
      BY <1>4, <2>1, <2>2
    <2>4. [d \in Callers |-> Phase(d)]' = [[d \in Callers |-> Phase(d)] EXCEPT ![c] = there]
      BY <1>1, <1>2, <2>1, Moves
    <2>5. [d \in Callers |-> Phase(d)][c] = here
      BY <2>2
    <2>6. /\ [d \in Callers |-> Item(d)]' = [d \in Callers |-> Item(d)]
          /\ [d \in Callers |-> Left(d)]' = [d \in Callers |-> Left(d)]
          /\ [d \in Callers |-> Target(d)]' = [d \in Callers |-> Target(d)]
      BY <1>1, <1>2
    <2>7. CASE here = "away" /\ there = "ready"
      BY <2>4, <2>5, <2>6, <2>7, Zenon
         DEF Contract!Come, Contract!Go, Phase, Item, Left, Target, Contract!Columns
    <2>8. CASE here = "ready" /\ there = "away"
      BY <2>4, <2>5, <2>6, <2>8, Zenon
         DEF Contract!Leave, Contract!Go, Phase, Item, Left, Target, Contract!Columns
    <2>9. QED
      BY <2>3, <2>7, <2>8
  <1>5. QED
    BY <1>3, <1>4

\* A job takes the next workload of its list.
LEMMA Begins ==
  ASSUME TypeOK, NEW c \in Callers, NextWorkload(c), TypeOK'
  PROVE  Contract!Begin(c)
  <1>1. /\ at[c] = "next" /\ at'[c] = "persist" /\ UNCHANGED rows
        /\ \A d \in Callers \ {c} : /\ at'[d] = at[d] /\ current'[d] = current[d]
                                   /\ found'[d] = found[d] /\ loaded'[d] = loaded[d]
    BY DEF NextWorkload, Goto, TypeOK, storeVars
  <1>2. PICK w \in Workload : current'[c] = w
    BY <1>1 DEF TypeOK
  <1>3. \A d \in Callers \ {c} : /\ Phase(d)' = Phase(d) /\ Item(d)' = Item(d)
                                 /\ Left(d)' = Left(d) /\ Target(d)' = Target(d)
    BY <1>1, OthersKeepPlace
  <1>4. /\ Phase(c)' = "storing" /\ Item(c)' = w
        /\ Left(c)' = Contract!Columns /\ Target(c)' = 0
    BY <1>1, <1>2 DEF Phase, Item, Left, Target, IsStoring
  <1>5. Phase(c) = "ready" /\ Target(c) = 0
    BY <1>1 DEF Phase, Target, IsStoring
  <1>6. /\ [d \in Callers |-> Phase(d)]' = [[d \in Callers |-> Phase(d)] EXCEPT ![c] = "storing"]
        /\ [d \in Callers |-> Item(d)]' = [[d \in Callers |-> Item(d)] EXCEPT ![c] = w]
        /\ [d \in Callers |-> Left(d)]' =
             [[d \in Callers |-> Left(d)] EXCEPT ![c] = Contract!Columns]
    BY <1>3, <1>4, Moves, ZenonT(60)
  <1>7. [d \in Callers |-> Target(d)]' = [d \in Callers |-> Target(d)]
    BY <1>3, <1>4, <1>5
  <1>8. [d \in Callers |-> Phase(d)][c] = "ready"
    BY <1>5
  <1>9. [d \in Callers |-> Item(d)]'[c] = w
    BY <1>4
  <1>10. QED
    BY <1>1, <1>6, <1>7, <1>8, <1>9, Zenon
       DEF Contract!Begin, Contract!Go, Phase, Item, Left, Target, Contract!Columns

\* An insert that took effect, answered or not.
LEMMA Inserts ==
  ASSUME NoneWhileInserting, NEW c \in Callers, NEW there,
         at[c] = "insert", rows' = Append(rows, [workload |-> current[c], by |-> c]),
         Contract!Over(c, there)
  PROVE  Contract!Insert(c, there)
  <1>1. Left(c) = Contract!Columns /\ Target(c) = 0 /\ Item(c) = current[c]
    BY DEF Left, Target, Item, IsStoring
  <1>2. /\ [d \in Callers |-> Left(d)][c] = Contract!Columns
        /\ [d \in Callers |-> Target(d)][c] = 0
        /\ [d \in Callers |-> Item(d)][c] = current[c]
    BY <1>1
  <1>3. \A i \in DOMAIN rows : rows[i].workload.name = current[c].name => rows[i].by # c
    BY DEF NoneWhileInserting, RowsOf
  <1>4. QED
    BY <1>2, <1>3, Zenon
       DEF Contract!Insert, Contract!Of, Left, Target, Item, Contract!Columns

\* An update that took effect, answered or not.
LEMMA StoresRest ==
  ASSUME TypeOK, CauseInv, NEW c \in Callers, NEW there, at[c] = "update",
         rows' = [rows EXCEPT ![found[c]].workload = Write(@, loaded[c], current[c])],
         Contract!Over(c, there)
  PROVE  Contract!StoreRest(c, there)
  <1> DEFINE columns == {f \in Contract!Columns : current[c][f] # loaded[c][f]}
  <1>1. PICK i \in DOMAIN rows : i = found[c]
    BY DEF TypeOK
  <1>2. rows[i] \in Rows /\ current[c] \in Workload /\ loaded[c] \in Workload
    BY DEF TypeOK
  <1>3. rows[i].workload \in Workload /\ rows[i].workload.name = current[c].name
    BY <1>1, <1>2 DEF Rows, CauseInv, FoundIsRow
  <1>4. Write(rows[i].workload, loaded[c], current[c])
          = Contract!Put(rows[i].workload, current[c], columns)
    BY <1>2, <1>3, WritePuts
  <1>5. rows' = [rows EXCEPT ![i].workload = Contract!Put(@, current[c], columns)]
    BY <1>1, <1>4
  <1>6. /\ [d \in Callers |-> Phase(d)][c] = "storing"
        /\ [d \in Callers |-> Item(d)][c] = current[c]
        /\ [d \in Callers |-> Left(d)][c] = columns
        /\ [d \in Callers |-> Target(d)][c] = i
    BY <1>1 DEF Phase, Item, Left, Target, IsStoring
  <1> HIDE DEF columns
  <1>7. /\ i \in {k \in DOMAIN rows :
                  rows[k].workload.name = [d \in Callers |-> Item(d)][c].name}
        /\ [d \in Callers |-> Target(d)][c] \in {0, i}
    BY <1>1, <1>3, <1>6
  <1>8. rows' = [rows EXCEPT ![i].workload =
                  Contract!Put(@, [d \in Callers |-> Item(d)][c],
                                  [d \in Callers |-> Left(d)][c])]
    BY <1>5, <1>6 DEF Contract!Put
  <1>9. \E k \in DOMAIN rows : Contract!Puts(c, k, [d \in Callers |-> Left(d)][c])
    BY <1>6, <1>7, <1>8, Zenon
       DEF Contract!Puts, Contract!Of, Phase, Item, Left, Target, Contract!Columns
  <1>10. QED
    BY <1>9, Zenon DEF Contract!StoreRest, Left, Contract!Columns

\* A select that finds one row: the columns that do not differ count as stored.
LEMMA SelectStores ==
  ASSUME TypeOK, NEW c \in Callers, NEW i \in RowsOf(current[c].name), UNCHANGED rows,
         at[c] = "persist", at'[c] = "update", current'[c] = current[c],
         found'[c] = i, loaded'[c] = rows[i].workload,
         \A d \in Callers \ {c} : /\ at'[d] = at[d] /\ current'[d] = current[d]
                                 /\ found'[d] = found[d] /\ loaded'[d] = loaded[d]
  PROVE  Contract!StoreSome(c)
  <1> DEFINE same == {f \in Contract!Columns : current[c][f] = rows[i].workload[f]}
             rest == {f \in Contract!Columns : current[c][f] # rows[i].workload[f]}
  <1>1. i \in DOMAIN rows /\ rows[i].workload.name = current[c].name
    BY DEF RowsOf
  <1>2. rows[i] \in Rows /\ current[c] \in Workload /\ rows \in Seq(Rows)
    BY <1>1 DEF TypeOK
  <1>3. rows[i].workload \in Workload
    BY <1>2 DEF Rows
  <1>4. Contract!Put(rows[i].workload, current[c], same) = rows[i].workload
    BY <1>2, <1>3, PutsNothing
  <1>5. rows' = [rows EXCEPT ![i].workload = Contract!Put(@, current[c], same)]
    BY <1>1, <1>2, <1>4 DEF Rows
  <1>6. same \subseteq Contract!Columns /\ rest = Contract!Columns \ same
    OBVIOUS
  <1>7. /\ Phase(c) = "storing" /\ Item(c) = current[c]
        /\ Left(c) = Contract!Columns /\ Target(c) = 0
    BY DEF Phase, Item, Left, Target, IsStoring
  <1>8. /\ Phase(c)' = "storing" /\ Item(c)' = current[c]
        /\ Left(c)' = rest /\ Target(c)' = i
    BY DEF Phase, Item, Left, Target, IsStoring
  <1> HIDE DEF same, rest
  <1>9. \A d \in Callers \ {c} : /\ Phase(d)' = Phase(d) /\ Item(d)' = Item(d)
                                 /\ Left(d)' = Left(d) /\ Target(d)' = Target(d)
    BY OthersKeepPlace
  <1>10. /\ [d \in Callers |-> Phase(d)]' = [d \in Callers |-> Phase(d)]
         /\ [d \in Callers |-> Item(d)]' = [d \in Callers |-> Item(d)]
    BY <1>7, <1>8, <1>9
  <1>11. /\ [d \in Callers |-> Left(d)]' = [[d \in Callers |-> Left(d)] EXCEPT ![c] = @ \ same]
         /\ [d \in Callers |-> Target(d)]' = [[d \in Callers |-> Target(d)] EXCEPT ![c] = i]
    BY <1>6, <1>7, <1>8, <1>9
  <1>12. /\ [d \in Callers |-> Phase(d)][c] = "storing"
         /\ i \in {k \in DOMAIN rows :
                     rows[k].workload.name = [d \in Callers |-> Item(d)][c].name}
         /\ [d \in Callers |-> Target(d)][c] \in {0, i}
         /\ same \in SUBSET ([d \in Callers |-> Left(d)][c])
    BY <1>1, <1>6, <1>7
  <1>13. rows' = [rows EXCEPT ![i].workload =
                   Contract!Put(@, [d \in Callers |-> Item(d)][c], same)]
    BY <1>5, <1>7 DEF Contract!Put
  <1>14. Contract!Puts(c, i, same)
    BY <1>12, <1>13, Zenon DEF Contract!Puts, Contract!Of, Phase, Item, Target
  <1>15. QED
    BY <1>1, <1>10, <1>11, <1>12, <1>14, Zenon
       DEF Contract!StoreSome, Phase, Item, Left, Target, Contract!Columns

\* What a step of one caller leaves alone.
LEMMA OthersAlone ==
  ASSUME TypeOK, NEW c \in Callers, Start(c) \/ GetOne(c) \/ Step(c) \/ Die(c)
  PROVE  \A d \in Callers \ {c} : /\ at'[d] = at[d] /\ current'[d] = current[d]
                                 /\ found'[d] = found[d] /\ loaded'[d] = loaded[d]
                                 /\ list'[d] = list[d] /\ todo'[d] = todo[d]
  <1> USE DEF Goto, End, Forget, TypeOK
  <1>1. CASE \/ Start(c) \/ ReadList(c) \/ ReadDeployments(c) \/ ReadPods(c)
             \/ DiscoveryRaises(c) \/ FillList(c) \/ Finish(c)
    BY <1>1 DEF Start, ReadList, ReadDeployments, ReadPods, DiscoveryRaises, FillList, Finish
  <1>2. CASE \/ NextWorkload(c) \/ AbortHealthJob(c)
             \/ Insert(c) \/ Update(c) \/ PersistRaises(c)
    BY <1>2 DEF NextWorkload, AbortHealthJob, Insert, Update, PersistRaises
  <1>3. CASE SelectRow(c)
    BY <1>3 DEF SelectRow
  <1>4. CASE \/ Examine(c) \/ Report(c) \/ ReportRaises(c) \/ Examined(c)
             \/ GetOne(c) \/ ReadPodsOfOne(c) \/ FillOne(c) \/ Die(c)
    BY <1>4 DEF Examine, Report, ReportRaises, Examined, GetOne, ReadPodsOfOne, FillOne, Die
  <1>5. QED
    BY <1>1, <1>2, <1>3, <1>4 DEF Step

\* The steps before and after a persist.
LEMMA ElsewhereKeepsContract ==
  ASSUME TypeOK, NEW c \in Callers,
         \/ Start(c) \/ ReadList(c) \/ ReadDeployments(c) \/ ReadPods(c)
         \/ DiscoveryRaises(c) \/ FillList(c) \/ Finish(c) \/ AbortHealthJob(c)
         \/ Examine(c) \/ Report(c) \/ ReportRaises(c) \/ Examined(c)
         \/ GetOne(c) \/ ReadPodsOfOne(c) \/ FillOne(c)
  PROVE  Contract!Come(c) \/ Contract!Leave(c) \/ UNCHANGED Contract!vars
  <1>1. UNCHANGED rows
    BY DEF Start, ReadList, ReadDeployments, ReadPods, DiscoveryRaises, FillList, Finish,
           AbortHealthJob, Examine, Report, ReportRaises, Examined, GetOne, ReadPodsOfOne,
           FillOne, storeVars
  <1>2. ~IsStoring(c)
    BY DEF Start, ReadList, ReadDeployments, ReadPods, DiscoveryRaises, FillList, Finish,
           AbortHealthJob, Examine, Report, ReportRaises, Examined, GetOne, ReadPodsOfOne,
           FillOne, Goto, IsStoring
  <1>3. ~IsStoring(c)'
    <2> USE DEF Goto, End, TypeOK, IsStoring
    <2>1. CASE Start(c) \/ ReadList(c) \/ ReadDeployments(c) \/ ReadPods(c) \/ DiscoveryRaises(c)
      BY <2>1 DEF Start, ReadList, ReadDeployments, ReadPods, DiscoveryRaises, AfterDiscovery
    <2>2. CASE FillList(c) \/ Finish(c) \/ AbortHealthJob(c) \/ Examine(c) \/ Report(c)
      BY <2>2 DEF FillList, Finish, AbortHealthJob, Examine, Report
    <2>3. CASE \/ ReportRaises(c) \/ Examined(c) \/ GetOne(c)
               \/ ReadPodsOfOne(c) \/ FillOne(c)
      BY <2>3 DEF ReportRaises, Examined, GetOne, ReadPodsOfOne, FillOne
    <2>4. QED
      BY <2>1, <2>2, <2>3
  <1>4. QED
    BY <1>1, <1>2, <1>3, OthersAlone, ComesAndLeaves DEF Step

LEMMA CallerKeepsContract ==
  ASSUME TypeOK, TypeOK', CauseInv, NoneWhileInserting, NEW c \in Callers,
         Start(c) \/ GetOne(c) \/ Step(c) \/ Die(c)
  PROVE  [Contract!Next]_(Contract!vars)
  <1>0. \A d \in Callers \ {c} : /\ at'[d] = at[d] /\ current'[d] = current[d]
                                 /\ found'[d] = found[d] /\ loaded'[d] = loaded[d]
    BY OthersAlone
  <1>1. ASSUME Contract!Come(c) \/ Contract!Leave(c) \/ UNCHANGED Contract!vars
        PROVE  [Contract!Next]_(Contract!vars)
    BY <1>1 DEF Contract!Next
  <1>2. ASSUME IsStoring(c), End(c), UNCHANGED rows
        PROVE  [Contract!Next]_(Contract!vars)
    <2>1. ~IsStoring(c)' /\ Phase(c)' = "away"
      BY <1>2 DEF End, TypeOK, IsStoring, Phase
    <2>2. Contract!Over(c, "away")
      BY <1>0, <1>2, <2>1, IsOver
    <2>3. QED
      BY <1>2, <2>2 DEF Contract!Next, Contract!GiveUp
  <1>3. ASSUME NEW there \in {"ready", "away"}, Contract!Insert(c, there)
        PROVE  [Contract!Next]_(Contract!vars)
    BY <1>3 DEF Contract!Next
  <1>4. ASSUME NEW there \in {"ready", "away"}, Contract!StoreRest(c, there)
        PROVE  [Contract!Next]_(Contract!vars)
    BY <1>4 DEF Contract!Next
  <1>5. CASE NextWorkload(c)
    BY <1>5, Begins DEF Contract!Next
  <1>6. CASE SelectRow(c)
    <2>1. at[c] = "persist" /\ IsStoring(c) /\ UNCHANGED rows
      BY <1>6 DEF SelectRow, IsStoring, storeVars
    <2>2. CASE End(c)
      BY <1>2, <2>1, <2>2
    <2>3. CASE Goto(c, "persist", "insert") /\ UNCHANGED <<current, found, loaded>>
      <3>1. at'[c] = "insert" /\ current'[c] = current[c]
        BY <2>3 DEF Goto, TypeOK
      <3>2. /\ Phase(c)' = Phase(c) /\ Item(c)' = Item(c)
            /\ Left(c)' = Left(c) /\ Target(c)' = Target(c)
        BY <2>1, <3>1 DEF Phase, Item, Left, Target, IsStoring
      <3>3. QED
        BY <1>0, <2>1, <3>2, OthersKeepPlace, ContractStutters
    <2>4. ASSUME NEW i \in RowsOf(current[c].name), Goto(c, "persist", "update"),
                 found' = [found EXCEPT ![c] = i],
                 loaded' = [loaded EXCEPT ![c] = rows[i].workload], UNCHANGED current
          PROVE  [Contract!Next]_(Contract!vars)
      <3>1. /\ at'[c] = "update" /\ current'[c] = current[c]
            /\ found'[c] = i /\ loaded'[c] = rows[i].workload
        BY <2>4 DEF Goto, TypeOK
      <3>2. Contract!StoreSome(c)
        BY <1>0, <2>1, <3>1, SelectStores
      <3>3. QED
        BY <3>2 DEF Contract!Next
    <2>5. QED
      BY <1>6, <2>2, <2>3, <2>4 DEF SelectRow
  <1>7. CASE Insert(c) \/ Update(c) \/ PersistRaises(c)
    <2>1. PICK there \in {"ready", "away"} : Phase(c)' = there /\ ~IsStoring(c)' /\ IsStoring(c)
      BY <1>7 DEF Insert, Update, PersistRaises, Goto, End, TypeOK, Phase, IsStoring
    <2>2. Contract!Over(c, there)
      BY <1>0, <2>1, IsOver
    <2>3. CASE UNCHANGED rows /\ End(c)
      BY <1>2, <2>1, <2>3
    <2>4. CASE /\ at[c] = "insert"
               /\ rows' = Append(rows, [workload |-> current[c], by |-> c])
      BY <1>3, <2>2, <2>4, Inserts
    <2>5. CASE /\ at[c] = "update"
               /\ rows' = [rows EXCEPT ![found[c]].workload = Write(@, loaded[c], current[c])]
      BY <1>4, <2>2, <2>5, StoresRest
    <2>6. QED
      BY <1>7, <2>3, <2>4, <2>5 DEF Insert, Update, PersistRaises, Goto
  <1>8. CASE Die(c)
    <2>1. End(c) /\ UNCHANGED rows
      BY <1>8 DEF Die, storeVars
    <2>2. CASE IsStoring(c)
      BY <1>2, <2>1, <2>2
    <2>3. CASE ~IsStoring(c)
      BY <1>0, <1>1, <2>1, <2>3, ComesAndLeaves DEF End, TypeOK, IsStoring
    <2>4. QED
      BY <2>2, <2>3
  <1>9. QED
    BY <1>1, <1>5, <1>6, <1>7, <1>8, ElsewhereKeepsContract DEF Step

\* The rows from before are of different workloads.
LEMMA InitKeepsContract ==
  ASSUME Init
  PROVE  Contract!Init
  <1>1. \A n \in Names : cluster[n] \in States => Discovered(n, cluster) \in Workload
    BY DeploymentType, WithPodsType DEF Discovered, Init
  <1>2. \A n \in Names : cluster[n] \in States => Discovered(n, cluster).name = n
    BY DEF Discovered, WithPods, DeploymentToWorkload
  <1>3. \A i \in DOMAIN Known : Known[i] \in Names /\ cluster[Known[i]] \in States
    BY WorkloadAssumptions DEF Init, Clusters
  <1>4. /\ DOMAIN rows = DOMAIN Known
        /\ \A i \in DOMAIN rows : /\ rows[i].workload \in Workload /\ rows[i].by = Nothing
                                  /\ rows[i].workload.name = Known[i]
    BY <1>1, <1>2, <1>3 DEF Init
  <1>5. \A i \in DOMAIN rows : Contract!Of(rows[i].workload.name) = {i}
    BY <1>4, WorkloadAssumptions DEF Contract!Of
  <1>6. QED
    BY <1>4, <1>5 DEF Init, Contract!Init, IsStoring

\* A select and an update with other callers in between, of the columns that differ: and
\* yet each column is a register, which a persist writes once and which no persist sets
\* back to what it has read (workload_service.py:64-111).
THEOREM ServiceKeepsContract == Spec => RefinesContract
  <1>1. Init => Contract!Init
    BY InitKeepsContract
  <1>2. TypeOK /\ TypeOK' /\ CauseInv /\ NoneWhileInserting /\ [Next]_vars
          => [Contract!Next]_(Contract!vars)
    <2> SUFFICES ASSUME TypeOK, TypeOK', CauseInv, NoneWhileInserting, [Next]_vars
                 PROVE  [Contract!Next]_(Contract!vars)
      OBVIOUS
    <2>1. CASE World \/ UNCHANGED vars
      <3>1. UNCHANGED <<rows, at, current, found, loaded>>
        BY <2>1 DEF World, Change, Close, ExpireList, ExpireOne, vars, storeVars, callerVars
      <3>2. QED
        BY <3>1, OthersKeepPlace, ContractStutters
    <2>2. QED
      BY <2>1, CallerKeepsContract DEF Next
  <1>3. QED
    BY <1>1, <1>2, TypeCorrect, CauseHolds, OneHolds, PTL
       DEF Spec, RefinesContract, Contract!Spec

-----------------------------------------------------------------------------
(* The steps of a caller run out.                                          *)

\* A list has a workload for each of the names at most, however old it is.
IsShort(S) == IsFiniteSet(S) /\ Cardinality(S) <= Cardinality(Names)
ListsAreShort == IsShort(all) /\ \A c \in Callers : IsShort(list[c])

LEMMA ShortType ==
  /\ Cardinality(Names) \in Nat
  /\ \A S : IsShort(S) => Cardinality(S) \in Nat
  BY NamesAreFinite, FS_CardinalityType DEF IsShort

LEMMA EmptyIsShort == IsShort({}) /\ Cardinality({}) = 0
  <1>1. Cardinality(Names) \in Nat /\ Cardinality({}) = 0 /\ IsFiniteSet({})
    BY ShortType, FS_EmptySet
  <1>2. QED
    BY <1>1 DEF IsShort

\* A listing is no longer than there are names.
LEMMA ListingIsShort ==
  ASSUME NEW there \in Clusters
  PROVE  IsShort({DeploymentToWorkload(n, there[n]) : n \in ListDeployments(there)})
  <1> DEFINE D == ListDeployments(there)
             S == {DeploymentToWorkload(n, there[n]) : n \in D}
             f == [n \in D |-> DeploymentToWorkload(n, there[n])]
  <1>1. D \in SUBSET Names
    BY DEF ListDeployments
  <1>2. IsFiniteSet(D) /\ Cardinality(D) <= Cardinality(Names)
    BY <1>1, NamesAreFinite, FS_Subset
  <1>3. f \in Surjection(D, S)
    BY DEF Surjection
  <1> HIDE DEF D, S, f
  <1>4. IsFiniteSet(S) /\ Cardinality(S) <= Cardinality(D)
    BY <1>2, <1>3, FS_Surjection
  <1>5. Cardinality(S) \in Nat /\ Cardinality(D) \in Nat /\ Cardinality(Names) \in Nat
    BY <1>2, <1>4, NamesAreFinite, FS_CardinalityType
  <1>6. IsShort(S)
    BY <1>2, <1>4, <1>5 DEF IsShort
  <1>7. QED
    BY <1>6 DEF S, D

\* Taking a workload makes it one shorter.
LEMMA TakingShortens ==
  ASSUME NEW S, IsShort(S), NEW w \in S
  PROVE  IsShort(S \ {w}) /\ Cardinality(S \ {w}) = Cardinality(S) - 1
  <1>1. IsFiniteSet(S \ {w}) /\ Cardinality(S \ {w}) = Cardinality(S) - 1
    BY FS_RemoveElement DEF IsShort
  <1>2. Cardinality(S) \in Nat /\ Cardinality(Names) \in Nat
    BY ShortType
  <1>3. QED
    BY <1>1, <1>2 DEF IsShort

\* Setting what is read of one workload makes it no longer.
LEMMA ReplacingIsShort ==
  ASSUME NEW S, IsShort(S), NEW w \in S, NEW v
  PROVE  /\ IsShort((S \ {w}) \cup {v})
         /\ Cardinality((S \ {w}) \cup {v}) <= Cardinality(S)
  <1>1. IsShort(S \ {w}) /\ Cardinality(S \ {w}) = Cardinality(S) - 1
    BY TakingShortens
  <1>2. IsFiniteSet((S \ {w}) \cup {v})
        /\ Cardinality((S \ {w}) \cup {v}) \in {Cardinality(S \ {w}), Cardinality(S \ {w}) + 1}
    BY <1>1, FS_AddElement DEF IsShort
  <1>3. Cardinality(S) \in Nat /\ Cardinality(Names) \in Nat
    BY ShortType
  <1>4. QED
    BY <1>1, <1>2, <1>3 DEF IsShort

\* There are four types, so that a workload has no more than four incidents.
LEMMA FourTypes ==
  ASSUME NEW types \in SUBSET Types
  PROVE  IsFiniteSet(types) /\ Cardinality(types) \in 0 .. 4
  <1>1. TypeOrder \in Surjection(1 .. 4, Types)
    BY DEF Surjection, TypeOrder, Types
  <1>2. IsFiniteSet(1 .. 4) /\ Cardinality(1 .. 4) = 4
    <2>1. PICK n \in Nat : n = 4
      OBVIOUS
    <2>2. 1 \in Int /\ n \in Int
      OBVIOUS
    <2>3. IsFiniteSet(1 .. n) /\ Cardinality(1 .. n) = IF 1 > n THEN 0 ELSE n - 1 + 1
      BY <2>2, FS_Interval, Zenon
    <2>4. QED
      BY <2>1, <2>3
  <1>3. IsFiniteSet(Types) /\ Cardinality(Types) <= 4
    BY <1>1, <1>2, FS_Surjection
  <1>4. IsFiniteSet(types) /\ Cardinality(types) <= Cardinality(Types)
    BY <1>3, FS_Subset
  <1>5. Cardinality(types) \in Nat /\ Cardinality(Types) \in Nat
    BY <1>3, <1>4, FS_CardinalityType
  <1>6. QED
    BY <1>3, <1>4, <1>5

\* A part of a short list.
LEMMA PartIsShort ==
  ASSUME NEW S, IsShort(S), NEW T, T \subseteq S
  PROVE  IsFiniteSet(T) /\ Cardinality(T) \in 0 .. Cardinality(S)
  <1>1. IsFiniteSet(T) /\ Cardinality(T) <= Cardinality(S)
    BY FS_Subset DEF IsShort
  <1>2. QED
    BY <1>1, ShortType, FS_CardinalityType

\* Reading the pods of a workload of a list.
LEMMA ReadPodsShortens ==
  ASSUME TypeOK, ListsAreShort, NEW c \in Callers, ReadPods(c)
  PROVE  IsShort(list'[c]) /\ Cardinality(list'[c]) <= Cardinality(list[c])
  <1>1. PICK w \in Workload, v \in Workload :
           w \in list[c] /\ list' = [list EXCEPT ![c] = (list[c] \ {w}) \cup {v}]
    BY PodsOfOne
  <1>2. PICK S, T : S = list[c] /\ T = (S \ {w}) \cup {v}
    OBVIOUS
  <1>3. list'[c] = T
    BY <1>1, <1>2 DEF TypeOK
  <1>4. IsShort(S) /\ w \in S
    BY <1>1, <1>2 DEF ListsAreShort
  <1>5. IsShort(T) /\ Cardinality(T) <= Cardinality(S)
    BY <1>2, <1>4, ReplacingIsShort
  <1>6. QED
    BY <1>2, <1>3, <1>5

\* The listing has a name once.
LEMMA BeforeIsOrder ==
  ASSUME NEW n, NEW m, NEW k
  PROVE  /\ ~Before(n, n)
         /\ Before(n, m) /\ Before(m, k) => Before(n, k)
  <1>1. DOMAIN Listing \subseteq Int
    BY ClusterAssumptions
  <1>2. QED
    BY <1>1, ClusterAssumptions DEF Before

\* The workload whose pods have been read is not read again.
LEMMA ReadPodsReadsOne ==
  ASSUME TypeOK, ListsAreShort, NEW c \in Callers, ReadPods(c)
  PROVE  /\ Cardinality(Unread(c)) > 0
         /\ at'[c] = "pods" => Cardinality(Unread(c)') < Cardinality(Unread(c))
         /\ at'[c] \in {"pods", "next", "fill"}
  <1>1. PICK w \in Workload, v \in Workload :
           /\ w \in Unread(c) /\ v.name = w.name
           /\ list' = [list EXCEPT ![c] = (list[c] \ {w}) \cup {v}]
           /\ \/ at' = [at EXCEPT ![c] = AfterDiscovery(c)]
              \/ UNCHANGED at /\ current' = [current EXCEPT ![c] = w]
           /\ at[c] = "pods"
    BY PodsOfOne
  <1>2. PICK S, T, U : S = list[c] /\ T = Unread(c) /\ U = Unread(c)'
    OBVIOUS
  <1>3. IsShort(S) /\ T \subseteq S
    BY <1>2 DEF ListsAreShort, Unread
  <1>4. IsFiniteSet(T) /\ Cardinality(T) \in Nat /\ w \in T
    BY <1>1, <1>2, <1>3, PartIsShort, ShortType
  <1>5. IsFiniteSet(T \ {w}) /\ Cardinality(T \ {w}) = Cardinality(T) - 1
    BY <1>4, FS_RemoveElement
  <1>6. Cardinality(T \ {w}) \in Nat
    BY <1>5, FS_CardinalityType
  <1>7. at'[c] \in {"pods", "next", "fill"}
    BY <1>1 DEF AfterDiscovery, TypeOK
  <1>8. ASSUME at'[c] = "pods"
        PROVE  Cardinality(U) < Cardinality(T)
    <2>1. current'[c] = w
      BY <1>1, <1>8 DEF AfterDiscovery, TypeOK
    <2>2. w # Nothing
      BY WorkloadAssumptions
    <2>3. U = {u \in (S \ {w}) \cup {v} : Before(w.name, u.name)}
      BY <1>1, <1>2, <2>1, <2>2 DEF Unread, TypeOK
    <2>4. v \notin U
      BY <1>1, <2>3, BeforeIsOrder
    <2>5. \A u \in U : u \in S /\ u # w /\ Before(w.name, u.name)
      BY <2>3, <2>4
    <2>6. current[c] = Nothing \/ Before(current[c].name, w.name)
      BY <1>1 DEF Unread
    <2>7. U \subseteq T \ {w}
      BY <1>2, <2>5, <2>6, BeforeIsOrder DEF Unread
    <2>8. Cardinality(U) <= Cardinality(T \ {w}) /\ Cardinality(U) \in Nat
      BY <1>5, <2>7, FS_Subset, FS_CardinalityType
    <2>9. QED
      BY <1>4, <1>5, <1>6, <2>8
  <1>9. QED
    BY <1>2, <1>4, <1>5, <1>6, <1>7, <1>8

\* The lists that get shorter, or are forgotten, and those that are read.
LEMMA ListStaysShort ==
  ASSUME TypeOK, ListsAreShort, NEW c \in Callers,
         Start(c) \/ GetOne(c) \/ Step(c) \/ Die(c)
  PROVE  IsShort(list'[c]) /\ (all' = all \/ all' = list[c])
  <1> USE DEF Goto, End, Forget, TypeOK
  <1>0. IsShort(all) /\ IsShort(list[c]) /\ IsShort({})
    BY EmptyIsShort DEF ListsAreShort
  <1>1. CASE \/ Start(c) \/ FillList(c) \/ Finish(c) \/ DiscoveryRaises(c)
             \/ AbortHealthJob(c) \/ Insert(c) \/ Update(c) \/ PersistRaises(c)
    <2>1. list'[c] \in {list[c], {}} /\ (all' = all \/ all' = list[c])
      BY <1>1 DEF Start, FillList, Finish, DiscoveryRaises, AbortHealthJob, Insert,
                  Update, PersistRaises, storeVars
    <2>2. QED
      BY <1>0, <2>1
  <1>2. CASE ReadList(c)
    <2>1. list'[c] \in {list[c], all} /\ all' = all
      BY <1>2 DEF ReadList, storeVars
    <2>2. QED
      BY <1>0, <2>1
  <1>3. CASE ReadDeployments(c)
    <2>1. list'[c] = {DeploymentToWorkload(n, cluster[n]) : n \in ListDeployments(cluster)}
          /\ all' = all
      BY <1>3 DEF ReadDeployments, storeVars
    <2>2. cluster \in Clusters
      OBVIOUS
    <2>3. QED
      BY <2>1, <2>2, ListingIsShort
  <1>4. CASE ReadPods(c)
    <2>1. all' = all
      BY <1>4 DEF ReadPods, storeVars
    <2>2. QED
      BY <1>4, <2>1, ReadPodsShortens
  <1>5. CASE NextWorkload(c) \/ Examine(c)
    <2>1. PICK w \in list[c] : list'[c] = list[c] \ {w}
      BY <1>5 DEF NextWorkload, Examine
    <2>2. all' = all
      BY <1>5 DEF NextWorkload, Examine, storeVars
    <2>3. QED
      BY <1>0, <2>1, <2>2, TakingShortens
  <1>6. CASE SelectRow(c)
    <2>1. list'[c] \in {list[c], {}} /\ all' = all
      BY <1>6 DEF SelectRow, storeVars
    <2>2. QED
      BY <1>0, <2>1
  <1>7. CASE \/ Report(c) \/ ReportRaises(c) \/ Examined(c)
             \/ GetOne(c) \/ ReadPodsOfOne(c) \/ FillOne(c) \/ Die(c)
    <2>1. list'[c] \in {list[c], {}} /\ all' = all
      BY <1>7 DEF Report, ReportRaises, Examined, GetOne, ReadPodsOfOne, FillOne, Die, storeVars
    <2>2. QED
      BY <1>0, <2>1
  <1>8. QED
    BY <1>1, <1>2, <1>3, <1>4, <1>5, <1>6, <1>7 DEF Step

LEMMA NextKeepsShort ==
  ASSUME TypeOK, ListsAreShort, [Next]_vars
  PROVE  ListsAreShort'
  <1>1. CASE UNCHANGED vars
    BY <1>1 DEF ListsAreShort, vars, storeVars, callerVars
  <1>2. CASE World
    <2>1. list' = list /\ all' \in {all, {}}
      BY <1>2 DEF World, Change, ExpireList, ExpireOne, Close, storeVars, callerVars
    <2>2. QED
      BY <2>1, EmptyIsShort DEF ListsAreShort
  <1>3. ASSUME NEW c \in Callers, Start(c) \/ GetOne(c) \/ Step(c) \/ Die(c)
        PROVE  ListsAreShort'
    <2>1. IsShort(list'[c]) /\ (all' = all \/ all' = list[c])
      BY <1>3, ListStaysShort
    <2>2. \A d \in Callers \ {c} : list'[d] = list[d]
      BY <1>3, OthersAlone
    <2>3. QED
      BY <2>1, <2>2 DEF ListsAreShort
  <1>4. QED
    BY <1>1, <1>2, <1>3 DEF Next

LEMMA ShortHolds == Spec => []ListsAreShort
  <1>1. Init => ListsAreShort
    BY EmptyIsShort DEF Init, ListsAreShort
  <1>2. QED
    BY <1>1, NextKeepsShort, TypeCorrect, PTL DEF Spec

\* What uses up no step of a caller, and what leaves it none.
LEMMA SameSteps ==
  ASSUME NEW c \in Callers, at'[c] = at[c], list'[c] = list[c], todo'[c] = todo[c],
         current'[c] = current[c]
  PROVE  StepsLeft(c)' = StepsLeft(c)
  BY DEF StepsLeft, Unread

LEMMA IdleHasNone ==
  ASSUME NEW c \in Callers, at'[c] = "idle"
  PROVE  StepsLeft(c)' = 0
  BY DEF StepsLeft

\* A caller under way has steps left.
LEMMA OnTheWay ==
  ASSUME TypeOK, ListsAreShort, NEW c \in Callers
  PROVE  /\ StepsLeft(c) \in Nat
         /\ at[c] # "idle" => StepsLeft(c) > 0
  <1>1. /\ Cardinality(Names) \in Nat /\ Cardinality(list[c]) \in Nat
        /\ Cardinality(todo[c]) \in 0 .. 4 /\ Cardinality(Unread(c)) \in Nat
    <2>1. PICK S, T : S = list[c] /\ T = Unread(c)
      OBVIOUS
    <2>2. IsShort(S) /\ T \subseteq S
      BY <2>1 DEF ListsAreShort, Unread
    <2>3. Cardinality(T) \in Nat
      BY <2>2, PartIsShort, ShortType
    <2>4. QED
      BY <2>1, <2>2, <2>3, ShortType, FourTypes DEF TypeOK
  <1>2. at[c] \in Locations
    BY DEF TypeOK
  <1>3. QED
    BY <1>1, <1>2 DEF StepsLeft, Locations

LEMMA EndsHere ==
  ASSUME TypeOK, ListsAreShort, NEW c \in Callers, at[c] # "idle", at'[c] = "idle"
  PROVE  StepsLeft(c)' < StepsLeft(c)
  BY OnTheWay, IdleHasNone

\* What is left while the deployments and pods are read.
LEMMA StepsOfDiscovery ==
  ASSUME NEW c \in Callers
  PROVE  /\ at[c] = "cached" => StepsLeft(c) = 7 * Cardinality(Names) + 4
         /\ at[c] = "deployments" => StepsLeft(c) = 7 * Cardinality(Names) + 3
         /\ at[c] = "pods" => StepsLeft(c) = 6 * Cardinality(list[c]) + 2 + Cardinality(Unread(c))
         /\ at[c] = "fill" => StepsLeft(c) = 6 * Cardinality(list[c]) + 2
         /\ at[c] = "next" => StepsLeft(c) = 6 * Cardinality(list[c]) + 1
  BY DEF StepsLeft

LEMMA NextStepsOfDiscovery ==
  ASSUME NEW c \in Callers
  PROVE  /\ at'[c] = "deployments" => StepsLeft(c)' = 7 * Cardinality(Names) + 3
         /\ at'[c] = "pods" =>
              StepsLeft(c)' = 6 * Cardinality(list'[c]) + 2 + Cardinality(Unread(c)')
         /\ at'[c] = "fill" => StepsLeft(c)' = 6 * Cardinality(list'[c]) + 2
         /\ at'[c] = "next" => StepsLeft(c)' = 6 * Cardinality(list'[c]) + 1
  BY DEF StepsLeft

\* Every step of a caller uses up one at least.
LEMMA ReadingUsesOne ==
  ASSUME TypeOK, ListsAreShort, NEW c \in Callers,
         ReadList(c) \/ ReadDeployments(c) \/ ReadPods(c) \/ DiscoveryRaises(c)
         \/ FillList(c) \/ Finish(c)
  PROVE  StepsLeft(c)' < StepsLeft(c)
  <1> USE DEF Goto, TypeOK
  <1>0. /\ Cardinality(Names) \in Nat
        /\ Cardinality(list[c]) \in 0 .. Cardinality(Names)
        /\ Cardinality(all) \in 0 .. Cardinality(Names)
    BY ShortType DEF ListsAreShort, IsShort
  <1>1. CASE ReadList(c)
    <2>1. PICK n, s : n = Cardinality(Names) /\ s = Cardinality(all)
      OBVIOUS
    <2>2. StepsLeft(c) = 7 * n + 4
      BY <1>1, <2>1, StepsOfDiscovery DEF ReadList
    <2>3. StepsLeft(c)' \in {6 * s + 1, 7 * n + 3}
      <3>1. \/ at'[c] = "next" /\ list'[c] = all
            \/ at'[c] = "deployments"
        BY <1>1 DEF ReadList
      <3>2. QED
        BY <2>1, <3>1, NextStepsOfDiscovery
    <2>4. n \in Nat /\ s \in 0 .. n
      BY <1>0, <2>1
    <2>5. QED
      BY <2>2, <2>3, <2>4
  <1>2. CASE ReadDeployments(c)
    <2>1. PICK S : list'[c] = S
      OBVIOUS
    <2>2. Cardinality(S) \in 0 .. Cardinality(Names)
      <3>1. IsShort(S)
        BY <1>2, <2>1, ListStaysShort DEF Step
      <3>2. QED
        BY <1>0, <3>1, ShortType DEF IsShort
    <2>3. at[c] = "deployments" /\ at'[c] \in {"pods", "next", "fill"}
      BY <1>2 DEF ReadDeployments, AfterDiscovery
    <2>4. PICK U : U = Unread(c)'
      OBVIOUS
    <2>5. U \subseteq S /\ IsShort(S)
      BY <1>2, <2>1, <2>4, ListStaysShort DEF Unread, Step
    <2>6. Cardinality(U) \in 0 .. Cardinality(S)
      BY <2>5, PartIsShort
    <2>7. PICK n, s, u : n = Cardinality(Names) /\ s = Cardinality(S) /\ u = Cardinality(U)
      OBVIOUS
    <2>8. StepsLeft(c) = 7 * n + 3
      BY <2>3, <2>7, StepsOfDiscovery
    <2>9. StepsLeft(c)' \in {6 * s + 2 + u, 6 * s + 2, 6 * s + 1}
      BY <2>1, <2>3, <2>4, <2>7, NextStepsOfDiscovery
    <2>10. n \in Nat /\ s \in 0 .. n /\ u \in 0 .. s
      BY <1>0, <2>2, <2>6, <2>7
    <2>11. QED
      BY <2>8, <2>9, <2>10
  <1>3. CASE ReadPods(c)
    <2>1. PICK T : T = list'[c]
      OBVIOUS
    <2>2. IsShort(T) /\ Cardinality(T) <= Cardinality(list[c])
      BY <1>3, <2>1, ReadPodsShortens
    <2>3. Cardinality(T) \in Nat
      BY <2>2, ShortType
    <2>4. PICK U, V : U = Unread(c) /\ V = Unread(c)'
      OBVIOUS
    <2>5. /\ at[c] = "pods" /\ at'[c] \in {"pods", "next", "fill"}
          /\ Cardinality(U) > 0
          /\ at'[c] = "pods" => Cardinality(V) < Cardinality(U)
      BY <1>3, <2>4, ReadPodsReadsOne DEF ReadPods
    <2>6. Cardinality(U) \in Nat /\ Cardinality(V) \in Nat
      <3>1. PICK S : S = list[c]
        OBVIOUS
      <3>2. IsShort(S) /\ U \subseteq S /\ V \subseteq T
        BY <2>1, <2>4, <3>1 DEF ListsAreShort, Unread
      <3>3. QED
        BY <2>2, <3>2, PartIsShort, ShortType
    <2>7. PICK s, t, u, v : /\ s = Cardinality(list[c]) /\ t = Cardinality(T)
                            /\ u = Cardinality(U) /\ v = Cardinality(V)
      OBVIOUS
    <2>8. StepsLeft(c) = 6 * s + 2 + u
      BY <2>4, <2>5, <2>7, StepsOfDiscovery
    <2>9. \/ at'[c] = "pods" /\ StepsLeft(c)' = 6 * t + 2 + v
          \/ StepsLeft(c)' \in {6 * t + 2, 6 * t + 1}
      BY <2>1, <2>4, <2>5, <2>7, NextStepsOfDiscovery
    <2>10. /\ s \in Nat /\ t \in Nat /\ u \in Nat /\ v \in Nat
           /\ t <= s /\ u > 0
           /\ at'[c] = "pods" => v < u
      BY <1>0, <2>2, <2>3, <2>5, <2>6, <2>7
    <2>11. QED
      BY <2>8, <2>9, <2>10
  <1>4. CASE DiscoveryRaises(c) \/ Finish(c)
    <2>1. at[c] # "idle" /\ at'[c] = "idle"
      BY <1>4 DEF DiscoveryRaises, Finish, End
    <2>2. QED
      BY <2>1, EndsHere
  <1>5. CASE FillList(c)
    <2>1. CASE at'[c] = "idle"
      BY <1>5, <2>1, EndsHere DEF FillList
    <2>2. CASE at'[c] # "idle"
      <3>1. at[c] = "fill" /\ at'[c] = "next" /\ list'[c] = list[c]
        BY <1>5, <2>2 DEF FillList, End
      <3>2. QED
        BY <1>0, <3>1 DEF StepsLeft
    <2>3. QED
      BY <2>1, <2>2
  <1>6. QED
    BY <1>1, <1>2, <1>3, <1>4, <1>5

LEMMA WorkingUsesOne ==
  ASSUME TypeOK, ListsAreShort, NEW c \in Callers,
         NextWorkload(c) \/ AbortHealthJob(c) \/ SelectRow(c) \/ Insert(c) \/ Update(c)
         \/ PersistRaises(c) \/ ReadPodsOfOne(c) \/ FillOne(c)
  PROVE  StepsLeft(c)' < StepsLeft(c)
  <1> USE DEF Goto, TypeOK
  <1>0. Cardinality(list[c]) \in Nat
    BY ShortType DEF ListsAreShort
  <1>1. CASE NextWorkload(c)
    <2>1. PICK w \in list[c] : list'[c] = list[c] \ {w}
      BY <1>1 DEF NextWorkload
    <2>2. Cardinality(list[c] \ {w}) = Cardinality(list[c]) - 1
      BY TakingShortens DEF ListsAreShort
    <2>3. at[c] = "next" /\ at'[c] = "persist"
      BY <1>1 DEF NextWorkload
    <2>4. QED
      BY <1>0, <2>1, <2>2, <2>3 DEF StepsLeft
  <1>2. CASE AbortHealthJob(c) \/ PersistRaises(c) \/ FillOne(c)
    <2>1. at[c] # "idle" /\ at'[c] = "idle"
      BY <1>2 DEF AbortHealthJob, PersistRaises, FillOne, End
    <2>2. QED
      BY <2>1, EndsHere
  <1>3. CASE SelectRow(c)
    <2>1. CASE at'[c] = "idle"
      BY <1>3, <2>1, EndsHere DEF SelectRow
    <2>2. CASE at'[c] # "idle"
      <3>1. at[c] = "persist" /\ at'[c] \in {"insert", "update"} /\ list'[c] = list[c]
        BY <1>3, <2>2 DEF SelectRow, End
      <3>2. QED
        BY <1>0, <3>1 DEF StepsLeft
    <2>3. QED
      BY <2>1, <2>2
  <1>4. CASE Insert(c) \/ Update(c)
    <2>1. at[c] \in {"insert", "update"} /\ at'[c] = "next" /\ list'[c] = list[c]
      BY <1>4 DEF Insert, Update
    <2>2. QED
      BY <1>0, <2>1 DEF StepsLeft
  <1>5. CASE ReadPodsOfOne(c)
    BY <1>5 DEF ReadPodsOfOne, StepsLeft
  <1>6. QED
    BY <1>1, <1>2, <1>3, <1>4, <1>5

LEMMA ExaminingUsesOne ==
  ASSUME TypeOK, ListsAreShort, NEW c \in Callers,
         Examine(c) \/ Report(c) \/ ReportRaises(c) \/ Examined(c)
  PROVE  StepsLeft(c)' < StepsLeft(c)
  <1> USE DEF Goto, TypeOK
  <1>0. /\ Cardinality(list[c]) \in Nat /\ Cardinality(todo[c]) \in Nat
        /\ IsFiniteSet(todo[c])
    <2>1. Cardinality(list[c]) \in Nat
      BY ShortType DEF ListsAreShort
    <2>2. PICK types \in SUBSET Types : types = todo[c]
      OBVIOUS
    <2>3. IsFiniteSet(types) /\ Cardinality(types) \in 0 .. 4
      BY FourTypes
    <2>4. QED
      BY <2>1, <2>2, <2>3
  <1>1. CASE Examine(c)
    <2>1. PICK w \in list[c] : list'[c] = list[c] \ {w} /\ todo'[c] = DetectIncidents(w)
      BY <1>1 DEF Examine
    <2>2. Cardinality(list[c] \ {w}) = Cardinality(list[c]) - 1
      BY TakingShortens DEF ListsAreShort
    <2>3. Cardinality(DetectIncidents(w)) \in 0 .. 4
      <3>1. DetectIncidents(w) \in SUBSET Types
        BY DEF DetectIncidents
      <3>2. QED
        BY <3>1, FourTypes
    <2>4. at[c] = "next" /\ at'[c] = "examine"
      BY <1>1 DEF Examine
    <2>5. PICK S, T : S = list[c] \ {w} /\ T = DetectIncidents(w)
      OBVIOUS
    <2>6. QED
      BY <1>0, <2>1, <2>2, <2>3, <2>4, <2>5 DEF StepsLeft
  <1>2. CASE Report(c)
    <2>1. PICK t : t = FirstOf(todo[c]) /\ todo'[c] = todo[c] \ {t}
      BY <1>2 DEF Report
    <2>2. t \in todo[c]
      BY <1>2, <2>1, FirstOfType DEF Report
    <2>3. Cardinality(todo[c] \ {t}) = Cardinality(todo[c]) - 1
      BY <1>0, <2>2, FS_RemoveElement
    <2>4. at[c] = "examine" /\ at'[c] = "examine" /\ list'[c] = list[c]
      BY <1>2 DEF Report
    <2>5. QED
      BY <1>0, <2>1, <2>3, <2>4 DEF StepsLeft
  <1>3. CASE ReportRaises(c)
    <2>1. at[c] # "idle" /\ at'[c] = "idle"
      BY <1>3 DEF ReportRaises, End
    <2>2. QED
      BY <2>1, EndsHere
  <1>4. CASE Examined(c)
    <2>1. at[c] = "examine" /\ at'[c] = "next" /\ list'[c] = list[c]
      BY <1>4 DEF Examined
    <2>2. QED
      BY <1>0, <2>1 DEF StepsLeft
  <1>5. QED
    BY <1>1, <1>2, <1>3, <1>4

LEMMA StepUsesOne ==
  ASSUME TypeOK, ListsAreShort, NEW c \in Callers, Step(c)
  PROVE  StepsLeft(c)' < StepsLeft(c)
  BY ReadingUsesOne, WorkingUsesOne, ExaminingUsesOne DEF Step

\* The bodies of the jobs go through lists that nobody makes longer (88-141), so that what
\* is left of the proof that they end is that their steps are taken.
THEOREM CallersTakeBoundedSteps == Spec => CallersRunOut
  <1> DEFINE RunsOut(c) == at[c] # "idle" =>
                             /\ StepsLeft(c)' \in 0 .. StepsLeft(c)
                             /\ Step(c) => StepsLeft(c)' # StepsLeft(c)
  <1>1. TypeOK /\ TypeOK' /\ ListsAreShort /\ ListsAreShort' /\ [Next]_vars
          => [\A c \in Callers : RunsOut(c)]_vars
    <2> SUFFICES ASSUME TypeOK, TypeOK', ListsAreShort, ListsAreShort', [Next]_vars,
                        NEW d \in Callers, vars' # vars
                 PROVE  RunsOut(d)
      OBVIOUS
    <2>0. StepsLeft(d) \in Nat /\ StepsLeft(d)' \in Nat
      <3>1. StepsLeft(d) \in Nat
        BY OnTheWay
      <3>2. PICK a, l, t, u : a = at'[d] /\ l = list'[d] /\ t = todo'[d] /\ u = Unread(d)'
        OBVIOUS
      <3>3. /\ Cardinality(Names) \in Nat /\ Cardinality(l) \in Nat
            /\ Cardinality(t) \in 0 .. 4 /\ Cardinality(u) \in Nat
        <4>1. IsShort(l) /\ t \in SUBSET Types /\ u \subseteq l
          BY <3>2 DEF ListsAreShort, TypeOK, Unread
        <4>2. QED
          BY <4>1, ShortType, FourTypes, PartIsShort
      <3>4. StepsLeft(d)' \in Nat
        BY <3>2, <3>3 DEF StepsLeft
      <3>5. QED
        BY <3>1, <3>4
    <2>1. CASE Step(d)
      BY <2>0, <2>1, StepUsesOne
    <2>2. ASSUME ~Step(d), at[d] # "idle"
          PROVE  StepsLeft(d)' \in 0 .. StepsLeft(d)
      <3>1. CASE /\ at'[d] = at[d] /\ list'[d] = list[d] /\ todo'[d] = todo[d]
                 /\ current'[d] = current[d]
        BY <2>0, <3>1, SameSteps
      <3>2. CASE Die(d)
        <4>1. at'[d] = "idle"
          BY <3>2 DEF Die, End, TypeOK
        <4>2. QED
          BY <2>0, <4>1, IdleHasNone
      <3>3. CASE World
        BY <3>1, <3>3 DEF World, Change, ExpireList, ExpireOne, Close, callerVars
      <3>4. ASSUME NEW c \in Callers \ {d}, Start(c) \/ GetOne(c) \/ Step(c) \/ Die(c)
            PROVE  /\ at'[d] = at[d] /\ list'[d] = list[d] /\ todo'[d] = todo[d]
                   /\ current'[d] = current[d]
        BY <3>4, OthersAlone
      <3>5. ~Start(d) /\ ~GetOne(d)
        BY <2>2 DEF Start, GetOne, Goto
      <3>6. QED
        BY <2>2, <3>1, <3>2, <3>3, <3>4, <3>5 DEF Next
    <2>3. QED
      BY <2>1, <2>2
  <1> HIDE DEF RunsOut
  <1>2. QED
    BY <1>1, TypeCorrect, ShortHolds, PTL DEF Spec, CallersRunOut, RunsOut
=============================================================================
