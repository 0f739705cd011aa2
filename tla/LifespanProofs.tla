---------------------------- MODULE LifespanProofs ----------------------------
(***************************************************************************)
(* Theorems of Lifespan for any number of jobs and requests.               *)
(***************************************************************************)
EXTENDS Lifespan, TLAPS

\* What each phase has opened, and that nothing but a closing phase takes away: the
\* strengthening all the theorems below rest on.
OpenWhen ==
    /\ phase \in {"pinging", "serving", "draining", "disposing"} => engine /\ client
    /\ phase = "closing" => ~engine /\ client
    /\ phase \in {"serving", "draining"} <=> running
    /\ phase \in {"disposing", "closing", "ended", "failed"} => scheduler \in {"leaving", "off"}
    /\ phase \in {"starting", "pinging", "unstarted"} => scheduler = "none"
    /\ phase = "ended" => ~engine /\ ~client

\* Nobody works before the service is started, and no request after it is stopped.
QuietWhen ==
    /\ scheduler = "none" => Idle(Workers)
    /\ phase \notin {"serving", "draining"} => Idle(Requests)

LifespanInv == TypeOK /\ OpenWhen /\ QuietWhen /\ StoppedIsQuiet

LEMMA InitInv == Init => LifespanInv
  BY DEF Init, LifespanInv, TypeOK, OpenWhen, QuietWhen, StoppedIsQuiet, Idle, Phases,
         Awaits, Workers

\* The steps of lifespan itself move no worker.
LEMMA PhaseInv ==
  ASSUME LifespanInv, LifespanStep \/ Signal \/ Exit
  PROVE  LifespanInv'
  <1> USE DEF LifespanInv, Phase, Idle
  <1>1. TypeOK'
    BY DEF TypeOK, Phases, OpenWhen, LifespanStep, Signal, Exit, Open, OpenRaises, Start,
           PingRaises, Stop, Disposed, Closed, CloseRaises
  <1>2. OpenWhen'
    BY DEF TypeOK, Phases, OpenWhen, LifespanStep, Signal, Exit, Open, OpenRaises, Start,
           PingRaises, Stop, Disposed, Closed, CloseRaises
  <1>3. QuietWhen' /\ StoppedIsQuiet'
    BY DEF TypeOK, OpenWhen, QuietWhen, StoppedIsQuiet, LifespanStep, Signal, Exit, Open,
           OpenRaises, Start, PingRaises, Stop, Disposed, Closed, CloseRaises
  <1>4. QED
    BY <1>1, <1>2, <1>3

\* What a worker does leaves the phases and what they have opened alone.
LEMMA WorkerInv ==
  ASSUME LifespanInv,
         \/ \E j \in Jobs : StartJob(j)
         \/ \E r \in Requests : Request(r)
         \/ \E w \in Workers : Work(w) \/ Unwind(w)
  PROVE  LifespanInv'
  <1> USE DEF LifespanInv
  <1>1. UNCHANGED <<phase, engine, client, running, scheduler>>
    BY DEF StartJob, Request, Work, Unwind
  <1>2. TypeOK'
    BY <1>1 DEF TypeOK, Awaits, Workers, StartJob, Request, Work, Session, Unwind
  <1>3. OpenWhen'
    BY <1>1 DEF OpenWhen
  <1>4. QuietWhen'
    <2>1. CASE \E j \in Jobs : StartJob(j)
      BY <2>1, LifespanAssumptions DEF StartJob, QuietWhen, Idle, TypeOK, Workers
    <2>2. CASE \E r \in Requests : Request(r)
      BY <2>2 DEF Request, QuietWhen, OpenWhen, Idle, TypeOK, Workers
    <2>3. ASSUME NEW w \in Workers, Work(w) \/ Unwind(w) PROVE QuietWhen'
      <3>1. at[w] # "idle"
        BY <2>3 DEF Work, Unwind
      <3>2. \A v \in Workers : v # w => at'[v] = at[v]
        BY <2>3 DEF Work, Session, Unwind, TypeOK
      <3>3. QED
        BY <1>1, <3>1, <3>2 DEF QuietWhen, Idle, Workers
    <2>4. QED
      BY <2>1, <2>2, <2>3
  <1>5. StoppedIsQuiet'
    BY <1>1, LifespanAssumptions
       DEF StoppedIsQuiet, TypeOK, Workers, StartJob, Request, Work, Session, Unwind, OpenWhen, QuietWhen, Idle
  <1>6. QED
    BY <1>2, <1>3, <1>4, <1>5

\* The cancellation sends every job home.
LEMMA CancelInv ==
  ASSUME LifespanInv, CancelJobs
  PROVE  LifespanInv'
  <1> USE DEF LifespanInv
  <1>1. UNCHANGED <<phase, engine, client, running>>
    BY DEF CancelJobs
  <1>2. \A w \in Workers : at'[w] \in {at[w], Cancel(at[w])}
    BY DEF CancelJobs
  <1>3. TypeOK'
    BY <1>1 DEF TypeOK, Awaits, Cancel, CancelJobs, OpenWhen
  <1>4. OpenWhen'
    BY <1>1 DEF OpenWhen, CancelJobs
  <1>5. QuietWhen'
    BY <1>1, <1>2 DEF QuietWhen, Idle, Workers, Cancel, CancelJobs
  <1>6. StoppedIsQuiet'
    BY <1>1 DEF StoppedIsQuiet, OpenWhen, TypeOK, Phases, Workers, Cancel, CancelJobs
  <1>7. QED
    BY <1>3, <1>4, <1>5, <1>6

LEMMA NextInv == LifespanInv /\ [Next]_vars => LifespanInv'
  <1> SUFFICES ASSUME LifespanInv, [Next]_vars PROVE LifespanInv'
    OBVIOUS
  <1>1. CASE UNCHANGED vars
    BY <1>1 DEF vars, LifespanInv, TypeOK, OpenWhen, QuietWhen, StoppedIsQuiet, Idle
  <1>2. CASE Next
    BY <1>2, PhaseInv, WorkerInv, CancelInv DEF Next
  <1>3. QED
    BY <1>1, <1>2

LEMMA AlwaysInv == Spec => []LifespanInv
  BY InitInv, NextInv, PTL DEF Spec

\* Every reachable state is well typed, and the scheduler is on while the replica serves.
THEOREM TypeCorrect == Spec => []TypeOK
  BY AlwaysInv, PTL DEF LifespanInv

\* Requests never meet a closed engine or client, however many there are.
THEOREM RequestsAreServed == Spec => []RequestsHaveConnections
  <1>1. LifespanInv => RequestsHaveConnections
    BY DEF LifespanInv, OpenWhen, QuietWhen, RequestsHaveConnections
  <1>2. QED
    BY <1>1, AlwaysInv, PTL

\* Once the callback of the scheduler has run, what is left of any job is its session's
\* close (monitoring_service.py:78-86).
THEOREM StoppedStaysQuiet == Spec => []StoppedIsQuiet
  BY AlwaysInv, PTL DEF LifespanInv

\* A shutdown that ends has closed everything; one that fails has stopped monitoring.
THEOREM EndedClosesAll == Spec => []EndedIsClosed
  <1>1. LifespanInv => EndedIsClosed
    BY DEF LifespanInv, OpenWhen, EndedIsClosed
  <1>2. QED
    BY <1>1, AlwaysInv, PTL
=============================================================================
