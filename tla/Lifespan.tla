------------------------------- MODULE Lifespan -------------------------------
(***************************************************************************)
(* The life of a replica: what lifespan (app/main.py:37-93) opens, starts, *)
(* stops and closes, and what the jobs and requests are doing meanwhile.   *)
(*                                                                         *)
(*   starting -> pinging -> serving -> draining -> disposing -> closing    *)
(*      -> ended                                                           *)
(*   starting, pinging -> unstarted      disposing, closing -> failed      *)
(*                                                                         *)
(* A phase is the await lifespan is suspended at.  The libraries are as    *)
(* they are used: AsyncIOScheduler.shutdown only queues a callback, which  *)
(* cancels the jobs it has begun; the server drains its requests before    *)
(* the code after the yield; asyncio.run awaits what is left when          *)
(* lifespan is over.                                                       *)
(***************************************************************************)
CONSTANTS Jobs, Requests

ASSUME LifespanAssumptions == Jobs \cap Requests = {}

Workers == Jobs \cup Requests
Phases == {"starting", "pinging", "serving", "draining", "disposing", "closing",
           "ended", "failed", "unstarted", "exited"}

VARIABLES
    phase,
    engine, client,    \* the globals _engine (and _async_session_maker), _redis_client
    running,           \* _running of the monitoring service
    scheduler,         \* none, on, leaving when its shutdown is queued, off
    at                 \* the await a worker is suspended at

vars == <<phase, engine, client, running, scheduler, at>>

\* A task is ready before its first step; one that unwinds closes its session.
Awaits == {"idle", "ready", "redis", "session", "unwinding"}

TypeOK ==
    /\ phase \in Phases
    /\ engine \in BOOLEAN /\ client \in BOOLEAN /\ running \in BOOLEAN
    /\ scheduler \in {"none", "on", "leaving", "off"}
    /\ at \in [Workers -> Awaits]
    /\ phase \in {"starting", "pinging"} => scheduler = "none"
    /\ phase \in {"serving", "draining"} => scheduler = "on"

Init ==
    /\ phase = "starting"
    /\ engine = FALSE /\ client = FALSE /\ running = FALSE
    /\ scheduler = "none"
    /\ at = [w \in Workers |-> "idle"]

Idle(workers) == \A w \in workers : at[w] = "idle"

\* lifespan goes from one await to the next.
Phase(here, there) == phase = here /\ phase' = there

-----------------------------------------------------------------------------
(* Startup.                                                                *)

\* Slip: the monitoring service is started before Redis is known to be there.
OpenAndStart ==
    /\ Phase("starting", "pinging")
    /\ engine' = TRUE /\ client' = TRUE
    /\ running' = TRUE /\ scheduler' = "on"
    /\ UNCHANGED at

\* init_db, and init_redis as far as the ping.
Open ==
    /\ Phase("starting", "pinging")
    /\ engine' = TRUE /\ client' = TRUE
    /\ UNCHANGED <<running, scheduler, at>>

\* create_async_engine or, after it, from_url refuses its URL.
OpenRaises ==
    /\ Phase("starting", "unstarted")
    /\ engine' \in BOOLEAN
    /\ UNCHANGED <<client, running, scheduler, at>>

\* The ping answers; the services are built, with the scheduler that
\* set_incident_service makes, and MonitoringService.start adds the three jobs.
Start ==
    /\ Phase("pinging", "serving")
    /\ running' = TRUE /\ scheduler' = "on"
    /\ UNCHANGED <<engine, client, at>>

\* OpscodeRedisError leaves lifespan before the yield: nothing is closed.
PingRaises ==
    /\ Phase("pinging", "unstarted")
    /\ UNCHANGED <<engine, client, running, scheduler, at>>

-----------------------------------------------------------------------------
(* Shutdown.                                                               *)

\* Slip: the engine goes on the signal, not after the requests.
SignalDisposes ==
    /\ Phase("serving", "draining")
    /\ engine' = FALSE
    /\ UNCHANGED <<client, running, scheduler, at>>

Signal ==
    /\ Phase("serving", "draining")
    /\ UNCHANGED <<engine, client, running, scheduler, at>>

\* MonitoringService.stop, which returns at once, and close_db as far as dispose.
Stop ==
    /\ Phase("draining", "disposing")
    /\ Idle(Requests)
    /\ IF running THEN scheduler' = "leaving" ELSE UNCHANGED scheduler
    /\ running' = FALSE
    /\ UNCHANGED <<engine, client, at>>

Disposed ==
    /\ Phase("disposing", "closing")
    /\ engine' = FALSE
    /\ UNCHANGED <<client, running, scheduler, at>>

\* Slip: the global is kept.
ClosedKept ==
    /\ Phase("closing", "ended")
    /\ UNCHANGED <<engine, client, running, scheduler, at>>

Closed ==
    /\ Phase("closing", "ended")
    /\ client' = FALSE
    /\ UNCHANGED <<engine, running, scheduler, at>>

\* dispose or close raises, and what comes after it is skipped.
CloseRaises ==
    /\ Phase("disposing", "failed") \/ Phase("closing", "failed")
    /\ UNCHANGED <<engine, client, running, scheduler, at>>

-----------------------------------------------------------------------------
(* Jobs and requests.                                                      *)

\* The interval trigger, at most one instance of a job, until the callback has run.
StartJob(j) ==
    /\ scheduler \in {"on", "leaving"} /\ phase # "exited"
    /\ at[j] = "idle" /\ at' = [at EXCEPT ![j] = "ready"]
    /\ UNCHANGED <<phase, engine, client, running, scheduler>>

Request(r) ==
    /\ phase = "serving"
    /\ at[r] = "idle" /\ at' = [at EXCEPT ![r] = "ready"]
    /\ UNCHANGED <<phase, engine, client, running, scheduler>>

\* get_db_session raises without a session maker, and the job or the request ends.
Session(w) == at' = [at EXCEPT ![w] = IF engine THEN "session" ELSE "idle"]

\* The body: awaits of Redis and sessions in any order, then the end.  The services
\* have the client itself, which a command after its close connects again.
Work(w) ==
    /\ at[w] \in {"ready", "redis", "session"}
    /\ \/ at' = [at EXCEPT ![w] = "redis"]
       \/ Session(w)
       \/ at' = [at EXCEPT ![w] = "idle"]
    /\ UNCHANGED <<phase, engine, client, running, scheduler>>

\* Slip: the job catches its cancellation and goes on.
CancelIgnored(await) == await

\* CancelledError is no Exception: neither the jobs nor RedisCache catch it, and
\* get_db_session closes the session in its finally.
Cancel(await) ==
    CASE await \in {"session", "unwinding"} -> "unwinding"
      [] OTHER -> "idle"

\* Slip: the close of a session whose user was cancelled never comes to an end.
UnwindNever(w) == FALSE

\* The finally of get_db_session, after a cancellation.
Unwind(w) ==
    /\ at[w] = "unwinding" /\ at' = [at EXCEPT ![w] = "idle"]
    /\ UNCHANGED <<phase, engine, client, running, scheduler>>

\* The callback that shutdown has queued: no more jobs, and those there are cancelled.
CancelJobs ==
    /\ scheduler = "leaving" /\ scheduler' = "off"
    /\ at' = [w \in Workers |-> IF w \in Jobs THEN Cancel(at[w]) ELSE at[w]]
    /\ UNCHANGED <<phase, engine, client, running>>

\* asyncio.run awaits what is left: only jobs that have been cancelled and unwind.
Exit ==
    /\ phase \in {"ended", "failed", "unstarted"} /\ phase' = "exited"
    /\ scheduler # "leaving" /\ Idle(Workers)
    /\ UNCHANGED <<engine, client, running, scheduler, at>>

LifespanStep ==
    \/ Open \/ OpenRaises \/ Start \/ PingRaises
    \/ Stop \/ Disposed \/ Closed \/ CloseRaises

Next ==
    \/ LifespanStep \/ Signal \/ CancelJobs \/ Exit
    \/ \E j \in Jobs : StartJob(j)
    \/ \E r \in Requests : Request(r)
    \/ \E w \in Workers : Work(w) \/ Unwind(w)

Spec == Init /\ [][Next]_vars

\* The event loop runs what is ready, and a request that is awaited comes to an end.
\* Nothing is assumed of signals, requests and the interval trigger.
Fairness ==
    /\ WF_vars(LifespanStep) /\ WF_vars(CancelJobs) /\ WF_vars(Exit)
    /\ \A w \in Workers : WF_vars(Unwind(w))
    /\ \A r \in Requests : SF_vars(Work(r) /\ at'[r] = "idle")
LiveSpec == Spec /\ Fairness

-----------------------------------------------------------------------------
(* Properties.                                                             *)

\* A request has the engine and the client to its end, whatever is shut down.
RequestsHaveConnections ==
    ~Idle(Requests) => phase \in {"serving", "draining"} /\ engine /\ client

\* stop does not wait (monitoring_service.py:78-86), but once its callback has run no
\* job is at work, however far close_db and close_redis are: what is left closes its
\* session.
StoppedIsQuiet ==
    scheduler = "off" => ~running /\ \A j \in Jobs : at[j] \in {"idle", "unwinding"}

\* A shutdown that ended closed everything, and none leaves monitoring behind, not even
\* one that fails on the way (main.py:81-93).
EndedIsClosed ==
    /\ phase = "ended" => ~engine /\ ~client
    /\ phase \in {"ended", "failed"} => ~running /\ scheduler \in {"leaving", "off"}

\* A process that is told to stop, or whose startup fails, ends, in whatever its jobs
\* are interrupted.
ShutdownEnds == phase \in {"draining", "unstarted"} ~> phase = "exited"
=============================================================================
