------------------------------ MODULE MCLifespan ------------------------------
(***************************************************************************)
(* Values of the constants of Lifespan for TLC: the three jobs, a request. *)
(***************************************************************************)
EXTENDS Lifespan

MCJobs == {"workload_discovery", "health_checks", "incident_detection"}
MCRequests == {"get"}
=============================================================================
