--------------------------- MODULE MCIncidentService ---------------------------
(***************************************************************************)
(* Values of the constants of IncidentService for TLC.                     *)
(***************************************************************************)
EXTENDS IncidentService, TLC

CONSTANTS k1, k2

\* A job that finds one incident; one that may find a second after it.
One == {<<k1>>}
Growing == {<<k1>>, <<k1, k2>>}
=============================================================================
