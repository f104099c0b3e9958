-------------------------- MODULE MCHealthEndpoint --------------------------
(***************************************************************************)
(* Model values for the runs of the endpoints and the preemption.          *)
(***************************************************************************)
EXTENDS HealthEndpoint

CONSTANTS a, r1
=============================================================================
