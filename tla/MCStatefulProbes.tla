-------------------------- MODULE MCStatefulProbes --------------------------
(***************************************************************************)
(* The stateful probes for TLC, with the bounds of Probes.cfg.             *)
(***************************************************************************)
EXTENDS StatefulProbes
=============================================================================
