-------------------------- MODULE MCProcessOutput --------------------------
(***************************************************************************)
(* One output stream for TLC, with the bounds of Output.cfg.               *)
(***************************************************************************)
EXTENDS ProcessOutput
=============================================================================
