----------------------------- MODULE MCWrapper -----------------------------
(***************************************************************************)
(* Model values for the runs of the composed wrapper.                      *)
(***************************************************************************)
EXTENDS WrapperProperties, TLC

CONSTANTS a, b

\* Commands with the same configuration are interchangeable.
CommandSymmetry == Permutations(Commands)
=============================================================================
