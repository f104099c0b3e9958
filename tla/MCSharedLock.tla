---------------------------- MODULE MCSharedLock ----------------------------
(***************************************************************************)
(* Model values for the runs of the shared lock.                           *)
(***************************************************************************)
EXTENDS SharedLock, TLC

CONSTANTS p1, p2, p3, k1, k2

PodSymmetry == Permutations(Pods)
=============================================================================
