---------------------------- MODULE MCEventMutex ----------------------------
(***************************************************************************)
(* A mutex and a condition with a few threads, for TLC.                    *)
(***************************************************************************)
EXTENDS EventMutex, TLC

Symmetry == Permutations(Threads)
=============================================================================
