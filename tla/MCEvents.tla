------------------------------ MODULE MCEvents ------------------------------
(***************************************************************************)
(* Small instances of Events for TLC.                                      *)
(***************************************************************************)
EXTENDS Events, TLC

Symmetry == Permutations(Threads) \cup Permutations(Counts) \cup Permutations(Endpoints)
=============================================================================
