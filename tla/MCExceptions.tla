---------------------------- MODULE MCExceptions ----------------------------
(***************************************************************************)
(* Nested OS_TRY statements, for TLC.                                      *)
(***************************************************************************)
EXTENDS ExceptionContexts, TLC

Symmetry == Permutations(Exceptions)
=============================================================================
