---------------------------- MODULE MCBlockCache ----------------------------
(***************************************************************************)
(* A small block cache over two devices, for TLC.                          *)
(***************************************************************************)
EXTENDS BlockCache, TLC

Symmetry == Permutations(Devices)
=============================================================================
