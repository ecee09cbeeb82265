------------------------------- MODULE MCHeap -------------------------------
(***************************************************************************)
(* A small heap for checking Heap with TLC.                                *)
(***************************************************************************)
EXTENDS Heap

(* Two classes of one word, a gap and a larger class.                      *)
Classes == <<2, 4, 7>>
=============================================================================
