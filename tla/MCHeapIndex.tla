---------------------------- MODULE MCHeapIndex ----------------------------
(***************************************************************************)
(* The table all_sizes of heap.cpp for checking HeapIndex with TLC.        *)
(***************************************************************************)
EXTENDS HeapIndex

(* The larger sizes, in words.                                             *)
Large == <<19, 23, 28, 34, 41, 49, 59, 71, 85, 102, 122, 146, 175, 210, 252,
           302, 362, 434, 521, 625, 750, 900, 1080, 1296>>

TableBytes ==
    [i \in 1 .. 40 |-> 8 * (IF i <= 16 THEN i ELSE Large[i - 16])]
=============================================================================
