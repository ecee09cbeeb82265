---------------------------- MODULE AbstractHeap ----------------------------
(***************************************************************************)
(* What a heap promises (src/interfaces/heap_v1.if and the comments of     *)
(* heap.h): allocate gives out "a contiguous region of memory" of at least *)
(* the size asked for or fails, and free gives a region back.              *)
(***************************************************************************)
EXTENDS Integers

CONSTANTS
    Hdr,        \* distance from the address of a region to its first byte
    End,        \* size of the heap
    Requests    \* sizes that are asked for

VARIABLE owned  \* address of each region given out -> its size

Region(a, n) == a + Hdr .. a + Hdr + n - 1

Init == owned = <<>>

Allocate(x, a) ==
    /\ a \notin DOMAIN owned
    /\ Region(a, x) \subseteq 0 .. End - 1
    /\ \A b \in DOMAIN owned : Region(a, x) \cap Region(b, owned[b]) = {}
    /\ owned' = [b \in DOMAIN owned \cup {a} |-> IF b = a THEN x ELSE owned[b]]

Free(a) ==
    /\ a \in DOMAIN owned
    /\ owned' = [b \in DOMAIN owned \ {a} |-> owned[b]]

Next ==
    \/ \E x \in Requests, a \in 0 .. End : Allocate(x, a)
    \/ \E a \in DOMAIN owned : Free(a)

Spec == Init /\ [][Next]_owned
=============================================================================
