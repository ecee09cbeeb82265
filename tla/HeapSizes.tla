----------------------------- MODULE HeapSizes -----------------------------
(***************************************************************************)
(* The size classes of the heap (src/modules/heap_mod/heap.cpp): what the  *)
(* search of find_index (HeapIndex) and its users (Heap) have in common.   *)
(***************************************************************************)
EXTENDS Integers, Sequences

CONSTANTS
    WordSize,   \* WORD_SIZE
    AllSizes    \* all_sizes without its last element, list index -> size

ASSUME SizesAssumption ==
    /\ WordSize \in Nat \ {0}
    /\ AllSizes \in Seq(Nat \ {0})
    /\ \A i, j \in DOMAIN AllSizes : i < j => AllSizes[i] < AllSizes[j]

Other == Len(AllSizes)                      \* OTHER_INDEX
Index == 0 .. Other

(* The size that allocate asks get_new_block_internal for, by list.        *)
ClassSize(i) == AllSizes[i + 1]

(* The first list whose blocks are large enough for size bytes.            *)
IsClass(size, i) ==
    /\ i \in Index
    /\ i = Other \/ size <= ClassSize(i)
    /\ \A j \in 0 .. i - 1 : size > ClassSize(j)
=============================================================================
