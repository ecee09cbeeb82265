----------------------------- MODULE HeapIndex -----------------------------
(***************************************************************************)
(* heap_t::find_index (src/modules/heap_mod/heap.cpp): the free list for   *)
(* blocks of a size.  The first SmallBlocks lists are found by division,   *)
(* the next ones by halving a window of the table until it is short and    *)
(* searching the rest from below.                                          *)
(***************************************************************************)
EXTENDS HeapSizes

CONSTANTS
    SmallBlocks,  \* SMALL_BLOCKS: lists for one, two, ... words
    MaxSize       \* largest size asked for

ASSUME TableAssumption ==
    /\ SmallBlocks \in Nat \ {0} /\ SmallBlocks < Other
    /\ \A i \in 0 .. SmallBlocks - 1 : ClassSize(i) = (i + 1) * WordSize
    /\ MaxSize \in Nat

VARIABLES
    wanted,       \* size, the argument
    lo, hi, mi,
    found,        \* the result
    step          \* where the search is

searchVars == <<wanted, lo, hi, mi, found, step>>

SearchTypeOK ==
    /\ wanted \in 1 .. MaxSize
    /\ lo \in 0 .. Other - 1 /\ hi \in 0 .. Other - 1
    /\ mi \in 0 .. Other
    /\ found \in 0 .. Other
    /\ step \in {"start", "halve", "scan", "done"}

SearchInit ==
    /\ wanted \in 1 .. MaxSize
    /\ lo = SmallBlocks /\ hi = Other - 1
    /\ mi = 0
    /\ found = 0
    /\ step = "start"

SMALL_LIMIT == ClassSize(SmallBlocks - 1)
LARGE_LIMIT == ClassSize(Other - 1)

SMALL_INDEX(x) == (x - 1) \div WordSize

Return(i) == found' = i /\ step' = "done" /\ UNCHANGED <<wanted, lo, hi, mi>>

choose_search ==
    /\ step = "start"
    /\ \/ wanted <= SMALL_LIMIT /\ Return(SMALL_INDEX(wanted))
       \/ wanted > SMALL_LIMIT /\ wanted > LARGE_LIMIT /\ Return(Other)
       \/ /\ wanted > SMALL_LIMIT /\ wanted <= LARGE_LIMIT
          /\ step' = "halve"
          /\ UNCHANGED <<wanted, lo, hi, mi, found>>

\* Faulty: halves on when two entries are left.
WindowOfTwo == lo < hi

WindowLong == lo + 4 < hi

\* Faulty: gives up the entry that was compared.
BelowMiddle(m) == m - 1

NewHi(m) == m

halve ==
    /\ step = "halve"
    /\ \/ /\ WindowLong
          /\ LET m == (lo + hi) \div 2
             IN  \/ wanted = ClassSize(m) /\ Return(m)
                 \/ /\ wanted < ClassSize(m)
                    /\ hi' = NewHi(m) /\ mi' = m
                    /\ UNCHANGED <<wanted, lo, found, step>>
                 \/ /\ wanted > ClassSize(m)
                    /\ lo' = m /\ mi' = m
                    /\ UNCHANGED <<wanted, hi, found, step>>
       \/ /\ ~ WindowLong
          /\ mi' = lo
          /\ step' = "scan"
          /\ UNCHANGED <<wanted, lo, hi, found>>

scan ==
    /\ step = "scan"
    /\ \/ mi <= hi /\ wanted <= ClassSize(mi) /\ Return(mi)
       \/ /\ mi <= hi /\ wanted > ClassSize(mi)
          /\ mi' = mi + 1
          /\ UNCHANGED <<wanted, lo, hi, found, step>>
       \/ mi > hi /\ Return(Other)

Done == step = "done" /\ UNCHANGED searchVars

Search == choose_search \/ halve \/ scan
SearchNext == Search \/ Done

(* The search is straight-line code that nothing interrupts.               *)
SearchSpec == SearchInit /\ [][SearchNext]_searchVars /\ WF_searchVars(Search)

-----------------------------------------------------------------------------
(* find_index returns the first list whose class is not smaller than the   *)
(* size, for sizes on, just above and between the entries of the table:    *)
(* what Heap takes find_index to be.                                       *)
FindsClass == step = "done" => IsClass(wanted, found)

(* The loop of the halving search ends for every size.                     *)
SearchEnds == <>(step = "done")
=============================================================================
