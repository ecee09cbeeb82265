-------------------------------- MODULE Heap --------------------------------
(***************************************************************************)
(* The fixed-size heap of Metta (src/modules/heap_mod/heap.cpp, behind the *)
(* closure of heap_mod.cpp).                                               *)
(*                                                                         *)
(* Memory is a chain of blocks, each a header (heap_rec_t) followed by its *)
(* bytes.  A header says how large its block is and on which free list it  *)
(* belongs, and its prev field is Magic when the block before it is in     *)
(* use and the size of that block when it is free.  List Other holds       *)
(* blocks of any size; the others hold blocks for one size class.  When no *)
(* block is found, allocate merges neighbours that are free, moves blocks  *)
(* that changed their class to list Other, and tries once more.            *)
(*                                                                         *)
(* A call runs with the heap's lock held, so only one runs at a time; the  *)
(* loops of coalesce are modelled one iteration per step.  Addresses count *)
(* from the start of the heap, where the null_malloc marker is.            *)
(***************************************************************************)
EXTENDS HeapSizes, SequencesExt

CONSTANTS
    Hdr,        \* sizeof(heap_rec_t)
    End,        \* end_address - start_address
    Space,      \* modulus of size_t
    Magic,      \* HEAP_MAGIC
    Requests    \* sizes that allocate is called with

(* The smallest rest of a block that is worth a header of its own.         *)
MinFrag == Hdr + WordSize

ASSUME HeapAssumption ==
    /\ Hdr \in Nat \ {0}
    /\ End \in Nat /\ End > 3 * Hdr         \* create_raw refuses less
    /\ Space \in Nat /\ End < Space /\ WordSize < Space
    /\ Space % WordSize = 0                 \* both are powers of 2
    /\ Magic \notin Nat
    /\ Requests \subseteq 0 .. Space - 1

VARIABLES
    rec,     \* header address -> [prev, size, index]
    lists,   \* blocks: list index -> addresses of the headers on the list
    given,   \* history: header of each block in use -> bytes asked for
    pc,      \* "idle", or where the running allocate is
    want,    \* the request of the running allocate
    ix,      \* coalesce: list that is looked at
    pos      \* coalesce: elements of it that ptr has passed

vars == <<rec, lists, given, pc, want, ix, pos>>

EndMark   == End - Hdr                         \* the end marker
Blocks == DOMAIN rec \ {EndMark}
InUse  == DOMAIN given
Record == [prev : Nat \cup {Magic}, size : Nat, index : Index]
Busy   == {"merge", "move", "retry"}        \* an allocate is under way
Stops  == {"hung", "wild", "insane"}       \* endless loop, bad access, PANIC

TypeOK ==
    /\ DOMAIN rec \subseteq Nat /\ rec \in [DOMAIN rec -> Record]
    /\ lists \in [Index -> Seq(Nat)]
    /\ DOMAIN given \subseteq Nat /\ given \in [DOMAIN given -> Nat]
    /\ pc \in {"idle"} \cup Busy \cup Stops
    /\ want \in [size : Nat, index : Index, asked : Nat]
    /\ ix \in Index
    /\ pos \in Nat

NoRequest == [size |-> 0, index |-> 0, asked |-> 0]

(* heap_t::init: one free block between the two markers.                   *)
Init ==
    /\ rec = [a \in {Hdr, EndMark} |->
                IF a = Hdr
                THEN [prev |-> Magic, size |-> End - 3 * Hdr, index |-> Other]
                ELSE [prev |-> End - 3 * Hdr, size |-> 0, index |-> 0]]
    /\ lists = [i \in Index |-> IF i = Other THEN <<Hdr>> ELSE <<>>]
    /\ given = <<>>
    /\ pc = "idle"
    /\ want = NoRequest
    /\ ix = 0
    /\ pos = 0

-----------------------------------------------------------------------------
next_block(a) == a + Hdr + rec[a].size
prev_block(a) == a - Hdr - rec[a].prev

(* BLOCK_ALIGN in size_t arithmetic: always at least one byte more.        *)
BLOCK_ALIGN(x) == (((x + WordSize) \div WordSize) * WordSize) % Space

(* HeapIndex has the search that the code does; HeapProofs shows that this *)
(* is what it returns.                                                     *)
find_index(size) == CHOOSE i \in Index : IsClass(size, i)

(* get_new_block_internal looks through list Other, first fit.             *)
FirstFit(size, i) ==
    LET list == lists[Other]
    IN  /\ i \in DOMAIN list
        /\ rec[list[i]].size >= size
        /\ \A j \in 1 .. i - 1 : rec[list[j]].size < size

NoneFits(size) == \A b \in Range(lists[Other]) : rec[b].size < size

(* The block is cut off the end of free block b.                           *)
\* Faulty: the rest of the free block keeps room for a header too many.
SplitLeft(b, size) == rec[b].size - size

LeftOver(b, size) == rec[b].size - size - Hdr

split(b, size, index, asked) ==
    LET a == b + rec[b].size - size
    IN  /\ rec[b].size - size >= MinFrag
        /\ rec' = [h \in DOMAIN rec \cup {a} |->
                     IF h = a THEN [prev |-> LeftOver(b, size),
                                    size |-> size, index |-> index]
                     ELSE IF h = b THEN [rec[b] EXCEPT !.size =
                                                         LeftOver(b, size)]
                     ELSE IF h = a + Hdr + size
                          THEN [rec[h] EXCEPT !.prev = Magic]
                          ELSE rec[h]]
        /\ given' = [h \in InUse \cup {a} |-> IF h = a THEN asked ELSE given[h]]
        /\ UNCHANGED lists

\* Faulty: leaves the tag behind the block as it was.
take_untagged(b, l, i, index, asked) ==
    /\ rec' = [rec EXCEPT ![b].index = index]
    /\ lists' = [lists EXCEPT ![l] = RemoveAt(@, i)]
    /\ given' = [h \in InUse \cup {b} |-> IF h = b THEN asked ELSE given[h]]

\* Faulty: unlinks the first block of the list.
take_front(b, l, i, index, asked) ==
    /\ rec' = [rec EXCEPT ![b].index = index, ![next_block(b)].prev = Magic]
    /\ lists' = [lists EXCEPT ![l] = Tail(@)]
    /\ given' = [h \in InUse \cup {b} |-> IF h = b THEN asked ELSE given[h]]

\* Faulty: does not unlink the block.
take_kept(b, l, i, index, asked) ==
    /\ rec' = [rec EXCEPT ![b].index = index, ![next_block(b)].prev = Magic]
    /\ given' = [h \in InUse \cup {b} |-> IF h = b THEN asked ELSE given[h]]
    /\ UNCHANGED lists

(* Block b of list l, at position i, is handed out whole.                  *)
take(b, l, i, index, asked) ==
    /\ rec' = [rec EXCEPT ![b].index = index, ![next_block(b)].prev = Magic]
    /\ lists' = [lists EXCEPT ![l] = RemoveAt(@, i)]
    /\ given' = [h \in InUse \cup {b} |-> IF h = b THEN asked ELSE given[h]]

get_new_block_internal(size, index, asked) ==
    \E i \in DOMAIN lists[Other] :
        LET b == lists[Other][i]
        IN  /\ FirstFit(size, i)
            /\ \/ split(b, size, index, asked)
               \/ /\ rec[b].size - size < MinFrag
                  /\ take(b, Other, i, index, asked)

(* heap_t::allocate up to the call of coalesce.  x = 0 yields null_malloc. *)
allocate(x) ==
    LET aligned == BLOCK_ALIGN(x)
        index   == find_index(aligned)
        size    == IF index = Other THEN aligned ELSE ClassSize(index)
    IN  /\ pc = "idle"
        /\ \/ x = 0 /\ UNCHANGED vars
           \/ /\ x # 0 /\ aligned = 0       \* SMALL_INDEX(0) is out of bounds
              /\ pc' = "wild"
              /\ UNCHANGED <<rec, lists, given, want, ix, pos>>
           \/ /\ x # 0 /\ aligned # 0
              /\ \/ /\ index # Other /\ lists[index] # <<>>
                    /\ take(Head(lists[index]), index, 1, index, x)
                 \/ /\ index = Other \/ lists[index] = <<>>
                    /\ get_new_block_internal(size, index, x)
              /\ UNCHANGED <<pc, want, ix, pos>>
           \/ /\ x # 0 /\ aligned # 0
              /\ index = Other \/ lists[index] = <<>>
              /\ NoneFits(size)
              /\ pc' = "merge"
              /\ want' = [size |-> size, index |-> index, asked |-> x]
              /\ ix' = 0
              /\ pos' = 0
              /\ UNCHANGED <<rec, lists, given>>

(* heap_t::free.  NULL and null_malloc are ignored.                        *)
free(a) ==
    /\ pc = "idle"
    /\ a \in InUse
    /\ lists' = [lists EXCEPT ![rec[a].index] = <<a>> \o @]
    /\ rec' = [rec EXCEPT ![next_block(a)].prev = rec[a].size]
    /\ given' = [h \in InUse \ {a} |-> given[h]]
    /\ UNCHANGED <<pc, want, ix, pos>>

-----------------------------------------------------------------------------
(* coalesce: first every list is searched for blocks whose predecessor is  *)
(* free too, then for blocks that are on the wrong list.                   *)

AtEnd == pos >= Len(lists[ix])
Here  == lists[ix][pos + 1]                 \* *ptr

next_list(loop, after) ==
    /\ pc = loop
    /\ AtEnd
    /\ pos' = 0
    /\ \/ ix < Other /\ ix' = ix + 1 /\ UNCHANGED pc
       \/ ix = Other /\ ix' = 0 /\ pc' = after
    /\ UNCHANGED <<rec, lists, given, want>>

\* Faulty: also steps over the block that takes the place of a merged one.
SkipMerged == pos + 1

AfterMerged == pos

\* Faulty: does not move on when nothing is merged.
StayAtBlock == pos

AfterBlock == pos + 1

(* coalesce_merge_blocks: the block joins the free one before it.          *)
coalesce_merge_blocks ==
    /\ pc = "merge"
    /\ ~ AtEnd
    /\ LET b      == Here
           before == prev_block(b)
           joined == rec[before].size + rec[b].size + Hdr
       IN  \/ /\ rec[b].prev # Magic
              /\ before \in Blocks /\ next_block(before) = b
              /\ rec' = [h \in DOMAIN rec \ {b} |->
                           IF h = before
                           THEN [rec[h] EXCEPT !.size = joined]
                           ELSE IF h = next_block(b)
                           THEN [rec[h] EXCEPT !.prev = joined]
                           ELSE rec[h]]
              /\ lists' = [lists EXCEPT ![ix] = RemoveAt(@, pos + 1)]
              /\ pos' = AfterMerged
              /\ UNCHANGED pc
           \/ /\ rec[b].prev # Magic
              /\ before \in Blocks => next_block(before) # b
              /\ pc' = "insane"
              /\ UNCHANGED <<rec, lists, pos>>
           \/ /\ rec[b].prev = Magic
              /\ pos' = AfterBlock
              /\ UNCHANGED <<rec, lists, pc>>
    /\ UNCHANGED <<given, want, ix>>

\* Faulty: without the "hack", a block goes to the list of the next larger
\* class.
ToItsClass(b) == find_index(rec[b].size)

NewList(b) == Other

(* coalesce_move_blocks.  A block that is moved from the head of list      *)
(* Other is its head again, and ptr still points there: the loop does not  *)
(* end.                                                                    *)
coalesce_move_blocks ==
    /\ pc = "move"
    /\ ~ AtEnd
    /\ LET b  == Here
           to == NewList(b)
       IN  \/ /\ find_index(rec[b].size) = rec[b].index
              /\ pos' = AfterBlock
              /\ UNCHANGED <<rec, lists, pc>>
           \/ /\ find_index(rec[b].size) # rec[b].index
              /\ ix # to
              /\ lists' = [lists EXCEPT ![ix] = RemoveAt(@, pos + 1),
                                        ![to] = <<b>> \o @]
              /\ rec' = [rec EXCEPT ![b].index = to]
              /\ UNCHANGED <<pos, pc>>
           \/ /\ find_index(rec[b].size) # rec[b].index
              /\ ix = to /\ pos > 0
              /\ lists' = [lists EXCEPT ![ix] = <<b>> \o RemoveAt(@, pos + 1)]
              /\ rec' = [rec EXCEPT ![b].index = to]
              /\ pos' = pos + 1
              /\ UNCHANGED pc
           \/ /\ find_index(rec[b].size) # rec[b].index
              /\ ix = to /\ pos = 0
              /\ pc' = "hung"
              /\ UNCHANGED <<rec, lists, pos>>
    /\ UNCHANGED <<given, want, ix>>

(* The second try of get_new_block; without success heap_v1_allocate       *)
(* raises no_memory (or returns NULL).                                     *)
retry ==
    /\ pc = "retry"
    /\ \/ get_new_block_internal(want.size, want.index, want.asked)
       \/ NoneFits(want.size) /\ UNCHANGED <<rec, lists, given>>
    /\ pc' = "idle"
    /\ want' = NoRequest
    /\ UNCHANGED <<ix, pos>>

Halted == pc \in Stops /\ UNCHANGED vars

Coalescing ==
    \/ next_list("merge", "move")
    \/ next_list("move", "retry")
    \/ coalesce_merge_blocks
    \/ coalesce_move_blocks
    \/ retry

Next ==
    \/ \E x \in Requests : allocate(x)
    \/ \E a \in InUse : free(a)
    \/ Coalescing
    \/ Halted

(* A call runs on until it returns: nothing in it waits.                   *)
Spec == Init /\ [][Next]_vars /\ WF_vars(Coalescing)

-----------------------------------------------------------------------------
(* Properties.                                                             *)

FreeBlocks == Blocks \ InUse

Bytes(a) == a + Hdr .. a + Hdr + rec[a].size - 1

(* Blocks cover the heap without gap or overlap from the first header to   *)
(* the end marker, however they are split and merged: next_block leads     *)
(* from every block to the next header.                                    *)
Tiled ==
    /\ TypeOK
    /\ Hdr \in Blocks /\ EndMark \in DOMAIN rec
    /\ InUse \subseteq Blocks
    /\ \A a \in Blocks :
          /\ next_block(a) \in DOMAIN rec
          /\ \A h \in DOMAIN rec : h <= a \/ next_block(a) <= h

(* The boundary tags, on which coalesce_merge_blocks relies to find the    *)
(* block before a free one: the header behind a block holds Magic or the   *)
(* size of the block, and the PANIC "Out of sanity!" does not happen.      *)
TagsExact ==
    /\ pc # "insane"
    /\ \A a \in Blocks :
          rec[next_block(a)].prev = IF a \in InUse THEN Magic ELSE rec[a].size

(* The free lists hold every free block exactly once, on the list its      *)
(* index names, and nothing else.                                          *)
ListsExact ==
    /\ \A i \in Index : Range(lists[i]) = {b \in FreeBlocks : rec[b].index = i}
    /\ \A i \in Index : IsInjective(lists[i])

(* A block with the index of a class is as large as the class, so that     *)
(* allocate may take the first block of such a list unseen, and every      *)
(* block handed out has room for more bytes than were asked for.           *)
SizesServed ==
    /\ \A b \in Blocks :
          rec[b].index # Other => rec[b].size >= ClassSize(rec[b].index)
    /\ \A a \in InUse : given[a] < rec[a].size

(* After the first loop of coalesce no two neighbours are free, in which   *)
(* order ever the lists were searched.                                     *)
Unfragmented ==
    pc \in {"move", "retry"} =>
        \A a \in FreeBlocks : next_block(a) \notin FreeBlocks

(* What clients rely on (AbstractHeap): memory given to a client lies in   *)
(* the heap, is as large as asked for, and is nobody else's until freed.   *)
Promise == INSTANCE AbstractHeap WITH owned <- given
KeepsPromise == Promise!Spec

(* The loops of coalesce end although they change the lists they walk: the *)
(* merging of all lists and the moving of blocks down to the last list,    *)
(* and, once the head of the last list is passed, the whole call.          *)
CoalesceEnds ==
    /\ pc = "merge" ~> pc = "move" /\ ix = Other
    /\ (pc = "move" /\ ix = Other /\ pos > 0) ~> pc = "idle"

(* What heap_v1 says of allocate: it returns an address or raises          *)
(* no_memory.  coalesce_move_blocks takes the head of the last list off    *)
(* and puts it back for ever when it is the size of a smaller class.       *)
CallsReturn == pc \in Busy ~> pc = "idle"
=============================================================================
