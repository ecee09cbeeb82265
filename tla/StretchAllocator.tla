------------------------- MODULE StretchAllocator -------------------------
(***************************************************************************)
(* The virtual memory allocator of Metta                                   *)
(* (src/modules/tcb/stretch_allocator_mod/stretch_allocator_mod.cpp) with  *)
(* the page table entries that mmu_mod keeps for its stretches             *)
(* (src/modules/tcb/platform/pc99/mmu_mod/mmu_mod.cpp).                    *)
(*                                                                         *)
(* A server_state_t holds a list of free regions of virtual memory.  The   *)
(* list starts with one region, and vm_alloc only shrinks, removes and     *)
(* splits elements in place, so it is always sorted by address; it is      *)
(* modelled by the set of its elements, and "first in the list" by the     *)
(* least start.  The system allocator and the nailed allocators made from  *)
(* it share the SID table.  Addresses and sizes are counted in pages; all  *)
(* regions have page_width = PAGE_WIDTH.                                   *)
(***************************************************************************)
EXTENDS Integers, Sequences, FiniteSets

CONSTANTS
    Pages,       \* pages of the virtual address space (0x100000)
    SysPages,    \* SYSALLOC_VA_SIZE: pages given to a nailed allocator
    SidMax,      \* SID_MAX
    TableSpan,   \* pages one L2 table maps (N_L2_ENTRIES)
    TableMax,    \* L2 tables mmu_mod has room for (l2_max)
    Entries,     \* bootinfo's memory map: a sequence of [start, len, type]
    BootMapped,  \* pages that enter_mappings mapped before
    System,      \* the system stretch allocator
    Nailed,      \* the nailed allocators create_nailed can make
    None,        \* no stretch
    AnyAddress,         \* ANY_ADDRESS, or any other odd address
    Sizes,       \* sizes of requests
    Starts       \* addresses of requests: AnyAddress or [page, inside]

Allocators == Nailed \cup {System}
Page       == 0 .. Pages - 1
Sid        == 0 .. SidMax - 1
VirtRegion == [start : Page, n : 1 .. Pages]
Stretch    == [base : Page, n : Nat, by : Allocators, over : BOOLEAN]

(* A requested address: page is the page it lies in, inside whether it is  *)
(* an even address past the beginning of that page.                        *)
Address == {AnyAddress} \cup [page : Page, inside : BOOLEAN]

(* The two types of memory map entries that are taken out of the pool.     *)
\* Faulty: forgets the bootinfo page.
NonFreeOnly == {"non_free"}

ReservedTypes == {"non_free", "bootinfo"}

ASSUME SizeAssumption ==
    /\ Pages \in Nat \ {0}
    /\ SysPages \in 1 .. Pages - 1
    /\ SidMax \in Nat
    /\ TableSpan \in Nat \ {0}
    /\ TableMax \in Nat
    /\ BootMapped \subseteq Page
    /\ Entries \in Seq([start : Address, len : Nat, type : STRING])
    /\ Sizes \subseteq 0 .. Pages - 1
    /\ Starts \subseteq Address
    /\ System \notin Nailed
    /\ None \notin Sid \cup Stretch
    /\ AnyAddress \notin [page : Page, inside : BOOLEAN]

-----------------------------------------------------------------------------
VARIABLES
    todo,      \* next memory map entry that create has to look at
    status,    \* "boot", "up", or how the system stopped
    pool,      \* allocator -> free regions of its server_state_t
    live,      \* allocators that exist
    tab,       \* stretch_tab: SID -> stretch, None where the SID is free
    rights,    \* SIDs the allocator's protection domain has rights on
    pdid,      \* has finish_init set the protection domain?
    tables,    \* L1 entries that have an L2 table
    shadow,    \* page -> SID in its shadow entry
    present,   \* pages whose entry is marked present
    frames,    \* physical frames obtained from the frame allocator
    reserved,  \* history: pages taken out of the pool by create
    lost       \* history: pages vm_alloc gave to calls that then failed

vars == <<todo, status, pool, live, tab, rights, pdid, tables, shadow,
          present, frames, reserved, lost>>

mmu == <<tables, shadow, present>>

(* The byte addresses of a range are computed in 32 bits and wrap.         *)
Span(start, n) == {(start + i) % Pages : i \in 0 .. n - 1}

Stops == {"debug_stop", "out_of_memory", "wild"}

TypeOK ==
    /\ todo \in Nat
    /\ status \in {"boot", "up"} \cup Stops
    /\ pool \in [Allocators -> SUBSET VirtRegion]
    /\ live \subseteq Allocators
    /\ tab \in [Sid -> Stretch \cup {None}]
    /\ rights \subseteq Sid
    /\ pdid \in BOOLEAN
    /\ tables \subseteq {p \div TableSpan : p \in Page}
    /\ shadow \in [Page -> Sid \cup {None}]
    /\ present \subseteq Page
    /\ frames \in Nat
    /\ reserved \subseteq Page
    /\ lost \subseteq Page

(* stretch_allocator_module_v1_create has made the one region that covers  *)
(* the whole address space; mmu_mod has entered the boot mappings with     *)
(* SID_NULL.  The SID table, which create clears last, is not used before. *)
Init ==
    /\ todo = 1
    /\ status = IF Entries = <<>> THEN "up" ELSE "boot"
    /\ pool = [a \in Allocators |->
                 IF a = System THEN {[start |-> 0, n |-> Pages]} ELSE {}]
    /\ live = {System}
    /\ tab = [s \in Sid |-> None]
    /\ rights = {}
    /\ pdid = FALSE
    /\ tables = {p \div TableSpan : p \in BootMapped}
    /\ shadow = [p \in Page |-> None]
    /\ present = BootMapped
    /\ frames = 0
    /\ reserved = {}
    /\ lost = {}

Stop(why) ==
    /\ status' = why
    /\ UNCHANGED <<todo, pool, live, tab, rights, pdid, mmu, frames,
                   reserved, lost>>

-----------------------------------------------------------------------------
(* vm_alloc.                                                               *)

StartPage(start) ==
    IF start.inside THEN (start.page + 1) % Pages ELSE start.page

(* The regions that can serve a request, and the first of them.            *)
\* Faulty: forgets that the request must end inside the region.
SuitableStart(a, n, start) ==
    IF start = AnyAddress
    THEN {rg \in pool[a] : n <= rg.n}
    ELSE {rg \in pool[a] : StartPage(start) \in rg.start .. rg.start + rg.n}

Suitable(a, n, start) ==
    IF start = AnyAddress
    THEN {rg \in pool[a] : n <= rg.n}
    ELSE {rg \in pool[a] : /\ StartPage(start) >= rg.start
                           /\ StartPage(start) + n <= rg.start + rg.n}

Chosen(a, n, start, rg) ==
    /\ rg \in Suitable(a, n, start)
    /\ \A other \in Suitable(a, n, start) : rg.start <= other.start

Place(start, rg) == IF start = AnyAddress THEN rg.start ELSE StartPage(start)

(* What is left of a region when n pages from page p are taken out of it:  *)
(* a shorter region, none, or two when they come from the middle.          *)
\* Faulty: loses the pages behind the request.
CarveFront(rg, p, n) ==
    {[start |-> rg.start, n |-> p - rg.start]} \cap VirtRegion

Carve(rg, p, n) ==
    {[start |-> rg.start, n |-> p - rg.start],
     [start |-> p + n, n |-> rg.start + rg.n - (p + n)]} \cap VirtRegion

Middle(rg, p, n) == p # rg.start /\ p + n # rg.start + rg.n

(* The pool after n pages at page p have been taken from region rg.        *)
Without(a, rg, p, n) == (pool[a] \ {rg}) \cup Carve(rg, p, n)

(* vm_alloc finds page p for the request.                                  *)
vm_alloc(a, n, start, rg, p) ==
    /\ Chosen(a, n, start, rg)
    /\ start # AnyAddress => ~ start.inside
    /\ p = Place(start, rg)

(* vm_alloc returns false.                                                 *)
NoRegion(a, n, start) == pool[a] # {} /\ Suitable(a, n, start) = {}

(* An address inside a page is refused with debug_stop, but only after a   *)
(* region was found for the page behind it.                                *)
Misplaced(a, n, start) ==
    start # AnyAddress /\ start.inside /\ Suitable(a, n, start) # {}

(* next() of an empty list is a null pointer, which vm_alloc follows; so   *)
(* is the region made for a split when the heap is full.                   *)
VmWild(a, n, start) ==
    \/ pool[a] = {}
    \/ \E rg \in pool[a] : \E p \in Page : /\ vm_alloc(a, n, start, rg, p)
                                           /\ Middle(rg, p, n)

-----------------------------------------------------------------------------
(* create, second half: one memory map entry per step.  "Allocate already  *)
(* used space" takes entries of two types out of the pool.                 *)
create ==
    /\ status = "boot"
    /\ LET e == Entries[todo]
       IN  \/ /\ \/ /\ e.type \notin ReservedTypes
                    /\ UNCHANGED <<pool, reserved>>
                 \/ /\ e.type \in ReservedTypes
                    /\ \E rg \in pool[System] : \E p \in Page :
                         /\ vm_alloc(System, e.len, e.start, rg, p)
                         /\ pool' = [pool EXCEPT ![System] =
                                        Without(System, rg, p, e.len)]
                         /\ reserved' = reserved \cup Span(p, e.len)
              /\ todo' = todo + 1
              /\ status' = IF todo = Len(Entries) THEN "up" ELSE "boot"
              /\ UNCHANGED <<live, tab, rights, pdid, mmu, frames, lost>>
           \/ /\ e.type \in ReservedTypes
              /\ \/ NoRegion(System, e.len, e.start)
                 \/ Misplaced(System, e.len, e.start)
              /\ Stop("debug_stop")
           \/ /\ e.type \in ReservedTypes
              /\ VmWild(System, e.len, e.start)
              /\ Stop("wild")

(* stretch_allocator_module_v1_finish_init.                                *)
finish_init ==
    /\ status = "up"
    /\ pdid' = TRUE
    /\ UNCHANGED <<todo, status, pool, live, tab, rights, mmu, frames,
                   reserved, lost>>

-----------------------------------------------------------------------------
(* create_stretch: alloc_sid takes the lowest free SID.  When there is     *)
(* none it returns SID_NULL, and register_sid writes outside stretch_tab.  *)
FreeSids == {s \in Sid : tab[s] = None}

alloc_sid(s) == s \in FreeSids /\ \A t \in FreeSids : s <= t

create_stretch(s, a, p, n, over) ==
    /\ alloc_sid(s)
    /\ tab' = [tab EXCEPT ![s] = [base |-> p, n |-> n, by |-> a,
                                  over |-> over]]

(* add_page for the pages p .. p+n-1: page i of them gets an entry unless  *)
(* it or an earlier one needs an L2 table and there is no table left.      *)
TableOf(p) == (p % Pages) \div TableSpan

NewTables(p, i) == {TableOf(p + j) : j \in 0 .. i} \ tables

Entered(p, n) ==
    {i \in 0 .. n - 1 :
        Cardinality(tables) + Cardinality(NewTables(p, i)) <= TableMax}

(* mmu_v1.add_range (the entries are not valid) and add_mapped_range (they *)
(* are).  A failure is logged and the rest of the range is skipped.        *)
add_pages(s, p, n, valid) ==
    LET done == {(p + i) % Pages : i \in Entered(p, n)}
    IN  /\ tables' = tables \cup {TableOf(q) : q \in done}
        /\ shadow' = [q \in Page |-> IF q \in done THEN s ELSE shadow[q]]
        /\ present' = IF valid THEN present \cup done ELSE present \ done

(* mmu_v1.update_range stops at a page that has no L2 table.               *)
\* Faulty: leaves the SID of the last page alone.
update_short(s, p, n) ==
    /\ shadow' = [q \in Page |-> IF q \in Span(p, n - 1) THEN s ELSE shadow[q]]
    /\ present' = present \cup Span(p, n)
    /\ UNCHANGED tables

update_range(s, p, n) ==
    /\ shadow' = [q \in Page |-> IF q \in Span(p, n) THEN s ELSE shadow[q]]
    /\ present' = present \cup Span(p, n)
    /\ UNCHANGED tables

Updatable(p, n) == \A q \in Span(p, n) : TableOf(q) \in tables

(* set_default_rights; the nailed allocators' pdid stays NULL_PDID.        *)
set_default_rights(s, a) ==
    rights' = IF a = System /\ pdid THEN rights \cup {s} ELSE rights

-----------------------------------------------------------------------------
(* stretch_allocator_v1_nailed_create: frames first, then pages, then the  *)
(* stretch.  The frame allocator may refuse; a request for nothing is      *)
(* always refused.                                                         *)

\* Faulty: keeps the frames when there is no stretch to put them in.
FramesKept(n) == frames' = frames + n

(* frames->allocate followed by frames->free on the failure paths.         *)
FramesReturned(n) == UNCHANGED frames

nailed_create(a, n) ==
    /\ status = "up"
    /\ a \in live \ {System}
    /\ \/ UNCHANGED vars                    \* no frames
       \/ /\ n > 0
          /\ NoRegion(a, n, AnyAddress)
          /\ FramesReturned(n)
          /\ UNCHANGED <<todo, status, pool, live, tab, rights, pdid, mmu,
                         reserved, lost>>
       \/ /\ n > 0                          \* prints the head's null base
          /\ NoRegion(a, n, AnyAddress) \/ VmWild(a, n, AnyAddress)
          /\ Stop("wild")
       \/ /\ n > 0
          /\ \E rg \in pool[a] : \E p \in Page :
               /\ vm_alloc(a, n, AnyAddress, rg, p)
               /\ pool' = [pool EXCEPT ![a] = Without(a, rg, p, n)]
               /\ \/ \E s \in Sid :
                       /\ create_stretch(s, a, p, n, FALSE)
                       /\ add_pages(s, p, n, TRUE)
                       /\ set_default_rights(s, a)
                       /\ frames' = frames + n
                       /\ UNCHANGED lost
                  \/ /\ FramesReturned(n)   \* no heap: the pages stay taken
                     /\ lost' = lost \cup Span(p, n)
                     /\ UNCHANGED <<tab, rights, mmu>>
          /\ UNCHANGED <<todo, status, live, pdid, reserved>>
       \/ /\ n > 0                          \* SID_NULL, or no heap
          /\ Suitable(a, n, AnyAddress) # {}
          /\ \E why \in {"wild", "out_of_memory"} : Stop(why)

(* create_list, create_at, clone, destroy_stretch and destroy do nothing   *)
(* in a nailed allocator and are null pointers in the system allocator.    *)
stubs(a) ==
    /\ status = "up"
    /\ a \in live
    /\ \/ a # System /\ UNCHANGED vars
       \/ a = System /\ Stop("wild")

(* system_stretch_allocator_v1_create_nailed.                              *)
create_nailed(a) ==
    /\ status = "up"
    /\ a \notin live
    /\ \/ /\ \E rg \in pool[System] : \E p \in Page :
               /\ vm_alloc(System, SysPages, AnyAddress, rg, p)
               /\ pool' = [pool EXCEPT
                             ![System] = Without(System, rg, p, SysPages),
                             ![a] = {[start |-> p, n |-> SysPages]}]
          /\ live' = live \cup {a}
          /\ UNCHANGED <<todo, status, tab, rights, pdid, mmu, frames,
                         reserved, lost>>
       \/ /\ NoRegion(System, SysPages, AnyAddress)
          /\ Stop("debug_stop")
       \/ Stop("wild")                      \* an empty list, or no heap

(* system_stretch_allocator_v1_create_over.  When vm_alloc fails the whole *)
(* range is assumed to be allocated, and only its entries are updated.     *)
Overlaid(start) == IF start = AnyAddress THEN Pages - 1 ELSE start.page

create_over(n, start) ==
    /\ status = "up"
    /\ \/ /\ \E rg \in pool[System] : \E p \in Page : \E s \in Sid :
               /\ vm_alloc(System, n, start, rg, p)
               /\ pool' = [pool EXCEPT ![System] = Without(System, rg, p, n)]
               /\ create_stretch(s, System, p, n, FALSE)
               /\ add_pages(s, p, n, FALSE)
               /\ set_default_rights(s, System)
          /\ UNCHANGED <<todo, status, live, pdid, frames, reserved, lost>>
       \/ /\ NoRegion(System, n, start)
          /\ Updatable(Overlaid(start), n)
          /\ \E s \in Sid :
               /\ create_stretch(s, System, Overlaid(start), n, TRUE)
               /\ update_range(s, Overlaid(start), n)
               /\ set_default_rights(s, System)
          /\ UNCHANGED <<todo, status, pool, live, pdid, frames, reserved,
                         lost>>
       \/ /\ \/ Misplaced(System, n, start)
             \/ /\ NoRegion(System, n, start)
                /\ ~ Updatable(Overlaid(start), n)
          /\ Stop("debug_stop")
       \/ /\ VmWild(System, n, start)
          /\ Stop("wild")
       \/ /\ pool[System] # {}              \* SID_NULL, or no heap
          /\ ~ Misplaced(System, n, start)
          /\ \E why \in {"wild", "out_of_memory"} : Stop(why)

Halted == status \in Stops /\ UNCHANGED vars

Next ==
    \/ create
    \/ finish_init
    \/ \E a \in Nailed, n \in Sizes : nailed_create(a, n)
    \/ \E a \in Allocators : stubs(a)
    \/ \E a \in Nailed : create_nailed(a)
    \/ \E n \in Sizes, start \in Starts : create_over(n, start)
    \/ Halted

Spec == Init /\ [][Next]_vars

-----------------------------------------------------------------------------
(* Properties.                                                             *)

UsedSids == {s \in Sid : tab[s] # None}

StretchPages(s) == Span(tab[s].base, tab[s].n)

(* Stretches whose pages came out of a pool, and the ones with frames.     *)
OwnSids    == {s \in UsedSids : ~ tab[s].over}
NailedSids == {s \in UsedSids : tab[s].by # System}

FreePages(a) == UNION {Span(rg.start, rg.n) : rg \in pool[a]}

(* vm_alloc never hands out a page twice: the free regions of all pools,   *)
(* the pages reserved at boot, those of failed calls and the stretches     *)
(* made from a pool are pairwise disjoint, whatever was split, removed or  *)
(* carved out for a nailed allocator.                                      *)
AllocationsExclusive ==
    /\ \A a, b \in Allocators : \A rg \in pool[a], other \in pool[b] :
          \/ a = b /\ rg = other
          \/ Span(rg.start, rg.n) \cap Span(other.start, other.n) = {}
    /\ \A s, t \in OwnSids : s = t \/ StretchPages(s) \cap StretchPages(t) = {}
    /\ \A a \in Allocators :
          /\ FreePages(a) \cap (reserved \cup lost) = {}
          /\ \A s \in OwnSids : FreePages(a) \cap StretchPages(s) = {}

(* No page disappears: each one is free in some pool, reserved, in a       *)
(* stretch made from a pool, or was given to a nailed_create that found no *)
(* heap for its stretch.                                                   *)
PagesAccounted ==
    /\ TypeOK
    /\ Page = reserved \cup lost \cup (UNION {StretchPages(s) : s \in OwnSids})
                                \cup (UNION {FreePages(a) : a \in Allocators})

(* As long as the L2 tables have not run out, the shadow entry of a page,  *)
(* from which the fault handler learns the stretch of an address, names    *)
(* the stretch created last over that page.                                *)
ShadowLatest ==
    Cardinality(tables) < TableMax =>
        \A p \in Page :
            LET over == {s \in UsedSids : p \in StretchPages(s)}
            IN  \/ over = {} /\ shadow[p] = None
                \/ shadow[p] \in over /\ \A s \in over : s <= shadow[p]

(* "stretches are backed by physical memory on creation": every frame the  *)
(* nailed allocators took backs one page of a stretch, also after failed   *)
(* calls, and those pages are mapped unless the L2 tables ran out.         *)
NailedBacked ==
    LET pages == UNION {StretchPages(s) : s \in NailedSids}
    IN  /\ frames = Cardinality(pages)
        /\ Cardinality(tables) < TableMax => pages \subseteq present

(* The pages of the memory map's entries for the bootinfo page and for     *)
(* memory that is not free, two of the uses create's comment lists.        *)
ClaimedPages ==
    UNION {Span(Entries[i].start.page, Entries[i].len) :
             i \in {j \in 1 .. Len(Entries) :
                     /\ Entries[j].type \in {"non_free", "bootinfo"}
                     /\ Entries[j].start # AnyAddress}}

(* No call unmaps a page that those entries claim, although all other      *)
(* pages mapped at boot can be given to a stretch: over claimed pages      *)
(* create_over updates "only with the new stretch ID / rights", and        *)
(* nobody's vm_alloc reaches them.                                         *)
ClaimedPagesKept == [][ClaimedPages \cap present \subseteq present']_vars

(* What create's comment says: the space that is in use when the allocator *)
(* starts (boot pages, modules, MMU state and heap) is allocated, so no    *)
(* call unmaps it.  create passes over all entries but the two types.      *)
BootMappingsKept == [][BootMapped \cap present \subseteq present']_vars
=============================================================================
