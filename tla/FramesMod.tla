----------------------------- MODULE FramesMod -----------------------------
(***************************************************************************)
(* The physical frame allocator of Metta                                   *)
(* (src/modules/tcb/frames_mod/frames_mod.cpp).                            *)
(*                                                                         *)
(* Physical memory is the memory map Mmap that the boot code leaves in the *)
(* bootinfo page.  Every entry of it that is not of type "non_free" is a   *)
(* region (frames_module_v1::state_t) with a table of counters: the        *)
(* counter of a frame is the number of free frames from that frame to the  *)
(* end of its free run, or 0 when it is allocated.  The ramtab of mmu_mod  *)
(* records who owns each frame of RAM.  Each domain has a client record    *)
(* with its quota and the list of the ranges it was given.                 *)
(*                                                                         *)
(* Addresses and sizes are counted in physical frames.  A frame width is   *)
(* represented by its granule, 2^(frame_width - FRAME_WIDTH) frames.  All  *)
(* regions are created with frame_width = FRAME_WIDTH, so a logical frame  *)
(* of a region is a physical frame, and mark_frames_used stores that same  *)
(* width in the ramtab whatever width was asked for; the ramtab's width    *)
(* field is therefore constant and left out.                               *)
(***************************************************************************)
EXTENDS Integers, Sequences, FiniteSets

CONSTANTS
    Mmap,        \* bootinfo's memory map: a sequence of [start, len, type]
    System,      \* the system's own client record (OWNER_SYSTEM)
    Domains,     \* the domains create_client may be called for
    None,        \* OWNER_NONE
    BootMapped,  \* RAM frames mmu_mod has mapped for the system at boot
    Word,        \* modulus of the uint32_t counters
    Space,       \* frames in the address space: modulus of byte sizes
    Sizes,       \* byte counts of requests, in frames
    Granules,    \* frame widths of requests, as frames
    Quotas,      \* granted, extra and initial frame counts of new clients
    Addresses,   \* frame addresses given to allocate_range and free
    MaxRanges,   \* list elements the heap has room for, per client
    Mappable,    \* frames that mmu_mod is asked to map
    HeadStarts,  \* values the unset start field of a list head may hold
    SysLists,    \* values the unset region_list of the system may hold
    MaxCount     \* bound of the checked counters and of the system's account

Clients == Domains \cup {System}

(* Types of memory map entries: BIOS types, and the overlays use_memory    *)
(* appends for memory that is already in use.                              *)
RamTypes     == {"free", "acpi_reclaimable"}
OverlayTypes == {"framebuffer", "loader_reclaimable", "loaded_module",
                 "info_page", "non_free", "bootinfo", "system_data"}
EntryTypes   == RamTypes \cup OverlayTypes \cup
                {"reserved", "acpi_nvs", "bad_memory", "disabled"}

(* The frames of memory map entry m.                                       *)
Span(m) == Mmap[m].start .. (Mmap[m].start + Mmap[m].len - 1)

(* frames_module_v1_create builds one region per entry not "non_free", in  *)
(* map order; only RAM has attrs_regular and a ramtab.                     *)
Region    == {m \in DOMAIN Mmap : Mmap[m].type # "non_free"}
RamRegion == {m \in DOMAIN Mmap : Mmap[m].type \in RamTypes}
RamFrame  == UNION {Span(m) : m \in RamRegion}

(* Memory that was in use before the allocator was created.                *)
InUseAtBoot ==
    UNION {Span(m) : m \in {e \in DOMAIN Mmap : Mmap[e].type \in OverlayTypes}}

(* RAM entries of the BIOS map do not overlap.  use_memory accepts only    *)
(* memory inside a free entry, so its overlays lie inside that entry and   *)
(* come after it.                                                          *)
ASSUME MmapAssumption ==
    /\ Mmap \in Seq([start : Nat, len : Nat \ {0}, type : EntryTypes])
    /\ Len(Mmap) > 0
    /\ \A m, e \in RamRegion : m # e => Span(m) \cap Span(e) = {}
    /\ \A m \in RamRegion, e \in Region \ RamRegion :
          Span(m) \cap Span(e) # {} => m < e /\ Span(e) \subseteq Span(m)

ASSUME WidthAssumption ==
    /\ Space \in Nat
    /\ Word \in Nat
    /\ \A m \in DOMAIN Mmap : Mmap[m].start + Mmap[m].len <= Space
    /\ Space < Word

ASSUME ParameterAssumption ==
    /\ System \notin Domains
    /\ None \notin Clients
    /\ BootMapped \subseteq RamFrame
    /\ Sizes \subseteq 0 .. Space
    /\ Granules \subseteq Nat \ {0}
    /\ Quotas \subseteq 0 .. Space
    /\ Addresses \subseteq Nat
    /\ MaxRanges \in Nat
    /\ Mappable \subseteq RamFrame
    /\ HeadStarts \subseteq Nat
    /\ SysLists \subseteq {"null", "wild"}
    /\ MaxCount \in Nat

-----------------------------------------------------------------------------
VARIABLES
    free,     \* region -> frame index -> frame_st::free
    ramtab,   \* RAM frame -> [owner, state]
    client,   \* client -> frame_allocator_v1::state_t, live or not
    heap,     \* has finish_init given the allocator a heap?
    sysList,  \* what the system client's unset region_list holds
    todo,     \* next memory map entry create has to look at
    status,   \* "boot", "up", or how the system stopped
    held      \* history: frames a client was told it has and has not freed

vars == <<free, ramtab, client, heap, sysList, todo, status, held>>

(* PANIC with its reason, or an access outside any object.                 *)
Stops == {"out_of_memory", "misuse", "unimplemented", "wild"}

Unused == "unused"
Mapped == "mapped"

NoClient == [live |-> FALSE, alloc |-> 0, guaranteed |-> 0, extra |-> 0,
             list |-> <<>>, head |-> 0]

(* region_list_t and frame_allocator_v1::state_t.                          *)
ListRange == [start : Nat, n : Nat, granule : Nat]

ClientRecord == [live : BOOLEAN, alloc : Nat, guaranteed : Nat, extra : Nat,
                 list : Seq(ListRange), head : Nat]

TypeOK ==
    /\ DOMAIN free = Region
    /\ \A r \in Region : free[r] \in [0..Mmap[r].len-1 -> Nat]
    /\ ramtab \in [RamFrame -> [owner : Clients \cup {None},
                                state : {Unused, Mapped}]]
    /\ client \in [Clients -> ClientRecord]
    /\ heap \in BOOLEAN
    /\ sysList \in SysLists
    /\ todo \in Nat
    /\ status \in {"boot", "up"} \cup Stops
    /\ held \in [Clients -> SUBSET Nat]

(* mmu_mod has cleared the ramtab and entered the boot mappings; the first *)
(* half of frames_module_v1_create has set every counter to the length of  *)
(* the rest of its region.                                                 *)
Init ==
    /\ free = [r \in Region |-> [i \in 0..Mmap[r].len-1 |-> Mmap[r].len - i]]
    /\ ramtab = [f \in RamFrame |->
                   [owner |-> IF f \in BootMapped THEN System ELSE None,
                    state |-> IF f \in BootMapped THEN Mapped ELSE Unused]]
    /\ client = [c \in Clients |->
                   IF c = System
                   THEN [NoClient EXCEPT !.live = TRUE,
                                         !.guaranteed = Word - 1,
                                         !.extra = Word - 1]
                   ELSE NoClient]
    /\ heap = FALSE
    /\ sysList \in SysLists
    /\ todo = 1
    /\ status = "boot"
    /\ held = [c \in Clients |-> {}]

-----------------------------------------------------------------------------
(* Helpers.  A call that stops the system is not followed further: the    *)
(* changes it made before the PANIC are not recorded.                      *)

Stop(why) ==
    /\ status' = why
    /\ UNCHANGED <<free, ramtab, client, heap, sysList, todo, held>>

(* get_region: the first region in list order that contains frame f.       *)
get_region(f, r) ==
    /\ r \in Region
    /\ f \in Span(r)
    /\ \A q \in Region : f \in Span(q) => r <= q

Unmanaged(f) == \A r \in Region : f \notin Span(r)

Least(a, b) == IF a <= b THEN a ELSE b

(* align_to_frame_width(bytes, frame_width) >> FRAME_WIDTH: what the       *)
(* request covers, and the same in 32-bit arithmetic.                      *)
Covering(k, g) == ((k + g - 1) \div g) * g
RoundUp(k, g)  == Covering(k, g) % Space

(* alloc_any looks for n free frames that start aligned to the granule,    *)
(* first fit: regions in list order, lowest frame first.                   *)
\* A faulty search: accepts a run one frame too short.
FitsShort(n, g) ==
    {p \in UNION {{r} \X (0..Mmap[r].len-1) : r \in RamRegion} :
        /\ free[p[1]][p[2]] + 1 >= n
        /\ (Mmap[p[1]].start + p[2]) % g = 0}

Fits(n, g) ==
    {p \in UNION {{r} \X (0..Mmap[r].len-1) : r \in RamRegion} :
        /\ free[p[1]][p[2]] >= n
        /\ (Mmap[p[1]].start + p[2]) % g = 0}

Before(p, q) == p[1] < q[1] \/ (p[1] = q[1] /\ p[2] <= q[2])

alloc_any(n, g, r, i) ==
    /\ <<r, i>> \in Fits(n, g)
    /\ \A q \in Fits(n, g) : Before(<<r, i>>, q)

(* alloc_update_free_predecessors, then mark_frames_used: the counters of  *)
(* a region after its frames first .. first+n-1 are taken.                 *)
\* Faulty: takes n, not the counter, off the predecessors.
TakenByN(fr, first, n) ==
    [j \in DOMAIN fr |->
        IF j \in first .. first + n - 1 THEN 0
        ELSE IF j < first /\ \A k \in j .. first - 1 : fr[k] # 0
             THEN (fr[j] - n) % Word
             ELSE fr[j]]

\* Faulty: does not stop at an allocated frame, no unsigned wrap.
TakenSigned(fr, first, n) ==
    [j \in DOMAIN fr |->
        IF j \in first .. first + n - 1 THEN 0
        ELSE IF j < first THEN fr[j] - fr[first]
             ELSE fr[j]]

\* Faulty: marks the n frames behind the first one.
TakenLate(fr, first, n) ==
    [j \in DOMAIN fr |->
        IF j \in first + 1 .. first + n THEN 0
        ELSE IF j < first /\ \A k \in j .. first - 1 : fr[k] # 0
             THEN (fr[j] - fr[first]) % Word
             ELSE fr[j]]

Taken(fr, first, n) ==
    [j \in DOMAIN fr |->
        IF j \in first .. first + n - 1 THEN 0
        ELSE IF j < first /\ \A k \in j .. first - 1 : fr[k] # 0
             THEN (fr[j] - fr[first]) % Word
             ELSE fr[j]]

(* mark_frames_used on the ramtab (regions that have one).                 *)
Owned(c, r, first, n) ==
    [f \in RamFrame |->
        IF r \in RamRegion /\ f \in Mmap[r].start + first ..
                                    Mmap[r].start + first + n - 1
        THEN [owner |-> c, state |-> Unused]
        ELSE ramtab[f]]

Take(c, r, first, n) ==
    /\ free' = [free EXCEPT ![r] = Taken(free[r], first, n)]
    /\ ramtab' = Owned(c, r, first, n)

-----------------------------------------------------------------------------
(* add_range: record start .. start+n-1 in a client's region list.  The    *)
(* search reads the start of the list head behind the last element, which  *)
(* nothing sets; a new element goes to the front, and a range that ends    *)
(* where the head seems to start is merged into the first element.         *)

NextStart(list, head, i) == IF i = Len(list) THEN head ELSE list[i+1].start

(* The search found an element to insert behind: PANIC("Unimplemented!").  *)
GapFound(list, head, start, n) ==
    \E i \in 1..Len(list) :
        /\ start >= list[i].start + list[i].n
        /\ start + n <= NextStart(list, head, i)

\* Faulty: also merges a range that begins where the first element ends.
MergesEitherSide(list, head, start, n) ==
    /\ Len(list) > 0
    /\ start + n = head \/ start = list[1].start + list[1].n

MergesRight(list, head, start, n) == Len(list) > 0 /\ start + n = head

add_range(list, head, start, n, g) ==
    IF n = 0 THEN list
    ELSE IF MergesRight(list, head, start, n)
         THEN [list EXCEPT ![1] = [start |-> start, n |-> @.n + n,
                                   granule |-> @.granule]]
         ELSE <<[start |-> start, n |-> n, granule |-> g]>> \o list

(* Without a heap, or with a null region_list, nothing is recorded.  The   *)
(* system's region_list pointer is never assigned.                         *)
Recording(c, n) == heap /\ n # 0 /\ (c = System => sysList # "null")

-----------------------------------------------------------------------------
(* frames_module_v1_create, second half: one memory map entry per step.    *)
(* alloc_range hands out what is free at the address, at most the entry.   *)
Markable(m, r) == Least(Mmap[m].len, free[r][Mmap[m].start - Mmap[r].start])

MarkUsed(m, r) ==
    LET first == Mmap[m].start - Mmap[r].start
        n     == Markable(m, r)
    IN  /\ n # 0
        /\ Take(System, r, first, n)
        /\ client' = [client EXCEPT ![System].alloc = (@ + n) % Word]
        /\ held' = [held EXCEPT ![System] =
                       @ \cup (Mmap[m].start .. Mmap[m].start + n - 1)]

create ==
    /\ status = "boot"
    /\ \/ /\ \/ /\ Mmap[todo].type # "non_free"
                /\ UNCHANGED <<free, ramtab, client, held>>
             \/ /\ Mmap[todo].type = "non_free"
                /\ \E r \in Region : /\ get_region(Mmap[todo].start, r)
                                     /\ MarkUsed(todo, r)
          /\ todo' = todo + 1
          /\ status' = IF todo = Len(Mmap) THEN "up" ELSE "boot"
          /\ UNCHANGED <<heap, sysList>>
       \/ /\ Mmap[todo].type = "non_free"
          /\ \/ Unmanaged(Mmap[todo].start)
             \/ \E r \in Region : /\ get_region(Mmap[todo].start, r)
                                  /\ Markable(todo, r) = 0
          /\ Stop("misuse")

(* frames_module_v1_finish_init: a second call is a PANIC.                 *)
finish_init ==
    /\ status = "up"
    /\ \/ /\ ~ heap
          /\ heap' = TRUE
          /\ UNCHANGED <<free, ramtab, client, sysList, todo, status, held>>
       \/ /\ heap
          /\ Stop("misuse")

-----------------------------------------------------------------------------
\* Faulty: allows one frame too many.
QuotaOffByOne(c, n) == (client[c].alloc + n) % Word > client[c].guaranteed + 1

\* Faulty: checks the quota before the request is added.
QuotaSpent(c, n) == client[c].alloc >= client[c].guaranteed

QuotaExceeded(c, n) == (client[c].alloc + n) % Word > client[c].guaranteed

(* The end of allocate_range: the frames first .. first+n-1 of region r    *)
(* become c's; asked frames are accounted, recorded and promised to c.     *)
Grant(c, r, first, n, asked, promised, g) ==
    LET start == Mmap[r].start + first
        old   == client[c].list
        head  == client[c].head
    IN  \/ /\ Recording(c, asked) => /\ c # System
                                     /\ ~ GapFound(old, head, start, asked)
                                     /\ \/ Len(old) < MaxRanges
                                        \/ MergesRight(old, head, start, asked)
           /\ Take(c, r, first, n)
           /\ client' = [client EXCEPT
                 ![c].alloc = (@ + asked) % Word,
                 ![c].list = IF Recording(c, asked)
                             THEN add_range(@, head, start, asked, g)
                             ELSE @]
           /\ held' = [held EXCEPT ![c] =
                          @ \cup (start .. start + promised - 1)]
           /\ UNCHANGED <<heap, sysList, todo, status>>
        \/ /\ Recording(c, asked) /\ c # System
           /\ GapFound(old, head, start, asked)
           /\ Stop("unimplemented")
        \/ /\ Recording(c, asked) /\ c # System
           /\ ~ GapFound(old, head, start, asked)
           /\ ~ MergesRight(old, head, start, asked)
           /\ Stop("out_of_memory")     \* no heap for a list element
        \/ /\ Recording(c, asked) /\ c = System
           /\ Stop("wild")

(* frame_allocator_v1.allocate: k frames of granule g anywhere.            *)
allocate(c, k, g) ==
    LET n == RoundUp(k, g)
    IN  /\ status = "up"
        /\ client[c].live
        /\ \/ /\ k = 0 \/ QuotaExceeded(c, n) \/ Fits(n, g) = {}
              /\ UNCHANGED vars         \* NO_ADDRESS
           \/ /\ k # 0
              /\ ~ QuotaExceeded(c, n)
              /\ \E r \in RamRegion : \E i \in 0 .. Mmap[r].len - 1 :
                    /\ alloc_any(n, g, r, i)
                    /\ Grant(c, r, i, n, n, Covering(k, g), g)

(* allocate_range at a frame address.  alloc_range gives as many of the    *)
(* frames as are free there, and the caller accounts for all of them.      *)
allocate_range(c, k, g, start) ==
    LET n == RoundUp(k, g)
    IN  /\ status = "up"
        /\ client[c].live
        /\ \/ /\ k = 0 \/ QuotaExceeded(c, n) \/ start % g # 0
              /\ UNCHANGED vars         \* NO_ADDRESS
           \/ /\ k # 0
              /\ ~ QuotaExceeded(c, n)
              /\ start % g = 0
              /\ \/ /\ Unmanaged(start)
                    /\ Stop("misuse")
                 \/ \E r \in Region :
                      /\ get_region(start, r)
                      /\ LET first == start - Mmap[r].start
                         IN  Grant(c, r, first, Least(n, free[r][first]),
                                   n, Covering(k, g), g)

(* The domain's record is filled in through the first region's ramtab,     *)
(* which is null unless that region is RAM.                                *)
FirstIsRam == \E r \in RamRegion : \A q \in Region : r <= q

(* system_frame_allocator_v1.create_client for the domain c.               *)
create_client(c, granted, extra, init) ==
    LET n == Least(init, granted)
    IN  /\ status = "up"
        /\ ~ client[c].live
        /\ \/ /\ ~ heap
              /\ UNCHANGED vars         \* NULL
           \/ /\ heap
              /\ Stop("out_of_memory")  \* no heap for the record or the list
           \/ /\ heap
              /\ ~ FirstIsRam
              /\ Stop("wild")           \* state->ramtab is null
           \/ /\ heap
              /\ FirstIsRam
              /\ Fits(n, 1) = {}
              /\ Stop("out_of_memory")
           \/ /\ heap
              /\ FirstIsRam
              /\ \E r \in RamRegion : \E i \in 0 .. Mmap[r].len - 1 :
                    LET start == Mmap[r].start + i
                    IN  /\ alloc_any(n, 1, r, i)
                        /\ Take(c, r, i, n)
                        /\ \E head \in HeadStarts :
                             client' = [client EXCEPT
                               ![c] = [live |-> TRUE, alloc |-> n,
                                       guaranteed |-> granted,
                                       extra |-> IF extra < granted
                                                 THEN granted ELSE extra,
                                       list |-> add_range(<<>>, head, start,
                                                          n, 1),
                                       head |-> head],
                               ![System].alloc = (@ + n) % Word]
                        /\ held' = [held EXCEPT ![c] =
                                       @ \cup (start .. start + n - 1)]
              /\ UNCHANGED <<heap, sysList, todo, status>>

-----------------------------------------------------------------------------
(* free rebuilds the counters from the back: frames first .. first+n and   *)
(* the free frames just before them are numbered upwards from the counter  *)
(* of frame first+n, which is itself renumbered.                           *)
Freed(fr, first, n) ==
    [j \in DOMAIN fr |->
        IF \/ j \in first .. first + n
           \/ j < first /\ \A k \in j .. first - 1 : fr[k] # 0
        THEN (fr[first + n] + (first + n - j) + 1) % Word
        ELSE fr[j]]

(* The frames of RAM may be freed only by their owner and when unmapped.   *)
\* Faulty: does not look at the state of the frames.
FreeableMapped(c, r, f, k) ==
    r \in RamRegion => \A p \in f .. f + k - 1 :
                          /\ p \in RamFrame
                          /\ ramtab[p].owner = c

Freeable(c, r, f, k) ==
    r \in RamRegion => \A p \in f .. f + k - 1 :
                          /\ p \in RamFrame
                          /\ ramtab[p] = [owner |-> c, state |-> Unused]

(* frame_allocator_v1.free: k frames from frame f.  The loop counts down   *)
(* with an unsigned index, so it does not stop when the first frame is     *)
(* frame 0 of the region; at the end of the region it starts past it.      *)
free_frames(c, f, k) ==
    /\ status = "up"
    /\ client[c].live
    /\ \/ /\ Unmanaged(f)
          /\ Stop("misuse")
       \/ \E r \in Region :
            LET first == f - Mmap[r].start
            IN  /\ get_region(f, r)
                /\ \/ /\ ~ Freeable(c, r, f, k) \/ first + k > Mmap[r].len
                      /\ Stop("misuse")
                   \/ /\ Freeable(c, r, f, k)
                      /\ first + k <= Mmap[r].len
                      /\ first = 0 \/ first + k = Mmap[r].len
                      /\ Stop("wild")
                   \/ /\ Freeable(c, r, f, k)
                      /\ first # 0 /\ first + k < Mmap[r].len
                      /\ free' = [free EXCEPT ![r] = Freed(@, first, k)]
                      /\ ramtab' = [p \in RamFrame |->
                            IF r \in RamRegion /\ p \in f .. f + k - 1
                            THEN [owner |-> None, state |-> Unused]
                            ELSE ramtab[p]]
                      /\ client' = [client EXCEPT ![c].alloc =
                                       IF @ < k THEN 0 ELSE @ - k]
                      /\ held' = [held EXCEPT ![c] = @ \ (f .. f + k - 1)]
                      /\ UNCHANGED <<heap, sysList, todo, status>>

(* destroy and add_frames are PANICs.                                      *)
destroy(c) ==
    /\ status = "up"
    /\ client[c].live
    /\ Stop("unimplemented")

(* mmu_mod maps a frame of RAM: it must have an owner.                     *)
map_frame(f) ==
    /\ status = "up"
    /\ \/ /\ ramtab[f].owner = None
          /\ Stop("misuse")
       \/ /\ ramtab[f].owner # None
          /\ ramtab' = [ramtab EXCEPT ![f].state = Mapped]
          /\ UNCHANGED <<free, client, heap, sysList, todo, status, held>>

(* PANIC and debug_stop halt the machine.                                  *)
Halted == status \in Stops /\ UNCHANGED vars

-----------------------------------------------------------------------------
(* The calls of a system start that succeeds: memory is handed out         *)
(* anywhere and is not given back (only the failure paths of the nailed    *)
(* stretch allocator do that).                                             *)
NextAlloc ==
    \/ create
    \/ finish_init
    \/ \E c \in Domains, q, x, i \in Quotas : create_client(c, q, x, i)
    \/ \E c \in Clients, k \in Sizes, g \in Granules : allocate(c, k, g)
    \/ \E f \in Mappable : map_frame(f)
    \/ Halted

SpecAlloc == Init /\ [][NextAlloc]_vars

(* Adding requests for given addresses, giving memory back, and            *)
(* the calls that are not implemented.  These two calls can drive counters *)
(* and the system's account up without end: MaxCount caps them.            *)
Bounded ==
    /\ \A r \in Region : \A i \in DOMAIN free[r] : free[r][i] <= MaxCount
    /\ client[System].alloc <= MaxCount

RangeCalls ==
    \E c \in Clients, k \in Sizes, g \in Granules, f \in Addresses :
        allocate_range(c, k, g, f) /\ Bounded'

FreeCalls ==
    \E c \in Clients, f \in Addresses, k \in Sizes :
        free_frames(c, f, k) /\ Bounded'

Next == NextAlloc \/ RangeCalls \/ FreeCalls \/ \E c \in Clients : destroy(c)

Spec == Init /\ [][Next]_vars

-----------------------------------------------------------------------------
(* Properties.                                                             *)

Granted(f) == \E c \in Clients : f \in held[c]

(* While memory is only handed out, the counter of every frame of RAM is   *)
(* exact: zero for a frame some client holds, otherwise one more than that *)
(* of the next frame.  Since alloc_any trusts the counters, it then fails  *)
(* only if no aligned run of free frames is long enough, and never finds a *)
(* run with a held frame in it.                                            *)
CountersExact ==
    \A r \in RamRegion : \A i \in 0 .. Mmap[r].len - 1 :
        free[r][i] = IF Granted(Mmap[r].start + i) THEN 0
                     ELSE IF i + 1 = Mmap[r].len THEN 1
                     ELSE 1 + free[r][i + 1]

(* No frame is held by two clients, and the ramtab names the holder of     *)
(* each frame of RAM: what allocate, allocate_range and create_client      *)
(* return to a client is the client's alone.                               *)
GrantsExclusive ==
    /\ \A c, d \in Clients : c # d => held[c] \cap held[d] = {}
    /\ \A c \in Clients : \A f \in held[c] \cap RamFrame : ramtab[f].owner = c

(* A domain's n_allocated_phys_frames is the number of frames it holds and *)
(* stays within its guaranteed_frames, whichever call gave it the frames.  *)
AccountsMatch ==
    \A c \in Domains :
        /\ client[c].alloc = Cardinality(held[c])
        /\ client[c].alloc <= client[c].guaranteed

(* The frames of a recorded range.                                         *)
FramesOf(range) == range.start .. (range.start + range.n - 1)

(* The list partitions a set of frames.                                    *)
Partitions(list, frames) ==
    /\ frames = UNION {FramesOf(list[i]) : i \in DOMAIN list}
    /\ \A i, j \in DOMAIN list :
          i # j => FramesOf(list[i]) \cap FramesOf(list[j]) = {}

(* "We wrapped, no any elements before this one.  Check if we can merge on *)
(* rhs": add_range adds a range to the element that begins where the range *)
(* ends, so the region list of a domain, which the domain can read in its  *)
(* DCB, partitions the frames the domain holds.                            *)
RegionListExact == \A c \in Domains : Partitions(client[c].list, held[c])

(* The start of the list head, which nothing sets, can spoil a list only   *)
(* when memory that ends just there is given to the domain: until a domain *)
(* holds the frame below that address its list partitions what it holds,   *)
(* whatever the memory behind the head contains.                           *)
ListsExactBelowHead ==
    \A c \in Domains :
        client[c].head - 1 \notin held[c] => Partitions(client[c].list, held[c])

(* Memory in use when the allocator is created (the comment in create:     *)
(* "Mark already used frames allocated") is never given to a domain.       *)
BootMemoryKept ==
    \A c \in Domains : held[c] \cap InUseAtBoot = {}

(* Once the allocator is up, a frame that a client was given and that is   *)
(* mapped keeps its owner and its state: no call hands it out again, and   *)
(* mark_frames_used, which never looks at the state of the frames it       *)
(* overwrites, does not forget that it is mapped.                          *)
MappedFramesKept ==
    [][\A f \in RamFrame :
          status = "up" /\ Granted(f) /\ ramtab[f].state = Mapped
             => ramtab'[f] = ramtab[f]]_vars

(* The frames of RAM a step takes from their owner.                        *)
Released == {f \in RamFrame : ramtab[f].owner # None /\ ramtab'[f].owner = None}

(* free gives up only frames of RAM that one and the same client owned and *)
(* that are not mapped, and it takes them off that client's account, never *)
(* below zero.                                                             *)
ReleaseAccounted ==
    [][Released # {} =>
          \E c \in Clients :
             /\ \A f \in Released : ramtab[f] = [owner |-> c, state |-> Unused]
             /\ client'[c].alloc \in
                   {client[c].alloc - Cardinality(Released), 0}]_vars

(* A domain never has more than its guaranteed_frames on its account, also *)
(* when the uint32_t sums and the frees of the whole interface mix.        *)
QuotaKept == \A c \in Domains : client[c].alloc <= client[c].guaranteed
=============================================================================
