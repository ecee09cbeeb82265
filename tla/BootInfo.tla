------------------------------ MODULE BootInfo ------------------------------
(***************************************************************************)
(* The boot information page and the claims on physical memory that are    *)
(* made with it until the MMU module has its tables:                       *)
(*   src/kernel/arch/shared/bootinfo.cpp   the page, its records, the      *)
(*                                         search for memory               *)
(*   src/launcher/pc99/loader-multiboot.cpp, src/launcher/x86/startup.cpp  *)
(*   src/kernel/generic/module_loader.cpp  where modules are loaded        *)
(*   src/modules/tcb/root_domain/entry.cpp, .../pc99/mmu_mod/mmu_mod.cpp   *)
(*                                                                         *)
(* An entry of the memory map is a record [start, size, free].  Claims are *)
(* appended as entries that are not free, on top of the entries of the     *)
(* firmware.                                                               *)
(***************************************************************************)
EXTENDS Integers, Sequences

CONSTANTS
    Word,            \* number of addresses, 2^32
    PAGE_SIZE,
    LOWER_BOUND,     \* 1 MB
    PageRoom,        \* bytes for records in the page
    RecordSize,      \* of "mmap", "vmap", "module" and "cmdline" records
    BaseMaps,        \* memory maps of the firmware
    BootModules,     \* where the boot loader may have put its modules
    SpecialPages,    \* information page, boot information page, frame buffer
    LoadPages,       \* sizes of loaded modules, in pages
    MmuBytes,        \* sizes of the MMU's tables
    MaxModules, MaxLoads      \* bounds on modules, and on all claims

Memory == [start : 0 .. Word - 1, size : 1 .. Word]
Entry  == [start : 0 .. Word - 1, size : 1 .. Word, free : BOOLEAN]
Overlap(r, s) == r.start < s.start + s.size /\ s.start < r.start + r.size

(* The firmware's entries and the special pages do not overlap among       *)
(* themselves and end within the address space.  The boot loader puts      *)
(* modules above LOWER_BOUND and not into the last page, where the         *)
(* firmware is.  The MMU's tables take whole pages (mmu_mod.cpp:868).      *)
ASSUME BootAssumption ==
    /\ {Word, PAGE_SIZE, LOWER_BOUND, PageRoom, MaxModules, MaxLoads} \subseteq Nat
    /\ PAGE_SIZE > 0 /\ PAGE_SIZE <= Word /\ Word % PAGE_SIZE = 0
    /\ RecordSize \in [{"mmap", "vmap", "module", "cmdline"} -> Nat]
    /\ BaseMaps \subseteq Seq(Entry)
    /\ \A m \in BaseMaps : \A i, j \in DOMAIN m :
          /\ m[i].start + m[i].size <= Word
          /\ i # j => ~Overlap(m[i], m[j])
    /\ BootModules \subseteq Memory
    /\ \A b \in BootModules :
          b.start >= LOWER_BOUND /\ b.size > 1 /\ b.start + b.size <= Word - PAGE_SIZE
    /\ SpecialPages \subseteq {r \in Memory : r.start + r.size <= LOWER_BOUND}
    /\ \A r, s \in SpecialPages : r # s => ~Overlap(r, s)
    /\ LoadPages \subseteq Nat \ {0}
    /\ MmuBytes \subseteq Nat /\ \A n \in MmuBytes : n >= PAGE_SIZE

VARIABLES
    mmap,        \* the memory map records, in their order
    room,        \* what is left of the page
    modules,     \* the module records
    last,        \* last_available_module_address
    stage,       \* how far the machine has started
    inuse,       \* the memory that holds something, in order of use, and
                 \* whether use_memory has accepted it (history variable)
    mmu,         \* where the MMU module put its tables
    full         \* has a record been refused? (history variable)

vars == <<mmap, room, modules, last, stage, inuse, mmu, full>>

NoMmu == [start |-> 0, size |-> 0, found |-> FALSE]

Init ==
    \E base \in BaseMaps :
        /\ Len(base) * RecordSize.mmap <= PageRoom
        /\ mmap = base
        /\ room = PageRoom - Len(base) * RecordSize.mmap
        /\ modules = <<>>
        /\ last = 0
        /\ stage = "probe"
        /\ inuse = <<>>
        /\ mmu = NoMmu
        /\ full = FALSE

-----------------------------------------------------------------------------
End(e)           == e.start + e.size - 1      \* mmap_entry_t: the last byte
page_align_up(a) == (((a + PAGE_SIZE - 1) % Word) \div PAGE_SIZE) * PAGE_SIZE

(* The entry that contains a range: the last one, if there are several.    *)
Covers(e, r) == r.start >= e.start /\ e.size >= r.size + (r.start - e.start)

find_matching_entry(r) == {i \in DOMAIN mmap : Covers(mmap[i], r)}

(* use_memory succeeds if that entry is free and the record fits.          *)
Accepted(r, left) ==
    LET found == find_matching_entry(r)
    IN  /\ found # {}
        /\ mmap[CHOOSE i \in found : \A j \in found : j <= i].free
        /\ left >= RecordSize.mmap

NonFree(r) == [start |-> r.start, size |-> r.size, free |-> FALSE]

(* The memory r gets its contents and is claimed; left is the room of the  *)
(* page before.  No caller but the MMU module looks at the result.         *)
use_memory(r, left) ==
    /\ mmap' = IF Accepted(r, left) THEN Append(mmap, NonFree(r)) ELSE mmap
    /\ room' = IF Accepted(r, left) THEN left - RecordSize.mmap ELSE left
    /\ inuse' = Append(inuse, [start |-> r.start, size |-> r.size,
                               kept |-> Accepted(r, left)])

-----------------------------------------------------------------------------
(* find_highmem_range_of_at_least.  r is what is left of a free entry      *)
(* when the entry f, which is not free, is cut out of it: the part below f *)
(* if f reaches beyond its end, or else the part above, and with it the    *)
(* last byte of f.  An empty range is [0, 0).                              *)
Empty == [start |-> 0, size |-> 0]

\* Faulty: keeps what is above the start of the entry.
CutStart(r, f) ==
    IF r.size = 0 \/ f.free \/ End(f) <= r.start \/ f.start > r.start + r.size THEN r
    ELSE [start |-> f.start, size |-> r.start + r.size - f.start]

Cut(r, f) ==
    LET end == r.start + r.size IN
    CASE r.size = 0 \/ f.free \/ End(f) <= r.start \/ f.start > end -> r
      [] OTHER ->
           CASE End(f) > end /\ f.start > r.start ->
                    [start |-> r.start, size |-> f.start - r.start]
             [] End(f) > end /\ f.start <= r.start -> Empty
             [] OTHER -> [start |-> End(f), size |-> end - End(f)]

Left(e) ==
    LET L[i \in 0 .. Len(mmap)] == IF i = 0 THEN [start |-> e.start, size |-> e.size]
                                   ELSE Cut(L[i - 1], mmap[i])
    IN  L[Len(mmap)]

(* The entries with enough left; the search returns the last one of them,  *)
(* or ~0.                                                                  *)
Candidates(bytes) ==
    {i \in DOMAIN mmap : mmap[i].free /\ mmap[i].start >= LOWER_BOUND
                         /\ Left(mmap[i]).size > bytes}

find_highmem_range_of_at_least(bytes) ==
    LET C == Candidates(bytes)
    IN  IF C = {} THEN Word - 1 ELSE Left(mmap[CHOOSE i \in C : \A j \in C : j <= i]).start

-----------------------------------------------------------------------------
(* Each module of the boot loader is recorded and its memory claimed.      *)
\* Faulty: remembers where the module begins.
LastStart(b) == IF b.start > last THEN b.start ELSE last

LastEnd(b) == IF b.start + b.size > last THEN b.start + b.size ELSE last

mbi_module(b) ==
    LET fits == room >= RecordSize.module IN
    /\ stage = "probe" /\ Len(inuse) < MaxModules
    /\ \A i \in DOMAIN inuse : ~Overlap(inuse[i], b)
    /\ IF fits THEN /\ modules' = Append(modules, b)
                    /\ last' = LastEnd(b)
               ELSE UNCHANGED <<modules, last>>
    /\ use_memory(b, IF fits THEN room - RecordSize.module ELSE room)
    /\ full' = (full \/ ~fits)
    /\ UNCHANGED <<stage, mmu>>

(* The end of mbi_probe, and arch_prepare: the command line and the first  *)
(* virtual mapping.  Without the boot image the machine stops.             *)
Appended(left, kind) == IF left >= RecordSize[kind] THEN left - RecordSize[kind] ELSE left

mbi_prepare ==
    /\ stage = "probe"
    /\ room' = Appended(Appended(room, "cmdline"), "vmap")
    /\ stage' = IF modules = <<>> THEN "panic" ELSE "nucleus"
    /\ UNCHANGED <<mmap, modules, last, inuse, mmu, full>>

(* Where a module's sections go: on the first page behind the last module. *)
section_base == page_align_up(last)

(* Its sections, tables and descriptor fill whole pages.                   *)
loaded_size(pages) == pages * PAGE_SIZE

(* A module is loaded behind the last one, on pages of its own; nothing    *)
(* asks whether that memory is free.  The nucleus is the first.            *)
load_module(pages) ==
    /\ stage \in {"nucleus", "load", "entry"} /\ Len(inuse) < MaxLoads
    /\ section_base + loaded_size(pages) < Word
    /\ last' = section_base + loaded_size(pages)
    /\ stage' = IF stage = "nucleus" THEN "load" ELSE stage
    /\ use_memory([start |-> section_base, size |-> loaded_size(pages)], room)
    /\ UNCHANGED <<modules, mmu, full>>

(* module_entry claims the special pages, from the lowest one on.          *)
Claimed(r) == \E i \in DOMAIN inuse : inuse[i].start = r.start

special_page(r) ==
    LET rest == {s \in SpecialPages : ~Claimed(s)} IN
    /\ stage = "load"
    /\ r \in rest /\ \A s \in rest : r.start <= s.start
    /\ stage' = IF rest = {r} THEN "entry" ELSE "load"
    /\ use_memory(r, room)
    /\ UNCHANGED <<modules, last, mmu, full>>

(* The MMU module looks for memory, aligns it and claims it, or panics.    *)
mmu_create(bytes) ==
    LET first == find_highmem_range_of_at_least(bytes)
        r     == [start |-> page_align_up(first), size |-> bytes]
    IN
    /\ stage = "entry"
    /\ IF Accepted(r, room)
       THEN /\ mmu' = [start |-> r.start, size |-> bytes, found |-> first # Word - 1]
            /\ mmap' = Append(mmap, NonFree(r))
            /\ room' = room - RecordSize.mmap
            /\ stage' = "mmu"
       ELSE stage' = "panic" /\ UNCHANGED <<mmu, mmap, room>>
    /\ UNCHANGED <<modules, last, inuse, full>>

Next ==
    \/ \E b \in BootModules : mbi_module(b)
    \/ mbi_prepare
    \/ \E pages \in LoadPages : load_module(pages)
    \/ \E r \in SpecialPages : special_page(r)
    \/ \E bytes \in MmuBytes : mmu_create(bytes)

Spec == Init /\ [][Next]_vars

-----------------------------------------------------------------------------
TypeOK ==
    /\ mmap \in Seq(Entry)
    /\ room \in 0 .. PageRoom
    /\ modules \in Seq(BootModules)
    /\ last \in 0 .. Word - 1
    /\ stage \in {"probe", "nucleus", "load", "entry", "mmu", "panic"}
    /\ inuse \in Seq([start : 0 .. Word - 1, size : 1 .. Word, kept : BOOLEAN])
    /\ mmu \in [start : 0 .. Word - 1, size : 0 .. Word, found : BOOLEAN]
    /\ full \in BOOLEAN

(* Everything that is put into memory while the machine starts has a place *)
(* of its own, although load_module never looks at the memory map: it goes *)
(* behind all modules of the boot loader.  A module whose record did not   *)
(* fit into the page is forgotten, and may be overwritten.                 *)
LoadsDisjoint ==
    /\ TypeOK
    /\ ~full => \A i, j \in DOMAIN inuse : i # j => ~Overlap(inuse[i], inuse[j])

(* The MMU's tables are in free memory, away from all that was claimed     *)
(* successfully ("mark loaded modules memory as used in the bootinfo (so   *)
(* we don't overwrite them later on)"), in spite of the mixture of first   *)
(* bytes, last bytes and ends in the search and of the alignment after it. *)
(* The exception is a claim that ends one byte behind a page boundary: the *)
(* search takes its last byte for free, and the alignment does not skip it.*)
(* When the search finds nothing its result wraps to address 0, where none *)
(* of this is so.                                                          *)
Seen(e) == IF End(e) % PAGE_SIZE = 0 THEN [start |-> e.start, size |-> e.size - 1] ELSE e

MmuPlacedFree ==
    stage = "mmu" /\ mmu.found =>
        /\ mmu.start >= LOWER_BOUND
        /\ \A i \in DOMAIN inuse : inuse[i].kept => ~Overlap(Seen(inuse[i]), mmu)
        /\ \A i \in 1 .. Len(mmap) - 1 : ~mmap[i].free => ~Overlap(Seen(mmap[i]), mmu)
=============================================================================
