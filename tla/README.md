# Metta: TLA+ models of the operating system's core

Metta is a single-address-space operating system in the Nemesis tradition: a
tiny privileged nucleus, and a root domain that builds the system out of
modules ("closures" with a state record and a method table).  This directory
holds TLA+ models of the parts with logic of their own: the boot-time memory
map, the physical frame allocator, the virtual memory (stretch) allocator with
the page tables it fills, protection domains, the heap, event counts and the
mutexes built on them, exceptions, and the block cache of the file system
tools.  TLC checks them on small instances; TLAPS proves every safety property
of the passing runs for every value of the parameters, and liveness is left to
TLC.  Section 5 says where the code does not do what its comments and
interfaces say.

All source paths below are relative to the repository's `src/` directory.

## 1. Inventory

| Component | State | Operations | Talks to | What makes it correct |
|---|---|---|---|---|
| Boot information page (`kernel/arch/shared/bootinfo.cpp`) | memory map of BIOS entries and overlays for claimed memory, list of modules, VMAP | `use_memory`, `append_mmap`, `append_vmap`, `find_highmem_range_of_at_least` | written by the launcher and loader, read by `frames_mod`, `mmu_mod`, `stretch_allocator_mod` | a claimed range lies in free memory, is recorded, and is not claimed twice |
| `frames_mod` | per memory area a table of counters of free frames; per client a quota, an account and a list of ranges | `create`, `finish_init`, `create_client`, `allocate`, `allocate_range`, `free`, `query`, `destroy`, `add_frames` | writes the ramtab that `mmu_mod` reads; gets a heap late (`finish_init`) | a frame has one owner; counters, ramtab, accounts and lists agree; memory in use at boot is not handed out; quotas hold |
| `stretch_allocator_mod` | list of free virtual regions per allocator, table of SIDs | `create`, `finish_init`, `create_nailed`, nailed `create`, `create_over` | takes frames from `frames_mod`, enters pages through `mmu_mod`, allocates records from the heap | pages are handed out once and none is lost; frames back pages; pages in use at boot stay mapped |
| `mmu_mod` (pc99) | L1/L2 page tables, shadow entries with SIDs, ramtab, protection domains | `add_range`, `add_mapped_range`, `update_range`, `free_range`, `create_domain`, `retain_domain`, `release_domain`, `set_rights` | called by both allocators | a shadow entry names the stretch of its page; a protection domain is freed with its last reference |
| `heap_mod` | chain of blocks with boundary tags, free lists by size class, a spin lock | `allocate`, `free`, `check` | used by every module; raises `no_memory` once exceptions exist | blocks tile the heap; what is given out belongs to one client; calls return |
| `dl_link_t` (`kernel/generic/doubly_linked_list.h`) | intrusive circular list | `init`, `add_to_head`, `add_to_tail`, `remove`, `next` | used by all of the above | links stay circular; an empty list is recognised |
| Events (`modules/tcb/root_domain/events.cpp`) | event counts with queues of waiting threads, sequencers, channel endpoints, a time queue | `await`, `await_until`, `advance`, `read`, `destroy`, `ticket`, `attach` | thread manager, vcpu and dispatcher, which exist as interfaces only | no wake-up is lost; waiters leave in order of value; destroy alerts everybody |
| Mutexes and conditions (`runtime/event_counts.h`) | a sequencer and an event count each | `lock`, `unlock`, `wait`, `signal`, `broadcast` | Events | mutual exclusion, no lost signal |
| Exceptions (`modules/exceptions_mod`) | stack of setjmp contexts per thread | push, pop, raise | heap, events | a raise reaches the innermost live context |
| Gatekeeper, stretch tables and drivers, naming contexts, hash tables, type system | maps from keys to closures | lookup, add, remove | heap, stretch allocator | a binding is found until it is removed |
| Root domain start-up (`modules/tcb/root_domain/entry.cpp`) | none | one sequence of calls | all modules | modules are initialised before they are used |
| Block cache of mettafs (`tools/mettafs`) | cached blocks with dirty flags, a map and a list in order of use | read, write, flush, evict | device mapper, file-backed devices | map and list agree; dirty blocks are written back before they are evicted |
| Nucleus, launcher, loader, console, devices, meddler and other tools | processor tables, ports, files | | | out of scope, see section 8 |

The behaviours that are hard to test here are of four kinds.  *Order of
initialisation*: modules start without a heap and with memory that others
have claimed.  *Long sequences of calls* on data structures that are updated
in place (counters, region lists, block chains, free lists).  *Partial
failure*: an operation takes frames, then pages, then heap memory, then page
tables.  *Boundaries*: unsigned arithmetic near its limits, first and last
elements, exhausted tables.  Real concurrency (threads, timeouts, channels)
exists in Events and in what is built on it, where threads, the kernel's event
delivery and deadlines interleave.  `PROJECT.json` lists the
hazards with their source lines.

## 2. Modules

| Module | Models | Kind |
|---|---|---|
| `FramesMod` | `frames_mod.cpp`, the ramtab, rounding from `memory.h` | specification |
| `MCFrames` | small memory maps | for TLC |
| `FramesProofs` | proofs about `FramesMod` | for TLAPS |
| `StretchAllocator` | `stretch_allocator_mod.cpp` and the page entries of `mmu_mod.cpp` | specification |
| `MCStretch` | a small address space | for TLC |
| `StretchProofs` | proofs about `StretchAllocator` | for TLAPS |
| `HeapSizes` | the table of size classes in `heap.cpp` | shared by `Heap` and `HeapIndex` |
| `Heap` | `heap.cpp` | specification |
| `AbstractHeap` | what `heap_v1` promises | abstract specification |
| `MCHeap` | a small heap | for TLC |
| `HeapIndex` | `heap_t::find_index` | algorithm |
| `MCHeapIndex` | the real table of sizes | for TLC |
| `HeapProofs` | proofs about `Heap` and `HeapIndex`, and that they fit together | for TLAPS |
| `Events` | `events.cpp`: event counts, wait queues, channels | specification |
| `EventMutex` | `event_counts.h`: mutex and condition, over `Events` | composition |
| `BootInfo` | `bootinfo.cpp` and the claims of launcher, loader, root domain and MMU | specification |
| `ProtectionDomains` | domains and rights of `mmu_mod.cpp` | specification |
| `ExceptionContexts` | `exceptions.h`, `exception_system.cpp` | specification |
| `BlockCache` | `block_cache.cpp`, `block_device_mapper.h`, `block_device.cpp` | specification |
| `MCEvents`, `MCEventMutex`, `MCBootInfo`, `MCDomains`, `MCExceptions`, `MCBlockCache` | small instances | for TLC |
| `EventsProofs` | proofs about `Events` and `EventMutex` | for TLAPS |
| `BootProofs`, `DomainsProofs`, `ExceptionsProofs`, `BlockCacheProofs` | proofs about the module of that name | for TLAPS |

Operators marked "Faulty" in a comment are deliberate mistakes.  No
specification uses them; each shows that some property would notice a
plausible bug in the definition it stands next to.

### 2.1 FramesMod

Addresses and sizes are counted in frames; a frame width is represented by
its granule, the number of frames it covers.  `free[r][i]` is
`frame_st::free` of frame `i` in region `r`; `ramtab` has the owner and state
of every frame of RAM; `client` is `frame_allocator_v1::state_t` with the
region list as a sequence; `heap` says whether `finish_init` was called.
`sysList` and `client[c].head` are values the code reads without having set
them (the system's `region_list` and the `start` field of a list head): they
are chosen nondeterministically.  `held` is a history variable: the frames a
client was told it has.  One action stands for one call; `create` handles one
memory map entry per step.  A call that ends in `PANIC`, or that reads or
writes outside of any object, sets `status` and ends the behaviour; what it
changed before is not recorded.

The ramtab's width field is constant and left out.  Two branches depend on
the memory map alone: `create` marking memory that no region contains
(`misuse`), and `create_client` reading the ramtab of a first region that is
not RAM (`wild`).  A heap that raises `no_memory` while the allocator records a
range stops the system, because no caller catches the exception.

### 2.2 StretchAllocator

`pool[a]` is the list of free regions of allocator `a` as a set: the list
starts as one region and is only shrunk and split in place, so it is always
sorted and "first in the list" is "least start".  `tab` is the SID table,
`tables`, `shadow` and `present` are the page table entries, `frames` counts
what was taken from the frame allocator.  `reserved` and `lost` are history
variables.  Failing frames and heap are nondeterministic choices, because the
allocator must cope with either.  The system allocator's stub methods are null
pointers in its method table and stop the system.  `finish_init` is an action
although `entry.cpp` does not call it at this commit.

### 2.3 Heap and AbstractHeap

`rec` maps the address of every header to its fields, `lists[i]` is the free
list `blocks[i]` as a sequence of addresses.  The bytes of a block do not
matter.  `allocate` and `free` are one step each, except that an `allocate`
that finds nothing enters `coalesce`, whose two loops are modelled one
iteration per step (`ix` and `pos` stand for `index` and `ptr`).  No other call
can run in between since the lock is held.  The iteration of
`coalesce_move_blocks` that puts the head of the last list back where it was
leaves the state as it is and repeats for ever; the model calls that state
`hung`, and `allocate` has not returned there.  `given` is a history variable, and the refinement mapping to
`AbstractHeap` is `owned <- given`.

### 2.4 HeapIndex

The two searches of `find_index`, one comparison per step, over the table that
`HeapSizes` describes.  `Heap` uses the same table and takes `find_index` to be
the class that `IsClass` characterises; the theorem `SearchIsFindIndex` says
that this is what the search returns.

### 2.5 Events and EventMutex

`count[e]` is an `event_count_t` with its wait queue as a sequence of threads;
`thr[t]` is a thread's place in `await` together with its `qlink_t`; `ep[p]` is
the vcpu's view of a channel endpoint (value received, value acknowledged,
whether it asks for attention, which count it notifies).  A `vcpu_lock_t` turns
activations off, so an operation under it is one step.  `await` tests the count
before it enters its critical section, so it is split there, and inside of it
the loop that brings a receiving count up to date takes one step for each
query and each acknowledgement, because the kernel delivers events meanwhile.
`await_until` yields in that loop; its steps leave the critical section there.
`destroy` leaves its critical section to close the channel, and is split, too.

The scheduler, vcpu, dispatcher and binder exist as interfaces only.  Their
part (`connect`, `arrive`, `activation`, `timeout`) is taken from how
`events.cpp` uses them and is marked external.  An operation that follows a
null or dangling pointer, leaves its critical section by `longjmp`, or calls
the empty method table of the notification handlers sets `status` and ends the
behaviour.

`block_event` looks for its place in the wait queue from `next()` of the list,
and `next()` of an empty list is null (`doubly_linked_list.h:51-54`), so the
first thread that has to wait stops the domain (`status` "null").  The constant
`CyclicNext` is `FALSE` for this list, as in every run.  `TRUE` stands for a
list whose `next()` is the list itself when it is empty, as `block_event`
expects; only theorems speak about it.  Since nobody is ever woken with
`FALSE`, the steps of a woken thread (`resume`, `wake`) are apart from the rest:
the passing runs check `SpecNoWake` and `SpecMutexNoWake`, and the theorems
`NobodyIsWoken` and `NoLockerIsWoken` show that `SpecAwait` and `SpecMutex`,
which have these steps, have no other behaviours.

`EventMutex` extends `Events`: a thread takes tickets and calls `await` and
`advance` of two counts.  `wait` and `broadcast` take one step per call they
make, since other threads run in between.  There are no channels in it.

### 2.6 BootInfo

The map is a sequence of entries; a claim is appended on top.  The stages are
the order of the boot code: modules of the boot loader are recorded and claimed
(`mbi_probe`), the command line and the first mapping are recorded, the nucleus
and other modules are loaded, `module_entry` claims the special pages, and
`mmu_mod` looks for memory.  All records share the room of one page, and a
record that does not fit is dropped; only `mmu_mod` looks at the result of
`use_memory`.  `inuse` (what has been put where) and `full` are history
variables.  `FramesMod` and `StretchAllocator` begin with the map that this
leaves.  `BootAssumption` says what the firmware and the boot loader deliver:
entries that do not overlap and end within the address space, modules above
`LOWER_BOUND` and not in the last page (where the firmware's ROM is), special
pages below it; and that the MMU asks for a page at least, since its tables are
page aligned structures (`mmu_mod.cpp:868`).

### 2.7 ProtectionDomains

`tbl`, `info`, `hint` and `rights` are `pdom_tbl`, `pdominfo`, `next_pdidx` and
the bytes of `pdom_t`.  `holds`, `unmatched`, `granted` and `ever` are history
variables; `holds` is the set of references that clients have, each numbered.
A client may call with any identifier that `create_domain` has returned, also
of a deleted domain, since no call compares the generation; it may release
what it has retained, or release without a reference, which `unmatched` records
when others have references to that index.  Each domain takes a stretch that is
never returned (`destroy_stretch` of the nailed allocator is empty).

### 2.8 ExceptionContexts

One thread in nested `OS_TRY` statements.  `mem[k]` is the context in the stack
frame of the k-th nested statement.  A frame that is left keeps its contents
until `call` overwrites it, so that the walk of `OS_ENDTRY` through contexts
below the current one can meet old or foreign data; a walk along a bad pointer
sets `status` to `wild`.

### 2.9 BlockCache

The list is modelled with its links, not as a sequence, because unlinking is
what can go wrong.  A key whose block was flushed stays in the map with a null
pointer and counts as used.  A call takes one step per block.  `latest` is a
history variable.  A file is open for output only, so a read fails and the
stream ignores later writes (`failed`); a read miss never ends, because what
was read is not put into the cache (`hung`), and a search for a usable block
when there is none does not end either.

## 3. Runs

| Run | Configuration | Result |
|---|---|---|
| `frames_alloc` | `FramesAlloc.cfg`: nine frames of RAM in two areas, a reserved area, a `non_free` claim and one of another type; two domains (symmetric), granules 1 and 2, sizes 0, 1 and 3, two values of the unset start of a list head | holds: counters exact, one owner per frame, accounts and ramtab agree, lists are exact until a domain gets the frame below the address in the list head, mapped frames are kept |
| `frames_all` | `FramesAll.cfg`: the whole interface on three frames of RAM and a device area | holds: quotas, and `free` releases only what the caller owns and nobody has mapped |
| `stretch` | `Stretch.cfg`: seven pages, three SIDs, three L2 tables of two pages, one nailed allocator of two pages; of two pages mapped at boot the map claims one with a type that `create` looks for | holds: pages are handed out once and accounted for, shadow entries are up to date, frames back pages, the claimed pages stay mapped |
| `heap` | `Heap.cfg`: 25 units, headers of 2, classes 2, 4 and 7, requests of none, every class, more than every class, and one that wraps | holds: tiling, tags, lists, sizes, no fragments after merging, refinement of `AbstractHeap`; the merging loop ends, and so does the moving loop up to and behind the head of the last list |
| `heap_index` | `HeapIndex.cfg`: the table of `heap.cpp`, all sizes from 1 to 10400 bytes | holds: the first class that is large enough is found, and the search ends |
| `events` | `Events.cfg`: two threads, two counts, two channels, values 0 to 2; all operations without deadlines | holds: `await` does not return early, handlers belong to live counts, an endpoint that becomes pending is listed |
| `event_mutex` | `EventMutex.cfg`: three threads, four tickets of the mutex, three of the condition | holds: a locker without a turn has somebody before it who will unlock, broadcast reaches all |
| `bootinfo` | `BootInfo.cfg`: four firmware maps, up to two boot modules, loads of one and two pages, a page with room for twelve units of records | holds: loads are disjoint, the MMU's tables lie in free memory |
| `domains` | `Domains.cfg`: two indices, three creations, three stretches, at most two references to an index | holds: no count above the references, what is retained stays unless somebody releases that index without a reference, rights are exact |
| `exceptions` | `Exceptions.cfg`: two exceptions, statements nested three deep | holds: the handler stack is exact, `OS_FINALLY` runs, backtrace walks are safe outside of it |
| `block_cache` | `BlockCache.cfg`: two devices of two blocks, a cache of three | holds: map and list agree, writes are kept, flush saves |
| `events_yield` | `EventsYield.cfg`: two threads, one count, one channel, with deadlines | violated: `PendingListed`, an endpoint becomes pending and nobody is told |

What some of the properties say less than one would wish, and why:

* `ListsExactBelowHead`, `ClaimedPagesKept`, `CoalesceEnds` and `RetainedStays`
  are what holds beside `RegionListExact`, `BootMappingsKept`, `CallsReturn`
  and `ReleaseByIdentifier`, which the code violates (section 5): each says that
  nothing goes wrong but in the way that is described there.
* `AwaitKeepsWord`, `PendingListed`, `HandlersLive`, `TurnsCome` and
  `BroadcastReachesAll` are about everything that can happen up to the first
  thread that has to wait, which is all that happens at this commit.  What
  would hold of waiting threads with a repaired list is proved (section 4).
* `LoadsDisjoint` holds as long as every module has a record.  When the page is
  full a module is not recorded, the end of the loaded modules does not move,
  and later loads go over it; the last firmware map of the run reaches this.
* `MmuPlacedFree` leaves out the last byte of a claim that ends one byte behind
  a page boundary: the search takes a last byte for an end.  It also leaves out
  the case that nothing is found, when the result `~0` wraps to address 0.
* `RightsExact`: the fifth right, `global`, does not fit into four bits.  For an
  even stretch it makes the odd neighbour readable; otherwise it is lost.
* `WritesKept` and `FlushSaves` promise contents only for devices that were not
  read.  They also show that no cached block is ever clean, so that eviction
  never finds one.
* `FinallyRuns` is about statements without `OS_CATCH`, as `exceptions.h` asks;
  with one, a handler that raises skips the clause.
* `WalksSafe` leaves out `OS_ENDTRY` after an `OS_FINALLY` clause, which may
  have used the stack of the frames below.

### Bounds

* `Word` and `Space` are far above the counts that occur, except in `Heap`,
  where one request is so close to `Space` that rounding wraps.
* `MaxRanges` is the number of list elements the heap has room for, so that
  running out of heap is among the cases (`frames_all`), or not (`frames_alloc`,
  where eight are more than the frames allow).
* `MaxCount` bounds counters and the system's account in the calls that can
  drive them up without end (`free` renumbers upwards; `allocate_range` for the
  system has no quota).  It is a guard of these calls only and does not limit
  `SpecAlloc`.
* Nine frames are enough for two areas, a run taken from the middle of a free
  run through alignment, and three clients.  Seven pages are enough to split a
  region in its middle while two others exist; L2 tables (three of the four
  needed) and SIDs (three) both run out.
* The heap holds up to five blocks, so that blocks are merged on both sides
  and lists have several elements in every order; coalescing succeeds, fails
  and hangs.
* Two threads and two counts are enough for one thread inside of `await` and
  another that advances, attaches, reads, awaits or destroys, on the same count
  and on another one, since a thread plays any part one after the other.
  `MaxValue` bounds counts far below half of `Word`, which the comparisons by
  signed difference require (the comment at `events.cpp:22`).
* Three threads in `event_mutex` allow one inside, one waiting for the mutex
  and one on its way to the condition; `MaxLocks` and `MaxWaits` bound the
  tickets.
* In `bootinfo` pages have four bytes, so that claims begin and end at every
  offset of a page; `MaxModules` and `MaxLoads` bound the claims.
* `MaxHolds` is below `Word` in `domains`: 2^16 references to one domain would
  wrap its count.  Two references are enough for a holder of a domain and one
  of its predecessor at the same index.  `MaxCreates` is more than the indices, so that an index is
  reused while old identifiers exist.
* A depth of three nested statements has a clause that raises into a middle
  statement with one around it and remains of one below.
* Three blocks of cache for four keys make the cache full; the list has a
  first, a middle and a last block.

### Fairness

Calls are synchronous and nothing in the allocators, the boot code, the
exceptions and the block cache waits, so their modules state no fairness and
no liveness; what may not return there is a state of its own (`hung`).  `Heap`
and `HeapIndex` assume weak fairness of the steps inside a running call
(`Coalescing`, `Search`): the code between entry and return is straight-line
code on a processor that goes on.  `Events` and `EventMutex` state no fairness:
what their runs check is safety.

## 4. Proofs

Eight modules hold the theorems; section 7 says how to check them.  Each
theorem is about the specification that the runs check, with the constants
arbitrary: any number of frames, pages, blocks, threads, devices, any memory
map, any table.  For each component there is one inductive invariant, one lemma
per action that the action keeps it, and a theorem per property that follows
from it.  TLC has checked each of these invariants on the run's instance before
it was proved.

| Module | Theorems | Property of a run |
|---|---|---|
| `FramesProofs` | `AllocTypeOK`, `AllocCountersExact`, `AllocGrantsExclusive`, `AccountsAreExact`, `RegionListsAreExact`, `MappedFramesStay` (for `SpecAlloc`) | `TypeOK`, `CountersExact`, `GrantsExclusive`, `AccountsMatch`, `ListsExactBelowHead`, `MappedFramesKept` |
| | `QuotasAreKept`, `ReleasesAreAccounted` (for `Spec`) | `QuotaKept`, `ReleaseAccounted` |
| `StretchProofs` | `AllocationsAreExclusive`, `PagesAreAccounted`, `ShadowsAreLatest`, `NailedAreBacked`, `ClaimedPagesStay` | `AllocationsExclusive`, `PagesAccounted`, `ShadowLatest`, `NailedBacked`, `ClaimedPagesKept` |
| `HeapProofs` | `HeapIsTiled`, `BoundaryTagsExact`, `FreeListsExact`, `RequestsAreServed`, `CoalesceMergesAll`, `HeapKeepsPromise` | `Tiled`, `TagsExact`, `ListsExact`, `SizesServed`, `Unfragmented`, `KeepsPromise` (refinement of `AbstractHeap`) |
| | `IndexTypeOK`, `IndexFindsClass`, `SearchIsFindIndex` | `FindsClass` |
| `EventsProofs` | `AwaitIsKept`, `PendingIsListed`, `HandlersStayLive`, `TurnsAlwaysCome`, `BroadcastsReachAll` | `AwaitKeepsWord`, `PendingListed`, `HandlersLive`, `TurnsCome`, `BroadcastReachesAll` |
| | `NobodyIsWoken`, `NoLockerIsWoken` | the runs' specifications are the full ones at this commit |
| | `WaitQueuesExact`, `WakeupsAreNotLost`, `EventsAreNoticed`, `WakeupsHaveCause`, `MutexAdmitsTwo`, `BroadcastsWakeAll` | none: also about waiting threads, which only a repaired list has |
| `BootProofs` | `LoadsAreDisjoint`, `MmuIsPlacedFree` | `LoadsDisjoint`, `MmuPlacedFree` |
| `DomainsProofs` | `RetainedDomainsStay`, `RightsAreExact` | `RetainedStays`, `RightsExact` |
| `ExceptionsProofs` | `HandlerStackExact`, `FinallyClausesRun`, `BacktraceWalksSafe` | `HandlersExact`, `FinallyRuns`, `WalksSafe` |
| `BlockCacheProofs` | `MapsAndListsAgree`, `WritesAreKept`, `FlushesSave` | `MapAndListAgree`, `WritesKept`, `FlushSaves` |

### Assumptions

The proofs use the named `ASSUME`s of the modules, which TLC evaluates in every
run, and these hypotheses, which stand in the theorems and hold of the runs'
instances, too.  None is about the memory map, the boot claims or the contents
of memory that the code does not set:

* `RequestsFit` (`FramesProofs`): rounding a request up does not wrap.  It is
  needed: a request near 4 GiB wraps to zero frames, is granted, and
  `alloc_update_free_predecessors` then takes a counter off frames that stay
  free.  `QuotasAreKept` and `ReleasesAreAccounted` do without it.
* `HalfRange` (`EventsProofs`): counts stay within half of the range of a word,
  as the comparisons by signed difference require.  The set of threads is
  finite (`MutexAssumption`).  `NobodyIsWoken` and `NoLockerIsWoken` assume
  `~CyclicNext`, the list of this commit; all others hold for both.
* `Space % WordSize = 0` (`HeapAssumption`): both are powers of two.

### The arguments

**FramesMod.**  `CountersExact` is not inductive: it relates a counter to its
neighbour, and an allocation takes a whole run.  The invariant `Runs` says
instead where the run of each frame ends and what every counter on the way is.
`Inv` adds that a counter is zero exactly for frames somebody holds
(`TakenAreHeld`), that grants are exclusive, and that no domain holds anything
while the system boots (`Booting`; this is why marking overlays of device
memory does no harm).  The key lemma is `TakenRuns`, about one region and one
grant; `TakeKeepsFrames` lifts it to all regions and owners.  `Accounts`
and `Lists` are invariants on top of `Inv`: the account is the cardinality of
what is held, and the ranges of a list partition it unless the frame below the
address in the list head is held.  That frame is never given up, so a list that
has gone wrong needs no further description.  Under the whole interface
`free` renumbers counters wrongly (section 5), and counters and grants may go
wrong; `WholeInv` is what remains, and it carries quotas and releases.

**StretchAllocator.**  The invariant says that the regions of a pool are
non-empty and apart, that stretches are apart, and that free, allocated,
reserved and lost pages are together the whole address space (`Pooled`,
`StretchesApart`, `FreeApart`, `Accounted`).  `Numbered`: SIDs are used in
ascending order and not given back, so that the stretch created last is the one
with the largest SID.  `Owned`: only stretches of nailed allocators have
frames.  `Idle`: an allocator that does not exist has no pages.  `Booted`: what
`create` has gone through of the map, of the two types it looks for, is
reserved.  `ShadowLatest` and `NailedBacked` are inductive once these are there.

**Heap.**  `Chain` says that from the header of every block the next header is
found behind it, and that nothing starts in between; this is tiling without
induction.  `Used`, `Tagged`, `ListsExact` and `SizesServed` relate headers,
tags, lists and what was handed out; `Wanted` is the request that is being
served, and `Merged` describes the loops of `coalesce` half way: the blocks that
the first one has passed have no free block before them.  That `pc` is never
"insane" says that merging always finds the free block that a tag announces.
The refinement uses `Chain` (what is given out does not overlap) and
`SizesServed`.  For `find_index` the invariant says that every
entry below the window is too small and the entry at its upper end is not; a
class is unique, so search and `Heap` agree (`SearchIsFindIndex`).

**Events, EventMutex.**  `Shape` is the typing with the bounds on counts;
`Queued` says that a queue holds exactly the threads blocked on its count,
each once and in the order of the values they wait for, which is what lets
`advance` stop at the first one that is not due.  `WaitsRight`: a blocked
thread waits for a value that its count has not reached, or its endpoint asks
for attention or has nothing new.  `Acknowledges`: between the look at an
endpoint and its acknowledgement the endpoint asks for attention if anybody
else waits for it.  That is what `await_until` breaks (section 5), so these
theorems are about `SpecAwait`.  `Awake` says that with `~CyclicNext` nobody is
blocked or ready, whence `NobodyIsWoken`.  For the mutex, `Held` says that every
ticket that is out and has not come belongs to a thread that is still locking, and
`Returned` that the threads with a ticket and the value of the count add up to
the tickets given out, plus one.  At most two inside follows by cardinality.

**BootInfo.**  `Placed`: everything lies on a special page, or between
`LOWER_BOUND` and the end of the last module, unless a module was forgotten.
`Overlaid`: the map is the firmware's, followed by claims each inside of one
free entry.  `Recorded`: accepted claims are in the map.  For the MMU, what the
search leaves of a free entry always reaches to the end of that entry (claims
lie inside of it or outside), and keeps clear of every other entry except for
the last byte of one; the alignment goes past that byte unless it is the first
of a page, and `use_memory` accepts the result only inside the same entry.

**ProtectionDomains.**  `Counted`: the reference count of an index is at most
the number of references to it, whatever generation they were taken from, and
exactly that number where nobody has released without a reference.  There, an
index without a domain has no references, so that the next domain there
starts with the right count, although identifiers of old domains are still
around.  `Cleared`: such an index has no rights and no history of them.

**ExceptionContexts.**  `Stacked`: `handlers` and the up pointer of every
statement name the innermost body around.  `Linked`: the down pointer of that
body names the statement or is cauterised, until the body of the statement has
been left.  `Traceable`: the walk of `OS_ENDTRY` for an exception that no clause
has caught meets only contexts that are there.

**BlockCache.**  `Held` ties map and blocks, `Ranked` gives the links of the
list a sequence of blocks, without which "next" and "prev" say nothing about
the whole list, and says of a flush half way that nothing it has passed belongs
to its device; `Calls` is what a running call may rely on, `Kept` where the
latest contents are.

`Walk` (`BlockCache`) and `Left` (`BootInfo`) are recursive functions.  A
theorem about them cannot use induction over data; instead a solution of the
defining equation is constructed, and what holds of every step is shown by
looking at the least counterexample (`LeastElement`, from the well-foundedness
of the naturals).

### Only model-checked

`CoalesceEnds` and `SearchEnds`: liveness under fairness, out of the prover's
reach.  The counterexamples of section 5 are on small instances.

## 5. Findings

In eight places the code disagrees with its own comments or interfaces.  For
each there is a formula that states what is promised, and a configuration under
which TLC finds a counterexample.  The first is the run `events_yield`; the
others are not among the runs of `PROJECT.json`, and their counterexamples are
short.

| Configuration | Module | Violates |
|---|---|---|
| `EventsYield.cfg` | `MCEvents` | `PendingListed` |
| `EventsWait.cfg` | `MCEvents` | `WaitersEnqueued` |
| `MutexExclusion.cfg` | `MCEventMutex` | `MutualExclusion` |
| `FramesBoot.cfg` | `MCFrames` | `BootMemoryKept` |
| `FramesLists.cfg` | `MCFrames` | `RegionListExact` |
| `StretchBoot.cfg` | `MCStretch` | `BootMappingsKept` |
| `HeapReturns.cfg` | `MCHeap` | `CallsReturn` |
| `DomainsStale.cfg` | `MCDomains` | `ReleaseByIdentifier` |

* `WaitersEnqueued`: `block_event` "enqueue[s] the current thread"
  (`events.cpp:169`), but the first one to wait calls `add_to_tail` on the null
  that `next()` of an empty list returns (`events.cpp:201-206`,
  `doubly_linked_list.h:51-54`).  So no thread ever waits at this commit.
* `PendingListed`: an endpoint is on the list of those that require attention
  when it becomes pending (`vcpu_v1.if:141-145`).  `await_until` yields between
  reading a channel's value and acknowledging it (`events.cpp:498`).  While it
  is away another thread may go through the loop and acknowledge a later value;
  the late acknowledgement then moves the acknowledged value back.  From then
  on received and acknowledged value differ while the channel is not on the
  list, and the next event is not noticed.  Nobody has to be blocked for this.
  `await` has no such yield, and `events` shows that it is right.
* `MutualExclusion`: the tickets 0 and 1 both pass a count that starts with 1
  (`event_counts.h:55`), so two threads are inside the mutex.
* `BootMemoryKept`: "Mark already used frames allocated" (`frames_mod.cpp:747`),
  but only type `non_free` is marked (`:751`), and no caller of `use_memory`
  passes it.
* `RegionListExact`: `add_range` compares with the unset start of the list head
  (`frames_mod.cpp:189`, `:199`) and merges ranges that do not touch.
* `BootMappingsKept`: "Allocate already used space"
  (`stretch_allocator_mod.cpp:612`), but only entries of two types are
  (`:615-617`), so that modules, the information page and the MMU's state stay
  in the pool of virtual memory.
* `CallsReturn`: `allocate` returns or raises `no_memory` (`heap_v1.if:13-15`),
  but `coalesce_move_blocks` does not end when the first block of the last list
  is small (`heap.cpp:185-196`), which is the usual state of a heap that runs
  low.
* `ReleaseByIdentifier`: `release_domain` is about the domain "identified by dom_id"
  (`mmu_v1.if:60`), but the code looks at the index alone
  (`mmu_mod.cpp:554-574`), so that an old identifier releases the successor
  while others hold it.

The models follow the code in these places, too, where it does not do what one
would expect; the properties of the passing runs are stated around them:

1. `allocate_range` promises frames it did not get (`frames_mod.cpp:302`).
2. `free` renumbers the frame behind the freed range (`:506`); at the first
   frame of a region its unsigned loop does not end, at the last it writes
   past the table.
3. `create_over` takes a partly free range for an allocated one
   (`stretch_allocator_mod.cpp:522`).
4. A range that belongs between two recorded ones is a
   `PANIC("Unimplemented!")` (`frames_mod.cpp:212`), and rounding a request
   near 4 GiB wraps (`memory.h:46`).
5. With all SIDs in use `alloc_sid` returns 0xFFFF and the table is written
   behind its end (`stretch_allocator_mod.cpp:113`).
6. An exception raised under a `vcpu_lock_t` is a `longjmp` past its
   destructor, and activations stay off (`events.cpp:272`).
7. `attach` asks for the state of the endpoint the count had before, not of
   the one it is given (`events.cpp:598`).
8. The search for memory keeps only what is above a claim, returns the last
   fitting range instead of the first, and refuses an exact fit
   (`bootinfo.cpp:458`, `:464`); alignment after it can push the claim out of
   the entry, which is a `PANIC`.
9. `cached_read` of a block that is not cached does not end
   (`block_cache.cpp:325`); a large read copies in the wrong direction
   (`:278`); flushed keys fill the map (`:170`).

## 6. Plan

Modelling is complete as far as the code has state machines (section 8 says
what is left out), and every safety property of the passing runs is proved.  What could
still be added:

1. What holds of `Events` with deadlines: the invariant without `Acknowledges`
   should still carry `QueuesExact` for `SpecUntil`.
2. A weaker form of `CountersExact` for the whole interface of `FramesMod`,
   which says which counters `free` leaves wrong.
3. A composition of `BootInfo` with `FramesMod`: that the map the boot sequence
   leaves satisfies `MmapAssumption`.

## 7. Running the checks

    tlc -config FramesAlloc.cfg MCFrames       # any run of section 3
    tlapm FramesProofs.tla                     # any module of section 4

The proof modules are `FramesProofs`, `StretchProofs`, `HeapProofs`,
`EventsProofs`, `BootProofs`, `DomainsProofs`, `ExceptionsProofs` and
`BlockCacheProofs`.

## 8. Not modelled, and why

* `query`, `required_size`, `query_endpoint`, `query_rights` and
  `check_integrity` only read; `realloc`, `expand`, `contract` and `realize`
  are empty.
* Page flags, access right encodings and control registers: no property here
  depends on them.
* Nucleus, console, timer and device drivers: register level code without a
  state machine of its own.  Of launcher and loader, everything but the claims
  on memory: parsing of images and set-up of the processor.
* The heap's lock: on one processor, with calls that do not yield, it is never
  contended.
* Gatekeeper: its factories return null at this commit.  Stretch tables and
  drivers, naming contexts, hash tables: closures over library containers, one
  call deep.  Exports table, type system: stubs, or read-only queries over
  generated data.
* `btree.cpp` of mettafs: a demo that the build does not include; `mkfs` is
  straight-line code over the block cache.
* meddler, buildboot and parsedwarf: build tools that turn text into text.
* The hosted `mmu_mod`: a reduced copy of the pc99 one, out of date with the
  interfaces it uses.
* libc++, libc++abi, libunwind and the C library substitutes: third-party.
  Together with meddler they are most of the repository's C and C++ lines,
  which is why the share of lines that the models cover is small.
