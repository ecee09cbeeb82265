----------------------------- MODULE BlockCache -----------------------------
(***************************************************************************)
(* The block cache of mettafs with the device mapper and the file-backed   *)
(* block devices below it (src/tools/mettafs: block_cache.cpp,             *)
(* block_device_mapper.h, block_device.cpp).                               *)
(*                                                                         *)
(* One thread uses the cache, so a call is a sequence of turns of its loop *)
(* over blocks; op says which call runs.  The blocks are a doubly linked   *)
(* list in the order of their last use, and a map finds them by device and *)
(* number.  Blocks are never busy: nothing sets that flag.                 *)
(***************************************************************************)
EXTENDS Naturals, FiniteSetsExt

CONSTANTS
    Devices,
    NumBlocks,     \* blocks of a device
    max_blocks,    \* capacity of the cache
    LargeRead,     \* a read of more blocks than this goes to the device
    ReadSizes,     \* numbers of blocks to read
    Data,          \* contents of a block
    Zero,          \* contents of a block of a new file
    Null

Blocks == 0 .. NumBlocks - 1
Ids    == 1 .. max_blocks      \* addresses of cache_block_t objects
Keys   == Devices \X Blocks
Absent == 0                    \* the map has no such key

ASSUME CacheAssumption ==
    /\ NumBlocks \in Nat \ {0} /\ max_blocks \in Nat \ {0} /\ LargeRead \in Nat
    /\ ReadSizes \subseteq Nat \ {0}
    /\ IsFiniteSet(Devices)
    /\ Zero \in Data
    /\ Null \notin Nat \cup Devices

VARIABLES
    cache,     \* the map from keys to blocks; null once a block is flushed
    entry,     \* key, contents and dirty flag of each block
    list,      \* lru, mru, and the links of each block
    file,      \* storageFile of each device: its state, and its contents
    op,        \* the call that runs
    status,    \* "up", or why the program stopped
    latest     \* the contents last written to each block (history variable)

vars == <<cache, entry, list, file, op, status, latest>>

Alone   == [next |-> Null, prev |-> Null]
Free    == [key |-> Null, data |-> Zero, dirty |-> FALSE]
NoCall  == [kind |-> "none", dev |-> Null, num |-> 0, n |-> 0, data |-> Zero, at |-> Null]

(* A device file is opened for output only, which truncates it.            *)
NewFile == [state |-> "unmapped", disk |-> [b \in Blocks |-> Zero]]

Init ==
    /\ cache = [k \in Keys |-> Absent]
    /\ entry = [i \in Ids |-> Free]
    /\ list = [lru |-> Null, mru |-> Null, node |-> [i \in Ids |-> Alone]]
    /\ file = [d \in Devices |-> NewFile]
    /\ op = NoCall
    /\ status = "up"
    /\ latest = [k \in Keys |-> Zero]

-----------------------------------------------------------------------------
(* The list of blocks.                                                     *)

\* Faulty: leaves the link to the block from its more recent neighbour.
UnlinkOneSide(l, i) ==
    LET p == l.node[i].prev
        n == l.node[i].next
    IN  [lru  |-> IF l.lru = i THEN n ELSE l.lru,
         mru  |-> IF l.mru = i THEN p ELSE l.mru,
         node |-> [j \in Ids |->
                     IF j = i THEN Alone
                     ELSE [l.node[j] EXCEPT !.next = IF j = p THEN n ELSE @]]]

unlink_from(l, i) ==
    LET p == l.node[i].prev
        n == l.node[i].next
    IN  [lru  |-> IF l.lru = i THEN n ELSE l.lru,
         mru  |-> IF l.mru = i THEN p ELSE l.mru,
         node |-> [j \in Ids |->
                     IF j = i THEN Alone
                     ELSE [next |-> IF j = p THEN n ELSE l.node[j].next,
                           prev |-> IF j = n THEN p ELSE l.node[j].prev]]]

link_at_mru(l, i) ==
    [lru  |-> IF l.lru = Null THEN i ELSE l.lru,
     mru  |-> i,
     node |-> [j \in Ids |-> CASE j = i     -> [l.node[i] EXCEPT !.prev = l.mru]
                               [] j = l.mru -> [l.node[j] EXCEPT !.next = i]
                               [] OTHER     -> l.node[j]]]

MakeMru(l, i) == link_at_mru(unlink_from(l, i), i)

(* The blocks met from lru on, one at each position.                       *)
Walk ==
    LET W[k \in 0 .. max_blocks] ==
            IF k = 0 THEN list.lru
            ELSE IF W[k - 1] = Null THEN Null ELSE list.node[W[k - 1]].next
    IN  W

unwritten_blocks == Cardinality({k \in 0 .. max_blocks : Walk[k] # Null})

(* Null stands for the end of the map as well as for a flushed block.      *)
block_lookup(k) == IF k \notin Keys \/ cache[k] = Absent THEN Null ELSE cache[k]

-----------------------------------------------------------------------------
(* get_blocks allocates while the map has room, and then takes usable      *)
(* blocks off the list, least recently used first, whose keys stay in the  *)
(* map.  It searches for ever when there is none.                          *)
nfree == max_blocks - Cardinality({k \in Keys : cache[k] # Absent})

Fresh == CHOOSE i \in Ids : entry[i] = Free /\ \A j \in Ids : entry[j] = Free => i <= j

Usable == {k \in 0 .. max_blocks : Walk[k] # Null /\ ~entry[Walk[k]].dirty}

get_block == CASE nfree > 0                  -> Fresh
               [] nfree = 0 /\ Usable # {}   -> Walk[Min(Usable)]
               [] OTHER                      -> Null

Stop(why) ==
    /\ status' = why
    /\ UNCHANGED <<cache, entry, list, file, op, latest>>

-----------------------------------------------------------------------------
(* Devices.  vfs_t numbers a device when it is mounted.                    *)
Idle == status = "up" /\ op.kind = "none"
Mapped(d) == file[d].state # "unmapped"

map_device(d) ==
    /\ Idle /\ ~Mapped(d)
    /\ file' = [file EXCEPT ![d].state = "good"]
    /\ UNCHANGED <<cache, entry, list, op, status, latest>>

(* Reading fails, for the file is open for output only; the stream remains *)
(* in that state and ignores what is written from then on.  Both calls     *)
(* report success.  A closed device has no stream.                         *)
AfterRead(d) == [file EXCEPT ![d].state = "failed"]

write_block(d, b, v) ==
    IF file[d].state = "good" THEN [file EXCEPT ![d].disk[b] = v] ELSE file

-----------------------------------------------------------------------------
(* cached_write, one block at a time.                                      *)
cached_write(d, b, n, v) ==
    /\ Idle /\ Mapped(d) /\ n > 0 /\ b + n <= NumBlocks
    /\ op' = [NoCall EXCEPT !.kind = "write", !.dev = d, !.num = b, !.n = n, !.data = v]
    /\ UNCHANGED <<cache, entry, list, file, status, latest>>

NextBlock == op' = IF op.n = 1 THEN NoCall ELSE [op EXCEPT !.n = @ - 1, !.num = @ + 1]

Key == <<op.dev, op.num>>

Put(i, l) ==
    /\ entry' = [entry EXCEPT ![i] = [key |-> Key, data |-> op.data, dirty |-> TRUE]]
    /\ list' = link_at_mru(l, i)
    /\ cache' = [cache EXCEPT ![Key] = i]
    /\ latest' = [latest EXCEPT ![Key] = op.data]
    /\ NextBlock
    /\ UNCHANGED <<file, status>>

write_hit ==
    /\ status = "up" /\ op.kind = "write"
    /\ LET i == block_lookup(Key)
       IN  i # Null /\ Put(i, unlink_from(list, i))

\* Faulty: takes the oldest block although it has not been written.
TakesDirty ==
    /\ status = "up" /\ op.kind = "write"
    /\ block_lookup(Key) = Null
    /\ LET i == IF nfree > 0 THEN Fresh ELSE list.lru
       IN  IF i = Null THEN Stop("hung")
           ELSE Put(i, IF nfree > 0 THEN list ELSE unlink_from(list, i))

write_miss ==
    /\ status = "up" /\ op.kind = "write"
    /\ block_lookup(Key) = Null
    /\ LET i == get_block
       IN  IF i = Null THEN Stop("hung")
           ELSE Put(i, IF nfree > 0 THEN list ELSE unlink_from(list, i))

-----------------------------------------------------------------------------
(* cached_read.  A small read goes block by block; nothing checks that the *)
(* blocks exist.                                                           *)
cached_read(d, b, n) ==
    /\ Idle /\ Mapped(d) /\ n <= LargeRead
    /\ op' = [NoCall EXCEPT !.kind = "read", !.dev = d, !.num = b, !.n = n]
    /\ UNCHANGED <<cache, entry, list, file, status, latest>>

read_hit ==
    /\ status = "up" /\ op.kind = "read"
    /\ LET i == block_lookup(Key)
       IN  /\ i # Null
           /\ list' = MakeMru(list, i)
    /\ NextBlock
    /\ UNCHANGED <<cache, entry, file, status, latest>>

(* The number of blocks from op.num on that are not cached.                *)
Stripe ==
    LET hits == {m \in 1 .. op.n - 1 : block_lookup(<<op.dev, op.num + m>>) # Null}
    IN  IF hits = {} THEN op.n ELSE Min(hits)

(* A miss reads the stripe and gets blocks for it, but does not put them   *)
(* into the cache, and looks for the same block again: it goes on until    *)
(* the memory is used up, unless get_blocks throws.                        *)
read_miss ==
    /\ status = "up" /\ op.kind = "read"
    /\ block_lookup(Key) = Null
    /\ CASE file[op.dev].state = "closed" -> Stop("crashed")
         [] file[op.dev].state # "closed" /\ Stripe > max_blocks ->
              /\ file' = AfterRead(op.dev)
              /\ op' = NoCall
              /\ UNCHANGED <<cache, entry, list, status, latest>>
         [] OTHER ->
              /\ file' = AfterRead(op.dev)
              /\ status' = "hung"
              /\ UNCHANGED <<cache, entry, list, op, latest>>

(* A large read fills the buffer from the device; then, with its arguments *)
(* the wrong way round, it copies the buffer to the dirty blocks.  junk is *)
(* what the caller's buffer holds where the device filled in nothing.      *)
large_read(d, b, n, junk) ==
    /\ Idle /\ Mapped(d) /\ n > LargeRead
    /\ IF file[d].state = "closed" THEN Stop("crashed")
       ELSE /\ file' = AfterRead(d)
            /\ entry' = [i \in Ids |->
                           IF entry[i].dirty /\ \E m \in b .. b + n - 1 : block_lookup(<<d, m>>) = i
                           THEN [entry[i] EXCEPT !.data = junk] ELSE entry[i]]
            /\ UNCHANGED <<cache, list, op, status, latest>>

-----------------------------------------------------------------------------
(* flush walks the list, writes the blocks of the device and deletes them. *)
(* Their keys remain in the map.  unmap_device flushes and closes.         *)
flush(d) ==
    /\ Idle /\ Mapped(d)
    /\ op' = [NoCall EXCEPT !.kind = "flush", !.dev = d, !.at = list.lru]
    /\ UNCHANGED <<cache, entry, list, file, status, latest>>

unmap_device(d) ==
    /\ Idle /\ Mapped(d)
    /\ op' = [NoCall EXCEPT !.kind = "unmap", !.dev = d, !.at = list.lru]
    /\ UNCHANGED <<cache, entry, list, file, status, latest>>

Flushing == status = "up" /\ op.kind \in {"flush", "unmap"}

flush_other ==
    /\ Flushing /\ op.at # Null
    /\ entry[op.at].key[1] # op.dev
    /\ op' = [op EXCEPT !.at = list.node[op.at].next]
    /\ UNCHANGED <<cache, entry, list, file, status, latest>>

\* Faulty: goes on after the block behind the next one.
SkipOne(i) == IF list.node[i].next = Null THEN Null
              ELSE list.node[list.node[i].next].next

FlushNext(i) == list.node[i].next

flush_block ==
    LET k == entry[op.at].key IN
    /\ Flushing /\ op.at # Null
    /\ k[1] = op.dev
    /\ IF file[op.dev].state = "closed" THEN Stop("crashed")
       ELSE /\ file' = write_block(op.dev, k[2], entry[op.at].data)
            /\ op' = [op EXCEPT !.at = FlushNext(op.at)]
            /\ list' = unlink_from(list, op.at)
            /\ cache' = [cache EXCEPT ![k] = Null]
            /\ entry' = [entry EXCEPT ![op.at] = Free]
            /\ UNCHANGED <<status, latest>>

flush_end ==
    /\ Flushing /\ op.at = Null
    /\ op' = NoCall
    /\ IF op.kind = "flush" THEN UNCHANGED <<file, status>>
       ELSE IF file[op.dev].state = "good"
       THEN file' = [file EXCEPT ![op.dev].state = "closed"] /\ UNCHANGED status
       ELSE status' = "aborted" /\ UNCHANGED file      \* assert in close
    /\ UNCHANGED <<cache, entry, list, latest>>

-----------------------------------------------------------------------------
Call ==
    \/ \E d \in Devices : map_device(d) \/ flush(d) \/ unmap_device(d)
    \/ \E d \in Devices, b \in Blocks, v \in Data :
          \/ \E n \in 1 .. NumBlocks : cached_write(d, b, n, v)
          \/ \E n \in ReadSizes : large_read(d, b, n, v)
    \/ \E d \in Devices, b \in Blocks, n \in ReadSizes : cached_read(d, b, n)

Turn ==
    \/ write_hit \/ write_miss
    \/ read_hit \/ read_miss
    \/ flush_other \/ flush_block \/ flush_end

Next == Call \/ Turn
Spec == Init /\ [][Next]_vars

-----------------------------------------------------------------------------
TypeOK ==
    /\ cache \in [Keys -> Ids \cup {Null, Absent}]
    /\ entry \in [Ids -> [key : Keys \cup {Null}, data : Data, dirty : BOOLEAN]]
    /\ list \in [lru : Ids \cup {Null}, mru : Ids \cup {Null},
                 node : [Ids -> [next : Ids \cup {Null}, prev : Ids \cup {Null}]]]
    /\ file \in [Devices -> [state : {"unmapped", "good", "failed", "closed"},
                             disk : [Blocks -> Data]]]
    /\ op \in [kind : {"none", "write", "read", "flush", "unmap"},
               dev : Devices \cup {Null}, num : Nat, n : Nat,
               data : Data, at : Ids \cup {Null}]
    /\ status \in {"up", "hung", "crashed", "aborted"}
    /\ latest \in [Keys -> Data]

(* The variables have their types, and map and list hold the same blocks,  *)
(* each under its own key, through every order of hits, misses and         *)
(* flushes: the walk from lru meets each mapped block once and ends at     *)
(* mru, and prev leads back.                                               *)
MapAndListAgree ==
    LET cached == {k \in Keys : cache[k] \in Ids}
        len    == Cardinality(cached)
        W      == Walk
    IN  /\ TypeOK
        /\ {W[j] : j \in 0 .. len - 1} = {cache[k] : k \in cached}
        /\ W[len] = Null
        /\ \A k \in cached : entry[cache[k]].key = k
        /\ \A j \in 0 .. len - 1 :
              list.node[W[j]].prev = IF j = 0 THEN Null ELSE W[j - 1]
        /\ list.mru = IF len = 0 THEN Null ELSE W[len - 1]

(* What a reader of block k would get.                                     *)
Contents(k) == IF cache[k] \in Ids THEN entry[cache[k]].data ELSE file[k[1]].disk[k[2]]

(* No write is lost: what was last written to a block is in the cache, and *)
(* marked dirty there so that flush will find it, or else on the device.   *)
(* The second holds as long as the device has not been read, as in         *)
(* mkmettafs.  It also means that no cached block is ever clean, and so    *)
(* none can be evicted.                                                    *)
WritesKept ==
    \A k \in Keys :
        /\ cache[k] \in Ids => entry[cache[k]].dirty
        /\ file[k[1]].state # "failed" => Contents(k) = latest[k]

(* When flush returns, no block of the device waits to be written, and its *)
(* file is up to date unless the device has been read.                     *)
FlushSaves ==
    [][Flushing /\ op'.kind = "none" =>
          /\ \A b \in Blocks : cache'[<<op.dev, b>>] \notin Ids
          /\ file[op.dev].state # "failed" =>
                \A b \in Blocks : file'[op.dev].disk[b] = latest'[<<op.dev, b>>]]_vars
=============================================================================
