----------------------------- MODULE BootProofs -----------------------------
(***************************************************************************)
(* Theorems about BootInfo: what is loaded while the machine starts has a  *)
(* place of its own, and the MMU's tables lie in free memory, for memory   *)
(* maps, modules and pages of every size.                                  *)
(***************************************************************************)
EXTENDS BootInfo, SequenceTheorems, WellFoundedInduction, TLAPS

LEMMA BootFacts ==
    /\ Word \in Nat /\ PAGE_SIZE \in Nat \ {0} /\ LOWER_BOUND \in Nat /\ PageRoom \in Nat
    /\ PAGE_SIZE <= Word /\ Word % PAGE_SIZE = 0
    /\ \A k \in {"mmap", "vmap", "module", "cmdline"} : RecordSize[k] \in Nat
    /\ RecordSize.mmap \in Nat /\ RecordSize.module \in Nat
<1>1. RecordSize \in [{"mmap", "vmap", "module", "cmdline"} -> Nat]
  BY BootAssumption
<1>2. \A k \in {"mmap", "vmap", "module", "cmdline"} : RecordSize[k] \in Nat
  BY <1>1
<1> QED
  BY <1>2, BootAssumption

-----------------------------------------------------------------------------
(* Numbers.                                                                *)

(* Every set of naturals has a least element, and if it is bounded also a  *)
(* greatest one.                                                           *)
LEMMA LeastElement ==
    ASSUME NEW S \in SUBSET Nat, S # {}
    PROVE  \E m \in S : \A k \in S : m <= k
<1> DEFINE R == OpToRel(<, Nat)
<1>1. IsWellFoundedOn(R, Nat)
  BY NatLessThanWellFounded
<1> HIDE DEF R
<1>2. PICK m \in S : \A k \in S : ~(<<k, m>> \in R)
  BY <1>1, WFMin
<1>3. \A k, l \in Nat : k < l => <<k, l>> \in R
  BY DEF R, OpToRel
<1>4. \A k \in S : ~(k < m)
  BY <1>2, <1>3
<1> QED
  BY <1>4

LEMMA GreatestElement ==
    ASSUME NEW n \in Nat, NEW S \in SUBSET (0 .. n), S # {}
    PROVE  \E m \in S : \A k \in S : k <= m
<1> DEFINE T == {j \in Nat : j <= n /\ n - j \in S}
<1>1. PICK x \in S : TRUE
  OBVIOUS
<1>2. n - x \in T
  BY <1>1
<1>3. PICK j \in T : \A k \in T : j <= k
  BY <1>2, LeastElement
<1>4. n - j \in S /\ j \in Nat
  BY <1>3
<1>5. ASSUME NEW k \in S PROVE k <= n - j
  <2>1. n - k \in T
    OBVIOUS
  <2>2. j <= n - k
    BY <1>3, <2>1
  <2> QED
    BY <1>4, <2>2
<1> QED
  BY <1>4, <1>5

LEMMA PageMultiple ==
    ASSUME NEW q \in Nat
    PROVE  (q * PAGE_SIZE) % PAGE_SIZE = 0
<1>1. PAGE_SIZE \in Nat \ {0}
  BY BootFacts
<1> QED
  BY <1>1

(* page_align_up of an address below the last page.                        *)
LEMMA AlignUp ==
    ASSUME NEW a \in Nat, a + PAGE_SIZE <= Word
    PROVE  /\ page_align_up(a) \in Nat
           /\ a <= page_align_up(a) /\ page_align_up(a) < a + PAGE_SIZE
           /\ \E q \in Nat : page_align_up(a) = q * PAGE_SIZE
<1> DEFINE x == a + PAGE_SIZE - 1
           q == x \div PAGE_SIZE
<1>1. PAGE_SIZE \in Nat \ {0} /\ Word \in Nat /\ x \in Nat /\ x < Word
  BY BootFacts
<1>2. x % Word = x
  BY <1>1
<1>3. page_align_up(a) = q * PAGE_SIZE
  BY <1>2 DEF page_align_up
<1>4. q \in Nat /\ q * PAGE_SIZE <= x /\ x < (q + 1) * PAGE_SIZE
  BY <1>1
<1>5. (q + 1) * PAGE_SIZE = q * PAGE_SIZE + PAGE_SIZE /\ q * PAGE_SIZE \in Nat
  BY <1>1, <1>4
<1> HIDE DEF q
<1> QED
  BY <1>1, <1>3, <1>4, <1>5

(* page_align_up never leaves the address space.                           *)
LEMMA AlignUpTyped ==
    ASSUME NEW a \in Nat
    PROVE  page_align_up(a) \in 0 .. Word - 1
<1> DEFINE x == (a + PAGE_SIZE - 1) % Word
           q == x \div PAGE_SIZE
<1>1. PAGE_SIZE \in Nat \ {0} /\ Word \in Nat \ {0} /\ a + PAGE_SIZE - 1 \in Nat
  BY BootFacts
<1>2. x \in 0 .. Word - 1
  BY <1>1
<1> HIDE DEF x
<1>3. q \in Nat /\ q * PAGE_SIZE <= x
  BY <1>1, <1>2
<1>4. q * PAGE_SIZE \in Nat
  BY <1>1, <1>3
<1>5. page_align_up(a) = q * PAGE_SIZE
  BY DEF page_align_up, x
<1> QED
  BY <1>1, <1>2, <1>3, <1>4, <1>5

LEMMA WordPages == \E w \in Nat : Word = w * PAGE_SIZE
<1>1. PAGE_SIZE \in Nat \ {0} /\ Word \in Nat /\ Word % PAGE_SIZE = 0
  BY BootFacts
<1>2. \A x \in Nat : x % PAGE_SIZE = 0 => x = (x \div PAGE_SIZE) * PAGE_SIZE
  BY <1>1
<1>3. Word \div PAGE_SIZE \in Nat
  BY <1>1
<1> QED
  BY <1>1, <1>2, <1>3

LEMMA BelowWord ==
    ASSUME NEW a \in Nat, a + PAGE_SIZE <= Word
    PROVE  a \in 0 .. Word - 1
<1>1. PAGE_SIZE \in Nat /\ PAGE_SIZE >= 1 /\ Word \in Nat
  BY BootFacts
<1> QED
  BY <1>1

(* Addresses of pages differ by a page at least.                           *)
LEMMA PagesApart ==
    ASSUME NEW p \in Nat, NEW q \in Nat, p * PAGE_SIZE < q * PAGE_SIZE
    PROVE  p * PAGE_SIZE + PAGE_SIZE <= q * PAGE_SIZE
<1>1. PAGE_SIZE \in Nat \ {0}
  BY BootFacts
<1>2. p + 1 <= q
  <2>1. SUFFICES ASSUME q <= p PROVE FALSE
    OBVIOUS
  <2>2. q * PAGE_SIZE <= p * PAGE_SIZE
    BY <1>1, <2>1
  <2> QED
    BY <1>1, <2>2
<1>3. (p + 1) * PAGE_SIZE <= q * PAGE_SIZE
  BY <1>1, <1>2
<1> QED
  BY <1>1, <1>3

-----------------------------------------------------------------------------
(* The inductive invariant.                                                *)

(* What is in memory is on a special page, or between LOWER_BOUND and the  *)
(* address behind the last module, unless a module has been forgotten.     *)
Placed ==
    /\ last + PAGE_SIZE <= Word
    /\ modules # <<>> => last >= LOWER_BOUND
    /\ stage \in {"nucleus", "load", "entry"} => modules # <<>>
    /\ ~full =>
          /\ \A i \in DOMAIN inuse :
                \/ /\ inuse[i].start >= LOWER_BOUND
                   /\ inuse[i].start + inuse[i].size <= last
                \/ \E s \in SpecialPages : /\ inuse[i].start = s.start
                                           /\ inuse[i].size = s.size
          /\ \A i, j \in DOMAIN inuse : i # j => ~Overlap(inuse[i], inuse[j])

(* The first n entries of the map are the firmware's; each other one is a  *)
(* claim inside of one of them that is free.                               *)
Base(n) ==
    /\ n \in 0 .. Len(mmap)
    /\ \A i, j \in 1 .. n : i # j => ~Overlap(mmap[i], mmap[j])
    /\ \A i \in 1 .. n : mmap[i].start + mmap[i].size <= Word
    /\ \A i \in n + 1 .. Len(mmap) :
          /\ ~ mmap[i].free
          /\ \E j \in 1 .. n : mmap[j].free /\ Covers(mmap[j], mmap[i])

Overlaid == \E n \in Nat : Base(n)

(* Claims that were accepted are in the map.                               *)
Recorded ==
    \A i \in DOMAIN inuse : inuse[i].kept =>
        \E j \in DOMAIN mmap : /\ ~ mmap[j].free
                               /\ mmap[j].start = inuse[i].start
                               /\ mmap[j].size = inuse[i].size

Inv == TypeOK /\ Placed /\ Overlaid /\ Recorded /\ MmuPlacedFree

Piece == [start : 0 .. Word - 1, size : 1 .. Word, kept : BOOLEAN]

LEMMA InitInv == Init => Inv
<1> SUFFICES ASSUME Init PROVE Inv
  OBVIOUS
<1>1. PICK base \in BaseMaps : /\ Len(base) * RecordSize.mmap <= PageRoom
                               /\ mmap = base
                               /\ room = PageRoom - Len(base) * RecordSize.mmap
  BY DEF Init
<1>2. /\ modules = <<>> /\ last = 0 /\ stage = "probe" /\ inuse = <<>>
      /\ mmu = NoMmu /\ full = FALSE
  BY DEF Init
<1>3. mmap \in Seq(Entry) /\ Len(mmap) \in Nat /\ DOMAIN mmap = 1 .. Len(mmap)
  BY <1>1, BootAssumption
<1>4. Len(base) * RecordSize.mmap \in Nat
  BY <1>1, <1>3, BootFacts
<1>5. room \in 0 .. PageRoom
  <2>1. PICK k \in Nat : k = Len(base) * RecordSize.mmap
    BY <1>4
  <2> QED
    BY <1>1, <2>1, BootFacts
<1>6. <<>> \in Seq(BootModules) /\ <<>> \in Seq(Piece) /\ DOMAIN <<>> = {}
  OBVIOUS
<1>7. NoMmu \in [start : 0 .. Word - 1, size : 0 .. Word, found : BOOLEAN]
  BY BootFacts DEF NoMmu
<1>8. TypeOK
  <2>1. last \in 0 .. Word - 1
    <3>1. Word \in Nat /\ Word >= 1
      BY BootFacts
    <3> QED
      BY <1>2, <3>1
  <2>2. modules \in Seq(BootModules) /\ inuse \in Seq(Piece)
    BY <1>2, <1>6
  <2>3. stage \in {"probe", "nucleus", "load", "entry", "mmu", "panic"}
    BY <1>2
  <2>4. mmu \in [start : 0 .. Word - 1, size : 0 .. Word, found : BOOLEAN]
    BY <1>2, <1>7
  <2>5. full \in BOOLEAN
    BY <1>2
  <2> QED
    BY <1>3, <1>5, <2>1, <2>2, <2>3, <2>4, <2>5 DEF TypeOK, Piece
<1>9. Placed
  BY <1>2, <1>6, BootFacts DEF Placed
<1>10. Base(Len(mmap))
  <2>1. \A i, j \in DOMAIN mmap : /\ mmap[i].start + mmap[i].size <= Word
                                  /\ i # j => ~Overlap(mmap[i], mmap[j])
    BY <1>1, BootAssumption
  <2>2. Len(mmap) + 1 .. Len(mmap) = {}
    BY <1>3
  <2> QED
    BY <1>3, <2>1, <2>2 DEF Base
<1>11. Overlaid /\ Recorded /\ MmuPlacedFree
  BY <1>2, <1>3, <1>6, <1>10 DEF Overlaid, Recorded, MmuPlacedFree
<1> QED
  BY <1>8, <1>9, <1>11 DEF Inv

-----------------------------------------------------------------------------
(* Claims.                                                                 *)

(* use_memory accepts what lies in a free entry of the firmware.           *)
LEMMA AcceptedCovered ==
    ASSUME TypeOK, NEW n \in Nat, Base(n), NEW r, NEW left, Accepted(r, left)
    PROVE  \E j \in 1 .. n : mmap[j].free /\ Covers(mmap[j], r)
<1> DEFINE found == find_matching_entry(r)
<1>1. mmap \in Seq(Entry) /\ Len(mmap) \in Nat /\ DOMAIN mmap = 1 .. Len(mmap)
  BY DEF TypeOK
<1>2. found # {} /\ mmap[CHOOSE i \in found : \A j \in found : j <= i].free
  BY DEF Accepted
<1>3. found \in SUBSET (0 .. Len(mmap))
  BY <1>1 DEF find_matching_entry
<1>4. \A i \in found : Covers(mmap[i], r) /\ i \in 1 .. Len(mmap)
  BY <1>1 DEF find_matching_entry
<1> HIDE DEF found
<1>5. \E m \in found : \A k \in found : k <= m
  BY <1>1, <1>2, <1>3, GreatestElement
<1>6. PICK m \in found : mmap[m].free
  BY <1>2, <1>5
<1>7. m \in 1 .. n
  BY <1>1, <1>4, <1>6 DEF Base
<1> QED
  BY <1>4, <1>6, <1>7

LEMMA ClaimKeepsOverlaid ==
    ASSUME TypeOK, Overlaid, NEW r, NEW left, Accepted(r, left),
           r.start \in 0 .. Word - 1, r.size \in 1 .. Word,
           mmap' = Append(mmap, NonFree(r))
    PROVE  /\ mmap' \in Seq(Entry) /\ Overlaid'
           /\ Len(mmap') = Len(mmap) + 1 /\ Len(mmap) \in Nat
           /\ \A i \in 1 .. Len(mmap) : mmap'[i] = mmap[i]
           /\ mmap'[Len(mmap) + 1] = NonFree(r)
<1>1. mmap \in Seq(Entry) /\ Len(mmap) \in Nat
  BY DEF TypeOK
<1>2. NonFree(r) \in Entry
  BY DEF NonFree, Entry
<1>3. /\ mmap' \in Seq(Entry)
      /\ Len(mmap') = Len(mmap) + 1
      /\ \A i \in 1 .. Len(mmap) : mmap'[i] = mmap[i]
      /\ mmap'[Len(mmap) + 1] = NonFree(r)
  BY <1>1, <1>2, AppendProperties
<1>4. PICK n \in Nat : Base(n)
  BY DEF Overlaid
<1>5. PICK j \in 1 .. n : mmap[j].free /\ Covers(mmap[j], r)
  BY <1>4, AcceptedCovered
<1>6. /\ n \in 0 .. Len(mmap) /\ n \in 0 .. Len(mmap')
      /\ \A i \in 1 .. n : mmap'[i] = mmap[i]
  BY <1>1, <1>3, <1>4 DEF Base
<1>7. ~ NonFree(r).free /\ Covers(mmap[j], NonFree(r))
  BY <1>5 DEF NonFree, Covers
<1>8. ASSUME NEW i \in n + 1 .. Len(mmap')
      PROVE  /\ ~ mmap'[i].free
             /\ \E k \in 1 .. n : mmap'[k].free /\ Covers(mmap'[k], mmap'[i])
  <2>1. CASE i = Len(mmap) + 1
    BY <1>3, <1>5, <1>6, <1>7, <2>1
  <2>2. CASE i # Len(mmap) + 1
    <3>1. i \in n + 1 .. Len(mmap) /\ i \in 1 .. Len(mmap)
      BY <1>1, <1>3, <1>6, <2>2
    <3>2. mmap'[i] = mmap[i]
      BY <1>3, <3>1
    <3>3. /\ ~ mmap[i].free
          /\ \E k \in 1 .. n : mmap[k].free /\ Covers(mmap[k], mmap[i])
      BY <1>4, <3>1 DEF Base
    <3> QED
      BY <1>6, <3>2, <3>3
  <2> QED
    BY <2>1, <2>2
<1>9. \A i, k \in 1 .. n : i # k => ~Overlap(mmap'[i], mmap'[k])
  BY <1>4, <1>6 DEF Base
<1>10. \A i \in 1 .. n : mmap'[i].start + mmap'[i].size <= Word
  BY <1>4, <1>6 DEF Base
<1>11. Base(n)'
  BY <1>6, <1>8, <1>9, <1>10 DEF Base
<1> QED
  BY <1>1, <1>3, <1>11 DEF Overlaid

LEMMA use_memoryKeeps ==
    ASSUME TypeOK, Overlaid, Recorded, NEW r, NEW left \in 0 .. PageRoom,
           r.start \in 0 .. Word - 1, r.size \in 1 .. Word, use_memory(r, left)
    PROVE  /\ mmap' \in Seq(Entry) /\ room' \in 0 .. PageRoom /\ inuse' \in Seq(Piece)
           /\ Overlaid' /\ Recorded'
           /\ Len(inuse) \in Nat /\ Len(inuse') = Len(inuse) + 1
           /\ \A i \in 1 .. Len(inuse) : inuse'[i] = inuse[i]
           /\ inuse'[Len(inuse) + 1].start = r.start
           /\ inuse'[Len(inuse) + 1].size = r.size
<1> DEFINE kept == Accepted(r, left)
           new  == [start |-> r.start, size |-> r.size, kept |-> kept]
<1>1. /\ mmap' = IF kept THEN Append(mmap, NonFree(r)) ELSE mmap
      /\ room' = IF kept THEN left - RecordSize.mmap ELSE left
      /\ inuse' = Append(inuse, new)
  BY DEF use_memory
<1>2. kept \in BOOLEAN /\ (kept => left >= RecordSize.mmap)
  BY DEF Accepted
<1> HIDE DEF kept
<1>3. room' \in 0 .. PageRoom
  BY <1>1, <1>2, BootFacts
<1>4. new \in Piece /\ new.start = r.start /\ new.size = r.size /\ new.kept = kept
  BY <1>2 DEF Piece
<1>5. inuse \in Seq(Piece) /\ Len(inuse) \in Nat
  BY DEF TypeOK, Piece
<1> HIDE DEF new
<1>6. /\ inuse' \in Seq(Piece) /\ Len(inuse') = Len(inuse) + 1
      /\ \A i \in 1 .. Len(inuse) : inuse'[i] = inuse[i]
      /\ inuse'[Len(inuse) + 1] = new
  BY <1>1, <1>4, <1>5, AppendProperties
<1>7. /\ mmap' \in Seq(Entry) /\ Overlaid'
      /\ \A j \in DOMAIN mmap : j \in DOMAIN mmap' /\ mmap'[j] = mmap[j]
      /\ kept => \E j \in DOMAIN mmap' : mmap'[j] = NonFree(r)
  <2>1. CASE kept
    <3>1. /\ mmap' \in Seq(Entry) /\ Overlaid'
          /\ Len(mmap') = Len(mmap) + 1 /\ Len(mmap) \in Nat
          /\ \A i \in 1 .. Len(mmap) : mmap'[i] = mmap[i]
          /\ mmap'[Len(mmap) + 1] = NonFree(r)
      BY <1>1, <2>1, ClaimKeepsOverlaid DEF kept
    <3>2. DOMAIN mmap' = 1 .. Len(mmap') /\ DOMAIN mmap = 1 .. Len(mmap)
      BY <3>1 DEF TypeOK
    <3>3. Len(mmap) + 1 \in DOMAIN mmap' /\ \A j \in DOMAIN mmap : j \in DOMAIN mmap'
      BY <3>1, <3>2
    <3> QED
      BY <3>1, <3>2, <3>3
  <2>2. CASE ~ kept
    <3>1. mmap' = mmap
      BY <1>1, <2>2
    <3>2. Overlaid'
      BY <3>1 DEF Overlaid, Base
    <3> QED
      BY <2>2, <3>1, <3>2 DEF TypeOK
  <2> QED
    BY <2>1, <2>2
<1>8. Recorded'
  <2> SUFFICES ASSUME NEW i \in DOMAIN inuse', inuse'[i].kept
               PROVE  \E j \in DOMAIN mmap' : /\ ~ mmap'[j].free
                                              /\ mmap'[j].start = inuse'[i].start
                                              /\ mmap'[j].size = inuse'[i].size
    BY DEF Recorded
  <2>1. i \in 1 .. Len(inuse) + 1 /\ DOMAIN inuse = 1 .. Len(inuse)
    BY <1>5, <1>6
  <2>2. CASE i = Len(inuse) + 1
    <3>1. PICK j \in DOMAIN mmap' : mmap'[j] = NonFree(r)
      BY <1>4, <1>6, <1>7, <2>2
    <3> QED
      BY <1>4, <1>6, <2>2, <3>1 DEF NonFree
  <2>3. CASE i # Len(inuse) + 1
    <3>1. i \in DOMAIN inuse /\ inuse'[i] = inuse[i]
      BY <1>5, <1>6, <2>1, <2>3
    <3>2. PICK j \in DOMAIN mmap : /\ ~ mmap[j].free
                                   /\ mmap[j].start = inuse[i].start
                                   /\ mmap[j].size = inuse[i].size
      BY <3>1 DEF Recorded
    <3> QED
      BY <1>7, <3>1, <3>2
  <2> QED
    BY <2>2, <2>3
<1> QED
  BY <1>3, <1>4, <1>5, <1>6, <1>7, <1>8

LEMMA PiecesTyped ==
    ASSUME TypeOK
    PROVE  /\ Len(inuse) \in Nat /\ DOMAIN inuse = 1 .. Len(inuse)
           /\ \A i \in DOMAIN inuse : inuse[i].start \in Nat /\ inuse[i].size \in Nat
<1>1. inuse \in Seq(Piece)
  BY DEF TypeOK, Piece
<1>2. Len(inuse) \in Nat /\ inuse \in [1 .. Len(inuse) -> Piece]
  BY <1>1, LenProperties
<1>3. \A x \in Piece : x.start \in Nat /\ x.size \in Nat
  BY BootFacts DEF Piece
<1> QED
  BY <1>2, <1>3

(* A piece of memory that is in no other's way.                            *)
LEMMA NewPiecePlaced ==
    ASSUME TypeOK, Placed, ~ full, NEW r, r.start \in Nat, r.size \in Nat,
           last' \in Nat, last <= last',
           inuse' \in Seq(Piece), Len(inuse) \in Nat, Len(inuse') = Len(inuse) + 1,
           \A i \in 1 .. Len(inuse) : inuse'[i] = inuse[i],
           inuse'[Len(inuse) + 1].start = r.start, inuse'[Len(inuse) + 1].size = r.size,
           \/ r.start >= LOWER_BOUND /\ r.start + r.size <= last'
           \/ \E s \in SpecialPages : r.start = s.start /\ r.size = s.size,
           \A i \in DOMAIN inuse : ~Overlap(inuse[i], r)
    PROVE  /\ \A i \in DOMAIN inuse' :
                \/ /\ inuse'[i].start >= LOWER_BOUND
                   /\ inuse'[i].start + inuse'[i].size <= last'
                \/ \E s \in SpecialPages : /\ inuse'[i].start = s.start
                                           /\ inuse'[i].size = s.size
           /\ \A i, j \in DOMAIN inuse' : i # j => ~Overlap(inuse'[i], inuse'[j])
<1>1. /\ DOMAIN inuse = 1 .. Len(inuse) /\ DOMAIN inuse' = 1 .. Len(inuse) + 1
      /\ last \in Nat
      /\ \A i \in DOMAIN inuse : inuse[i].start \in Nat /\ inuse[i].size \in Nat
  <2>1. DOMAIN inuse' = 1 .. Len(inuse')
    BY LenProperties
  <2>2. last \in Nat
    BY BootFacts DEF TypeOK
  <2> QED
    BY <2>1, <2>2, PiecesTyped
<1>2. \A i \in DOMAIN inuse' :
         i = Len(inuse) + 1 \/ (i \in DOMAIN inuse /\ inuse'[i] = inuse[i])
  <2>1. \A i \in 1 .. Len(inuse) + 1 : i = Len(inuse) + 1 \/ i \in 1 .. Len(inuse)
    OBVIOUS
  <2> QED
    BY <1>1, <2>1
<1>3. ASSUME NEW i \in DOMAIN inuse'
      PROVE  \/ /\ inuse'[i].start >= LOWER_BOUND
                /\ inuse'[i].start + inuse'[i].size <= last'
             \/ \E s \in SpecialPages : /\ inuse'[i].start = s.start
                                        /\ inuse'[i].size = s.size
  <2>1. CASE i = Len(inuse) + 1
    BY <2>1
  <2>2. CASE i \in DOMAIN inuse /\ inuse'[i] = inuse[i]
    <3>1. \/ /\ inuse[i].start >= LOWER_BOUND
             /\ inuse[i].start + inuse[i].size <= last
          \/ \E s \in SpecialPages : /\ inuse[i].start = s.start
                                     /\ inuse[i].size = s.size
      BY <2>2 DEF Placed
    <3>2. inuse[i].start \in Nat /\ inuse[i].size \in Nat
      BY <1>1, <2>2
    <3> QED
      BY <1>1, <2>2, <3>1, <3>2
  <2> QED
    BY <1>2, <2>1, <2>2
<1>4. ASSUME NEW i \in DOMAIN inuse', NEW j \in DOMAIN inuse', i # j
      PROVE  ~Overlap(inuse'[i], inuse'[j])
  <2>1. CASE i \in DOMAIN inuse /\ j \in DOMAIN inuse
    <3>1. inuse'[i] = inuse[i] /\ inuse'[j] = inuse[j]
      BY <1>1, <2>1
    <3> QED
      BY <1>4, <2>1, <3>1 DEF Placed
  <2>2. CASE i = Len(inuse) + 1 /\ j \in DOMAIN inuse
    <3>1. inuse'[j] = inuse[j] /\ ~Overlap(inuse[j], r)
      BY <1>1, <2>2
    <3> QED
      BY <2>2, <3>1 DEF Overlap
  <2>3. CASE j = Len(inuse) + 1 /\ i \in DOMAIN inuse
    <3>1. inuse'[i] = inuse[i] /\ ~Overlap(inuse[i], r)
      BY <1>1, <2>3
    <3> QED
      BY <2>3, <3>1 DEF Overlap
  <2> QED
    BY <1>2, <1>4, <2>1, <2>2, <2>3
<1> QED
  BY <1>3, <1>4

-----------------------------------------------------------------------------
LEMMA mbi_moduleKeepsInv ==
    ASSUME Inv, NEW b \in BootModules, mbi_module(b)
    PROVE  Inv'
<1> DEFINE fits == room >= RecordSize.module
           left == IF fits THEN room - RecordSize.module ELSE room
<1>1. /\ stage = "probe" /\ UNCHANGED <<stage, mmu>>
      /\ \A i \in DOMAIN inuse : ~Overlap(inuse[i], b)
      /\ fits => modules' = Append(modules, b) /\ last' = LastEnd(b)
      /\ ~ fits => UNCHANGED <<modules, last>>
      /\ use_memory(b, left)
      /\ full' = (full \/ ~ fits)
  BY DEF mbi_module
<1>2. /\ b.start \in 0 .. Word - 1 /\ b.size \in 1 .. Word /\ b.start >= LOWER_BOUND
      /\ b.start + b.size + PAGE_SIZE <= Word
  <2>1. /\ b \in Memory /\ b.start >= LOWER_BOUND
        /\ b.start + b.size <= Word - PAGE_SIZE
    BY BootAssumption
  <2> QED
    BY <2>1, BootFacts DEF Memory
<1>3. left \in 0 .. PageRoom
  <2>1. room \in 0 .. PageRoom
    BY DEF Inv, TypeOK
  <2> QED
    BY <2>1, BootFacts
<1> HIDE DEF left
<1>4. /\ mmap' \in Seq(Entry) /\ room' \in 0 .. PageRoom /\ inuse' \in Seq(Piece)
      /\ Overlaid' /\ Recorded'
      /\ Len(inuse) \in Nat /\ Len(inuse') = Len(inuse) + 1
      /\ \A i \in 1 .. Len(inuse) : inuse'[i] = inuse[i]
      /\ inuse'[Len(inuse) + 1].start = b.start
      /\ inuse'[Len(inuse) + 1].size = b.size
  BY <1>1, <1>2, <1>3, use_memoryKeeps DEF Inv
<1>5. /\ last \in Nat /\ last + PAGE_SIZE <= Word /\ last' \in Nat
      /\ last <= last' /\ last' + PAGE_SIZE <= Word
      /\ fits => b.start + b.size <= last'
  <2>1. last \in Nat /\ last + PAGE_SIZE <= Word
    BY DEF Inv, TypeOK, Placed
  <2> QED
    BY <1>1, <1>2, <2>1 DEF LastEnd
<1>6. modules' \in Seq(BootModules) /\ full' \in BOOLEAN
  <2>1. modules \in Seq(BootModules) /\ full \in BOOLEAN
    BY DEF Inv, TypeOK
  <2> QED
    BY <1>1, <2>1
<1>7. TypeOK'
  <2>1. last' \in 0 .. Word - 1
    BY <1>5, BelowWord
  <2> QED
    BY <1>1, <1>4, <1>6, <2>1 DEF Inv, TypeOK, Piece
<1>8. Placed'
  <2>1. modules' # <<>> => last' >= LOWER_BOUND
    <3>1. CASE fits
      BY <1>2, <1>5, <3>1, BootFacts
    <3>2. CASE ~ fits
      BY <1>1, <3>2 DEF Inv, Placed
    <3> QED
      BY <3>1, <3>2
  <2>2. ASSUME ~ full'
        PROVE  /\ \A i \in DOMAIN inuse' :
                    \/ /\ inuse'[i].start >= LOWER_BOUND
                       /\ inuse'[i].start + inuse'[i].size <= last'
                    \/ \E s \in SpecialPages : /\ inuse'[i].start = s.start
                                               /\ inuse'[i].size = s.size
               /\ \A i, j \in DOMAIN inuse' : i # j => ~Overlap(inuse'[i], inuse'[j])
    <3>1. ~ full /\ fits
      BY <1>1, <2>2, Zenon
    <3>2. b.start \in Nat /\ b.size \in Nat
      BY <1>2, BootFacts
    <3> QED
      BY <1>1, <1>2, <1>4, <1>5, <3>1, <3>2, NewPiecePlaced DEF Inv
  <2>3. stage' = "probe"
    BY <1>1
  <2> QED
    BY <1>5, <2>1, <2>2, <2>3 DEF Placed
<1>9. MmuPlacedFree'
  BY <1>1 DEF MmuPlacedFree
<1> QED
  BY <1>4, <1>7, <1>8, <1>9 DEF Inv

LEMMA mbi_prepareKeepsInv ==
    ASSUME Inv, mbi_prepare
    PROVE  Inv'
<1>1. /\ room' = Appended(Appended(room, "cmdline"), "vmap")
      /\ stage' = IF modules = <<>> THEN "panic" ELSE "nucleus"
      /\ UNCHANGED <<mmap, modules, last, inuse, mmu, full>>
  BY DEF mbi_prepare
<1>2. \A k \in {"cmdline", "vmap"}, n \in 0 .. PageRoom : Appended(n, k) \in 0 .. PageRoom
  BY BootFacts DEF Appended
<1>3. room' \in 0 .. PageRoom
  <2>1. room \in 0 .. PageRoom
    BY DEF Inv, TypeOK
  <2> QED
    BY <1>1, <1>2, <2>1
<1>4. TypeOK'
  BY <1>1, <1>3 DEF Inv, TypeOK
<1>5. Placed' /\ Recorded'
  BY <1>1 DEF Inv, Placed, Recorded
<1>6. Overlaid'
  BY <1>1 DEF Inv, Overlaid, Base
<1>7. MmuPlacedFree'
  BY <1>1 DEF MmuPlacedFree
<1> QED
  BY <1>4, <1>5, <1>6, <1>7 DEF Inv

(* A module is loaded behind all others and above the special pages.       *)
LEMMA load_moduleKeepsInv ==
    ASSUME Inv, NEW pages \in LoadPages, load_module(pages)
    PROVE  Inv'
<1>1. PICK r : /\ r.start = page_align_up(last) /\ r.size = pages * PAGE_SIZE
               /\ r.start + r.size < Word
               /\ last' = r.start + r.size
               /\ use_memory(r, room)
  <2> DEFINE r == [start |-> page_align_up(last), size |-> pages * PAGE_SIZE]
  <2>1. /\ page_align_up(last) + r.size < Word
        /\ last' = page_align_up(last) + r.size
        /\ use_memory(r, room)
    BY DEF load_module, section_base, loaded_size
  <2> QED
    BY <2>1
<1>2. /\ stage \in {"nucleus", "load", "entry"} /\ stage' \in {"load", "entry"}
      /\ UNCHANGED <<modules, mmu, full>>
  BY DEF load_module
<1>3. last \in Nat /\ last + PAGE_SIZE <= Word /\ modules # <<>> /\ last >= LOWER_BOUND
  BY <1>2 DEF Inv, TypeOK, Placed
<1>4. /\ r.start \in Nat /\ last <= r.start
      /\ \E q \in Nat : r.start = q * PAGE_SIZE
  BY <1>1, <1>3, AlignUp
<1>5. pages \in Nat \ {0} /\ PAGE_SIZE \in Nat \ {0} /\ Word \in Nat
  BY BootAssumption, BootFacts
<1>6. r.size \in Nat /\ r.size > 0
  BY <1>1, <1>5
<1>7. r.start \in 0 .. Word - 1 /\ r.size \in 1 .. Word /\ last' \in Nat /\ last <= last'
  BY <1>1, <1>3, <1>4, <1>5, <1>6
<1>8. last' + PAGE_SIZE <= Word
  <2>1. PICK q \in Nat : r.start = q * PAGE_SIZE
    BY <1>4
  <2>2. last' = (q + pages) * PAGE_SIZE
    BY <1>1, <1>5, <2>1
  <2>3. PICK w \in Nat : Word = w * PAGE_SIZE
    BY WordPages
  <2>4. (q + pages) * PAGE_SIZE < w * PAGE_SIZE
    BY <1>1, <2>2, <2>3
  <2>5. q + pages \in Nat
    BY <1>5
  <2> QED
    BY <2>2, <2>3, <2>4, <2>5, PagesApart
<1>9. room \in 0 .. PageRoom
  BY DEF Inv, TypeOK
<1>10. /\ mmap' \in Seq(Entry) /\ room' \in 0 .. PageRoom /\ inuse' \in Seq(Piece)
       /\ Overlaid' /\ Recorded'
       /\ Len(inuse) \in Nat /\ Len(inuse') = Len(inuse) + 1
       /\ \A i \in 1 .. Len(inuse) : inuse'[i] = inuse[i]
       /\ inuse'[Len(inuse) + 1].start = r.start
       /\ inuse'[Len(inuse) + 1].size = r.size
  BY <1>1, <1>7, <1>9, use_memoryKeeps DEF Inv
<1>11. TypeOK'
  <2>1. last' \in 0 .. Word - 1
    BY <1>7, <1>8, BelowWord
  <2> QED
    BY <1>2, <1>10, <2>1 DEF Inv, TypeOK, Piece
<1>12. Placed'
  <2>1. ASSUME ~ full'
        PROVE  /\ \A i \in DOMAIN inuse' :
                    \/ /\ inuse'[i].start >= LOWER_BOUND
                       /\ inuse'[i].start + inuse'[i].size <= last'
                    \/ \E s \in SpecialPages : /\ inuse'[i].start = s.start
                                               /\ inuse'[i].size = s.size
               /\ \A i, j \in DOMAIN inuse' : i # j => ~Overlap(inuse'[i], inuse'[j])
    <3>1. ~ full /\ r.start \in Nat /\ r.size \in Nat /\ last \in Nat
      BY <1>2, <1>3, <1>4, <1>6, <2>1
    <3>2. r.start >= LOWER_BOUND /\ r.start + r.size <= last'
      BY <1>1, <1>3, <1>4, <1>7, BootFacts
    <3>3. ASSUME NEW i \in DOMAIN inuse PROVE ~Overlap(inuse[i], r)
      <4>1. inuse[i].start \in Nat /\ inuse[i].size \in Nat
        BY PiecesTyped DEF Inv
      <4>2. CASE inuse[i].start + inuse[i].size <= last
        BY <1>4, <3>1, <4>1, <4>2 DEF Overlap
      <4>3. CASE \E s \in SpecialPages : /\ inuse[i].start = s.start
                                         /\ inuse[i].size = s.size
        <5>1. inuse[i].start + inuse[i].size <= LOWER_BOUND
          BY <4>3, BootAssumption
        <5> QED
          BY <3>1, <3>2, <4>1, <5>1, BootFacts DEF Overlap
      <4> QED
        BY <3>1, <4>2, <4>3 DEF Inv, Placed
    <3> QED
      BY <1>7, <1>10, <3>1, <3>2, <3>3, NewPiecePlaced DEF Inv
  <2>2. modules' # <<>> /\ last' >= LOWER_BOUND
    BY <1>2, <1>3, <1>7, BootFacts
  <2> QED
    BY <1>8, <2>1, <2>2 DEF Placed
<1>13. MmuPlacedFree'
  BY <1>2 DEF MmuPlacedFree
<1> QED
  BY <1>10, <1>11, <1>12, <1>13 DEF Inv

LEMMA special_pageKeepsInv ==
    ASSUME Inv, NEW r \in SpecialPages, special_page(r)
    PROVE  Inv'
<1>1. /\ stage = "load" /\ ~Claimed(r) /\ stage' \in {"load", "entry"}
      /\ use_memory(r, room)
      /\ UNCHANGED <<modules, last, mmu, full>>
  BY DEF special_page
<1>2. /\ r.start \in 0 .. Word - 1 /\ r.size \in 1 .. Word
      /\ r.start + r.size <= LOWER_BOUND
  BY BootAssumption DEF Memory
<1>3. room \in 0 .. PageRoom /\ last \in Nat
  BY DEF Inv, TypeOK
<1>4. /\ mmap' \in Seq(Entry) /\ room' \in 0 .. PageRoom /\ inuse' \in Seq(Piece)
      /\ Overlaid' /\ Recorded'
      /\ Len(inuse) \in Nat /\ Len(inuse') = Len(inuse) + 1
      /\ \A i \in 1 .. Len(inuse) : inuse'[i] = inuse[i]
      /\ inuse'[Len(inuse) + 1].start = r.start
      /\ inuse'[Len(inuse) + 1].size = r.size
  BY <1>1, <1>2, <1>3, use_memoryKeeps DEF Inv
<1>5. TypeOK'
  BY <1>1, <1>4 DEF Inv, TypeOK, Piece
<1>6. Placed'
  <2>1. ASSUME ~ full'
        PROVE  /\ \A i \in DOMAIN inuse' :
                    \/ /\ inuse'[i].start >= LOWER_BOUND
                       /\ inuse'[i].start + inuse'[i].size <= last'
                    \/ \E s \in SpecialPages : /\ inuse'[i].start = s.start
                                               /\ inuse'[i].size = s.size
               /\ \A i, j \in DOMAIN inuse' : i # j => ~Overlap(inuse'[i], inuse'[j])
    <3>1. ~ full /\ r.start \in Nat /\ r.size \in Nat /\ last' \in Nat /\ last <= last'
      BY <1>1, <1>2, <1>3, <2>1
    <3>2. ASSUME NEW i \in DOMAIN inuse PROVE ~Overlap(inuse[i], r)
      <4>1. inuse[i].start \in Nat /\ inuse[i].size \in Nat
        BY PiecesTyped DEF Inv
      <4>2. CASE inuse[i].start >= LOWER_BOUND
        BY <1>2, <3>1, <4>1, <4>2, BootFacts DEF Overlap
      <4>3. CASE \E s \in SpecialPages : /\ inuse[i].start = s.start
                                         /\ inuse[i].size = s.size
        <5>1. PICK s \in SpecialPages : inuse[i].start = s.start /\ inuse[i].size = s.size
          BY <4>3
        <5>2. s # r
          BY <1>1, <5>1 DEF Claimed
        <5>3. ~Overlap(s, r)
          BY <5>2, BootAssumption
        <5> QED
          BY <5>1, <5>3 DEF Overlap
      <4> QED
        BY <3>1, <4>2, <4>3 DEF Inv, Placed
    <3> QED
      BY <1>4, <3>1, <3>2, NewPiecePlaced DEF Inv
  <2> QED
    BY <1>1, <2>1 DEF Inv, Placed
<1>7. MmuPlacedFree'
  BY <1>1 DEF MmuPlacedFree
<1> QED
  BY <1>4, <1>5, <1>6, <1>7 DEF Inv

-----------------------------------------------------------------------------
(* The search for the MMU's memory.                                        *)

(* The equation that defines what is left of the entry e, step by step.    *)
CutStep(e, L) ==
    [i \in 0 .. Len(mmap) |-> IF i = 0 THEN [start |-> e.start, size |-> e.size]
                              ELSE Cut(L[i - 1], mmap[i])]

LEMMA LeftEquation ==
    ASSUME NEW e, NEW w, w = CutStep(e, w)
    PROVE  \E L : L = CutStep(e, L) /\ Left(e) = L[Len(mmap)]
BY Zenon DEF Left, CutStep

(* The first n steps of it.                                                *)
CutTo(e, n, L) ==
    [i \in 0 .. n |-> IF i = 0 THEN [start |-> e.start, size |-> e.size]
                      ELSE Cut(L[i - 1], mmap[i])]

LEMMA CutsExist ==
    ASSUME NEW e, TypeOK
    PROVE  \E L : L = CutStep(e, L)
<1> DEFINE Bad == {n \in 0 .. Len(mmap) : ~ \E L : L = CutTo(e, n, L)}
<1>1. Len(mmap) \in Nat
  BY DEF TypeOK
<1>2. Bad = {}
  <2> SUFFICES ASSUME Bad # {} PROVE FALSE
    OBVIOUS
  <2>1. Bad \in SUBSET Nat
    BY <1>1
  <2>2. PICK n \in Bad : \A k \in Bad : n <= k
    BY <2>1, LeastElement
  <2>3. n \in 0 .. Len(mmap) /\ n \in Nat /\ ~ \E L : L = CutTo(e, n, L)
    BY <1>1, <2>2
  <2>4. CASE n = 0
    <3> DEFINE first == [start |-> e.start, size |-> e.size]
               L     == [i \in 0 .. 0 |-> first]
    <3>1. \A i \in 0 .. 0 : i = 0
      OBVIOUS
    <3>2. L = CutTo(e, n, L)
      BY <2>4, <3>1 DEF CutTo
    <3> QED
      BY <2>3, <3>2
  <2>5. CASE n # 0
    <3>1. n - 1 \in 0 .. Len(mmap) /\ ~ (n <= n - 1)
      BY <1>1, <2>3, <2>5
    <3>2. PICK K : K = CutTo(e, n - 1, K)
      BY <2>2, <3>1
    <3> DEFINE L == [i \in 0 .. n |-> IF i < n THEN K[i] ELSE Cut(K[n - 1], mmap[n])]
               Rhs(i) == IF i = 0 THEN [start |-> e.start, size |-> e.size]
                         ELSE Cut(L[i - 1], mmap[i])
    <3>3. ASSUME NEW i \in 0 .. n PROVE L[i] = Rhs(i)
      <4>1. i # 0 => i - 1 \in 0 .. n /\ i - 1 < n /\ L[i - 1] = K[i - 1]
        BY <2>3
      <4>2. CASE i < n
        <5>1. i \in 0 .. n - 1 /\ L[i] = K[i]
          BY <2>3, <4>2
        <5>2. K[i] = IF i = 0 THEN [start |-> e.start, size |-> e.size]
                     ELSE Cut(K[i - 1], mmap[i])
          BY <3>2, <5>1 DEF CutTo
        <5> HIDE DEF L
        <5> QED
          BY <4>1, <5>1, <5>2
      <4>3. CASE ~ (i < n)
        <5>1. i = n /\ L[i] = Cut(K[n - 1], mmap[n])
          BY <2>3, <4>3
        <5> HIDE DEF L
        <5> QED
          BY <2>5, <4>1, <5>1
      <4> QED
        BY <4>2, <4>3
    <3>4. L = [i \in 0 .. n |-> L[i]]
      OBVIOUS
    <3> HIDE DEF L
    <3>5. L = CutTo(e, n, L)
      BY <3>3, <3>4 DEF CutTo
    <3> QED
      BY <2>3, <3>5
  <2> QED
    BY <2>4, <2>5
<1>3. Len(mmap) \in 0 .. Len(mmap)
  BY <1>1
<1>4. PICK L : L = CutTo(e, Len(mmap), L)
  BY <1>2, <1>3
<1> QED
  BY <1>4 DEF CutTo, CutStep

(* What is left of the free entry lo .. hi - 1 reaches to the end of it;   *)
(* other entries lie inside of it or outside.                              *)
Rest(r, lo, hi) ==
    /\ r.start \in Nat /\ r.size \in Nat
    /\ r.size # 0 => r.start >= lo /\ r.start + r.size = hi

InOrOut(f, lo, hi) ==
    /\ f.start \in Nat /\ f.size \in Nat \ {0} /\ f.free \in BOOLEAN
    /\ \/ f.free
       \/ f.start >= lo /\ f.start + f.size <= hi
       \/ f.start + f.size <= lo
       \/ f.start >= hi

(* One step: the rest shrinks, and the entry cut out is not in it, except  *)
(* for its last byte.                                                      *)
Shrunk(r, f, c, hi) ==
    c.size # 0 => /\ r.size # 0 /\ c.start >= r.start
                  /\ f.free \/ End(f) <= c.start \/ f.start >= hi

LEMMA CutKeeps ==
    ASSUME NEW lo \in Nat, NEW hi \in Nat, NEW r, NEW f, NEW c, c = Cut(r, f),
           Rest(r, lo, hi), InOrOut(f, lo, hi)
    PROVE  Rest(c, lo, hi) /\ Shrunk(r, f, c, hi)
<1> USE DEF Rest, InOrOut, Shrunk
<1> DEFINE end  == r.start + r.size
           skip == r.size = 0 \/ f.free \/ End(f) <= r.start \/ f.start > end
           beyond == End(f) > end
<1>1. End(f) = f.start + f.size - 1 /\ End(f) \in Nat /\ end \in Nat
  <2>1. End(f) = f.start + f.size - 1
    BY DEF End
  <2>2. end \in Nat
    OBVIOUS
  <2>3. \A x \in Nat, y \in Nat \ {0} : x + y - 1 \in Nat
    OBVIOUS
  <2> QED
    BY <2>1, <2>2, <2>3
<1>2. CASE skip
  <2>1. c = r
    BY <1>2 DEF Cut
  <2> QED
    BY <1>1, <1>2, <2>1
<1>3. CASE ~ skip
  <2>1. /\ r.size # 0 /\ ~ f.free /\ End(f) > r.start /\ f.start <= end
        /\ r.start >= lo /\ end = hi
    BY <1>1, <1>3
  <2>2. CASE beyond
    <3>1. f.start = hi /\ f.start > r.start
      BY <1>1, <2>1, <2>2
    <3>2. c = [start |-> r.start, size |-> f.start - r.start]
      BY <1>3, <2>2, <3>1 DEF Cut
    <3>3. c.start = r.start /\ c.size = f.start - r.start
      BY <3>2
    <3> QED
      BY <1>1, <2>1, <3>1, <3>3
  <2>3. CASE ~ beyond
    <3>1. c = [start |-> End(f), size |-> end - End(f)]
      BY <1>3, <2>3 DEF Cut
    <3>2. c.start = End(f) /\ c.size = end - End(f)
      BY <3>1
    <3> QED
      BY <1>1, <2>1, <2>3, <3>2
  <2> QED
    BY <2>2, <2>3
<1> QED
  BY <1>2, <1>3

(* The last byte of an entry that ends before a page is not in the page,   *)
(* unless Seen leaves it out.                                              *)
LEMMA SeenApart ==
    ASSUME NEW f, f.start \in Nat, f.size \in Nat \ {0}, NEW r, r.size \in Nat,
           NEW q \in Nat, r.start = q * PAGE_SIZE,
           End(f) <= r.start \/ f.start >= r.start + r.size
    PROVE  ~Overlap(Seen(f), r)
<1>1. End(f) = f.start + f.size - 1 /\ End(f) \in Nat
  BY DEF End
<1>2. PAGE_SIZE \in Nat \ {0} /\ r.start \in Nat
  BY BootFacts
<1>3. Seen(f).start = f.start /\ Seen(f).size <= f.size /\ Seen(f).size \in Nat
  BY <1>1 DEF Seen
<1>4. CASE f.start >= r.start + r.size
  BY <1>1, <1>2, <1>3, <1>4 DEF Overlap
<1>5. CASE End(f) <= r.start /\ End(f) % PAGE_SIZE = 0
  <2>1. Seen(f).size = f.size - 1
    BY <1>5 DEF Seen
  <2> QED
    BY <1>1, <1>2, <1>3, <1>5, <2>1 DEF Overlap
<1>6. CASE End(f) <= r.start /\ End(f) % PAGE_SIZE # 0
  <2>1. Seen(f) = f
    BY <1>6 DEF Seen
  <2>2. End(f) # r.start
    BY <1>6, PageMultiple
  <2> QED
    BY <1>1, <1>2, <1>6, <2>1, <2>2 DEF Overlap
<1> QED
  BY <1>4, <1>5, <1>6

LEMMA ApartOrdered ==
    ASSUME NEW r, NEW s, r.start \in Nat, r.size \in Nat, s.start \in Nat,
           s.size \in Nat, ~Overlap(r, s)
    PROVE  r.start + r.size <= s.start \/ r.start >= s.start + s.size
BY DEF Overlap

LEMMA CoversBounds ==
    ASSUME NEW e, NEW r, e.start \in Nat, e.size \in Nat, r.start \in Nat,
           r.size \in Nat, Covers(e, r)
    PROVE  r.start >= e.start /\ r.start + r.size <= e.start + e.size
BY DEF Covers

LEMMA EntriesTyped ==
    ASSUME TypeOK
    PROVE  /\ Len(mmap) \in Nat /\ DOMAIN mmap = 1 .. Len(mmap)
           /\ \A i \in 1 .. Len(mmap) : /\ mmap[i].start \in Nat
                                        /\ mmap[i].size \in Nat \ {0}
                                        /\ mmap[i].free \in BOOLEAN
<1>1. mmap \in Seq(Entry)
  BY DEF TypeOK
<1>2. Len(mmap) \in Nat /\ mmap \in [1 .. Len(mmap) -> Entry]
  BY <1>1, LenProperties
<1>3. \A x \in Entry : x.start \in Nat /\ x.size \in Nat \ {0} /\ x.free \in BOOLEAN
  BY BootFacts DEF Entry
<1> QED
  BY <1>2, <1>3

(* What the search leaves of a free entry reaches to the end of it, and    *)
(* keeps clear of all that is not free, except for last bytes.             *)
LEMMA LeftIsClear ==
    ASSUME TypeOK, NEW n \in Nat, Base(n), NEW k \in 1 .. n, mmap[k].free,
           NEW c, c = Left(mmap[k])
    PROVE  /\ c.start \in Nat /\ c.size \in Nat
           /\ c.size # 0 =>
                /\ c.start >= mmap[k].start
                /\ c.start + c.size = mmap[k].start + mmap[k].size
                /\ \A i \in 1 .. Len(mmap) :
                      \/ mmap[i].free
                      \/ End(mmap[i]) <= c.start
                      \/ mmap[i].start >= mmap[k].start + mmap[k].size
<1>1. /\ Len(mmap) \in Nat /\ n \in 0 .. Len(mmap)
      /\ \A i \in 1 .. Len(mmap) : /\ mmap[i].start \in Nat
                                   /\ mmap[i].size \in Nat \ {0}
                                   /\ mmap[i].free \in BOOLEAN
  BY EntriesTyped DEF Base
<1>2. PICK lo \in Nat : lo = mmap[k].start
  BY <1>1
<1>3. PICK hi \in Nat : hi = mmap[k].start + mmap[k].size
  BY <1>1
<1>4. PICK L : L = CutStep(mmap[k], L) /\ c = L[Len(mmap)]
  BY CutsExist, LeftEquation
<1>5. L[0].start = lo /\ L[0].size = mmap[k].size
  <2>1. L[0] = [start |-> mmap[k].start, size |-> mmap[k].size]
    BY <1>1, <1>4 DEF CutStep
  <2> QED
    BY <1>2, <2>1
<1>6. \A i \in 1 .. Len(mmap) : L[i] = Cut(L[i - 1], mmap[i])
  <2>1. \A i \in 1 .. Len(mmap) : i \in 0 .. Len(mmap) /\ i # 0
    BY <1>1
  <2>2. \A i \in 0 .. Len(mmap) : i # 0 => L[i] = Cut(L[i - 1], mmap[i])
    BY <1>4 DEF CutStep
  <2> QED
    BY <2>1, <2>2
<1>7. ASSUME NEW i \in 1 .. Len(mmap), ~ mmap[i].free
      PROVE  \/ mmap[i].start >= lo /\ mmap[i].start + mmap[i].size <= hi
             \/ mmap[i].start + mmap[i].size <= lo
             \/ mmap[i].start >= hi
  <2>1. CASE i \in 1 .. n
    <3>1. i # k /\ ~Overlap(mmap[i], mmap[k])
      BY <1>7, <2>1 DEF Base
    <3>2. /\ mmap[i].start \in Nat /\ mmap[i].size \in Nat
          /\ mmap[k].start \in Nat /\ mmap[k].size \in Nat
      BY <1>1
    <3>3. \/ mmap[i].start + mmap[i].size <= mmap[k].start
          \/ mmap[i].start >= mmap[k].start + mmap[k].size
      BY <3>1, <3>2, ApartOrdered
    <3> QED
      BY <1>2, <1>3, <3>3
  <2>2. CASE i \in n + 1 .. Len(mmap)
    <3>1. PICK j \in 1 .. n : Covers(mmap[j], mmap[i])
      BY <2>2 DEF Base
    <3>2. /\ mmap[j].start \in Nat /\ mmap[j].size \in Nat
          /\ mmap[i].start >= mmap[j].start
          /\ mmap[i].start + mmap[i].size <= mmap[j].start + mmap[j].size
      <4>1. j \in 1 .. Len(mmap)
        BY <1>1
      <4>2. mmap[j].start \in Nat /\ mmap[j].size \in Nat
        BY <1>1, <4>1
      <4>3. mmap[i].start \in Nat /\ mmap[i].size \in Nat
        BY <1>1
      <4> QED
        BY <3>1, <4>2, <4>3, CoversBounds
    <3>3. CASE j = k
      BY <1>2, <1>3, <3>2, <3>3
    <3>4. CASE j # k
      <4>1. ~Overlap(mmap[j], mmap[k])
        BY <3>4 DEF Base
      <4>2. /\ mmap[i].start \in Nat /\ mmap[i].size \in Nat \ {0}
            /\ mmap[k].start \in Nat /\ mmap[k].size \in Nat
        BY <1>1
      <4>3. \/ mmap[j].start + mmap[j].size <= lo
            \/ mmap[j].start >= hi
        <5>1. \/ mmap[j].start + mmap[j].size <= mmap[k].start
              \/ mmap[j].start >= mmap[k].start + mmap[k].size
          BY <3>2, <4>1, <4>2, ApartOrdered
        <5> QED
          BY <1>2, <1>3, <5>1
      <4>4. \A a, b, x, y \in Nat : a >= x /\ a + b <= x + y /\ (x + y <= lo \/ x >= hi)
                                   => a + b <= lo \/ a >= hi
        OBVIOUS
      <4> QED
        BY <3>2, <4>2, <4>3, <4>4
    <3> QED
      BY <3>3, <3>4
  <2> QED
    BY <1>1, <2>1, <2>2
<1> DEFINE Good(m) ==
             /\ L[m].start \in Nat /\ L[m].size \in Nat
             /\ L[m].size # 0 =>
                  /\ L[m].start >= lo /\ L[m].start + L[m].size = hi
                  /\ \A i \in 1 .. m : \/ mmap[i].free
                                       \/ End(mmap[i]) <= L[m].start
                                       \/ mmap[i].start >= hi
           Bad == {m \in 0 .. Len(mmap) : ~ Good(m)}
<1>8. Bad = {}
  <2> SUFFICES ASSUME Bad # {} PROVE FALSE
    OBVIOUS
  <2>1. Bad \in SUBSET Nat
    BY <1>1
  <2>2. PICK m \in Bad : \A j \in Bad : m <= j
    BY <2>1, LeastElement
  <2>3. m \in 0 .. Len(mmap) /\ m \in Nat /\ ~ Good(m)
    BY <1>1, <2>2
  <2>4. m # 0
    <3>1. Good(0)
      BY <1>1, <1>2, <1>3, <1>5
    <3> QED
      BY <2>3, <3>1
  <2>5. m - 1 \in 0 .. Len(mmap) /\ ~ (m <= m - 1) /\ m \in 1 .. Len(mmap)
    BY <1>1, <2>3, <2>4
  <2>6. Good(m - 1)
    BY <2>2, <2>5
  <2>7. PICK r : r = L[m - 1]
    OBVIOUS
  <2>8. PICK f : f = mmap[m]
    OBVIOUS
  <2>9. PICK d : d = L[m]
    OBVIOUS
  <2>10. d = Cut(r, f)
    BY <1>6, <2>5, <2>7, <2>8, <2>9
  <2>11. InOrOut(f, lo, hi)
    BY <1>1, <1>7, <2>5, <2>8 DEF InOrOut
  <2>12. Rest(r, lo, hi)
    BY <2>6, <2>7 DEF Rest
  <2>13. Rest(d, lo, hi) /\ Shrunk(r, f, d, hi)
    BY <2>10, <2>11, <2>12, CutKeeps
  <2>14. ASSUME d.size # 0, NEW i \in 1 .. m
         PROVE  \/ mmap[i].free
                \/ End(mmap[i]) <= d.start
                \/ mmap[i].start >= hi
    <3>1. CASE i = m
      BY <2>8, <2>13, <2>14, <3>1 DEF Shrunk
    <3>2. CASE i # m
      <4>1. i \in 1 .. m - 1 /\ i \in 1 .. Len(mmap)
        BY <1>1, <2>3, <3>2
      <4>2. r.size # 0 /\ d.start >= r.start
        BY <2>13, <2>14 DEF Shrunk
      <4>3. \/ mmap[i].free
            \/ End(mmap[i]) <= r.start
            \/ mmap[i].start >= hi
        BY <2>6, <2>7, <4>1, <4>2
      <4>4. End(mmap[i]) \in Int
        <5>1. mmap[i].start \in Nat /\ mmap[i].size \in Nat
          BY <1>1, <4>1
        <5> QED
          BY <5>1 DEF End
      <4>5. r.start \in Nat /\ d.start \in Nat
        BY <2>12, <2>13 DEF Rest
      <4> QED
        BY <4>2, <4>3, <4>4, <4>5
    <3> QED
      BY <3>1, <3>2
  <2>15. Good(m)
    BY <2>9, <2>13, <2>14 DEF Rest
  <2> QED
    BY <2>3, <2>15
<1>9. Good(Len(mmap))
  BY <1>1, <1>8
<1> QED
  BY <1>2, <1>3, <1>4, <1>9

(* Where the search succeeds, and its result, aligned, is accepted.        *)
LEMMA FoundIsClear ==
    ASSUME TypeOK, Overlaid, NEW bytes \in MmuBytes, NEW first,
           first = find_highmem_range_of_at_least(bytes), first # Word - 1,
           NEW r, r.start = page_align_up(first), r.size = bytes, Accepted(r, room)
    PROVE  /\ r.start >= LOWER_BOUND
           /\ \E q \in Nat : r.start = q * PAGE_SIZE
           /\ \A i \in 1 .. Len(mmap) :
                 \/ mmap[i].free
                 \/ End(mmap[i]) <= r.start
                 \/ mmap[i].start >= r.start + r.size
<1> DEFINE C == Candidates(bytes)
<1>1. /\ Len(mmap) \in Nat /\ DOMAIN mmap = 1 .. Len(mmap)
      /\ \A i \in 1 .. Len(mmap) : /\ mmap[i].start \in Nat
                                   /\ mmap[i].size \in Nat \ {0}
                                   /\ mmap[i].free \in BOOLEAN
  BY EntriesTyped
<1>2. bytes \in Nat /\ bytes >= PAGE_SIZE /\ bytes >= 1
  <2>1. bytes \in Nat /\ bytes >= PAGE_SIZE
    BY BootAssumption
  <2> QED
    BY <2>1, BootFacts
<1>3. C # {} /\ first = Left(mmap[CHOOSE i \in C : \A j \in C : j <= i]).start
  BY DEF find_highmem_range_of_at_least
<1>4. C \in SUBSET (0 .. Len(mmap))
  BY <1>1 DEF Candidates
<1>5. \A i \in C : /\ i \in 1 .. Len(mmap) /\ mmap[i].free
                    /\ mmap[i].start >= LOWER_BOUND /\ Left(mmap[i]).size > bytes
  BY <1>1 DEF Candidates
<1> HIDE DEF C
<1>6. \E m \in C : \A j \in C : j <= m
  BY <1>1, <1>3, <1>4, GreatestElement
<1>7. PICK k \in C : first = Left(mmap[k]).start
  BY <1>3, <1>6
<1>8. PICK n \in Nat : Base(n)
  BY DEF Overlaid
<1>9. k \in 1 .. n /\ mmap[k].free /\ mmap[k].start >= LOWER_BOUND
  <2>1. n \in 0 .. Len(mmap) /\ \A i \in n + 1 .. Len(mmap) : ~ mmap[i].free
    BY <1>8 DEF Base
  <2> QED
    BY <1>1, <1>5, <2>1
<1>10. PICK c : c = Left(mmap[k])
  OBVIOUS
<1>11. PICK lo \in Nat : lo = mmap[k].start
  BY <1>1, <1>5
<1>12. PICK hi \in Nat : hi = mmap[k].start + mmap[k].size
  BY <1>1, <1>5
<1>13. /\ first \in Nat /\ c.size \in Nat /\ c.size > bytes /\ first >= lo
       /\ first + c.size = hi
       /\ \A i \in 1 .. Len(mmap) : \/ mmap[i].free
                                   \/ End(mmap[i]) <= first
                                   \/ mmap[i].start >= hi
  <2>1. c.size > bytes /\ first = c.start
    BY <1>5, <1>7, <1>10
  <2>2. c.start \in Nat /\ c.size \in Nat
    BY <1>8, <1>9, <1>10, LeftIsClear
  <2>3. c.size # 0
    BY <1>2, <2>1, <2>2
  <2>4. /\ c.start >= mmap[k].start
        /\ c.start + c.size = mmap[k].start + mmap[k].size
        /\ \A i \in 1 .. Len(mmap) :
              \/ mmap[i].free
              \/ End(mmap[i]) <= c.start
              \/ mmap[i].start >= mmap[k].start + mmap[k].size
    BY <1>8, <1>9, <1>10, <2>3, LeftIsClear
  <2> QED
    BY <1>11, <1>12, <2>1, <2>2, <2>4
<1>14. hi <= Word /\ PAGE_SIZE \in Nat /\ Word \in Nat /\ LOWER_BOUND \in Nat
  BY <1>8, <1>9, <1>12, BootFacts DEF Base
<1>15. first + PAGE_SIZE <= Word
  BY <1>2, <1>13, <1>14
<1>16. /\ r.start \in Nat /\ first <= r.start /\ r.start < first + PAGE_SIZE
       /\ \E q \in Nat : r.start = q * PAGE_SIZE
  BY <1>13, <1>15, AlignUp
<1>17. lo <= r.start /\ r.start < hi
  <2>1. first >= lo /\ first + bytes < hi
    BY <1>2, <1>13
  <2> QED
    BY <1>2, <1>13, <1>14, <1>16, <2>1
<1>18. r.start + r.size <= hi
  <2>1. PICK j \in 1 .. n : mmap[j].free /\ Covers(mmap[j], r)
    BY <1>8, AcceptedCovered
  <2>2. mmap[j].start \in Nat /\ mmap[j].size \in Nat
    <3>1. j \in 1 .. Len(mmap)
      BY <1>1, <1>8 DEF Base
    <3> QED
      BY <1>1, <3>1
  <2>3. /\ r.start >= mmap[j].start
        /\ r.start + r.size <= mmap[j].start + mmap[j].size
    BY <1>2, <1>16, <2>1, <2>2, CoversBounds
  <2>4. CASE j = k
    BY <1>12, <2>3, <2>4
  <2>5. CASE j # k
    <3>1. ~Overlap(mmap[j], mmap[k])
      BY <1>8, <1>9, <2>5 DEF Base
    <3>2. mmap[k].start \in Nat /\ mmap[k].size \in Nat
      BY <1>1, <1>5
    <3>3. mmap[j].start + mmap[j].size <= lo \/ mmap[j].start >= hi
      <4>1. \/ mmap[j].start + mmap[j].size <= mmap[k].start
            \/ mmap[j].start >= mmap[k].start + mmap[k].size
        BY <2>2, <3>1, <3>2, ApartOrdered
      <4> QED
        BY <1>11, <1>12, <4>1
    <3>4. CASE mmap[j].start >= hi
      BY <1>16, <1>17, <2>2, <2>3, <3>4
    <3>5. CASE mmap[j].start + mmap[j].size <= lo
      <4>1. \A a, z \in Nat : a + bytes <= z /\ z <= lo => a < lo
        BY <1>2
      <4> QED
        BY <1>16, <1>17, <2>2, <2>3, <3>5, <4>1
    <3> QED
      BY <3>3, <3>4, <3>5
  <2> QED
    BY <2>4, <2>5
<1>19. r.start >= LOWER_BOUND
  BY <1>9, <1>11, <1>14, <1>16, <1>17
<1>20. ASSUME NEW i \in 1 .. Len(mmap), ~ mmap[i].free
       PROVE  End(mmap[i]) <= r.start \/ mmap[i].start >= r.start + r.size
  <2>1. End(mmap[i]) <= first \/ mmap[i].start >= hi
    BY <1>13, <1>20
  <2>2. mmap[i].start \in Nat /\ End(mmap[i]) \in Int /\ r.size \in Nat
    BY <1>1, <1>2 DEF End
  <2> QED
    BY <1>13, <1>16, <1>18, <2>1, <2>2
<1> QED
  BY <1>16, <1>19, <1>20

LEMMA FirstTyped ==
    ASSUME TypeOK, Overlaid, NEW bytes \in MmuBytes
    PROVE  find_highmem_range_of_at_least(bytes) \in Nat
<1> DEFINE C == Candidates(bytes)
<1>1. Len(mmap) \in Nat /\ DOMAIN mmap = 1 .. Len(mmap)
  BY EntriesTyped
<1>2. CASE C = {}
  <2>1. find_highmem_range_of_at_least(bytes) = Word - 1
    BY <1>2 DEF find_highmem_range_of_at_least
  <2> QED
    BY <2>1, BootFacts
<1>3. CASE C # {}
  <2>1. find_highmem_range_of_at_least(bytes)
          = Left(mmap[CHOOSE i \in C : \A j \in C : j <= i]).start
    BY <1>3 DEF find_highmem_range_of_at_least
  <2>2. C \in SUBSET (0 .. Len(mmap)) /\ \A i \in C : i \in DOMAIN mmap /\ mmap[i].free
    BY <1>1 DEF Candidates
  <2> HIDE DEF C
  <2>3. \E m \in C : \A j \in C : j <= m
    BY <1>1, <1>3, <2>2, GreatestElement
  <2>4. PICK k \in C : find_highmem_range_of_at_least(bytes) = Left(mmap[k]).start
    BY <2>1, <2>3
  <2>5. PICK n \in Nat : Base(n)
    BY DEF Overlaid
  <2>6. k \in 1 .. n /\ mmap[k].free
    BY <1>1, <2>2, <2>5 DEF Base
  <2> QED
    BY <2>4, <2>5, <2>6, LeftIsClear
<1> QED
  BY <1>2, <1>3

LEMMA mmu_createKeepsInv ==
    ASSUME Inv, NEW bytes \in MmuBytes, mmu_create(bytes)
    PROVE  Inv'
<1>1. PICK first : first = find_highmem_range_of_at_least(bytes)
  OBVIOUS
<1>2. PICK r : /\ r.start = page_align_up(first) /\ r.size = bytes
               /\ \/ /\ Accepted(r, room)
                     /\ mmu' = [start |-> r.start, size |-> bytes,
                                 found |-> first # Word - 1]
                     /\ mmap' = Append(mmap, NonFree(r))
                     /\ room' = room - RecordSize.mmap
                     /\ stage' = "mmu"
                  \/ stage' = "panic" /\ UNCHANGED <<mmu, mmap, room>>
  <2> DEFINE r == [start |-> page_align_up(first), size |-> bytes]
  <2>1. \/ /\ Accepted(r, room)
           /\ mmu' = [start |-> r.start, size |-> bytes, found |-> first # Word - 1]
           /\ mmap' = Append(mmap, NonFree(r))
           /\ room' = room - RecordSize.mmap
           /\ stage' = "mmu"
        \/ stage' = "panic" /\ UNCHANGED <<mmu, mmap, room>>
    BY <1>1 DEF mmu_create
  <2> QED
    BY <2>1
<1>3. stage = "entry" /\ UNCHANGED <<modules, last, inuse, full>>
  BY DEF mmu_create
<1>4. Placed'
  <2>1. stage' \in {"mmu", "panic"}
    BY <1>2
  <2> QED
    BY <1>3, <2>1 DEF Inv, Placed
<1>5. CASE stage' = "panic" /\ UNCHANGED <<mmu, mmap, room>>
  <2>1. TypeOK' /\ Recorded' /\ MmuPlacedFree'
    BY <1>3, <1>5 DEF Inv, TypeOK, Recorded, MmuPlacedFree
  <2>2. Overlaid'
    BY <1>5 DEF Inv, Overlaid, Base
  <2> QED
    BY <1>4, <2>1, <2>2 DEF Inv
<1>6. CASE /\ Accepted(r, room)
           /\ mmu' = [start |-> r.start, size |-> bytes, found |-> first # Word - 1]
           /\ mmap' = Append(mmap, NonFree(r))
           /\ room' = room - RecordSize.mmap
           /\ stage' = "mmu"
  <2>1. /\ Len(mmap) \in Nat /\ DOMAIN mmap = 1 .. Len(mmap)
        /\ \A i \in 1 .. Len(mmap) : /\ mmap[i].start \in Nat
                                     /\ mmap[i].size \in Nat \ {0}
                                     /\ mmap[i].free \in BOOLEAN
    BY EntriesTyped DEF Inv
  <2>2. bytes \in Nat /\ bytes >= 1
    BY BootAssumption, BootFacts
  <2>3. PICK n \in Nat : Base(n)
    BY DEF Inv, Overlaid
  <2>4. first \in Nat
    BY <1>1, <2>3, FirstTyped DEF Inv
  <2>5. r.start \in 0 .. Word - 1
    BY <1>2, <2>4, AlignUpTyped
  <2>6. r.size \in 1 .. Word
    <3>1. PICK j \in 1 .. n : Covers(mmap[j], r)
      BY <1>6, <2>3, AcceptedCovered DEF Inv
    <3>2. /\ mmap[j].start \in Nat /\ mmap[j].size \in Nat
          /\ mmap[j].start + mmap[j].size <= Word
      <4>1. j \in 1 .. Len(mmap)
        BY <2>1, <2>3 DEF Base
      <4> QED
        BY <2>1, <2>3, <4>1 DEF Base
    <3>3. r.start \in Nat /\ r.size \in Nat /\ r.size >= 1 /\ Word \in Nat
      BY <1>2, <2>2, <2>5, BootFacts
    <3>4. r.start + r.size <= mmap[j].start + mmap[j].size
      BY <3>1, <3>2, <3>3, CoversBounds
    <3> QED
      BY <3>2, <3>3, <3>4
  <2>7. /\ mmap' \in Seq(Entry) /\ Overlaid'
        /\ Len(mmap') = Len(mmap) + 1
        /\ \A i \in 1 .. Len(mmap) : mmap'[i] = mmap[i]
    BY <1>6, <2>5, <2>6, ClaimKeepsOverlaid DEF Inv
  <2>8. DOMAIN mmap' = 1 .. Len(mmap) + 1
    BY <2>7, LenProperties
  <2>9. TypeOK'
    <3>1. room \in 0 .. PageRoom /\ room >= RecordSize.mmap
      BY <1>6 DEF Inv, TypeOK, Accepted
    <3>2. room' \in 0 .. PageRoom
      BY <1>6, <3>1, BootFacts
    <3>3. bytes \in 0 .. Word /\ (first # Word - 1) \in BOOLEAN
      BY <1>2, <2>6
    <3>4. mmu' \in [start : 0 .. Word - 1, size : 0 .. Word, found : BOOLEAN]
      BY <1>6, <2>5, <3>3
    <3> QED
      BY <1>3, <1>6, <2>7, <3>2, <3>4 DEF Inv, TypeOK
  <2>10. Recorded'
    <3> SUFFICES ASSUME NEW i \in DOMAIN inuse, inuse[i].kept
                 PROVE  \E j \in DOMAIN mmap' : /\ ~ mmap'[j].free
                                                /\ mmap'[j].start = inuse[i].start
                                                /\ mmap'[j].size = inuse[i].size
      BY <1>3 DEF Recorded
    <3>1. PICK j \in DOMAIN mmap : /\ ~ mmap[j].free
                                   /\ mmap[j].start = inuse[i].start
                                   /\ mmap[j].size = inuse[i].size
      BY DEF Inv, Recorded
    <3>2. j \in DOMAIN mmap' /\ mmap'[j] = mmap[j]
      BY <2>1, <2>7, <2>8
    <3> QED
      BY <3>1, <3>2
  <2>11. MmuPlacedFree'
    <3>1. CASE first = Word - 1
      <4>1. ~ mmu'.found
        BY <1>6, <3>1
      <4> QED
        BY <4>1 DEF MmuPlacedFree
    <3>2. CASE first # Word - 1
      <4>1. mmu'.start = r.start /\ mmu'.size = r.size
        BY <1>2, <1>6
      <4>2. /\ r.start >= LOWER_BOUND
            /\ \A i \in 1 .. Len(mmap) :
                  \/ mmap[i].free
                  \/ End(mmap[i]) <= r.start
                  \/ mmap[i].start >= r.start + r.size
        BY <1>1, <1>2, <1>6, <3>2, FoundIsClear DEF Inv
      <4>3. PICK q \in Nat : r.start = q * PAGE_SIZE
        BY <1>1, <1>2, <1>6, <3>2, FoundIsClear DEF Inv
      <4>4. ASSUME NEW f, f.start \in Nat, f.size \in Nat \ {0},
                   End(f) <= r.start \/ f.start >= r.start + r.size
            PROVE  ~Overlap(Seen(f), mmu')
        <5>1. ~Overlap(Seen(f), r)
          BY <1>2, <2>2, <4>3, <4>4, SeenApart
        <5> QED
          BY <4>1, <5>1 DEF Overlap
      <4>5. ASSUME NEW i \in 1 .. Len(mmap), ~ mmap[i].free
            PROVE  ~Overlap(Seen(mmap[i]), mmu')
        BY <2>1, <4>2, <4>4, <4>5
      <4>6. ASSUME NEW i \in DOMAIN inuse, inuse[i].kept
            PROVE  ~Overlap(Seen(inuse[i]), mmu')
        <5>1. PICK j \in DOMAIN mmap : /\ ~ mmap[j].free
                                       /\ mmap[j].start = inuse[i].start
                                       /\ mmap[j].size = inuse[i].size
          BY <4>6 DEF Inv, Recorded
        <5>2. End(inuse[i]) = End(mmap[j])
          BY <5>1 DEF End
        <5>3. /\ inuse[i].start \in Nat /\ inuse[i].size \in Nat \ {0}
              /\ End(inuse[i]) <= r.start \/ inuse[i].start >= r.start + r.size
          BY <2>1, <4>2, <5>1, <5>2
        <5> QED
          BY <4>4, <5>3
      <4>7. \A i \in 1 .. Len(mmap') - 1 : i \in 1 .. Len(mmap) /\ mmap'[i] = mmap[i]
        BY <2>1, <2>7
      <4> QED
        BY <1>3, <4>1, <4>2, <4>5, <4>6, <4>7 DEF MmuPlacedFree
    <3> QED
      BY <3>1, <3>2
  <2> QED
    BY <1>4, <2>7, <2>9, <2>10, <2>11 DEF Inv
<1> QED
  BY <1>2, <1>5, <1>6

-----------------------------------------------------------------------------
LEMMA NextKeepsInv == Inv /\ [Next]_vars => Inv'
<1> SUFFICES ASSUME Inv, [Next]_vars PROVE Inv'
  OBVIOUS
<1>1. CASE \E b \in BootModules : mbi_module(b)
  BY <1>1, mbi_moduleKeepsInv
<1>2. CASE mbi_prepare
  BY <1>2, mbi_prepareKeepsInv
<1>3. CASE \E pages \in LoadPages : load_module(pages)
  BY <1>3, load_moduleKeepsInv
<1>4. CASE \E r \in SpecialPages : special_page(r)
  BY <1>4, special_pageKeepsInv
<1>5. CASE \E bytes \in MmuBytes : mmu_create(bytes)
  BY <1>5, mmu_createKeepsInv
<1>6. CASE UNCHANGED vars
  <2>1. UNCHANGED <<mmap, room, modules, last, stage, inuse, mmu, full>>
    BY <1>6 DEF vars
  <2>2. TypeOK' /\ Placed' /\ Recorded' /\ MmuPlacedFree'
    BY <2>1 DEF Inv, TypeOK, Placed, Recorded, MmuPlacedFree
  <2>3. Overlaid'
    BY <2>1 DEF Inv, Overlaid, Base
  <2> QED
    BY <2>2, <2>3 DEF Inv
<1> QED
  BY <1>1, <1>2, <1>3, <1>4, <1>5, <1>6 DEF Next

LEMMA InvHolds == Spec => []Inv
<1> QED
  BY InitInv, NextKeepsInv, PTL DEF Spec

(* Whatever the firmware's memory map, the modules and their sizes: no two *)
(* pieces of memory that receive something while the machine starts        *)
(* overlap (mbi_probe, load_module, module_entry), unless the record of a  *)
(* module did not fit into the boot information page.                      *)
THEOREM LoadsAreDisjoint == Spec => []LoadsDisjoint
<1>1. Inv => LoadsDisjoint
  BY DEF Inv, Placed, LoadsDisjoint
<1> QED
  BY <1>1, InvHolds, PTL

(* find_highmem_range_of_at_least, the alignment of its result and         *)
(* use_memory together put the MMU's tables where nothing was claimed, for *)
(* every memory map: the search may give away the last byte of a claim,    *)
(* and the alignment skips that byte unless it is the first of a page.     *)
THEOREM MmuIsPlacedFree == Spec => []MmuPlacedFree
<1>1. Inv => MmuPlacedFree
  BY DEF Inv
<1> QED
  BY <1>1, InvHolds, PTL
=============================================================================
