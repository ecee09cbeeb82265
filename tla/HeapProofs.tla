----------------------------- MODULE HeapProofs -----------------------------
(***************************************************************************)
(* Theorems about Heap: the chain of blocks, the boundary tags and the     *)
(* free lists stay exact while blocks are split, taken, freed, merged and  *)
(* moved, and the heap keeps the promise of AbstractHeap, for heaps, size  *)
(* classes and requests of every size.  At the end, about HeapIndex: the   *)
(* search of find_index returns what Heap takes it to be.                  *)
(***************************************************************************)
EXTENDS Heap, HeapIndex, SequenceTheorems, WellFoundedInduction, TLAPS

LEMMA Constants ==
    /\ Hdr \in Nat /\ Hdr > 0 /\ WordSize \in Nat /\ WordSize > 0
    /\ End \in Nat /\ End > 3 * Hdr /\ EndMark \in Nat /\ EndMark > 2 * Hdr
    /\ Space \in Nat /\ Space > 0 /\ Space % WordSize = 0
    /\ Magic \notin Nat
    /\ Requests \subseteq Nat /\ \A x \in Requests : x < Space
    /\ Other \in Nat
    /\ \A i \in Index : i # Other => ClassSize(i) \in Nat
<1>1. AllSizes \in Seq(Nat \ {0})
  BY SizesAssumption
<1>2. Len(AllSizes) \in Nat /\ AllSizes \in [1 .. Len(AllSizes) -> Nat \ {0}]
  BY <1>1, LenProperties
<1>3. ASSUME NEW i \in Index, i # Other
      PROVE  ClassSize(i) \in Nat
  <2>1. Other \in Nat /\ i \in 0 .. Other /\ i # Other
    BY <1>2, <1>3 DEF Index, Other
  <2>2. i + 1 \in 1 .. Other
    BY <2>1
  <2> QED
    BY <1>2, <2>2 DEF ClassSize, Other
<1> QED
  BY <1>2, <1>3, SizesAssumption, HeapAssumption DEF Other, EndMark

-----------------------------------------------------------------------------
(* Sequences without repetition.                                           *)

LEMMA RemoveAtElements ==
    ASSUME NEW S, NEW s \in Seq(S), NEW i \in 1 .. Len(s)
    PROVE  /\ RemoveAt(s, i) \in Seq(S)
           /\ Len(RemoveAt(s, i)) = Len(s) - 1
           /\ \A j \in 1 .. Len(s) - 1 :
                 RemoveAt(s, i)[j] = IF j < i THEN s[j] ELSE s[j + 1]
<1> DEFINE l == SubSeq(s, 1, i - 1)
           r == SubSeq(s, i + 1, Len(s))
<1>1. Len(s) \in Nat /\ i \in Int /\ \A j \in 1 .. Len(s) : s[j] \in S
  BY LenProperties, ElementOfSeq
<1>2. /\ l \in Seq(S) /\ Len(l) = i - 1
      /\ \A j \in 1 .. i - 1 : l[j] = s[j]
  <2>1. \A j \in 1 .. i - 1 : s[j] \in S
    BY <1>1
  <2>2. /\ l \in Seq(S)
        /\ Len(l) = IF 1 <= i - 1 THEN i - 1 - 1 + 1 ELSE 0
        /\ \A j \in 1 .. i - 1 - 1 + 1 : l[j] = s[1 + j - 1]
    <3>1. 1 \in Int /\ i - 1 \in Int
      OBVIOUS
    <3> QED
      BY <2>1, <3>1, SubSeqProperties
  <2> QED
    BY <1>1, <2>2
<1>3. /\ r \in Seq(S) /\ Len(r) = Len(s) - i
      /\ \A j \in 1 .. Len(s) - i : r[j] = s[i + j]
  <2>1. \A j \in i + 1 .. Len(s) : s[j] \in S
    BY <1>1
  <2>2. /\ r \in Seq(S)
        /\ Len(r) = IF i + 1 <= Len(s) THEN Len(s) - (i + 1) + 1 ELSE 0
        /\ \A j \in 1 .. Len(s) - (i + 1) + 1 : r[j] = s[i + 1 + j - 1]
    BY <1>1, <2>1, SubSeqProperties
  <2> QED
    BY <1>1, <2>2
<1>4. RemoveAt(s, i) = l \o r
  BY DEF RemoveAt
<1> HIDE DEF l, r
<1>5. /\ l \o r \in Seq(S) /\ Len(l \o r) = Len(l) + Len(r)
      /\ \A j \in 1 .. Len(l) + Len(r) :
            (l \o r)[j] = IF j <= Len(l) THEN l[j] ELSE r[j - Len(l)]
  BY <1>2, <1>3, ConcatProperties
<1>6. ASSUME NEW j \in 1 .. Len(s) - 1
      PROVE  RemoveAt(s, i)[j] = IF j < i THEN s[j] ELSE s[j + 1]
  <2>1. (l \o r)[j] = IF j <= i - 1 THEN l[j] ELSE r[j - (i - 1)]
    BY <1>1, <1>2, <1>3, <1>5
  <2>2. CASE j < i
    BY <1>1, <1>2, <1>4, <2>1, <2>2
  <2>3. CASE ~(j < i)
    <3>1. j - (i - 1) \in 1 .. Len(s) - i /\ i + (j - (i - 1)) = j + 1
      BY <1>1, <2>3
    <3> QED
      BY <1>1, <1>3, <1>4, <2>1, <2>3, <3>1
  <2> QED
    BY <2>2, <2>3
<1> QED
  BY <1>1, <1>2, <1>3, <1>4, <1>5, <1>6

(* Taking an element out of a list in which nothing is twice.              *)
LEMMA RemoveAtRange ==
    ASSUME NEW S, NEW s \in Seq(S), NEW i \in 1 .. Len(s), IsInjective(s)
    PROVE  /\ Range(RemoveAt(s, i)) = Range(s) \ {s[i]}
           /\ IsInjective(RemoveAt(s, i))
<1> DEFINE t == RemoveAt(s, i)
<1>1. Len(s) \in Nat /\ DOMAIN s = 1 .. Len(s)
  BY LenProperties
<1>2. /\ t \in Seq(S) /\ Len(t) = Len(s) - 1
      /\ \A j \in 1 .. Len(s) - 1 : t[j] = IF j < i THEN s[j] ELSE s[j + 1]
  BY RemoveAtElements
<1> HIDE DEF t
<1>3. DOMAIN t = 1 .. Len(s) - 1
  BY <1>2, LenProperties
<1>4. \A a, b \in 1 .. Len(s) : s[a] = s[b] => a = b
  BY <1>1 DEF IsInjective
<1>5. ASSUME NEW x \in Range(t)
      PROVE  x \in Range(s) /\ x # s[i]
  <2>1. PICK j \in 1 .. Len(s) - 1 : x = t[j]
    BY <1>3 DEF Range
  <2>2. CASE j < i
    <3>1. x = s[j] /\ j \in 1 .. Len(s) /\ j # i
      BY <1>1, <1>2, <2>1, <2>2
    <3> QED
      BY <1>1, <1>4, <3>1 DEF Range
  <2>3. CASE ~(j < i)
    <3>1. x = s[j + 1] /\ j + 1 \in 1 .. Len(s) /\ j + 1 # i
      BY <1>1, <1>2, <2>1, <2>3
    <3> QED
      BY <1>1, <1>4, <3>1 DEF Range
  <2> QED
    BY <2>2, <2>3
<1>6. ASSUME NEW x \in Range(s), x # s[i]
      PROVE  x \in Range(t)
  <2>1. PICK j \in 1 .. Len(s) : x = s[j]
    BY <1>1 DEF Range
  <2>2. CASE j < i
    <3>1. j \in 1 .. Len(s) - 1 /\ t[j] = x
      BY <1>1, <1>2, <2>1, <2>2
    <3> QED
      BY <1>3, <3>1 DEF Range
  <2>3. CASE j > i
    <3>1. j - 1 \in 1 .. Len(s) - 1 /\ ~(j - 1 < i) /\ (j - 1) + 1 = j
      BY <1>1, <2>3
    <3>2. t[j - 1] = x
      BY <1>2, <2>1, <3>1
    <3> QED
      BY <1>3, <3>1, <3>2 DEF Range
  <2> QED
    BY <1>1, <1>6, <2>1, <2>2, <2>3
<1>7. ASSUME NEW a \in 1 .. Len(s) - 1, NEW b \in 1 .. Len(s) - 1, t[a] = t[b]
      PROVE  a = b
  <2> DEFINE p == IF a < i THEN a ELSE a + 1
             q == IF b < i THEN b ELSE b + 1
  <2>1. p \in 1 .. Len(s) /\ q \in 1 .. Len(s)
    BY <1>1
  <2>2. s[p] = s[q]
    BY <1>2, <1>7
  <2>3. p = q
    BY <1>4, <2>1, <2>2
  <2> QED
    BY <1>1, <2>3
<1>8. IsInjective(t)
  BY <1>3, <1>7 DEF IsInjective
<1> QED
  BY <1>5, <1>6, <1>8 DEF t

(* A block that is put in front of a list it is not on.                    *)
LEMMA PushElements ==
    ASSUME NEW S, NEW s \in Seq(S), NEW e \in S
    PROVE  /\ <<e>> \o s \in Seq(S)
           /\ Len(<<e>> \o s) = Len(s) + 1
           /\ \A j \in 1 .. Len(s) + 1 :
                 (<<e>> \o s)[j] = IF j = 1 THEN e ELSE s[j - 1]
<1>1. <<e>> \in Seq(S) /\ Len(<<e>>) = 1 /\ <<e>>[1] = e
  OBVIOUS
<1>2. /\ <<e>> \o s \in Seq(S) /\ Len(<<e>> \o s) = Len(<<e>>) + Len(s)
      /\ \A j \in 1 .. Len(<<e>>) + Len(s) :
            (<<e>> \o s)[j] = IF j <= Len(<<e>>) THEN <<e>>[j]
                              ELSE s[j - Len(<<e>>)]
  BY <1>1, ConcatProperties
<1>3. Len(s) \in Nat
  BY LenProperties
<1> QED
  BY <1>1, <1>2, <1>3

LEMMA PushRange ==
    ASSUME NEW S, NEW s \in Seq(S), NEW e \in S
    PROVE  /\ Range(<<e>> \o s) = Range(s) \cup {e}
           /\ IsInjective(s) /\ e \notin Range(s) => IsInjective(<<e>> \o s)
<1> DEFINE t == <<e>> \o s
<1>1. /\ t \in Seq(S) /\ Len(t) = Len(s) + 1
      /\ \A j \in 1 .. Len(s) + 1 : t[j] = IF j = 1 THEN e ELSE s[j - 1]
  BY PushElements
<1> HIDE DEF t
<1>2. /\ Len(s) \in Nat /\ DOMAIN s = 1 .. Len(s)
      /\ DOMAIN t = 1 .. Len(s) + 1
  BY <1>1, LenProperties
<1>3. Range(t) = Range(s) \cup {e}
  <2>1. ASSUME NEW x \in Range(t)
        PROVE  x \in Range(s) \cup {e}
    <3>1. PICK j \in 1 .. Len(s) + 1 : x = t[j]
      BY <1>2 DEF Range
    <3>2. CASE j # 1
      <4>1. j - 1 \in 1 .. Len(s) /\ x = s[j - 1]
        BY <1>1, <1>2, <3>1, <3>2
      <4> QED
        BY <1>2, <4>1 DEF Range
    <3> QED
      BY <1>1, <3>1, <3>2
  <2>2. ASSUME NEW x \in Range(s)
        PROVE  x \in Range(t)
    <3>1. PICK j \in 1 .. Len(s) : x = s[j]
      BY <1>2 DEF Range
    <3>2. j + 1 \in 1 .. Len(s) + 1 /\ j + 1 # 1 /\ (j + 1) - 1 = j
      BY <1>2
    <3>3. t[j + 1] = x
      BY <1>1, <3>1, <3>2
    <3> QED
      BY <1>2, <3>2, <3>3 DEF Range
  <2>3. e \in Range(t)
    <3>1. 1 \in 1 .. Len(s) + 1 /\ t[1] = e
      BY <1>1, <1>2
    <3> QED
      BY <1>2, <3>1 DEF Range
  <2> QED
    BY <2>1, <2>2, <2>3
<1>4. ASSUME IsInjective(s), e \notin Range(s)
      PROVE  IsInjective(t)
  <2>1. \A j \in 1 .. Len(s) : s[j] # e
    BY <1>2, <1>4 DEF Range
  <2>2. ASSUME NEW a \in 1 .. Len(s) + 1, NEW b \in 1 .. Len(s) + 1,
               t[a] = t[b]
        PROVE  a = b
    <3>1. CASE a # 1 /\ b # 1
      <4>1. a - 1 \in DOMAIN s /\ b - 1 \in DOMAIN s /\ s[a - 1] = s[b - 1]
        BY <1>1, <1>2, <2>2, <3>1
      <4>2. a - 1 = b - 1
        BY <1>4, <4>1 DEF IsInjective
      <4> QED
        BY <1>2, <4>2
    <3>2. CASE a = 1 /\ b # 1
      <4>1. b - 1 \in 1 .. Len(s) /\ s[b - 1] = e
        BY <1>1, <1>2, <2>2, <3>2
      <4> QED
        BY <2>1, <4>1
    <3>3. CASE a # 1 /\ b = 1
      <4>1. a - 1 \in 1 .. Len(s) /\ s[a - 1] = e
        BY <1>1, <1>2, <2>2, <3>3
      <4> QED
        BY <2>1, <4>1
    <3> QED
      BY <3>1, <3>2, <3>3
  <2> QED
    BY <1>2, <2>2 DEF IsInjective
<1> QED
  BY <1>3, <1>4 DEF t

-----------------------------------------------------------------------------
(* Sizes and classes.                                                      *)

(* Every set of naturals has a least element.                              *)
LEMMA LeastElement ==
    ASSUME NEW S \in SUBSET Nat, S # {}
    PROVE  \E m \in S : \A k \in S : m <= k
<1> DEFINE R == OpToRel(<, Nat)
<1>1. IsWellFoundedOn(R, Nat)
  BY NatLessThanWellFounded
<1> HIDE DEF R
<1>2. PICK m \in S : \A k \in S : ~(<<k, m>> \in R)
  BY <1>1, WFMin
<1>3. \A k, l \in Nat : k < l => <<k, l>> \in R
  BY DEF R, OpToRel
<1>4. \A k \in S : ~(k < m)
  BY <1>2, <1>3
<1> QED
  BY <1>4

(* Every size has a list: its class is large enough, or it is list Other.  *)
LEMMA IndexFound ==
    ASSUME NEW size \in Nat
    PROVE  /\ find_index(size) \in Index
           /\ find_index(size) # Other => size <= ClassSize(find_index(size))
<1> DEFINE S == {i \in Index : i = Other \/ size <= ClassSize(i)}
<1>1. S \in SUBSET Nat /\ Other \in S /\ Index \subseteq Nat
  BY Constants DEF Index
<1>2. PICK m \in S : \A k \in S : m <= k
  BY <1>1, LeastElement
<1>3. \A j \in 0 .. m - 1 : size > ClassSize(j)
  <2>1. SUFFICES ASSUME NEW j \in 0 .. m - 1
                 PROVE  size > ClassSize(j)
    OBVIOUS
  <2>2. m \in Nat /\ m <= Other /\ Other \in Nat
    BY <1>1, <1>2, Constants DEF Index
  <2>3. j \in Index /\ j # Other /\ j < m
    BY <2>2 DEF Index
  <2>4. j \notin S
    BY <1>1, <1>2, <2>2, <2>3
  <2>5. ~(size <= ClassSize(j)) /\ ClassSize(j) \in Nat
    BY <2>3, <2>4, Constants
  <2> QED
    BY <2>5
<1>4. \E i \in Index : IsClass(size, i)
  BY <1>2, <1>3 DEF IsClass
<1>5. IsClass(size, find_index(size))
  BY <1>4 DEF find_index
<1> QED
  BY <1>5 DEF IsClass

(* Rounding up a request either yields more bytes than were asked for or   *)
(* wraps to zero: size_t holds a whole number of words.                    *)
LEMMA AlignedIsLarger ==
    ASSUME NEW x \in Requests
    PROVE  /\ BLOCK_ALIGN(x) \in Nat
           /\ BLOCK_ALIGN(x) # 0 => x < BLOCK_ALIGN(x)
<1> DEFINE k == (x + WordSize) \div WordSize
           v == k * WordSize
           s == Space \div WordSize
<1>1. x \in Nat /\ x < Space /\ WordSize \in Nat /\ WordSize > 0
      /\ Space \in Nat /\ Space > 0
  BY Constants
<1>2. k \in Nat /\ v \in Nat /\ x < v /\ v <= x + WordSize
  BY <1>1
<1>3. s \in Nat /\ Space = s * WordSize
  BY <1>1, Constants
<1>4. BLOCK_ALIGN(x) = v % Space
  BY DEF BLOCK_ALIGN
<1>5. CASE v < Space
  <2>1. v % Space = v
    BY <1>1, <1>2, <1>5
  <2> QED
    BY <1>2, <1>4, <2>1
<1>6. CASE v >= Space
  <2>1. k * WordSize < (s + 1) * WordSize
    BY <1>1, <1>2, <1>3
  <2> HIDE DEF k, s
  <2>2. k < s + 1 /\ k >= s
    BY <1>1, <1>2, <1>3, <1>6, <2>1
  <2>3. v = Space
    BY <1>2, <1>3, <2>2
  <2>4. v % Space = 0
    BY <1>1, <2>3
  <2> QED
    BY <1>4, <2>4
<1> QED
  BY <1>1, <1>2, <1>5, <1>6

-----------------------------------------------------------------------------
(* The invariant.                                                          *)

(* Headers lie between the markers, and next_block leads from one to the   *)
(* next: none is skipped, and every header but the first is reached.       *)
Chain ==
    /\ Hdr \in Blocks /\ EndMark \in DOMAIN rec
    /\ \A h \in DOMAIN rec : Hdr <= h /\ h <= EndMark
    /\ \A a \in Blocks : next_block(a) \in DOMAIN rec
    /\ \A a \in Blocks : \A h \in DOMAIN rec : h <= a \/ next_block(a) <= h
    /\ \A h \in DOMAIN rec \ {Hdr} : \E a \in Blocks : next_block(a) = h

Used == InUse \subseteq Blocks

Tags == \A a \in Blocks :
          rec[next_block(a)].prev = IF a \in InUse THEN Magic ELSE rec[a].size

(* The first block has no block before it to merge with.                   *)
Tagged == rec[Hdr].prev = Magic /\ Tags

(* What an allocate that is under way asks for.                            *)
Wanted ==
    pc \in Busy =>
        /\ want.asked \in Requests /\ want.asked < want.size
        /\ want.index # Other => ClassSize(want.index) <= want.size

(* The blocks that coalesce_merge_blocks has passed have no free block     *)
(* before them.                                                            *)
Passed(i, n) == \A j \in 1 .. n : rec[lists[i][j]].prev = Magic

Merged ==
    /\ pc = "merge" => /\ \A i \in 0 .. ix - 1 : Passed(i, Len(lists[i]))
                       /\ pos <= Len(lists[ix]) /\ Passed(ix, pos)
    /\ pc \in {"move", "retry"} => \A b \in FreeBlocks : rec[b].prev = Magic

Inv ==
    /\ TypeOK /\ Chain /\ Used /\ Tagged
    /\ ListsExact /\ SizesServed /\ Wanted /\ Merged
    /\ pc # "insane"

(* The part of the invariant about memory, whatever a call is about.       *)
Memory == TypeOK /\ Chain /\ Used /\ Tagged /\ ListsExact /\ SizesServed

(* The types of the variables of a call.                                   *)
CallTyped ==
    /\ pc \in {"idle"} \cup Busy \cup Stops
    /\ want \in [size : Nat, index : Index, asked : Nat]
    /\ ix \in Index /\ pos \in Nat

LEMMA RecordFields ==
    ASSUME Memory, NEW h \in DOMAIN rec
    PROVE  /\ h \in Nat /\ rec[h] \in Record
           /\ rec[h].size \in Nat /\ rec[h].index \in Index
           /\ rec[h].prev \in Nat \cup {Magic}
BY DEF Memory, TypeOK, Record

(* Two blocks have different successors.                                   *)
LEMMA NextDiffers ==
    ASSUME Memory, NEW a \in Blocks, NEW b \in Blocks, a # b
    PROVE  /\ next_block(a) # next_block(b)
           /\ next_block(a) \in Nat /\ a < next_block(a)
           /\ next_block(a) <= EndMark
<1>1. /\ a \in Nat /\ b \in Nat /\ rec[a].size \in Nat /\ rec[b].size \in Nat
      /\ a \in DOMAIN rec /\ b \in DOMAIN rec
  BY RecordFields DEF Blocks
<1>2. /\ next_block(a) = a + Hdr + rec[a].size
      /\ next_block(b) = b + Hdr + rec[b].size
  BY DEF next_block
<1>3. /\ b <= a \/ next_block(a) <= b
      /\ a <= b \/ next_block(b) <= a
  BY <1>1 DEF Memory, Chain
<1>4. next_block(a) <= EndMark
  BY DEF Memory, Chain
<1> QED
  BY <1>1, <1>2, <1>3, <1>4, Constants

LEMMA BlockFacts ==
    ASSUME Memory, NEW b \in Blocks
    PROVE  /\ b \in Nat /\ b \in DOMAIN rec /\ rec[b].size \in Nat
           /\ Hdr <= b /\ next_block(b) = b + Hdr + rec[b].size
           /\ next_block(b) \in DOMAIN rec /\ next_block(b) \in Nat
           /\ b < next_block(b) /\ next_block(b) <= EndMark
<1>1. b \in Nat /\ b \in DOMAIN rec /\ rec[b].size \in Nat
  BY RecordFields DEF Blocks
<1>2. next_block(b) \in DOMAIN rec /\ next_block(b) <= EndMark /\ Hdr <= b
  BY <1>1 DEF Memory, Chain
<1> QED
  BY <1>1, <1>2, Constants DEF next_block

(* What is on a list is a free block with the list's index.                *)
LEMMA Listed ==
    ASSUME Memory, NEW l \in Index, NEW i \in 1 .. Len(lists[l])
    PROVE  /\ lists[l][i] \in FreeBlocks /\ lists[l][i] \in Blocks
           /\ lists[l][i] \notin InUse /\ rec[lists[l][i]].index = l
           /\ lists[l] \in Seq(Nat) /\ IsInjective(lists[l])
<1>1. lists[l] \in Seq(Nat)
  BY DEF Memory, TypeOK
<1>2. DOMAIN lists[l] = 1 .. Len(lists[l])
  BY <1>1, LenProperties
<1>3. lists[l][i] \in Range(lists[l])
  BY <1>2 DEF Range
<1> QED
  BY <1>1, <1>3 DEF Memory, ListsExact, FreeBlocks

ListedFree == \A l \in Index : \A i \in 1 .. Len(lists[l]) :
                 lists[l][i] \in FreeBlocks

LEMMA AllListedFree == Memory => ListedFree
BY Listed DEF ListedFree

(* Tags and indices may change while the chain stays as it is.             *)
SameChain ==
    /\ DOMAIN rec' = DOMAIN rec /\ rec' \in [DOMAIN rec' -> Record]
    /\ \A h \in DOMAIN rec : rec'[h].size = rec[h].size

LEMMA ChainStays ==
    ASSUME Memory, SameChain
    PROVE  /\ Chain' /\ Blocks' = Blocks
           /\ \A a \in Blocks : next_block(a)' = next_block(a)
<1>1. Blocks' = Blocks /\ Blocks \subseteq DOMAIN rec
  BY DEF SameChain, Blocks
<1>2. \A a \in Blocks : next_block(a)' = next_block(a)
  BY <1>1 DEF SameChain, next_block
<1>3. /\ (Hdr \in Blocks /\ EndMark \in DOMAIN rec)'
      /\ (\A h \in DOMAIN rec : Hdr <= h /\ h <= EndMark)'
  BY <1>1 DEF SameChain, Memory, Chain
<1>4. /\ \A a \in Blocks : next_block(a)' \in DOMAIN rec'
      /\ \A a \in Blocks : \A h \in DOMAIN rec' :
            h <= a \/ next_block(a)' <= h
  BY <1>1, <1>2 DEF SameChain, Memory, Chain
<1>5. \A h \in DOMAIN rec' \ {Hdr} : \E a \in Blocks : next_block(a)' = h
  <2>1. SUFFICES ASSUME NEW h \in DOMAIN rec \ {Hdr}
                 PROVE  \E a \in Blocks : next_block(a)' = h
    BY DEF SameChain
  <2>2. PICK a \in Blocks : next_block(a) = h
    BY DEF Memory, Chain
  <2> QED
    BY <1>2, <2>2
<1> QED
  BY <1>1, <1>2, <1>3, <1>4, <1>5 DEF Chain

-----------------------------------------------------------------------------
(* Taking a block off a list.                                              *)

TakeRecords(b, index) ==
    /\ SameChain
    /\ \A h \in DOMAIN rec :
          /\ rec'[h].prev = IF h = next_block(b) THEN Magic ELSE rec[h].prev
          /\ rec'[h].index = IF h = b THEN index ELSE rec[h].index

LEMMA TakeChangesRecords ==
    ASSUME Memory, NEW b \in Blocks, NEW index \in Index,
           rec' = [rec EXCEPT ![b].index = index, ![next_block(b)].prev = Magic]
    PROVE  TakeRecords(b, index)
<1>1. PICK n \in DOMAIN rec : n = next_block(b)
  BY BlockFacts
<1>2. b \in DOMAIN rec /\ b # n /\ rec \in [DOMAIN rec -> Record]
  BY <1>1, BlockFacts DEF Memory, TypeOK
<1> DEFINE r1 == [rec[b] EXCEPT !.index = index]
           r2 == [rec[n] EXCEPT !.prev = Magic]
<1>3. /\ r1 \in Record /\ r1.size = rec[b].size /\ r1.prev = rec[b].prev
      /\ r1.index = index
  BY <1>2, RecordFields DEF Record
<1>4. /\ r2 \in Record /\ r2.size = rec[n].size /\ r2.prev = Magic
      /\ r2.index = rec[n].index
  BY <1>2, RecordFields DEF Record
<1>5. rec' = [[rec EXCEPT ![b] = r1] EXCEPT ![n] = r2]
  BY <1>1, <1>2
<1> HIDE DEF r1, r2
<1>6. DOMAIN rec' = DOMAIN rec /\ rec' \in [DOMAIN rec -> Record]
  <2> DEFINE mid == [rec EXCEPT ![b] = r1]
  <2>1. mid \in [DOMAIN rec -> Record]
    BY <1>2, <1>3
  <2>2. rec' = [mid EXCEPT ![n] = r2]
    BY <1>5
  <2> HIDE DEF mid
  <2> QED
    BY <1>4, <2>1, <2>2
<1>7. \A h \in DOMAIN rec : rec'[h] = IF h = n THEN r2 ELSE
                                      IF h = b THEN r1 ELSE rec[h]
  BY <1>2, <1>5
<1> QED
  BY <1>1, <1>2, <1>3, <1>4, <1>6, <1>7 DEF TakeRecords, SameChain

(* The bytes of a block become the client's.                               *)
GivenTo(b, asked) ==
    given' = [h \in InUse \cup {b} |-> IF h = b THEN asked ELSE given[h]]

LEMMA GivenEffect ==
    ASSUME Memory, NEW b \in Nat, NEW asked \in Nat, GivenTo(b, asked)
    PROVE  /\ DOMAIN given' = DOMAIN given \cup {b}
           /\ DOMAIN given' \subseteq Nat
           /\ given' \in [DOMAIN given' -> Nat]
           /\ given'[b] = asked
           /\ \A h \in DOMAIN given : h # b => given'[h] = given[h]
<1>1. DOMAIN given \subseteq Nat /\ given \in [DOMAIN given -> Nat]
  BY DEF Memory, TypeOK
<1>2. given' = [h \in DOMAIN given \cup {b} |->
                  IF h = b THEN asked ELSE given[h]]
  BY DEF GivenTo, InUse
<1>3. DOMAIN given' = DOMAIN given \cup {b}
  BY <1>2
<1>4. \A h \in DOMAIN given \cup {b} :
         (IF h = b THEN asked ELSE given[h]) \in Nat
  BY <1>1
<1> QED
  BY <1>1, <1>2, <1>3, <1>4

LEMMA TakeKeepsMemory ==
    ASSUME Memory, NEW l \in Index, NEW i \in 1 .. Len(lists[l]),
           NEW b, b = lists[l][i],
           NEW index \in Index, NEW asked \in Nat, asked < rec[b].size,
           index # Other => ClassSize(index) <= rec[b].size,
           take(b, l, i, index, asked),
           CallTyped'
    PROVE  Memory'
<1>1. /\ b \in FreeBlocks /\ b \in Blocks /\ b \notin InUse
      /\ rec[b].index = l /\ lists[l] \in Seq(Nat) /\ IsInjective(lists[l])
  BY Listed
<1>2. TakeRecords(b, index)
  BY <1>1, TakeChangesRecords DEF take
<1>3. /\ Chain' /\ Blocks' = Blocks
      /\ \A a \in Blocks : next_block(a)' = next_block(a)
  BY <1>2, ChainStays DEF TakeRecords
<1>4. /\ DOMAIN given' = DOMAIN given \cup {b}
      /\ DOMAIN given' \subseteq Nat /\ given' \in [DOMAIN given' -> Nat]
      /\ given'[b] = asked
      /\ \A h \in DOMAIN given : h # b => given'[h] = given[h]
  <2>1. GivenTo(b, asked) /\ b \in Nat
    BY <1>1, BlockFacts DEF take, GivenTo
  <2> QED
    BY <2>1, GivenEffect
<1>5. InUse' = InUse \cup {b}
  BY <1>4 DEF InUse
<1>6. /\ lists' = [lists EXCEPT ![l] = RemoveAt(lists[l], i)]
      /\ lists \in [Index -> Seq(Nat)]
  BY DEF take, Memory, TypeOK
<1>7. /\ RemoveAt(lists[l], i) \in Seq(Nat)
      /\ Range(RemoveAt(lists[l], i)) = Range(lists[l]) \ {b}
      /\ IsInjective(RemoveAt(lists[l], i))
  BY <1>1, RemoveAtElements, RemoveAtRange
<1>8. TypeOK'
  <2>1. lists' \in [Index -> Seq(Nat)]
    BY <1>6, <1>7
  <2>2. DOMAIN rec' \subseteq Nat /\ rec' \in [DOMAIN rec' -> Record]
    BY <1>2 DEF TakeRecords, SameChain, Memory, TypeOK
  <2> QED
    BY <1>4, <2>1, <2>2 DEF TypeOK, CallTyped
<1>9. Used'
  BY <1>1, <1>3, <1>5 DEF Memory, Used
<1>10. Tagged'
  <2>1. rec'[Hdr].prev = Magic
    BY <1>2 DEF TakeRecords, Memory, Tagged, Chain, Blocks
  <2>2. ASSUME NEW a \in Blocks
        PROVE  rec'[next_block(a)].prev =
                 IF a \in InUse' THEN Magic ELSE rec'[a].size
    <3>1. next_block(a) \in DOMAIN rec /\ rec'[a].size = rec[a].size
      BY <1>2, BlockFacts DEF TakeRecords, SameChain
    <3>2. CASE a = b
      BY <1>2, <1>5, <3>1, <3>2 DEF TakeRecords
    <3>3. CASE a # b
      <4>1. next_block(a) # next_block(b)
        BY <1>1, <3>3, NextDiffers
      <4>2. rec[next_block(a)].prev = IF a \in InUse THEN Magic ELSE rec[a].size
        BY DEF Memory, Tagged, Tags
      <4> QED
        BY <1>2, <1>5, <3>1, <3>3, <4>1, <4>2 DEF TakeRecords
    <3> QED
      BY <3>2, <3>3
  <2> QED
    BY <1>3, <2>1, <2>2 DEF Tagged, Tags
<1>11. ListsExact'
  <2>1. FreeBlocks' = FreeBlocks \ {b}
    BY <1>3, <1>5 DEF FreeBlocks
  <2>2. ASSUME NEW k \in Index
        PROVE  /\ Range(lists'[k]) = {h \in FreeBlocks' : rec'[h].index = k}
               /\ IsInjective(lists'[k])
    <3>1. /\ Range(lists[k]) = {h \in FreeBlocks : rec[h].index = k}
          /\ IsInjective(lists[k])
      BY DEF Memory, ListsExact
    <3>2. \A h \in FreeBlocks' : rec'[h].index = rec[h].index
      BY <1>2, <2>1 DEF TakeRecords, FreeBlocks, Blocks
    <3>3. CASE k = l
      <4>1. lists'[k] = RemoveAt(lists[l], i)
        BY <1>6, <3>3
      <4> QED
        BY <1>7, <2>1, <3>1, <3>2, <3>3, <4>1
    <3>4. CASE k # l
      <4>1. lists'[k] = lists[k]
        BY <1>6, <3>4
      <4> QED
        BY <1>1, <2>1, <3>1, <3>2, <3>4, <4>1
    <3> QED
      BY <3>3, <3>4
  <2> QED
    BY <2>2 DEF ListsExact
<1>12. SizesServed'
  <2>1. ASSUME NEW h \in Blocks, rec'[h].index # Other
        PROVE  rec'[h].size >= ClassSize(rec'[h].index)
    <3>1. h \in DOMAIN rec /\ rec'[h].size = rec[h].size /\ rec[h].size \in Nat
      BY <1>2, BlockFacts DEF TakeRecords, SameChain
    <3>2. CASE h = b
      <4>1. rec'[h].index = index
        BY <1>2, <3>1, <3>2 DEF TakeRecords
      <4> QED
        BY <2>1, <3>1, <3>2, <4>1, Constants
    <3>3. CASE h # b
      <4>1. rec'[h].index = rec[h].index
        BY <1>2, <3>1, <3>3 DEF TakeRecords
      <4> QED
        BY <2>1, <3>1, <4>1 DEF Memory, SizesServed
    <3> QED
      BY <3>2, <3>3
  <2>2. ASSUME NEW a \in InUse'
        PROVE  given'[a] < rec'[a].size
    <3>1. a \in Blocks /\ rec'[a].size = rec[a].size
      BY <1>1, <1>2, <1>5 DEF TakeRecords, SameChain, Memory, Used, Blocks
    <3>2. CASE a = b
      BY <1>4, <3>1, <3>2
    <3>3. CASE a # b
      <4>1. a \in InUse /\ given'[a] = given[a]
        BY <1>4, <1>5, <3>3 DEF InUse
      <4> QED
        BY <3>1, <4>1 DEF Memory, SizesServed
    <3> QED
      BY <3>2, <3>3
  <2> QED
    BY <1>3, <2>1, <2>2 DEF SizesServed
<1> QED
  BY <1>3, <1>8, <1>9, <1>10, <1>11, <1>12 DEF Memory

-----------------------------------------------------------------------------
(* Cutting a block off the end of a free one.                              *)

SplitRecords(b, a, size, index) ==
    /\ DOMAIN rec' = DOMAIN rec \cup {a} /\ rec' \in [DOMAIN rec' -> Record]
    /\ \A h \in DOMAIN rec :
          /\ rec'[h].size = IF h = b THEN LeftOver(b, size) ELSE rec[h].size
          /\ rec'[h].prev = IF h = next_block(b) THEN Magic ELSE rec[h].prev
          /\ rec'[h].index = rec[h].index
    /\ rec'[a].size = size /\ rec'[a].index = index
    /\ rec'[a].prev = LeftOver(b, size)

(* The new header is strictly inside the block that is split.              *)
SplitAt(b, a, size) ==
    /\ a \in Nat /\ b < a /\ a < next_block(b)
    /\ a + Hdr + size = next_block(b)
    /\ LeftOver(b, size) \in Nat /\ b + Hdr + LeftOver(b, size) = a
    /\ a \notin DOMAIN rec

LEMMA SplitInside ==
    ASSUME Memory, NEW b \in Blocks, NEW size \in Nat,
           rec[b].size - size >= MinFrag,
           NEW a, a = b + rec[b].size - size
    PROVE  SplitAt(b, a, size)
<1>1. /\ b \in Nat /\ rec[b].size \in Nat
      /\ next_block(b) = b + Hdr + rec[b].size
  BY BlockFacts
<1>2. LeftOver(b, size) = rec[b].size - size - Hdr
  BY DEF LeftOver
<1>3. /\ a \in Nat /\ b < a /\ a < next_block(b)
      /\ a + Hdr + size = next_block(b)
      /\ LeftOver(b, size) \in Nat /\ b + Hdr + LeftOver(b, size) = a
  BY <1>1, <1>2, Constants DEF MinFrag
<1>4. \A h \in DOMAIN rec : h \in Nat /\ (h <= b \/ next_block(b) <= h)
  BY RecordFields DEF Memory, Chain
<1>5. a \notin DOMAIN rec
  BY <1>1, <1>3, <1>4, Constants
<1> QED
  BY <1>3, <1>5 DEF SplitAt

(* The headers that split writes.                                          *)
SplitHeaders(b, a, size, index) ==
    rec' = [h \in DOMAIN rec \cup {a} |->
                 IF h = a THEN [prev |-> LeftOver(b, size),
                                size |-> size, index |-> index]
                 ELSE IF h = b THEN [rec[b] EXCEPT !.size =
                                                     LeftOver(b, size)]
                 ELSE IF h = a + Hdr + size
                      THEN [rec[h] EXCEPT !.prev = Magic]
                      ELSE rec[h]]

LEMMA SplitChangesRecords ==
    ASSUME Memory, NEW b \in Blocks, NEW size \in Nat, NEW index \in Index,
           NEW a, SplitAt(b, a, size),
           SplitHeaders(b, a, size, index)
    PROVE  SplitRecords(b, a, size, index)
<1>1. PICK n \in DOMAIN rec : n = next_block(b)
  BY BlockFacts
<1>2. PICK rest \in Nat : rest = LeftOver(b, size)
  BY DEF SplitAt
<1>3. /\ b \in DOMAIN rec /\ b # n /\ a # b /\ a # n /\ a \notin DOMAIN rec
      /\ a + Hdr + size = n /\ rec \in [DOMAIN rec -> Record]
  BY SMTT(30), <1>1, BlockFacts DEF Memory, TypeOK, SplitAt
<1> DEFINE r0 == [prev |-> rest, size |-> size, index |-> index]
           r1 == [rec[b] EXCEPT !.size = rest]
           r2 == [rec[n] EXCEPT !.prev = Magic]
<1>4. /\ r0 \in Record /\ r0.prev = rest /\ r0.size = size /\ r0.index = index
  BY DEF Record
<1>5. /\ r1 \in Record /\ r1.size = rest /\ r1.prev = rec[b].prev
      /\ r1.index = rec[b].index
  BY <1>3, RecordFields DEF Record
<1>6. /\ r2 \in Record /\ r2.size = rec[n].size /\ r2.prev = Magic
      /\ r2.index = rec[n].index
  BY <1>3, RecordFields DEF Record
<1> DEFINE new(h) == IF h = a THEN r0 ELSE IF h = b THEN r1
                     ELSE IF h = n THEN r2 ELSE rec[h]
<1>7. rec' = [h \in DOMAIN rec \cup {a} |-> new(h)]
  BY <1>2, <1>3 DEF SplitHeaders
<1> HIDE DEF r0, r1, r2
<1>8. \A h \in DOMAIN rec \cup {a} : new(h) \in Record
  BY <1>3, <1>4, <1>5, <1>6
<1>9. DOMAIN rec' = DOMAIN rec \cup {a} /\ rec' \in [DOMAIN rec' -> Record]
  BY <1>7, <1>8
<1>10. \A h \in DOMAIN rec \cup {a} : rec'[h] = new(h)
  BY <1>7
<1>11. ASSUME NEW h \in DOMAIN rec
       PROVE  /\ rec'[h].size = IF h = b THEN rest ELSE rec[h].size
              /\ rec'[h].prev = IF h = n THEN Magic ELSE rec[h].prev
              /\ rec'[h].index = rec[h].index
  <2>1. rec'[h] = IF h = b THEN r1 ELSE IF h = n THEN r2 ELSE rec[h]
    BY <1>3, <1>10
  <2>2. CASE h = b
    BY <1>3, <1>5, <2>1, <2>2
  <2>3. CASE h = n
    BY <1>3, <1>6, <2>1, <2>3
  <2>4. CASE h # b /\ h # n
    BY <2>1, <2>4
  <2> QED
    BY <2>2, <2>3, <2>4
<1>12. rec'[a] = r0
  BY <1>10
<1> QED
  BY <1>1, <1>2, <1>4, <1>9, <1>11, <1>12 DEF SplitRecords

LEMMA SplitKeepsChain ==
    ASSUME Memory, NEW b \in Blocks, NEW size \in Nat, NEW index \in Index,
           NEW a, SplitAt(b, a, size), SplitRecords(b, a, size, index)
    PROVE  /\ Chain' /\ Blocks' = Blocks \cup {a} /\ a \notin Blocks
           /\ next_block(b)' = a /\ next_block(a)' = next_block(b)
           /\ \A h \in Blocks : h # b => next_block(h)' = next_block(h)
<1>1. /\ b \in Nat /\ b \in DOMAIN rec /\ rec[b].size \in Nat /\ Hdr <= b
      /\ next_block(b) \in DOMAIN rec /\ next_block(b) \in Nat
      /\ next_block(b) <= EndMark /\ b < next_block(b)
  BY BlockFacts
<1>2. PICK n \in DOMAIN rec : n = next_block(b) /\ n \in Nat
  BY <1>1
<1>3. /\ a \in Nat /\ b < a /\ a < n /\ a + Hdr + size = n
      /\ b + Hdr + LeftOver(b, size) = a /\ a \notin DOMAIN rec
  BY <1>2 DEF SplitAt
<1>4. Blocks' = Blocks \cup {a} /\ a \notin Blocks
  BY <1>1, <1>2, <1>3, Constants DEF SplitRecords, Blocks
<1>5. next_block(b)' = a /\ next_block(a)' = n
  <2>1. rec'[b].size = LeftOver(b, size) /\ rec'[a].size = size
    BY <1>1 DEF SplitRecords
  <2> QED
    BY <1>3, <2>1 DEF next_block
<1>6. \A h \in Blocks : h # b => next_block(h)' = next_block(h)
  BY DEF SplitRecords, next_block, Blocks
<1>7. DOMAIN rec' = DOMAIN rec \cup {a}
  BY DEF SplitRecords
<1>8. (Hdr \in Blocks /\ EndMark \in DOMAIN rec)'
  BY <1>4, <1>7 DEF Memory, Chain
<1>9. \A h \in DOMAIN rec' : Hdr <= h /\ h <= EndMark
  <2>1. Hdr <= a /\ a <= EndMark
    BY <1>1, <1>2, <1>3, Constants
  <2> QED
    BY <1>7, <2>1 DEF Memory, Chain
<1>10. ASSUME NEW c \in Blocks'
       PROVE  /\ next_block(c)' \in DOMAIN rec'
              /\ \A h \in DOMAIN rec' : h <= c \/ next_block(c)' <= h
  <2>1. CASE c = a
    <3>1. ASSUME NEW h \in DOMAIN rec
          PROVE  h <= a \/ n <= h
      <4>1. h \in Nat /\ (h <= b \/ n <= h)
        BY <1>2, RecordFields DEF Memory, Chain
      <4> QED
        BY <1>1, <1>3, <4>1
    <3> QED
      BY <1>2, <1>3, <1>5, <1>7, <2>1, <3>1
  <2>2. CASE c = b
    <3>1. ASSUME NEW h \in DOMAIN rec
          PROVE  h <= b \/ a <= h
      <4>1. h \in Nat /\ (h <= b \/ n <= h)
        BY <1>2, RecordFields DEF Memory, Chain
      <4> QED
        BY <1>1, <1>2, <1>3, <4>1
    <3> QED
      BY <1>3, <1>5, <1>7, <2>2, <3>1
  <2>3. CASE c # a /\ c # b
    <3>1. c \in Blocks /\ next_block(c)' = next_block(c)
      BY <1>4, <1>6, <2>3
    <3>2. /\ next_block(c) \in DOMAIN rec /\ next_block(c) \in Nat /\ c \in Nat
          /\ c \in DOMAIN rec /\ c < next_block(c)
      BY <3>1, BlockFacts
    <3>3. \A h \in DOMAIN rec : h <= c \/ next_block(c) <= h
      BY <3>1 DEF Memory, Chain
    <3>4. a <= c \/ next_block(c) <= a
      <4>1. c <= b \/ n <= c
        BY <1>2, <3>2 DEF Memory, Chain
      <4>2. b <= c \/ next_block(c) <= b
        BY <1>1, <3>3
      <4> QED
        BY <1>1, <1>2, <1>3, <2>3, <3>2, <4>1, <4>2
    <3> QED
      BY <1>7, <3>1, <3>2, <3>3, <3>4
  <2> QED
    BY <2>1, <2>2, <2>3
<1>11. ASSUME NEW h \in DOMAIN rec' \ {Hdr}
       PROVE  \E c \in Blocks' : next_block(c)' = h
  <2>1. CASE h = a
    BY <1>4, <1>5, <2>1
  <2>2. CASE h = n
    BY <1>4, <1>5, <2>2
  <2>3. CASE h # a /\ h # n
    <3>1. h \in DOMAIN rec \ {Hdr}
      BY <1>7, <2>3
    <3>2. PICK c \in Blocks : next_block(c) = h
      BY <3>1 DEF Memory, Chain
    <3> QED
      BY <1>2, <1>4, <1>6, <2>3, <3>2
  <2> QED
    BY <2>1, <2>2, <2>3
<1>12. Chain'
  BY <1>8, <1>9, <1>10, <1>11 DEF Chain
<1> QED
  BY <1>2, <1>4, <1>5, <1>6, <1>12

LEMMA SplitKeepsMemory ==
    ASSUME Memory, NEW b \in FreeBlocks, NEW size \in Nat,
           NEW index \in Index, NEW asked \in Nat, asked < size,
           index # Other => ClassSize(index) <= size,
           rec[b].index = Other,
           split(b, size, index, asked),
           CallTyped'
    PROVE  Memory'
<1> DEFINE at == b + rec[b].size - size
<1>1. b \in Blocks /\ b \notin InUse /\ b \in DOMAIN rec
  BY DEF FreeBlocks, Blocks
<1>2. rec[b].size - size >= MinFrag
  BY DEF split
<1>3. SplitAt(b, at, size)
  BY <1>1, <1>2, SplitInside
<1>4. PICK a \in Nat : a = at
  BY <1>3 DEF SplitAt
<1> HIDE DEF at
<1>5. SplitAt(b, a, size) /\ a \notin DOMAIN rec /\ LeftOver(b, size) \in Nat
  BY <1>3, <1>4 DEF SplitAt
<1>6. SplitRecords(b, a, size, index)
  <2>1. SplitHeaders(b, a, size, index)
    BY <1>4 DEF split, at, SplitHeaders
  <2> QED
    BY <1>1, <1>5, <2>1, SplitChangesRecords
<1>7. /\ Chain' /\ Blocks' = Blocks \cup {a} /\ a \notin Blocks
      /\ next_block(b)' = a /\ next_block(a)' = next_block(b)
      /\ \A h \in Blocks : h # b => next_block(h)' = next_block(h)
  BY <1>1, <1>5, <1>6, SplitKeepsChain
<1>8. /\ DOMAIN given' = DOMAIN given \cup {a}
      /\ DOMAIN given' \subseteq Nat /\ given' \in [DOMAIN given' -> Nat]
      /\ given'[a] = asked
      /\ \A h \in DOMAIN given : h # a => given'[h] = given[h]
  <2>1. GivenTo(a, asked)
    BY <1>4 DEF split, GivenTo, at
  <2> QED
    BY <2>1, GivenEffect
<1>9. InUse' = InUse \cup {a} /\ a \notin InUse
  BY <1>7, <1>8 DEF InUse, Memory, Used
<1>10. lists' = lists
  BY DEF split
<1>11. TypeOK'
  <2>1. DOMAIN rec' \subseteq Nat /\ rec' \in [DOMAIN rec' -> Record]
    BY <1>6 DEF SplitRecords, Memory, TypeOK
  <2> QED
    BY <1>8, <1>10, <2>1 DEF Memory, TypeOK, CallTyped
<1>12. Used'
  BY <1>7, <1>9 DEF Memory, Used
<1>13. Tagged'
  <2>1. rec'[Hdr].prev = Magic
    BY <1>6 DEF SplitRecords, Memory, Tagged, Chain, Blocks
  <2>2. ASSUME NEW c \in Blocks \cup {a}
        PROVE  rec'[next_block(c)'].prev =
                 IF c \in InUse' THEN Magic ELSE rec'[c].size
    <3>1. CASE c = a
      <4>1. next_block(b) \in DOMAIN rec
        BY <1>1, BlockFacts
      <4> QED
        BY <1>6, <1>7, <1>9, <3>1, <4>1 DEF SplitRecords
    <3>2. CASE c = b
      <4>1. c \notin InUse'
        BY <1>1, <1>7, <1>9, <3>2
      <4>2. rec'[a].prev = LeftOver(b, size) /\ rec'[b].size = LeftOver(b, size)
        BY <1>1, <1>6 DEF SplitRecords
      <4> QED
        BY <1>7, <3>2, <4>1, <4>2
    <3>3. CASE c # a /\ c # b
      <4>1. c \in Blocks /\ next_block(c)' = next_block(c)
        BY <1>7, <3>3
      <4>2. /\ next_block(c) # next_block(b) /\ next_block(c) \in DOMAIN rec
            /\ c \in DOMAIN rec
        BY <1>1, <3>3, <4>1, NextDiffers, BlockFacts
      <4>3. rec[next_block(c)].prev = IF c \in InUse THEN Magic ELSE rec[c].size
        BY <4>1 DEF Memory, Tagged, Tags
      <4>4. rec'[next_block(c)].prev = rec[next_block(c)].prev
        BY <1>6, <4>2 DEF SplitRecords
      <4>5. rec'[c].size = rec[c].size /\ (c \in InUse' <=> c \in InUse)
        BY <1>6, <1>9, <3>3, <4>2 DEF SplitRecords
      <4> QED
        BY <4>1, <4>3, <4>4, <4>5
    <3> QED
      BY <3>1, <3>2, <3>3
  <2> QED
    BY <1>7, <2>1, <2>2 DEF Tagged, Tags
<1>14. ListsExact'
  <2>1. FreeBlocks' = FreeBlocks
    BY <1>7, <1>9 DEF FreeBlocks
  <2>2. \A h \in FreeBlocks : rec'[h].index = rec[h].index
    BY <1>6 DEF SplitRecords, FreeBlocks, Blocks
  <2> QED
    BY <1>10, <2>1, <2>2 DEF Memory, ListsExact
<1>15. SizesServed'
  <2>1. ASSUME NEW h \in Blocks \cup {a}, rec'[h].index # Other
        PROVE  rec'[h].size >= ClassSize(rec'[h].index)
    <3>1. CASE h = a
      BY <1>6, <2>1, <3>1, Constants DEF SplitRecords
    <3>2. CASE h # a
      <4>1. h \in DOMAIN rec /\ h \in Blocks /\ h # b
        BY <1>1, <1>6, <2>1, <3>2 DEF Blocks, SplitRecords
      <4>2. rec'[h].size = rec[h].size /\ rec'[h].index = rec[h].index
        BY <1>6, <4>1 DEF SplitRecords
      <4> QED
        BY <2>1, <4>1, <4>2 DEF Memory, SizesServed
    <3> QED
      BY <3>1, <3>2
  <2>2. ASSUME NEW c \in InUse'
        PROVE  given'[c] < rec'[c].size
    <3>1. CASE c = a
      BY <1>6, <1>8, <3>1 DEF SplitRecords
    <3>2. CASE c # a
      <4>1. c \in InUse /\ c \in Blocks /\ c # b /\ c \in DOMAIN rec
        BY <1>1, <1>9, <3>2 DEF Memory, Used, Blocks
      <4>2. rec'[c].size = rec[c].size /\ given'[c] = given[c]
        BY <1>6, <1>8, <3>2, <4>1 DEF SplitRecords, InUse
      <4> QED
        BY <4>1, <4>2 DEF Memory, SizesServed
    <3> QED
      BY <3>1, <3>2
  <2> QED
    BY <1>7, <2>1, <2>2 DEF SizesServed
<1> QED
  BY <1>7, <1>11, <1>12, <1>13, <1>14, <1>15 DEF Memory

-----------------------------------------------------------------------------
(* Giving a block back.                                                    *)

LEMMA FreeKeepsMemory ==
    ASSUME Memory, NEW a \in InUse, free(a)
    PROVE  Memory'
<1>1. a \in Blocks /\ a \in DOMAIN rec /\ a \in Nat /\ rec[a].size \in Nat
      /\ rec[a].index \in Index
  BY BlockFacts, RecordFields DEF Memory, Used
<1>2. PICK n \in DOMAIN rec : n = next_block(a)
  BY <1>1, BlockFacts
<1>3. PICK l \in Index : l = rec[a].index
  BY <1>1
<1> DEFINE r == [rec[n] EXCEPT !.prev = rec[a].size]
<1>4. /\ r \in Record /\ r.size = rec[n].size /\ r.index = rec[n].index
      /\ r.prev = rec[a].size
  BY <1>1, RecordFields DEF Record
<1>5. rec' = [rec EXCEPT ![n] = r]
  BY <1>2 DEF free
<1> HIDE DEF r
<1>6. rec \in [DOMAIN rec -> Record]
  BY DEF Memory, TypeOK
<1>7. /\ SameChain
      /\ \A h \in DOMAIN rec :
            /\ rec'[h].prev = IF h = n THEN rec[a].size ELSE rec[h].prev
            /\ rec'[h].index = rec[h].index
  <2>1. DOMAIN rec' = DOMAIN rec /\ rec' \in [DOMAIN rec' -> Record]
    BY <1>4, <1>5, <1>6
  <2>2. \A h \in DOMAIN rec : rec'[h] = IF h = n THEN r ELSE rec[h]
    BY <1>5, <1>6
  <2> QED
    BY <1>4, <2>1, <2>2 DEF SameChain
<1>8. /\ Chain' /\ Blocks' = Blocks
      /\ \A b \in Blocks : next_block(b)' = next_block(b)
  BY <1>7, ChainStays
<1>9. /\ DOMAIN given' = DOMAIN given \ {a}
      /\ \A h \in DOMAIN given' : given'[h] = given[h]
      /\ DOMAIN given' \subseteq Nat /\ given' \in [DOMAIN given' -> Nat]
  <2>1. given' = [h \in DOMAIN given \ {a} |-> given[h]]
    BY DEF free, InUse
  <2>2. DOMAIN given \subseteq Nat /\ given \in [DOMAIN given -> Nat]
    BY DEF Memory, TypeOK
  <2> QED
    BY <2>1, <2>2
<1>10. InUse' = InUse \ {a}
  BY <1>9 DEF InUse
<1> DEFINE pushed == <<a>> \o lists[l]
<1>11. lists' = [lists EXCEPT ![l] = pushed] /\ lists \in [Index -> Seq(Nat)]
  BY <1>3 DEF free, Memory, TypeOK
<1>12. /\ pushed \in Seq(Nat) /\ Range(pushed) = Range(lists[l]) \cup {a}
       /\ IsInjective(pushed)
  <2>1. lists[l] \in Seq(Nat) /\ IsInjective(lists[l])
    BY <1>11 DEF Memory, ListsExact
  <2>2. a \notin Range(lists[l])
    BY DEF Memory, ListsExact, FreeBlocks
  <2> QED
    BY <1>1, <2>1, <2>2, PushElements, PushRange
<1> HIDE DEF pushed
<1>13. TypeOK'
  <2>1. lists' \in [Index -> Seq(Nat)]
    BY <1>11, <1>12
  <2>2. DOMAIN rec' \subseteq Nat /\ rec' \in [DOMAIN rec' -> Record]
    BY <1>7 DEF SameChain, Memory, TypeOK
  <2>3. pc' = pc /\ ix' = ix /\ pos' = pos /\ want' = want
    BY DEF free
  <2> QED
    BY <1>9, <2>1, <2>2, <2>3 DEF Memory, TypeOK
<1>14. Used'
  BY <1>8, <1>10 DEF Memory, Used
<1>15. Tagged'
  <2>1. rec'[Hdr].prev = Magic
    <3>1. Hdr \in DOMAIN rec /\ rec[Hdr].prev = Magic
      BY DEF Memory, Tagged, Chain, Blocks
    <3>2. Hdr # n
      BY <1>1, <1>2, BlockFacts, Constants
    <3> QED
      BY <1>7, <3>1, <3>2
  <2>2. ASSUME NEW c \in Blocks
        PROVE  rec'[next_block(c)].prev =
                 IF c \in InUse' THEN Magic ELSE rec'[c].size
    <3>1. /\ next_block(c) \in DOMAIN rec /\ rec'[c].size = rec[c].size
      BY <1>7, BlockFacts DEF SameChain
    <3>2. CASE c = a
      BY <1>2, <1>7, <1>10, <3>1, <3>2
    <3>3. CASE c # a
      <4>1. next_block(c) # n
        BY <1>1, <1>2, <3>3, NextDiffers
      <4>2. rec[next_block(c)].prev = IF c \in InUse THEN Magic ELSE rec[c].size
        BY DEF Memory, Tagged, Tags
      <4> QED
        BY <1>7, <1>10, <3>1, <3>3, <4>1, <4>2
    <3> QED
      BY <3>2, <3>3
  <2> QED
    BY <1>8, <2>1, <2>2 DEF Tagged, Tags
<1>16. ListsExact'
  <2>1. FreeBlocks' = FreeBlocks \cup {a}
    BY <1>1, <1>8, <1>10 DEF FreeBlocks
  <2>2. ASSUME NEW k \in Index
        PROVE  /\ Range(lists'[k]) = {h \in FreeBlocks' : rec'[h].index = k}
               /\ IsInjective(lists'[k])
    <3>1. /\ Range(lists[k]) = {h \in FreeBlocks : rec[h].index = k}
          /\ IsInjective(lists[k])
      BY DEF Memory, ListsExact
    <3>2. \A h \in FreeBlocks' : rec'[h].index = rec[h].index
      BY <1>1, <1>7, <2>1 DEF FreeBlocks, Blocks
    <3>3. CASE k = l
      <4>1. lists'[k] = pushed
        BY <1>11, <3>3
      <4> QED
        BY <1>3, <1>12, <2>1, <3>1, <3>2, <3>3, <4>1
    <3>4. CASE k # l
      <4>1. lists'[k] = lists[k]
        BY <1>11, <3>4
      <4> QED
        BY <1>3, <2>1, <3>1, <3>2, <3>4, <4>1
    <3> QED
      BY <3>3, <3>4
  <2> QED
    BY <2>2 DEF ListsExact
<1>17. SizesServed'
  <2>1. \A h \in Blocks :
           rec'[h].size = rec[h].size /\ rec'[h].index = rec[h].index
    BY <1>7 DEF SameChain, Blocks
  <2>2. \A h \in InUse' : h \in InUse /\ h \in Blocks /\ given'[h] = given[h]
    BY <1>9, <1>10 DEF Memory, Used, InUse
  <2> QED
    BY <1>8, <2>1, <2>2 DEF Memory, SizesServed
<1> QED
  BY <1>8, <1>13, <1>14, <1>15, <1>16, <1>17 DEF Memory

-----------------------------------------------------------------------------
(* Merging a free block with the free block before it.                     *)

MergeRecords(f, b, joined) ==
    /\ DOMAIN rec' = DOMAIN rec \ {b} /\ rec' \in [DOMAIN rec' -> Record]
    /\ \A h \in DOMAIN rec \ {b} :
          /\ rec'[h].size = IF h = f THEN joined ELSE rec[h].size
          /\ rec'[h].prev = IF h = next_block(b) THEN joined ELSE rec[h].prev
          /\ rec'[h].index = rec[h].index

LEMMA MergeChangesRecords ==
    ASSUME Memory, NEW f \in Blocks, NEW b \in Blocks, next_block(f) = b,
           NEW joined \in Nat,
           rec' = [h \in DOMAIN rec \ {b} |->
                           IF h = f
                           THEN [rec[h] EXCEPT !.size = joined]
                           ELSE IF h = next_block(b)
                           THEN [rec[h] EXCEPT !.prev = joined]
                           ELSE rec[h]]
    PROVE  MergeRecords(f, b, joined)
<1>1. PICK n \in DOMAIN rec : n = next_block(b)
  BY BlockFacts
<1>2. f \in DOMAIN rec /\ f # n /\ f # b /\ b # n
      /\ rec \in [DOMAIN rec -> Record]
  BY <1>1, BlockFacts DEF Memory, TypeOK
<1> DEFINE r1 == [rec[f] EXCEPT !.size = joined]
           r2 == [rec[n] EXCEPT !.prev = joined]
<1>3. /\ r1 \in Record /\ r1.size = joined /\ r1.prev = rec[f].prev
      /\ r1.index = rec[f].index
  BY <1>2, RecordFields DEF Record
<1>4. /\ r2 \in Record /\ r2.size = rec[n].size /\ r2.prev = joined
      /\ r2.index = rec[n].index
  BY <1>2, RecordFields DEF Record
<1> DEFINE new(h) == IF h = f THEN r1 ELSE IF h = n THEN r2 ELSE rec[h]
<1>5. rec' = [h \in DOMAIN rec \ {b} |-> new(h)]
  BY <1>1
<1> HIDE DEF r1, r2
<1>6. \A h \in DOMAIN rec \ {b} : new(h) \in Record
  BY <1>2, <1>3, <1>4
<1>7. DOMAIN rec' = DOMAIN rec \ {b} /\ rec' \in [DOMAIN rec' -> Record]
  BY <1>5, <1>6
<1>8. ASSUME NEW h \in DOMAIN rec \ {b}
      PROVE  /\ rec'[h].size = IF h = f THEN joined ELSE rec[h].size
             /\ rec'[h].prev = IF h = n THEN joined ELSE rec[h].prev
             /\ rec'[h].index = rec[h].index
  <2>1. rec'[h] = IF h = f THEN r1 ELSE IF h = n THEN r2 ELSE rec[h]
    BY <1>5
  <2>2. CASE h = f
    BY <1>2, <1>3, <2>1, <2>2
  <2>3. CASE h = n
    BY <1>2, <1>4, <2>1, <2>3
  <2>4. CASE h # f /\ h # n
    BY <2>1, <2>4
  <2> QED
    BY <2>2, <2>3, <2>4
<1> QED
  BY <1>1, <1>7, <1>8 DEF MergeRecords

LEMMA MergeKeepsChain ==
    ASSUME Memory, NEW f \in Blocks, NEW b \in Blocks, next_block(f) = b,
           NEW joined \in Nat, joined = rec[f].size + rec[b].size + Hdr,
           MergeRecords(f, b, joined)
    PROVE  /\ Chain' /\ Blocks' = Blocks \ {b}
           /\ next_block(f)' = next_block(b)
           /\ \A h \in Blocks \ {f, b} : next_block(h)' = next_block(h)
<1>1. /\ b \in Nat /\ rec[b].size \in Nat /\ b \in DOMAIN rec
      /\ next_block(b) \in DOMAIN rec /\ next_block(b) \in Nat
      /\ b < next_block(b) /\ next_block(b) = b + Hdr + rec[b].size
      /\ next_block(b) <= EndMark
  BY BlockFacts
<1>2. /\ f \in Nat /\ rec[f].size \in Nat /\ f \in DOMAIN rec /\ Hdr <= f
      /\ b = f + Hdr + rec[f].size /\ f < b
  BY BlockFacts
<1>3. PICK n \in DOMAIN rec : n = next_block(b) /\ n \in Nat
  BY <1>1
<1>4. Blocks' = Blocks \ {b} /\ f \in Blocks' /\ DOMAIN rec' = DOMAIN rec \ {b}
  BY <1>2, Constants DEF MergeRecords, Blocks
<1>5. next_block(f)' = n
  <2>1. rec'[f].size = joined
    BY <1>2, Constants DEF MergeRecords
  <2> QED
    BY <1>1, <1>2, <1>3, <2>1, Constants DEF next_block
<1>6. \A h \in Blocks \ {f, b} : next_block(h)' = next_block(h)
  BY DEF MergeRecords, Blocks, next_block
<1>7. (Hdr \in Blocks /\ EndMark \in DOMAIN rec)'
  <2>1. Hdr # b /\ EndMark # b
    BY <1>1, <1>2, Constants
  <2> QED
    BY <1>4, <2>1 DEF Memory, Chain
<1>8. \A h \in DOMAIN rec' : Hdr <= h /\ h <= EndMark
  BY <1>4 DEF Memory, Chain
<1>9. ASSUME NEW c \in Blocks'
      PROVE  /\ next_block(c)' \in DOMAIN rec'
             /\ \A h \in DOMAIN rec' : h <= c \/ next_block(c)' <= h
  <2>1. CASE c = f
    <3>1. ASSUME NEW h \in DOMAIN rec, h # b
          PROVE  h <= f \/ n <= h
      <4>1. h \in Nat /\ (h <= f \/ b <= h) /\ (h <= b \/ n <= h)
        BY <1>3, RecordFields DEF Memory, Chain
      <4> QED
        BY <1>1, <1>2, <1>3, <3>1, <4>1
    <3> QED
      BY <1>1, <1>3, <1>4, <1>5, <2>1, <3>1
  <2>2. CASE c # f
    <3>1. c \in Blocks /\ c # b /\ next_block(c)' = next_block(c)
      BY <1>4, <1>6, <2>2
    <3>2. next_block(c) # b
      BY <2>2, <3>1, NextDiffers
    <3> QED
      BY <1>4, <3>1, <3>2 DEF Memory, Chain
  <2> QED
    BY <2>1, <2>2
<1>10. ASSUME NEW h \in DOMAIN rec' \ {Hdr}
       PROVE  \E c \in Blocks' : next_block(c)' = h
  <2>1. CASE h = n
    BY <1>4, <1>5, <2>1
  <2>2. CASE h # n
    <3>1. h \in DOMAIN rec \ {Hdr} /\ h # b
      BY <1>4
    <3>2. PICK c \in Blocks : next_block(c) = h
      BY <3>1 DEF Memory, Chain
    <3>3. c # b /\ c # f
      BY <1>3, <2>2, <3>1, <3>2
    <3> QED
      BY <1>4, <1>6, <3>2, <3>3
  <2> QED
    BY <2>1, <2>2
<1>11. Chain'
  BY <1>7, <1>8, <1>9, <1>10 DEF Chain
<1> QED
  BY <1>3, <1>4, <1>5, <1>6, <1>11

(* The block before b, when b's tag says that it is free: there is one, it *)
(* is free, and prev_block finds it.                                       *)
LEMMA PreviousFound ==
    ASSUME Memory, NEW b \in Blocks, rec[b].prev # Magic
    PROVE  /\ prev_block(b) \in FreeBlocks
           /\ next_block(prev_block(b)) = b
<1>1. b # Hdr /\ b \in DOMAIN rec
  BY BlockFacts DEF Memory, Tagged
<1>2. PICK f \in Blocks : next_block(f) = b
  BY <1>1 DEF Memory, Chain
<1>3. f \notin InUse /\ rec[b].prev = rec[f].size
  BY <1>2 DEF Memory, Tagged, Tags
<1>4. f \in Nat /\ rec[f].size \in Nat /\ b = f + Hdr + rec[f].size
  BY <1>2, BlockFacts
<1>5. prev_block(b) = f
  BY <1>3, <1>4, Constants DEF prev_block
<1> QED
  BY <1>2, <1>3, <1>5 DEF FreeBlocks

(* The block is unlinked from list l.                                      *)
Unlinked(l, i) == lists' = [lists EXCEPT ![l] = RemoveAt(@, i)]

LEMMA MergeKeepsMemory ==
    ASSUME Memory, NEW f \in FreeBlocks, NEW l \in Index,
           NEW i \in 1 .. Len(lists[l]), NEW b, b = lists[l][i],
           next_block(f) = b,
           NEW joined, joined = rec[f].size + rec[b].size + Hdr,
           MergeRecords(f, b, joined),
           Unlinked(l, i), pos' \in Nat, UNCHANGED <<pc, given, want, ix>>
    PROVE  /\ Memory' /\ FreeBlocks' = FreeBlocks \ {b} /\ joined \in Nat
           /\ \A h \in FreeBlocks' :
                 rec[h].prev = Magic => rec'[h].prev = Magic
<1>1. /\ b \in FreeBlocks /\ b \in Blocks /\ b \notin InUse
      /\ rec[b].index = l /\ lists[l] \in Seq(Nat) /\ IsInjective(lists[l])
  BY Listed
<1>2. f \in Blocks /\ f \notin InUse
  BY DEF FreeBlocks
<1>3. /\ b \in Nat /\ f \in Nat /\ f < b /\ rec[f].size \in Nat
      /\ rec[b].size \in Nat /\ b \in DOMAIN rec /\ f \in DOMAIN rec
  BY <1>1, <1>2, BlockFacts
<1>4. joined \in Nat /\ joined >= rec[f].size
  <2>1. Hdr \in Nat
    BY Constants
  <2>2. \A x, y, z \in Nat : x + y + z \in Nat /\ x + y + z >= x
    OBVIOUS
  <2> QED
    BY <1>3, <2>1, <2>2
<1>5. /\ Chain' /\ Blocks' = Blocks \ {b}
      /\ next_block(f)' = next_block(b)
      /\ \A h \in Blocks \ {f, b} : next_block(h)' = next_block(h)
  BY <1>1, <1>2, <1>4, MergeKeepsChain
<1>6. /\ RemoveAt(lists[l], i) \in Seq(Nat)
      /\ Range(RemoveAt(lists[l], i)) = Range(lists[l]) \ {b}
      /\ IsInjective(RemoveAt(lists[l], i))
  <2>1. RemoveAt(lists[l], i) \in Seq(Nat)
    BY <1>1, RemoveAtElements
  <2>2. /\ Range(RemoveAt(lists[l], i)) = Range(lists[l]) \ {lists[l][i]}
        /\ IsInjective(RemoveAt(lists[l], i))
    BY <1>1, RemoveAtRange
  <2> QED
    BY <2>1, <2>2
<1>7. /\ lists \in [Index -> Seq(Nat)]
      /\ lists' = [lists EXCEPT ![l] = RemoveAt(lists[l], i)]
  BY DEF Memory, TypeOK, Unlinked
<1>8. given' = given /\ InUse' = InUse
  BY DEF InUse
<1>9. \A h \in DOMAIN rec \ {b} :
         /\ rec'[h].size = IF h = f THEN joined ELSE rec[h].size
         /\ rec'[h].prev = IF h = next_block(b) THEN joined ELSE rec[h].prev
         /\ rec'[h].index = rec[h].index
  BY DEF MergeRecords
<1>10. FreeBlocks' = FreeBlocks \ {b}
  BY <1>5, <1>8 DEF FreeBlocks
<1>11. TypeOK'
  <2>1. lists' \in [Index -> Seq(Nat)]
    BY <1>6, <1>7
  <2>2. DOMAIN rec' \subseteq Nat /\ rec' \in [DOMAIN rec' -> Record]
    BY DEF MergeRecords, Memory, TypeOK
  <2>3. pc' = pc /\ ix' = ix /\ want' = want
    OBVIOUS
  <2> QED
    BY <1>8, <2>1, <2>2, <2>3 DEF Memory, TypeOK
<1>12. Used'
  BY <1>1, <1>5, <1>8 DEF Memory, Used
<1>13. next_block(b) \in DOMAIN rec /\ next_block(b) # b /\ next_block(b) # Hdr
  <2>1. /\ next_block(b) \in DOMAIN rec /\ next_block(b) \in Nat /\ b < next_block(b)
        /\ b \in Nat /\ Hdr <= b
    BY <1>1, BlockFacts
  <2>2. \A x, y, z \in Nat : y < x /\ z <= y => x # y /\ x # z
    OBVIOUS
  <2>3. Hdr \in Nat
    BY Constants
  <2> QED
    BY <2>1, <2>2, <2>3
<1>14. Tagged'
  <2>1. rec'[Hdr].prev = Magic
    <3>1. Hdr \in DOMAIN rec /\ rec[Hdr].prev = Magic
      BY DEF Memory, Tagged, Chain, Blocks
    <3>2. Hdr # b
      BY <1>2, <1>3, BlockFacts, Constants
    <3> QED
      BY <1>9, <1>13, <3>1, <3>2
  <2>2. ASSUME NEW c \in Blocks \ {b}
        PROVE  rec'[next_block(c)'].prev =
                 IF c \in InUse' THEN Magic ELSE rec'[c].size
    <3>1. CASE c = f
      <4>1. rec'[next_block(b)].prev = joined
        BY <1>9, <1>13
      <4>2. rec'[f].size = joined
        BY <1>3, <1>9
      <4> QED
        BY <1>2, <1>5, <1>8, <3>1, <4>1, <4>2
    <3>2. CASE c # f
      <4>1. c \in Blocks /\ c # b /\ next_block(c)' = next_block(c)
        BY <1>5, <3>2
      <4>2. /\ next_block(c) \in DOMAIN rec /\ c \in DOMAIN rec
        BY <4>1, BlockFacts
      <4>3. next_block(c) # b
        BY <1>2, <3>2, <4>1, NextDiffers
      <4>4. next_block(c) # next_block(b)
        BY <1>1, <4>1, NextDiffers
      <4>5. rec'[next_block(c)].prev = rec[next_block(c)].prev
        BY <1>9, <4>2, <4>3, <4>4
      <4>6. rec'[c].size = rec[c].size
        BY <1>9, <3>2, <4>1, <4>2
      <4>7. rec[next_block(c)].prev = IF c \in InUse THEN Magic ELSE rec[c].size
        BY <4>1 DEF Memory, Tagged, Tags
      <4> QED
        BY <1>8, <4>1, <4>5, <4>6, <4>7
    <3> QED
      BY <3>1, <3>2
  <2> QED
    BY <1>5, <2>1, <2>2 DEF Tagged, Tags
<1>15. ListsExact'
  <2>1. ASSUME NEW k \in Index
        PROVE  /\ Range(lists'[k]) = {h \in FreeBlocks' : rec'[h].index = k}
               /\ IsInjective(lists'[k])
    <3>1. /\ Range(lists[k]) = {h \in FreeBlocks : rec[h].index = k}
          /\ IsInjective(lists[k])
      BY DEF Memory, ListsExact
    <3>2. \A h \in FreeBlocks' : rec'[h].index = rec[h].index
      BY <1>9, <1>10 DEF FreeBlocks, Blocks
    <3>3. CASE k = l
      <4>1. lists'[k] = RemoveAt(lists[l], i)
        BY <1>7, <3>3
      <4> QED
        BY <1>6, <1>10, <3>1, <3>2, <3>3, <4>1
    <3>4. CASE k # l
      <4>1. lists'[k] = lists[k]
        BY <1>7, <3>4
      <4> QED
        BY <1>1, <1>10, <3>1, <3>2, <3>4, <4>1
    <3> QED
      BY <3>3, <3>4
  <2> QED
    BY <2>1 DEF ListsExact
<1>16. SizesServed'
  <2>1. ASSUME NEW h \in Blocks \ {b}, rec'[h].index # Other
        PROVE  rec'[h].size >= ClassSize(rec'[h].index)
    <3>1. /\ h \in DOMAIN rec /\ rec'[h].index = rec[h].index
          /\ rec[h].index \in Index /\ rec[h].size \in Nat
      BY <1>9, RecordFields DEF Blocks
    <3>2. rec[h].size >= ClassSize(rec[h].index)
      BY <2>1, <3>1 DEF Memory, SizesServed
    <3>3. rec'[h].size \in Nat /\ rec'[h].size >= rec[h].size
      <4>1. CASE h = f
        <5>1. rec'[h].size = joined
          BY <1>9, <3>1, <4>1
        <5> QED
          BY <1>4, <4>1, <5>1
      <4>2. CASE h # f
        <5>1. rec'[h].size = rec[h].size
          BY <1>9, <3>1, <4>2
        <5> QED
          BY <3>1, <5>1
      <4> QED
        BY <4>1, <4>2
    <3>4. ClassSize(rec[h].index) \in Nat
      BY <2>1, <3>1, Constants
    <3> QED
      BY <3>1, <3>2, <3>3, <3>4
  <2>2. ASSUME NEW c \in InUse
        PROVE  given'[c] < rec'[c].size
    <3>1. c \in DOMAIN rec /\ c # b /\ c # f
      BY <1>1, <1>2 DEF Memory, Used, Blocks
    <3>2. rec'[c].size = rec[c].size
      BY <1>9, <3>1
    <3> QED
      BY <1>8, <3>2 DEF Memory, SizesServed
  <2> QED
    BY <1>5, <1>8, <2>1, <2>2 DEF SizesServed
<1>17. ASSUME NEW h \in FreeBlocks', rec[h].prev = Magic
       PROVE  rec'[h].prev = Magic
  <2>1. h \in DOMAIN rec \ {b}
    BY <1>10 DEF FreeBlocks, Blocks
  <2>2. h # next_block(b)
    <3>1. rec[next_block(b)].prev = rec[b].size
      BY <1>1 DEF Memory, Tagged, Tags
    <3> QED
      BY <1>3, <1>17, <3>1, Constants
  <2> QED
    BY <1>9, <1>17, <2>1, <2>2
<1> QED
  BY <1>4, <1>5, <1>10, <1>11, <1>12, <1>14, <1>15, <1>16, <1>17 DEF Memory

-----------------------------------------------------------------------------
(* Moving a block to list Other.                                           *)

MovedLists(l, i, b) ==
    IF l = Other
    THEN lists' = [lists EXCEPT ![l] = <<b>> \o RemoveAt(lists[l], i)]
    ELSE lists' = [lists EXCEPT ![l] = RemoveAt(lists[l], i),
                                ![Other] = <<b>> \o lists[Other]]

LEMMA MoveKeepsMemory ==
    ASSUME Memory, NEW l \in Index, NEW i \in 1 .. Len(lists[l]),
           NEW b, b = lists[l][i],
           rec' = [rec EXCEPT ![b].index = Other],
           MovedLists(l, i, b), pos' \in Nat, UNCHANGED <<pc, given, want, ix>>
    PROVE  /\ Memory' /\ FreeBlocks' = FreeBlocks
           /\ \A h \in FreeBlocks : rec'[h].prev = rec[h].prev
<1>1. /\ b \in FreeBlocks /\ b \in Blocks /\ b \notin InUse
      /\ rec[b].index = l /\ lists[l] \in Seq(Nat) /\ IsInjective(lists[l])
  BY Listed
<1>2. b \in DOMAIN rec /\ b \in Nat /\ Other \in Index
  <2>1. Other \in Index
    BY Constants DEF Index
  <2> QED
    BY <1>1, <2>1, BlockFacts
<1>3. rec \in [DOMAIN rec -> Record] /\ lists \in [Index -> Seq(Nat)]
  BY DEF Memory, TypeOK
<1> DEFINE r == [rec[b] EXCEPT !.index = Other]
<1>4. /\ r \in Record /\ r.size = rec[b].size /\ r.prev = rec[b].prev
      /\ r.index = Other
  BY <1>2, RecordFields DEF Record
<1>5. rec' = [rec EXCEPT ![b] = r]
  OBVIOUS
<1> HIDE DEF r
<1>6. /\ SameChain
      /\ \A h \in DOMAIN rec :
            /\ rec'[h].prev = rec[h].prev
            /\ rec'[h].index = IF h = b THEN Other ELSE rec[h].index
  <2>1. DOMAIN rec' = DOMAIN rec /\ rec' \in [DOMAIN rec' -> Record]
    BY <1>3, <1>4, <1>5
  <2>2. \A h \in DOMAIN rec : rec'[h] = IF h = b THEN r ELSE rec[h]
    BY <1>3, <1>5
  <2> QED
    BY <1>4, <2>1, <2>2 DEF SameChain
<1>7. /\ Chain' /\ Blocks' = Blocks
      /\ \A a \in Blocks : next_block(a)' = next_block(a)
  BY <1>6, ChainStays
<1>8. given' = given /\ InUse' = InUse /\ FreeBlocks' = FreeBlocks
  BY <1>7 DEF InUse, FreeBlocks
<1> DEFINE rest == RemoveAt(lists[l], i)
<1>9. /\ rest \in Seq(Nat) /\ Range(rest) = Range(lists[l]) \ {b}
      /\ IsInjective(rest)
  BY <1>1, RemoveAtElements, RemoveAtRange
<1> DEFINE old == IF l = Other THEN rest ELSE lists[Other]
           top == <<b>> \o old
<1>10. old \in Seq(Nat) /\ IsInjective(old) /\ b \notin Range(old)
  <2>1. lists[Other] \in Seq(Nat) /\ IsInjective(lists[Other])
    BY <1>2, <1>3 DEF Memory, ListsExact
  <2>2. l # Other => b \notin Range(lists[Other])
    BY <1>1, <1>2 DEF Memory, ListsExact
  <2> HIDE DEF rest
  <2> QED
    BY <1>9, <2>1, <2>2
<1>11. top \in Seq(Nat) /\ Range(top) = Range(old) \cup {b} /\ IsInjective(top)
  <2> HIDE DEF old
  <2> QED
    BY <1>2, <1>10, PushElements, PushRange
<1>12. \A k \in Index : lists'[k] = IF k = Other THEN top
                                    ELSE IF k = l THEN rest ELSE lists[k]
  BY <1>2, <1>3 DEF MovedLists
<1>13. TypeOK'
  <2>1. lists' \in [Index -> Seq(Nat)]
    <3>1. DOMAIN lists' = Index /\ lists' = [k \in Index |-> lists'[k]]
      BY <1>3 DEF MovedLists
    <3> HIDE DEF rest, top
    <3>2. \A k \in Index : lists'[k] \in Seq(Nat)
      BY <1>3, <1>9, <1>11, <1>12
    <3> QED
      BY <3>1, <3>2
  <2>2. DOMAIN rec' \subseteq Nat /\ rec' \in [DOMAIN rec' -> Record]
    BY <1>6 DEF SameChain, Memory, TypeOK
  <2>3. pc' = pc /\ ix' = ix /\ want' = want
    OBVIOUS
  <2> QED
    BY <1>8, <2>1, <2>2, <2>3 DEF Memory, TypeOK
<1>14. Used'
  BY <1>7, <1>8 DEF Memory, Used
<1>15. Tagged'
  <2>1. rec'[Hdr].prev = Magic
    BY <1>6 DEF Memory, Tagged, Chain, Blocks
  <2>2. ASSUME NEW c \in Blocks
        PROVE  rec'[next_block(c)].prev =
                 IF c \in InUse THEN Magic ELSE rec'[c].size
    <3>1. next_block(c) \in DOMAIN rec /\ rec'[c].size = rec[c].size
      BY <1>6, BlockFacts DEF SameChain
    <3> QED
      BY <1>6, <3>1 DEF Memory, Tagged, Tags
  <2> QED
    BY <1>7, <1>8, <2>1, <2>2 DEF Tagged, Tags
<1>16. ListsExact'
  <2>1. ASSUME NEW k \in Index
        PROVE  /\ Range(lists'[k]) = {h \in FreeBlocks : rec'[h].index = k}
               /\ IsInjective(lists'[k])
    <3>1. \A j \in Index : Range(lists[j]) = {h \in FreeBlocks : rec[h].index = j}
      BY DEF Memory, ListsExact
    <3>2. \A h \in FreeBlocks :
             rec'[h].index = IF h = b THEN Other ELSE rec[h].index
      BY <1>6 DEF FreeBlocks, Blocks
    <3>3. IsInjective(lists[k])
      BY DEF Memory, ListsExact
    <3>4. CASE k = Other
      <4>1. lists'[k] = top
        BY <1>12, <3>4
      <4>2. Range(old) = Range(lists[Other]) \ {b}
        BY <1>9, <1>10
      <4> HIDE DEF top, old
      <4>3. Range(top) = Range(lists[Other]) \cup {b}
        BY <1>11, <4>2
      <4>4. Range(lists[Other]) = {h \in FreeBlocks : rec[h].index = Other}
        BY <1>2, <3>1
      <4> QED
        BY <1>1, <1>11, <3>2, <3>4, <4>1, <4>3, <4>4
    <3>5. CASE k # Other /\ k = l
      <4>1. lists'[k] = rest
        BY <1>12, <3>5
      <4> HIDE DEF rest
      <4> QED
        BY <1>9, <3>1, <3>2, <3>5, <4>1
    <3>6. CASE k # Other /\ k # l
      <4>1. lists'[k] = lists[k]
        BY <1>12, <3>6
      <4> QED
        BY <1>1, <3>1, <3>2, <3>3, <3>6, <4>1
    <3> QED
      BY <3>4, <3>5, <3>6
  <2> QED
    BY <1>8, <2>1 DEF ListsExact
<1>17. SizesServed'
  <2>1. ASSUME NEW h \in Blocks, rec'[h].index # Other
        PROVE  rec'[h].size >= ClassSize(rec'[h].index)
    <3>1. rec'[h].size = rec[h].size /\ rec'[h].index = rec[h].index
      BY <1>6, <2>1 DEF SameChain, Blocks
    <3> QED
      BY <2>1, <3>1 DEF Memory, SizesServed
  <2>2. \A c \in InUse : given'[c] < rec'[c].size
    BY <1>6, <1>8 DEF SameChain, Memory, Used, Blocks, SizesServed
  <2> QED
    BY <1>7, <1>8, <2>1, <2>2 DEF SizesServed
<1> QED
  BY <1>6, <1>7, <1>8, <1>13, <1>14, <1>15, <1>16, <1>17
     DEF Memory, FreeBlocks, Blocks

-----------------------------------------------------------------------------
(* The steps of the calls.                                                 *)

(* What is asked for fits into a block of the size that is searched.       *)
Served(size, index, asked) ==
    /\ size \in Nat /\ index \in Index /\ asked \in Nat /\ asked < size
    /\ index # Other => ClassSize(index) <= size

LEMMA NewBlockKeepsMemory ==
    ASSUME Memory, NEW size, NEW index, NEW asked,
           Served(size, index, asked),
           get_new_block_internal(size, index, asked), CallTyped'
    PROVE  Memory'
<1>1. /\ size \in Nat /\ index \in Index /\ asked \in Nat /\ asked < size
      /\ index # Other => ClassSize(index) <= size
      /\ index # Other => ClassSize(index) \in Nat
  BY Constants DEF Served
<1>2. Other \in Index /\ lists[Other] \in Seq(Nat)
  <2>1. Other \in Index
    BY Constants DEF Index
  <2> QED
    BY <2>1 DEF Memory, TypeOK
<1>3. PICK i \in DOMAIN lists[Other] :
         /\ FirstFit(size, i)
         /\ \/ split(lists[Other][i], size, index, asked)
            \/ take(lists[Other][i], Other, i, index, asked)
  BY DEF get_new_block_internal
<1>4. i \in 1 .. Len(lists[Other])
  BY <1>2, LenProperties
<1>5. PICK b : b = lists[Other][i]
  OBVIOUS
<1>6. b \in FreeBlocks /\ b \in Blocks /\ rec[b].index = Other
  BY <1>2, <1>4, <1>5, Listed
<1>7. rec[b].size >= size /\ rec[b].size \in Nat
  BY <1>3, <1>5, <1>6, BlockFacts DEF FirstFit
<1>8. CASE split(b, size, index, asked)
  BY <1>1, <1>6, <1>8, SplitKeepsMemory
<1>9. CASE take(b, Other, i, index, asked)
  <2>1. asked < rec[b].size /\ (index # Other => ClassSize(index) <= rec[b].size)
    BY <1>1, <1>7
  <2> QED
    BY <1>1, <1>2, <1>4, <1>5, <1>9, <2>1, TakeKeepsMemory
<1> QED
  BY <1>3, <1>5, <1>8, <1>9

(* The size that allocate searches for serves the request.                 *)
LEMMA RequestServed ==
    ASSUME NEW x \in Requests, BLOCK_ALIGN(x) # 0,
           NEW index, index = find_index(BLOCK_ALIGN(x)),
           NEW size, size = IF index = Other THEN BLOCK_ALIGN(x)
                            ELSE ClassSize(index)
    PROVE  Served(size, index, x)
<1>1. BLOCK_ALIGN(x) \in Nat /\ x < BLOCK_ALIGN(x) /\ x \in Nat
  BY AlignedIsLarger, Constants
<1>2. index \in Index /\ (index # Other => BLOCK_ALIGN(x) <= ClassSize(index))
  BY <1>1, IndexFound
<1>3. index # Other => ClassSize(index) \in Nat
  BY <1>2, Constants
<1>4. size \in Nat /\ x < size
  BY <1>1, <1>2, <1>3
<1>5. index # Other => ClassSize(index) <= size
  BY <1>3
<1> QED
  BY <1>1, <1>2, <1>4, <1>5 DEF Served

(* A block from the list of its class is large enough without a look at    *)
(* its size.                                                               *)
LEMMA ClassBlockKeepsMemory ==
    ASSUME Memory, NEW x \in Requests, NEW index \in Index, index # Other,
           Served(ClassSize(index), index, x), lists[index] # <<>>,
           take(Head(lists[index]), index, 1, index, x), CallTyped'
    PROVE  Memory'
<1>1. lists[index] \in Seq(Nat)
  BY DEF Memory, TypeOK
<1>2. 1 \in 1 .. Len(lists[index]) /\ Head(lists[index]) = lists[index][1]
  BY <1>1
<1>3. PICK b : b = lists[index][1]
  OBVIOUS
<1>4. b \in Blocks /\ rec[b].index = index
  BY <1>2, <1>3, Listed
<1>5. rec[b].size >= ClassSize(index) /\ rec[b].size \in Nat
  BY <1>4, BlockFacts DEF Memory, SizesServed
<1>6. x \in Nat /\ x < ClassSize(index) /\ ClassSize(index) \in Nat
  BY Constants DEF Served
<1>7. x < rec[b].size /\ ClassSize(index) <= rec[b].size
  BY <1>5, <1>6
<1> QED
  BY <1>2, <1>3, <1>6, <1>7, TakeKeepsMemory

LEMMA InvMemory == Inv => Memory /\ CallTyped
BY DEF Inv, Memory, TypeOK, CallTyped

(* Between calls only memory matters.                                      *)
LEMMA IdleInv == Memory /\ pc \notin Busy /\ pc # "insane" => Inv
BY DEF Memory, Inv, Busy, Wanted, Merged

LEMMA UnchangedKeepsMemory ==
    Memory /\ UNCHANGED <<rec, lists, given>> /\ CallTyped' => Memory'
<1> SUFFICES ASSUME Memory, UNCHANGED <<rec, lists, given>>, CallTyped'
             PROVE  Memory'
  OBVIOUS
<1>1. rec' = rec /\ lists' = lists /\ given' = given
  OBVIOUS
<1>2. TypeOK'
  BY <1>1 DEF Memory, TypeOK, CallTyped
<1>3. Blocks' = Blocks /\ InUse' = InUse /\ FreeBlocks' = FreeBlocks
  BY <1>1 DEF Blocks, InUse, FreeBlocks
<1>4. \A a : next_block(a)' = next_block(a)
  BY <1>1 DEF next_block
<1>5. Chain'
  BY <1>1, <1>3, <1>4 DEF Memory, Chain
<1>6. Used' /\ Tagged'
  BY <1>1, <1>3, <1>4 DEF Memory, Used, Tagged, Tags
<1>7. ListsExact' /\ SizesServed'
  BY <1>1, <1>3 DEF Memory, ListsExact, SizesServed
<1> QED
  BY <1>2, <1>5, <1>6, <1>7 DEF Memory

LEMMA allocateKeepsInv ==
    ASSUME Inv, NEW x \in Requests, allocate(x)
    PROVE  Inv'
<1>1. Memory /\ CallTyped /\ pc = "idle" /\ x \in Nat
  BY InvMemory, Constants DEF allocate
<1>2. PICK index : index = find_index(BLOCK_ALIGN(x))
  OBVIOUS
<1>3. PICK size : size = IF index = Other THEN BLOCK_ALIGN(x)
                         ELSE ClassSize(index)
  OBVIOUS
<1>4. CASE UNCHANGED vars
  <2>1. Memory' /\ pc' = pc
    <3>1. UNCHANGED <<rec, lists, given>> /\ CallTyped' /\ pc' = pc
      BY <1>1, <1>4 DEF vars, CallTyped
    <3> QED
      BY <1>1, <3>1, UnchangedKeepsMemory
  <2>2. (pc \notin Busy /\ pc # "insane")'
    BY <1>1, <2>1 DEF Busy
  <2> QED
    BY <2>1, <2>2, IdleInv, PTL
<1>5. CASE /\ pc' = "wild"
           /\ UNCHANGED <<rec, lists, given, want, ix, pos>>
  <2>1. CallTyped'
    BY <1>1, <1>5 DEF CallTyped, Stops
  <2>2. Memory'
    BY <1>1, <1>5, <2>1, UnchangedKeepsMemory
  <2>3. (pc \notin Busy /\ pc # "insane")'
    BY <1>5 DEF Busy
  <2> QED
    BY <2>2, <2>3, IdleInv, PTL
<1>6. CASE /\ BLOCK_ALIGN(x) # 0
           /\ \/ /\ index # Other /\ lists[index] # <<>>
                 /\ take(Head(lists[index]), index, 1, index, x)
              \/ get_new_block_internal(size, index, x)
           /\ UNCHANGED <<pc, want, ix, pos>>
  <2>1. Served(size, index, x)
    BY <1>2, <1>3, <1>6, RequestServed
  <2>2. CallTyped' /\ pc' = "idle"
    BY <1>1, <1>6 DEF CallTyped
  <2>3. Memory'
    <3>1. CASE get_new_block_internal(size, index, x)
      BY <1>1, <2>1, <2>2, <3>1, NewBlockKeepsMemory
    <3>2. CASE /\ index # Other /\ lists[index] # <<>>
               /\ take(Head(lists[index]), index, 1, index, x)
      <4>1. size = ClassSize(index) /\ index \in Index
        BY <1>3, <2>1, <3>2 DEF Served
      <4> QED
        BY <1>1, <2>1, <2>2, <3>2, <4>1, ClassBlockKeepsMemory
    <3> QED
      BY <1>6, <3>1, <3>2
  <2>4. (pc \notin Busy /\ pc # "insane")'
    BY <2>2 DEF Busy
  <2> QED
    BY <2>3, <2>4, IdleInv, PTL
<1>7. CASE /\ BLOCK_ALIGN(x) # 0
           /\ pc' = "merge"
           /\ want' = [size |-> size, index |-> index, asked |-> x]
           /\ ix' = 0 /\ pos' = 0
           /\ UNCHANGED <<rec, lists, given>>
  <2>1. Served(size, index, x)
    BY <1>2, <1>3, <1>7, RequestServed
  <2>2. 0 \in Index
    BY Constants DEF Index
  <2>3. CallTyped'
    BY <1>7, <2>1, <2>2 DEF CallTyped, Busy, Served
  <2>4. Memory'
    BY <1>1, <1>7, <2>3, UnchangedKeepsMemory
  <2>5. Wanted'
    BY <1>7, <2>1 DEF Wanted, Served
  <2>6. Merged'
    <3>1. Len(lists[0]) \in Nat
      BY <1>1, <2>2, LenProperties DEF Memory, TypeOK
    <3> QED
      BY <1>7, <3>1 DEF Merged, Passed
  <2> QED
    BY <1>7, <2>4, <2>5, <2>6 DEF Memory, Inv
<1> QED
  BY <1>2, <1>3, <1>4, <1>5, <1>6, <1>7 DEF allocate

LEMMA freeKeepsInv ==
    ASSUME Inv, NEW a \in InUse, free(a)
    PROVE  Inv'
<1>1. Memory /\ pc = "idle" /\ pc' = pc
  BY InvMemory DEF free
<1>2. Memory'
  BY <1>1, FreeKeepsMemory
<1>3. (pc \notin Busy /\ pc # "insane")'
  BY <1>1 DEF Busy
<1> QED
  BY <1>2, <1>3, IdleInv, PTL

LEMMA next_listKeepsInv ==
    ASSUME Inv, \/ next_list("merge", "move")
                \/ next_list("move", "retry")
    PROVE  Inv'
<1>1. /\ Memory /\ CallTyped /\ pos' = 0 /\ AtEnd
      /\ rec' = rec /\ lists' = lists /\ given' = given /\ want' = want
      /\ pc \in {"merge", "move"}
  BY InvMemory DEF next_list
<1>2. ix \in Nat /\ ix <= Other /\ Other \in Nat /\ pos \in Nat
  BY <1>1, Constants DEF CallTyped, Index
<1>3. \/ pc' = pc /\ ix < Other /\ ix' = ix + 1
      \/ pc = "merge" /\ pc' = "move" /\ ix = Other /\ ix' = 0
      \/ pc = "move" /\ pc' = "retry" /\ ix = Other /\ ix' = 0
  BY DEF next_list
<1>4. CallTyped'
  <2>1. ix' \in Index
    BY <1>2, <1>3 DEF Index
  <2>2. pc' \in Busy
    BY <1>1, <1>3 DEF Busy
  <2> QED
    BY <1>1, <2>1, <2>2 DEF CallTyped
<1>5. Memory'
  BY <1>1, <1>4, UnchangedKeepsMemory
<1>6. Wanted'
  BY <1>1, <1>3 DEF Inv, Wanted, Busy
<1>7. \A k \in Index : lists[k] \in Seq(Nat) /\ Len(lists[k]) \in Nat
                       /\ DOMAIN lists[k] = 1 .. Len(lists[k])
  <2>1. \A k \in Index : lists[k] \in Seq(Nat)
    BY <1>1 DEF Memory, TypeOK
  <2> QED
    BY <2>1, LenProperties
<1>8. ix \in Index
  BY <1>1 DEF CallTyped
<1>9. pc = "merge" => \A k \in 0 .. ix : Passed(k, Len(lists[k]))
  <2>1. SUFFICES ASSUME pc = "merge", NEW k \in 0 .. ix
                 PROVE  Passed(k, Len(lists[k]))
    OBVIOUS
  <2>2. /\ \A i \in 0 .. ix - 1 : Passed(i, Len(lists[i]))
        /\ pos <= Len(lists[ix]) /\ Passed(ix, pos)
    BY <2>1 DEF Inv, Merged
  <2>3. pos = Len(lists[ix])
    BY <1>1, <1>2, <1>7, <1>8, <2>2 DEF AtEnd
  <2>4. k = ix \/ k \in 0 .. ix - 1
    BY <1>2
  <2> QED
    BY <2>2, <2>3, <2>4
<1>10. Blocks' = Blocks /\ FreeBlocks' = FreeBlocks
  BY <1>1 DEF Blocks, FreeBlocks, InUse
<1>11. Merged'
  <2>1. CASE pc' = "merge"
    <3>1. pc = "merge" /\ ix' = ix + 1 /\ ix' \in Index
      BY <1>1, <1>2, <1>3, <2>1 DEF Index
    <3>2. \A i \in 0 .. ix' - 1 : Passed(i, Len(lists[i]))'
      BY <1>1, <1>2, <1>9, <3>1 DEF Passed
    <3>3. pos' <= Len(lists'[ix']) /\ 1 .. pos' = {}
      BY <1>1, <1>7, <3>1
    <3> QED
      BY <1>1, <2>1, <3>2, <3>3 DEF Merged, Passed
  <2>2. CASE pc = "merge" /\ pc' = "move" /\ ix = Other
    <3>1. ASSUME NEW b \in FreeBlocks
          PROVE  rec[b].prev = Magic
      <4>1. PICK k \in Index : k = rec[b].index
        BY <1>1, RecordFields DEF FreeBlocks, Blocks
      <4>2. b \in Range(lists[k])
        BY <1>1, <4>1 DEF Memory, ListsExact
      <4>3. PICK j \in 1 .. Len(lists[k]) : b = lists[k][j]
        BY <1>7, <4>2 DEF Range
      <4>4. Passed(k, Len(lists[k]))
        BY <1>2, <1>9, <2>2 DEF Index
      <4> QED
        BY <4>3, <4>4 DEF Passed
    <3> QED
      BY <1>1, <1>10, <2>2, <3>1 DEF Merged
  <2>3. CASE pc = "move"
    <3>1. \A b \in FreeBlocks : rec[b].prev = Magic
      BY <2>3 DEF Inv, Merged
    <3>2. pc' # "merge"
      BY <1>3, <2>3
    <3> QED
      BY <1>1, <1>10, <3>1, <3>2 DEF Merged
  <2> QED
    BY <1>1, <1>3, <2>1, <2>2, <2>3
<1>12. pc' # "insane"
  BY <1>1, <1>3
<1> QED
  BY <1>5, <1>6, <1>11, <1>12 DEF Memory, Inv

(* The place of a call in a list that is not at its end.                   *)
LEMMA HereFacts ==
    ASSUME Inv, ~ AtEnd
    PROVE  /\ ix \in Index /\ pos \in Nat /\ pos + 1 \in 1 .. Len(lists[ix])
           /\ Here = lists[ix][pos + 1] /\ Here \in FreeBlocks
           /\ Here \in Blocks /\ Here \in DOMAIN rec
<1>1. Memory /\ ix \in Index /\ pos \in Nat
  BY InvMemory DEF CallTyped
<1>2. lists[ix] \in Seq(Nat)
  BY <1>1 DEF Memory, TypeOK
<1>3. Len(lists[ix]) \in Nat
  BY <1>2, LenProperties
<1>4. pos + 1 \in 1 .. Len(lists[ix])
  BY <1>1, <1>3 DEF AtEnd
<1>5. lists[ix][pos + 1] \in FreeBlocks
  BY <1>1, <1>4, Listed
<1> QED
  BY <1>1, <1>4, <1>5 DEF Here, FreeBlocks, Blocks

LEMMA coalesce_merge_blocksKeepsInv ==
    ASSUME Inv, coalesce_merge_blocks
    PROVE  Inv'
<1>1. /\ Memory /\ CallTyped /\ pc = "merge" /\ ~ AtEnd
      /\ given' = given /\ want' = want /\ ix' = ix
  BY InvMemory DEF coalesce_merge_blocks
<1>2. /\ ix \in Index /\ pos \in Nat /\ pos + 1 \in 1 .. Len(lists[ix])
      /\ Here = lists[ix][pos + 1] /\ Here \in FreeBlocks
      /\ Here \in Blocks /\ Here \in DOMAIN rec
  BY <1>1, HereFacts
<1>3. PICK b : b = Here
  OBVIOUS
<1>4. rec[b].prev # Magic =>
         /\ prev_block(b) \in FreeBlocks /\ next_block(prev_block(b)) = b
         /\ prev_block(b) \in Blocks
  BY <1>1, <1>2, <1>3, PreviousFound DEF FreeBlocks
<1>5. \/ /\ rec[b].prev = Magic /\ pos' = pos + 1
         /\ UNCHANGED <<rec, lists, pc>>
      \/ /\ rec[b].prev # Magic
         /\ rec' = [h \in DOMAIN rec \ {b} |->
                      IF h = prev_block(b)
                      THEN [rec[h] EXCEPT !.size =
                              rec[prev_block(b)].size + rec[b].size + Hdr]
                      ELSE IF h = next_block(b)
                      THEN [rec[h] EXCEPT !.prev =
                              rec[prev_block(b)].size + rec[b].size + Hdr]
                      ELSE rec[h]]
         /\ Unlinked(ix, pos + 1)
         /\ pos' = pos
         /\ UNCHANGED pc
  BY <1>3, <1>4 DEF coalesce_merge_blocks, AfterMerged, AfterBlock, Unlinked
<1>6. /\ \A i \in 0 .. ix - 1 : Passed(i, Len(lists[i]))
      /\ pos <= Len(lists[ix]) /\ Passed(ix, pos)
  BY <1>1 DEF Inv, Merged
<1>7. /\ ix \in Nat /\ ix <= Other /\ Other \in Nat /\ lists[ix] \in Seq(Nat)
      /\ Len(lists[ix]) \in Nat
  <2>1. lists[ix] \in Seq(Nat)
    BY <1>1, <1>2 DEF Memory, TypeOK
  <2> QED
    BY <1>2, <2>1, Constants, LenProperties DEF Index
<1>8. CASE /\ rec[b].prev = Magic /\ pos' = pos + 1
           /\ UNCHANGED <<rec, lists, pc>>
  <2>1. CallTyped'
    BY <1>1, <1>2, <1>8 DEF CallTyped
  <2>2. Memory'
    BY <1>1, <1>8, <2>1, UnchangedKeepsMemory
  <2>3. Wanted'
    BY <1>1, <1>8 DEF Inv, Wanted
  <2>4. Passed(ix, pos + 1)
    <3>1. SUFFICES ASSUME NEW j \in 1 .. pos + 1
                   PROVE  rec[lists[ix][j]].prev = Magic
      BY DEF Passed
    <3>2. j = pos + 1 \/ j \in 1 .. pos
      BY <1>2
    <3> QED
      BY <1>2, <1>3, <1>6, <1>8, <3>2 DEF Passed
  <2>5. Merged'
    BY <1>1, <1>2, <1>6, <1>7, <1>8, <2>4 DEF Merged, Passed
  <2> QED
    BY <1>1, <1>8, <2>2, <2>3, <2>5 DEF Memory, Inv
<1>9. CASE /\ rec[b].prev # Magic
           /\ rec' = [h \in DOMAIN rec \ {b} |->
                      IF h = prev_block(b)
                      THEN [rec[h] EXCEPT !.size =
                              rec[prev_block(b)].size + rec[b].size + Hdr]
                      ELSE IF h = next_block(b)
                      THEN [rec[h] EXCEPT !.prev =
                              rec[prev_block(b)].size + rec[b].size + Hdr]
                      ELSE rec[h]]
           /\ Unlinked(ix, pos + 1)
           /\ pos' = pos
           /\ UNCHANGED pc
  <2>1. PICK f \in FreeBlocks : f = prev_block(b)
    BY <1>4, <1>9
  <2>2. next_block(f) = b /\ f \in Blocks /\ b \in Blocks
    BY <1>2, <1>3, <1>4, <1>9, <2>1
  <2>3. PICK joined \in Nat : joined = rec[f].size + rec[b].size + Hdr
    <3>1. rec[f].size \in Nat /\ rec[b].size \in Nat /\ Hdr \in Nat
      BY <1>1, <2>2, BlockFacts, Constants
    <3>2. \A x, y, z \in Nat : x + y + z \in Nat
      OBVIOUS
    <3> QED
      BY <3>1, <3>2
  <2>4. rec' = [h \in DOMAIN rec \ {b} |->
                  IF h = f THEN [rec[h] EXCEPT !.size = joined]
                  ELSE IF h = next_block(b)
                  THEN [rec[h] EXCEPT !.prev = joined]
                  ELSE rec[h]]
    BY <1>9, <2>1, <2>3
  <2>5. MergeRecords(f, b, joined)
    BY <1>1, <2>2, <2>4, MergeChangesRecords
  <2>6. PICK l \in Index :
           /\ l = ix
           /\ \E i \in 1 .. Len(lists[l]) :
                 i = pos + 1 /\ b = lists[l][i] /\ Unlinked(l, i)
    BY <1>2, <1>3, <1>9
  <2>7. /\ Memory' /\ FreeBlocks' = FreeBlocks \ {b}
        /\ \A h \in FreeBlocks' :
              rec[h].prev = Magic => rec'[h].prev = Magic
    <3>1. PICK i \in 1 .. Len(lists[l]) : b = lists[l][i] /\ Unlinked(l, i)
      BY <2>6
    <3>2. pos' \in Nat /\ UNCHANGED <<pc, given, want, ix>>
      BY <1>1, <1>2, <1>9
    <3> QED
      BY <1>1, <2>2, <2>3, <2>5, <3>1, <3>2, MergeKeepsMemory
  <2>8. Wanted'
    BY <1>1, <1>9 DEF Inv, Wanted
  <2>9. lists' = [lists EXCEPT ![ix] = RemoveAt(lists[ix], pos + 1)]
        /\ lists \in [Index -> Seq(Nat)]
    BY <1>1, <1>9 DEF Unlinked, Memory, TypeOK
  <2>10. /\ Len(RemoveAt(lists[ix], pos + 1)) = Len(lists[ix]) - 1
         /\ \A j \in 1 .. Len(lists[ix]) - 1 :
               RemoveAt(lists[ix], pos + 1)[j] =
                 IF j < pos + 1 THEN lists[ix][j] ELSE lists[ix][j + 1]
    BY <1>2, <1>7, RemoveAtElements
  <2>11. /\ lists'[ix] = RemoveAt(lists[ix], pos + 1)
         /\ \A k \in Index : k # ix => lists'[k] = lists[k]
    BY <1>2, <2>9
  <2>12. /\ Len(lists'[ix]) = Len(lists[ix]) - 1
         /\ \A j \in 1 .. pos : lists'[ix][j] = lists[ix][j]
    <3>1. ASSUME NEW j \in 1 .. pos
          PROVE  lists'[ix][j] = lists[ix][j]
      <4>1. j \in 1 .. Len(lists[ix]) - 1 /\ j < pos + 1
        BY <1>2, <1>7
      <4> QED
        BY <2>10, <2>11, <4>1
    <3> QED
      BY <2>10, <2>11, <3>1
  <2>13. \A k \in Index : \A j \in 1 .. Len(lists'[k]) :
            lists'[k][j] \in FreeBlocks'
    <3>1. ListedFree'
      BY <2>7, AllListedFree, PTL
    <3> QED
      BY <3>1 DEF ListedFree
  <2>14. \A k \in 0 .. ix - 1 : Passed(k, Len(lists[k]))'
    <3>1. SUFFICES ASSUME NEW k \in 0 .. ix - 1, NEW j \in 1 .. Len(lists'[k])
                   PROVE  rec'[lists'[k][j]].prev = Magic
      BY DEF Passed
    <3>2. k \in Index /\ lists'[k] = lists[k]
      BY <1>7, <2>11 DEF Index
    <3>3. rec[lists[k][j]].prev = Magic
      BY <1>6, <3>2 DEF Passed
    <3> QED
      BY <2>7, <2>13, <3>2, <3>3
  <2>15. Passed(ix, pos)'
    <3>1. SUFFICES ASSUME NEW j \in 1 .. pos
                   PROVE  rec'[lists'[ix][j]].prev = Magic
      BY <1>1, <1>9 DEF Passed
    <3>2. lists'[ix][j] = lists[ix][j] /\ j \in 1 .. Len(lists'[ix])
      <4>1. lists'[ix][j] = lists[ix][j]
        BY <2>12
      <4>2. PICK n \in Nat : n = Len(lists[ix])
        BY <1>2, <1>7
      <4>3. pos \in Nat /\ pos + 1 <= n /\ Len(lists'[ix]) = n - 1
        BY <1>2, <1>7, <2>12, <4>2
      <4> QED
        BY <4>1, <4>3
    <3>3. rec[lists[ix][j]].prev = Magic
      BY <1>6 DEF Passed
    <3> QED
      BY <1>2, <2>7, <2>13, <3>2, <3>3
  <2>16. pos' <= Len(lists'[ix'])
    BY <1>1, <1>2, <1>7, <1>9, <2>12
  <2>17. Merged'
    BY <1>1, <1>9, <2>14, <2>15, <2>16 DEF Merged
  <2> QED
    BY <1>1, <1>9, <2>7, <2>8, <2>17 DEF Memory, Inv
<1> QED
  BY <1>5, <1>8, <1>9

LEMMA coalesce_move_blocksKeepsInv ==
    ASSUME Inv, coalesce_move_blocks
    PROVE  Inv'
<1>1. /\ Memory /\ CallTyped /\ pc = "move" /\ ~ AtEnd
      /\ given' = given /\ want' = want /\ ix' = ix
  BY InvMemory DEF coalesce_move_blocks
<1>2. /\ ix \in Index /\ pos \in Nat /\ pos + 1 \in 1 .. Len(lists[ix])
      /\ Here = lists[ix][pos + 1] /\ Here \in FreeBlocks
  BY <1>1, HereFacts
<1>3. PICK b : b = Here
  OBVIOUS
<1>4. \A h \in FreeBlocks : rec[h].prev = Magic
  BY <1>1 DEF Inv, Merged
<1>5. \/ /\ pos' \in {pos, pos + 1} /\ pc' \in {"move", "hung"}
         /\ UNCHANGED <<rec, lists>>
      \/ /\ MovedLists(ix, pos + 1, b)
         /\ rec' = [rec EXCEPT ![b].index = Other]
         /\ pos' \in {pos, pos + 1} /\ UNCHANGED pc
  <2>1. \/ /\ pos' = AfterBlock /\ UNCHANGED <<rec, lists, pc>>
        \/ /\ ix # Other
           /\ lists' = [lists EXCEPT ![ix] = RemoveAt(lists[ix], pos + 1),
                                     ![Other] = <<b>> \o lists[Other]]
           /\ rec' = [rec EXCEPT ![b].index = Other]
           /\ UNCHANGED <<pos, pc>>
        \/ /\ ix = Other
           /\ lists' = [lists EXCEPT ![ix] = <<b>> \o RemoveAt(@, pos + 1)]
           /\ rec' = [rec EXCEPT ![b].index = Other]
           /\ pos' = pos + 1 /\ UNCHANGED pc
        \/ /\ pc' = "hung" /\ UNCHANGED <<rec, lists, pos>>
    <3>1. lists \in [Index -> Seq(Nat)] /\ Other \in Index
      BY SMTT(30), <1>1, Constants DEF Memory, TypeOK, Index
    <3> QED
      BY <1>3, <3>1 DEF coalesce_move_blocks, NewList
  <2> QED
    BY <1>1, <2>1 DEF AfterBlock, MovedLists
<1>6. CASE /\ pos' \in {pos, pos + 1} /\ pc' \in {"move", "hung"}
           /\ UNCHANGED <<rec, lists>>
  <2>1. CallTyped'
    BY <1>1, <1>2, <1>6 DEF CallTyped, Busy, Stops
  <2>2. Memory'
    BY <1>1, <1>6, <2>1, UnchangedKeepsMemory
  <2>3. FreeBlocks' = FreeBlocks
    BY <1>1, <1>6 DEF FreeBlocks, Blocks, InUse
  <2>4. Wanted' /\ Merged'
    BY <1>1, <1>4, <1>6, <2>3 DEF Inv, Wanted, Merged, Busy
  <2> QED
    BY <1>6, <2>2, <2>4 DEF Memory, Inv
<1>7. CASE /\ MovedLists(ix, pos + 1, b)
           /\ rec' = [rec EXCEPT ![b].index = Other]
           /\ pos' \in {pos, pos + 1} /\ UNCHANGED pc
  <2>1. PICK l \in Index :
           /\ l = ix
           /\ \E i \in 1 .. Len(lists[l]) :
                 i = pos + 1 /\ b = lists[l][i] /\ MovedLists(l, i, b)
    BY <1>2, <1>3, <1>7
  <2>2. pos' \in Nat
    BY <1>2, <1>7
  <2>3. /\ Memory' /\ FreeBlocks' = FreeBlocks
        /\ \A h \in FreeBlocks : rec'[h].prev = rec[h].prev
    BY <1>1, <1>7, <2>1, <2>2, MoveKeepsMemory
  <2>4. Wanted' /\ Merged'
    BY <1>1, <1>4, <1>7, <2>3 DEF Inv, Wanted, Merged, Busy
  <2> QED
    BY <1>1, <1>7, <2>3, <2>4 DEF Memory, Inv
<1> QED
  BY <1>5, <1>6, <1>7

LEMMA retryKeepsInv ==
    ASSUME Inv, retry
    PROVE  Inv'
<1>1. /\ Memory /\ CallTyped /\ pc = "retry" /\ pc' = "idle"
      /\ want' = NoRequest /\ ix' = ix /\ pos' = pos
  BY InvMemory DEF retry
<1>2. 0 \in Index
  BY Constants DEF Index
<1>3. CallTyped'
  BY <1>1, <1>2 DEF CallTyped, NoRequest
<1>4. Served(want.size, want.index, want.asked)
  BY <1>1 DEF CallTyped, Inv, Wanted, Busy, Served
<1>5. Memory'
  <2>1. CASE get_new_block_internal(want.size, want.index, want.asked)
    BY <1>1, <1>3, <1>4, <2>1, NewBlockKeepsMemory
  <2>2. CASE UNCHANGED <<rec, lists, given>>
    BY <1>1, <1>3, <2>2, UnchangedKeepsMemory
  <2> QED
    BY <2>1, <2>2 DEF retry
<1>6. (pc \notin Busy /\ pc # "insane")'
  BY <1>1 DEF Busy
<1> QED
  BY <1>5, <1>6, IdleInv, PTL

-----------------------------------------------------------------------------
(* The theorems.                                                           *)

LEMMA InitInv == Init => Inv
<1> SUFFICES ASSUME Init PROVE Inv
  OBVIOUS
<1> DEFINE all == End - 3 * Hdr
           first == [prev |-> Magic, size |-> all, index |-> Other]
           last == [prev |-> all, size |-> 0, index |-> 0]
<1>1. /\ Hdr \in Nat /\ Hdr > 0 /\ EndMark \in Nat /\ EndMark > 2 * Hdr
      /\ all \in Nat /\ Hdr + Hdr + all = EndMark /\ Hdr # EndMark
      /\ Other \in Nat /\ 0 \in Index /\ Other \in Index
  BY Constants DEF Index, EndMark
<1>2. /\ DOMAIN rec = {Hdr, EndMark} /\ rec[Hdr] = first /\ rec[EndMark] = last
      /\ rec \in [{Hdr, EndMark} -> Record]
  <2>1. first \in Record /\ last \in Record
    BY <1>1 DEF Record
  <2> QED
    BY <1>1, <2>1 DEF Init
<1>3. /\ rec[Hdr].size = all /\ rec[Hdr].prev = Magic /\ rec[Hdr].index = Other
      /\ rec[EndMark].prev = all
  BY <1>2
<1> HIDE DEF all, first, last
<1>4. Blocks = {Hdr} /\ InUse = {} /\ FreeBlocks = {Hdr}
  <2>1. DOMAIN given = {}
    BY DEF Init
  <2> QED
    BY <1>1, <1>2, <2>1 DEF Blocks, InUse, FreeBlocks
<1>5. next_block(Hdr) = EndMark
  BY <1>1, <1>3 DEF next_block
<1>6. /\ lists \in [Index -> Seq(Nat)] /\ lists[Other] = <<Hdr>>
      /\ \A i \in Index : i # Other => lists[i] = <<>>
  <2>1. <<Hdr>> \in Seq(Nat) /\ <<>> \in Seq(Nat)
    BY <1>1
  <2> QED
    BY <1>1, <2>1 DEF Init
<1>7. TypeOK
  <2>1. DOMAIN given \subseteq Nat /\ given \in [DOMAIN given -> Nat]
    BY DEF Init
  <2>2. /\ pc \in {"idle"} \cup Busy \cup Stops /\ ix \in Index /\ pos \in Nat
        /\ want \in [size : Nat, index : Index, asked : Nat]
    BY <1>1 DEF Init, NoRequest
  <2> QED
    BY <1>1, <1>2, <1>6, <2>1, <2>2 DEF TypeOK
<1>8. Chain
  <2>1. Hdr \in Blocks /\ EndMark \in DOMAIN rec
    BY <1>2, <1>4
  <2>2. \A h \in DOMAIN rec : Hdr <= h /\ h <= EndMark
    BY <1>1, <1>2
  <2>3. \A a \in Blocks : /\ next_block(a) \in DOMAIN rec
                          /\ \A h \in DOMAIN rec : h <= a \/ next_block(a) <= h
    BY <1>1, <1>2, <1>4, <1>5
  <2>4. \A h \in DOMAIN rec \ {Hdr} : \E a \in Blocks : next_block(a) = h
    BY <1>2, <1>4, <1>5
  <2> QED
    BY <2>1, <2>2, <2>3, <2>4 DEF Chain
<1>9. Used /\ Tagged
  BY <1>3, <1>4, <1>5 DEF Used, Tagged, Tags
<1>10. ListsExact
  <2>1. Range(<<Hdr>>) = {Hdr} /\ IsInjective(<<Hdr>>)
    BY DEF Range, IsInjective
  <2>2. Range(<<>>) = {} /\ IsInjective(<<>>)
    BY DEF Range, IsInjective
  <2>3. ASSUME NEW i \in Index
        PROVE  /\ Range(lists[i]) = {b \in FreeBlocks : rec[b].index = i}
               /\ IsInjective(lists[i])
    <3>1. CASE i = Other
      BY <1>3, <1>4, <1>6, <2>1, <3>1
    <3>2. CASE i # Other
      BY <1>3, <1>4, <1>6, <2>2, <3>2
    <3> QED
      BY <3>1, <3>2
  <2> QED
    BY <2>3 DEF ListsExact
<1>11. SizesServed
  BY <1>3, <1>4 DEF SizesServed
<1>12. pc = "idle"
  BY DEF Init
<1>13. pc \notin Busy /\ pc # "insane"
  BY <1>12 DEF Busy
<1> QED
  BY <1>7, <1>8, <1>9, <1>10, <1>11, <1>13, IdleInv DEF Memory

LEMMA StutterKeepsInv == Inv /\ UNCHANGED vars => Inv'
<1> SUFFICES ASSUME Inv, UNCHANGED vars PROVE Inv'
  OBVIOUS
<1>1. /\ rec' = rec /\ lists' = lists /\ given' = given /\ pc' = pc
      /\ want' = want /\ ix' = ix /\ pos' = pos
  BY DEF vars
<1>2. CallTyped'
  BY <1>1, InvMemory DEF CallTyped
<1>3. Memory'
  BY <1>1, <1>2, InvMemory, UnchangedKeepsMemory
<1>4. Wanted'
  BY <1>1 DEF Inv, Wanted
<1>5. FreeBlocks' = FreeBlocks
  BY <1>1 DEF FreeBlocks, Blocks, InUse
<1>6. Merged'
  BY <1>1, <1>5 DEF Inv, Merged, Passed
<1> QED
  BY <1>1, <1>3, <1>4, <1>6 DEF Memory, Inv

LEMMA NextKeepsInv == Inv /\ [Next]_vars => Inv'
<1> SUFFICES ASSUME Inv, [Next]_vars PROVE Inv'
  OBVIOUS
<1>1. ASSUME NEW x \in Requests, allocate(x) PROVE Inv'
  BY <1>1, allocateKeepsInv
<1>2. ASSUME NEW a \in InUse, free(a) PROVE Inv'
  BY <1>2, freeKeepsInv
<1>3. CASE Coalescing
  BY <1>3, next_listKeepsInv, coalesce_merge_blocksKeepsInv,
     coalesce_move_blocksKeepsInv, retryKeepsInv DEF Coalescing
<1>4. CASE Halted \/ UNCHANGED vars
  BY <1>4, StutterKeepsInv DEF Halted
<1> QED
  BY <1>1, <1>2, <1>3, <1>4 DEF Next

LEMMA SpecInv == Spec => []Inv
BY InitInv, NextKeepsInv, PTL DEF Spec

(* The blocks of heap_t cover the heap without gap or overlap from the     *)
(* first header to the end marker, whatever allocate, free and coalesce    *)
(* did, for every heap size, header size and table of classes.             *)
THEOREM HeapIsTiled == Spec => []Tiled
<1>1. Inv => Tiled
  BY DEF Inv, Chain, Used, Tiled
<1> QED
  BY <1>1, SpecInv, PTL

(* The prev field behind each block is exact, so coalesce_merge_blocks     *)
(* always finds the free block before the one it looks at and its PANIC    *)
(* "Out of sanity!" never happens.                                         *)
THEOREM BoundaryTagsExact == Spec => []TagsExact
<1>1. Inv => TagsExact
  BY DEF Inv, Tagged, Tags, TagsExact
<1> QED
  BY <1>1, SpecInv, PTL

(* The free lists hold every free block once, on the list of its index,    *)
(* also while coalesce takes blocks off a list and moves them.             *)
THEOREM FreeListsExact == Spec => []ListsExact
<1>1. Inv => ListsExact
  BY DEF Inv
<1> QED
  BY <1>1, SpecInv, PTL

(* Every block with the index of a class is as large as the class, and a   *)
(* block handed out by allocate is larger than what was asked for.         *)
THEOREM RequestsAreServed == Spec => []SizesServed
<1>1. Inv => SizesServed
  BY DEF Inv
<1> QED
  BY <1>1, SpecInv, PTL

(* One pass over the lists merges all: after the first loop of coalesce no *)
(* two neighbours are free, although the lists are in no order and merging *)
(* changes them while they are searched.                                   *)
THEOREM CoalesceMergesAll == Spec => []Unfragmented
<1>1. ASSUME Inv, pc \in {"move", "retry"}, NEW a \in FreeBlocks
      PROVE  next_block(a) \notin FreeBlocks
  <2>1. Memory /\ a \in Blocks /\ a \notin InUse
    BY <1>1, InvMemory DEF FreeBlocks
  <2>2. rec[next_block(a)].prev = rec[a].size /\ rec[a].size \in Nat
    BY <2>1, BlockFacts DEF Memory, Tagged, Tags
  <2>3. rec[next_block(a)].prev # Magic
    BY <2>2, Constants
  <2> QED
    BY <1>1, <2>3 DEF Inv, Merged
<1>2. Inv => Unfragmented
  BY <1>1 DEF Unfragmented
<1> QED
  BY <1>2, SpecInv, PTL

-----------------------------------------------------------------------------
(* Refinement of AbstractHeap.                                             *)

(* What clients hold lies in the heap and is disjoint.                     *)
Apart ==
    /\ \A a \in InUse : Promise!Region(a, given[a]) \subseteq 0 .. End - 1
    /\ \A a, b \in InUse : a # b =>
          Promise!Region(a, given[a]) \cap Promise!Region(b, given[b]) = {}

LEMMA RegionsApart == Memory => Apart
<1> SUFFICES ASSUME Memory PROVE Apart
  OBVIOUS
<1>1. ASSUME NEW a \in InUse
      PROVE  /\ a \in Nat /\ a \in Blocks /\ a \in DOMAIN rec
             /\ given[a] \in Nat /\ Hdr <= a
             /\ a + Hdr + given[a] < next_block(a) /\ next_block(a) \in Nat
             /\ next_block(a) <= EndMark
  <2>1. a \in Blocks /\ given[a] \in Nat /\ given[a] < rec[a].size
    BY DEF Memory, Used, TypeOK, InUse, SizesServed
  <2>2. /\ a \in Nat /\ a \in DOMAIN rec /\ rec[a].size \in Nat
        /\ Hdr <= a /\ next_block(a) = a + Hdr + rec[a].size
        /\ next_block(a) \in Nat /\ next_block(a) <= EndMark
    BY <2>1, BlockFacts
  <2> QED
    BY <2>1, <2>2, Constants
<1>2. \A a \in InUse : Promise!Region(a, given[a]) \subseteq 0 .. End - 1
  <2>1. SUFFICES ASSUME NEW a \in InUse,
                        NEW x \in a + Hdr .. a + Hdr + given[a] - 1
                 PROVE  x \in 0 .. End - 1
    BY DEF Promise!Region
  <2> QED
    BY <1>1, Constants DEF EndMark
<1>3. ASSUME NEW a \in InUse, NEW b \in InUse, a # b
      PROVE  Promise!Region(a, given[a]) \cap Promise!Region(b, given[b]) = {}
  <2>1. SUFFICES ASSUME NEW x \in a + Hdr .. a + Hdr + given[a] - 1,
                        x \in b + Hdr .. b + Hdr + given[b] - 1
                 PROVE  FALSE
    BY DEF Promise!Region
  <2>2. /\ b <= a \/ next_block(a) <= b
        /\ a <= b \/ next_block(b) <= a
    BY <1>1 DEF Memory, Chain
  <2> QED
    BY <1>1, <1>3, <2>1, <2>2, Constants
<1> QED
  BY <1>2, <1>3 DEF Apart

(* A step that gives a block to a client is an Allocate of the promise.    *)
LEMMA GivingIsAllocate ==
    ASSUME Memory, Memory', NEW x \in Requests, NEW b \in Nat, b <= End,
           b \notin InUse, GivenTo(b, x)
    PROVE  Promise!Next
<1>1. /\ DOMAIN given' = DOMAIN given \cup {b} /\ given'[b] = x
      /\ \A h \in DOMAIN given : h # b => given'[h] = given[h]
  <2>1. x \in Nat
    BY Constants
  <2> QED
    BY <2>1, GivenEffect
<1>2. Apart'
  BY RegionsApart, PTL
<1>3. Promise!Region(b, x) \subseteq 0 .. End - 1
  BY <1>1, <1>2 DEF Apart, InUse, Promise!Region
<1>4. ASSUME NEW c \in DOMAIN given
      PROVE  Promise!Region(b, x) \cap Promise!Region(c, given[c]) = {}
  <2>1. c # b /\ given'[c] = given[c] /\ c \in DOMAIN given'
    BY <1>1 DEF InUse
  <2> QED
    BY <1>1, <1>2, <2>1 DEF Apart, InUse, Promise!Region
<1>5. Promise!Allocate(x, b)
  BY <1>3, <1>4 DEF Promise!Allocate, GivenTo, InUse
<1>6. b \in 0 .. End
  BY Constants
<1> QED
  BY <1>5, <1>6 DEF Promise!Next

(* get_new_block_internal gives out a block that was nobody's.             *)
LEMMA NewBlockGives ==
    ASSUME Memory, NEW size, NEW index, NEW asked,
           Served(size, index, asked),
           get_new_block_internal(size, index, asked)
    PROVE  \E b \in Nat : b <= End /\ b \notin InUse /\ GivenTo(b, asked)
<1>1. Other \in Index /\ lists[Other] \in Seq(Nat)
  <2>1. Other \in Index
    BY Constants DEF Index
  <2> QED
    BY <2>1 DEF Memory, TypeOK
<1>2. PICK i \in DOMAIN lists[Other] :
         \/ split(lists[Other][i], size, index, asked)
         \/ take(lists[Other][i], Other, i, index, asked)
  BY DEF get_new_block_internal
<1>3. i \in 1 .. Len(lists[Other])
  BY <1>1, LenProperties
<1>4. PICK b : b = lists[Other][i]
  OBVIOUS
<1>5. b \in Blocks /\ b \notin InUse
  BY <1>1, <1>3, <1>4, Listed
<1>6. /\ b \in Nat /\ next_block(b) \in Nat /\ b < next_block(b)
      /\ next_block(b) <= EndMark /\ EndMark <= End /\ End \in Nat
      /\ EndMark \in Nat
  BY <1>5, BlockFacts, Constants DEF EndMark
<1>7. CASE take(b, Other, i, index, asked)
  BY <1>5, <1>6, <1>7 DEF take, GivenTo
<1>8. CASE split(b, size, index, asked)
  <2>1. PICK a : a = b + rec[b].size - size
    OBVIOUS
  <2>2. rec[b].size - size >= MinFrag /\ size \in Nat
    BY <1>8 DEF split, Served
  <2>3. SplitAt(b, a, size)
    BY <1>5, <2>1, <2>2, SplitInside
  <2>4. a \in Nat /\ a < next_block(b) /\ a \notin InUse
    BY <2>3 DEF SplitAt, Memory, Used, Blocks
  <2>5. GivenTo(a, asked)
    BY <1>8, <2>1 DEF split, GivenTo
  <2> QED
    BY <1>6, <2>4, <2>5
<1> QED
  BY <1>2, <1>4, <1>7, <1>8

LEMMA StepKeepsPromise ==
    Inv /\ Inv' /\ [Next]_vars => [Promise!Next]_given
<1> SUFFICES ASSUME Inv, Inv', [Next]_vars
             PROVE  Promise!Next \/ given' = given
  OBVIOUS
<1>1. Memory /\ Memory' /\ CallTyped
  BY InvMemory, PTL
<1>2. ASSUME NEW x \in Requests, allocate(x)
      PROVE  Promise!Next \/ given' = given
  <2>1. PICK index : index = find_index(BLOCK_ALIGN(x))
    OBVIOUS
  <2>2. PICK size : size = IF index = Other THEN BLOCK_ALIGN(x)
                           ELSE ClassSize(index)
    OBVIOUS
  <2>3. \/ given' = given
        \/ /\ BLOCK_ALIGN(x) # 0
           /\ \/ /\ index # Other /\ lists[index] # <<>>
                 /\ take(Head(lists[index]), index, 1, index, x)
              \/ get_new_block_internal(size, index, x)
    BY <1>2, <2>1, <2>2 DEF allocate, vars
  <2>4. CASE BLOCK_ALIGN(x) # 0 /\ get_new_block_internal(size, index, x)
    <3>1. Served(size, index, x)
      BY <2>1, <2>2, <2>4, RequestServed
    <3>2. PICK b \in Nat : b <= End /\ b \notin InUse /\ GivenTo(b, x)
      BY <1>1, <2>4, <3>1, NewBlockGives
    <3> QED
      BY <1>1, <3>2, GivingIsAllocate
  <2>5. CASE /\ BLOCK_ALIGN(x) # 0 /\ index # Other /\ lists[index] # <<>>
             /\ take(Head(lists[index]), index, 1, index, x)
    <3>1. index \in Index
      BY <2>1, <2>2, <2>5, RequestServed DEF Served
    <3>2. lists[index] \in Seq(Nat)
      BY <1>1, <3>1 DEF Memory, TypeOK
    <3>3. /\ 1 \in 1 .. Len(lists[index])
          /\ Head(lists[index]) = lists[index][1]
      BY <2>5, <3>2
    <3>4. PICK b : b = lists[index][1]
      OBVIOUS
    <3>5. b \in Blocks /\ b \notin InUse
      BY <1>1, <3>1, <3>3, <3>4, Listed
    <3>6. /\ b \in Nat /\ next_block(b) \in Nat /\ b < next_block(b)
          /\ next_block(b) <= EndMark /\ EndMark <= End /\ End \in Nat
          /\ EndMark \in Nat
      BY <1>1, <3>5, BlockFacts, Constants DEF EndMark
    <3>7. GivenTo(b, x)
      BY <2>5, <3>3, <3>4 DEF take, GivenTo
    <3>8. b <= End
      BY <3>6
    <3> QED
      BY <1>1, <3>5, <3>6, <3>7, <3>8, GivingIsAllocate
  <2> QED
    BY <2>3, <2>4, <2>5
<1>3. ASSUME NEW a \in InUse, free(a)
      PROVE  Promise!Next
  <2>1. Promise!Free(a) /\ a \in DOMAIN given
    BY <1>3 DEF free, Promise!Free, InUse
  <2> QED
    BY <2>1 DEF Promise!Next
<1>4. CASE retry
  <2>1. CASE get_new_block_internal(want.size, want.index, want.asked)
    <3>1. Served(want.size, want.index, want.asked) /\ want.asked \in Requests
      BY <1>1, <1>4 DEF retry, CallTyped, Inv, Wanted, Busy, Served
    <3>2. PICK b \in Nat : b <= End /\ b \notin InUse /\ GivenTo(b, want.asked)
      BY <1>1, <2>1, <3>1, NewBlockGives
    <3>3. PICK x \in Requests : x = want.asked
      BY <3>1
    <3> QED
      BY <1>1, <3>2, <3>3, GivingIsAllocate
  <2> QED
    BY <1>4, <2>1 DEF retry
<1>5. CASE \/ next_list("merge", "move") \/ next_list("move", "retry")
           \/ coalesce_merge_blocks \/ coalesce_move_blocks
  BY <1>5 DEF next_list, coalesce_merge_blocks, coalesce_move_blocks
<1>6. CASE Halted \/ UNCHANGED vars
  BY <1>6 DEF Halted, vars
<1> QED
  BY <1>2, <1>3, <1>4, <1>5, <1>6 DEF Next, Coalescing

(* The heap of heap.cpp implements AbstractHeap: every allocate hands out  *)
(* bytes inside the heap that no client holds, and nothing but free takes  *)
(* them back.                                                              *)
THEOREM HeapKeepsPromise == Spec => KeepsPromise
<1>1. Init => Promise!Init
  BY DEF Init, Promise!Init
<1> QED
  BY <1>1, SpecInv, StepKeepsPromise, PTL DEF Spec, KeepsPromise, Promise!Spec

-----------------------------------------------------------------------------
(* The search of find_index.                                               *)

LEMMA TableFacts ==
    /\ WordSize \in Nat \ {0} /\ SmallBlocks \in Nat \ {0} /\ Other \in Nat
    /\ SmallBlocks < Other /\ MaxSize \in Nat
    /\ \A i \in 0 .. Other - 1 : ClassSize(i) \in Nat
    /\ \A i \in 0 .. SmallBlocks - 1 : ClassSize(i) = (i + 1) * WordSize
    /\ \A i, j \in 0 .. Other - 1 : i < j => ClassSize(i) < ClassSize(j)
<1>1. Other \in Nat /\ AllSizes \in [1 .. Other -> Nat \ {0}]
  BY SizesAssumption, LenProperties DEF Other
<1>2. \A i \in 0 .. Other - 1 : i + 1 \in 1 .. Other
  BY <1>1
<1>3. \A i, j \in 1 .. Other : i < j => AllSizes[i] < AllSizes[j]
  BY <1>1, SizesAssumption
<1>4. \A i \in 0 .. Other - 1 : ClassSize(i) \in Nat
  BY <1>1, <1>2 DEF ClassSize
<1>5. \A i, j \in 0 .. Other - 1 : i < j => ClassSize(i) < ClassSize(j)
  BY <1>1, <1>2, <1>3 DEF ClassSize
<1> QED
  BY <1>1, <1>4, <1>5, SizesAssumption, TableAssumption

(* Every entry below lo is too small and the entry at hi is not: the class *)
(* lies in the window.  The first search keeps it there, the second        *)
(* narrows it from below.                                                  *)
InWindow ==
    step \in {"halve", "scan"} =>
        /\ lo <= hi
        /\ wanted <= ClassSize(hi)
        /\ \A j \in 0 .. lo - 1 : wanted > ClassSize(j)

Scanned ==
    step = "scan" => /\ mi \in lo .. hi
                     /\ \A j \in 0 .. mi - 1 : wanted > ClassSize(j)

Starting == step = "start" => lo = SmallBlocks /\ hi = Other - 1

SearchInv == SearchTypeOK /\ Starting /\ InWindow /\ Scanned /\ FindsClass

LEMMA SearchInitInv == SearchInit => SearchInv
BY TableFacts
   DEF SearchInit, SearchInv, SearchTypeOK, Starting, InWindow, Scanned, FindsClass

(* A small size is found by division.                                      *)
LEMMA SmallClass ==
    ASSUME NEW x \in Nat \ {0}, x <= SMALL_LIMIT
    PROVE  IsClass(x, SMALL_INDEX(x))
<1> DEFINE i == (x - 1) \div WordSize
<1>1. WordSize \in Nat \ {0} /\ SmallBlocks \in Nat \ {0} /\ Other \in Nat
      /\ SmallBlocks < Other
  BY TableFacts
<1>2. x <= SmallBlocks * WordSize
  BY <1>1, TableFacts DEF SMALL_LIMIT
<1>3. i \in Nat /\ i * WordSize <= x - 1 /\ x - 1 < (i + 1) * WordSize
  BY <1>1
<1>4. i < SmallBlocks
  <2>1. SUFFICES ASSUME i >= SmallBlocks PROVE FALSE
    BY <1>1, <1>3
  <2>2. i * WordSize >= SmallBlocks * WordSize
    BY <1>1, <1>3, <2>1
  <2> QED
    BY <1>1, <1>2, <1>3, <2>2
<1>5. x <= ClassSize(i)
  <2>1. i \in 0 .. SmallBlocks - 1
    BY <1>1, <1>3, <1>4
  <2> HIDE DEF i
  <2>2. ClassSize(i) = (i + 1) * WordSize
    BY <2>1, TableFacts
  <2>3. (i + 1) * WordSize \in Nat
    BY <1>1, <1>3
  <2> QED
    BY <1>3, <2>2, <2>3
<1>6. ASSUME NEW j \in 0 .. i - 1 PROVE x > ClassSize(j)
  <2>1. ClassSize(j) = (j + 1) * WordSize
    BY <1>1, <1>3, <1>4, TableFacts
  <2>2. (j + 1) * WordSize <= i * WordSize
    BY <1>1, <1>3
  <2>3. (j + 1) * WordSize \in Nat /\ i * WordSize \in Nat
    BY <1>1, <1>3
  <2> QED
    BY <1>3, <2>1, <2>2, <2>3
<1> HIDE DEF i
<1>7. IsClass(x, i)
  BY <1>1, <1>3, <1>4, <1>5, <1>6 DEF IsClass, Index
<1> QED
  BY <1>7 DEF i, SMALL_INDEX

LEMMA choose_searchKeepsInv == SearchInv /\ choose_search => SearchInv'
<1> SUFFICES ASSUME SearchInv, choose_search PROVE SearchInv'
  OBVIOUS
<1> USE DEF SearchInv, SearchTypeOK
<1>1. CASE wanted <= SMALL_LIMIT /\ Return(SMALL_INDEX(wanted))
  <2>1. IsClass(wanted, SMALL_INDEX(wanted))
    BY <1>1, SmallClass
  <2>2. /\ found' = SMALL_INDEX(wanted) /\ step' = "done"
        /\ UNCHANGED <<wanted, lo, hi, mi>>
    BY <1>1 DEF Return
  <2> QED
    BY <2>1, <2>2 DEF Starting, InWindow, Scanned, FindsClass, IsClass, Index
<1>2. CASE wanted > LARGE_LIMIT /\ Return(Other)
  <2>1. \A j \in 0 .. Other - 1 : wanted > ClassSize(j)
    <3> SUFFICES ASSUME NEW j \in 0 .. Other - 1 PROVE wanted > ClassSize(j)
      OBVIOUS
    <3>1. ClassSize(j) <= ClassSize(Other - 1)
      BY TableFacts
    <3> QED
      BY <1>2, <3>1, TableFacts DEF LARGE_LIMIT
  <2>2. IsClass(wanted, Other)
    BY <2>1, TableFacts DEF IsClass, Index
  <2> QED
    BY <1>2, <2>2, TableFacts
       DEF Return, Starting, InWindow, Scanned, FindsClass, IsClass, Index
<1>3. CASE /\ step = "start" /\ wanted > SMALL_LIMIT /\ wanted <= LARGE_LIMIT
           /\ step' = "halve" /\ UNCHANGED <<wanted, lo, hi, mi, found>>
  <2>1. \A j \in 0 .. SmallBlocks - 1 : wanted > ClassSize(j)
    <3> SUFFICES ASSUME NEW j \in 0 .. SmallBlocks - 1
                 PROVE  wanted > ClassSize(j)
      OBVIOUS
    <3>1. ClassSize(j) <= ClassSize(SmallBlocks - 1)
      BY SMTT(30), TableFacts
    <3> QED
      BY <1>3, <3>1, TableFacts DEF SMALL_LIMIT
  <2> QED
    BY <1>3, <2>1, TableFacts
       DEF Starting, InWindow, Scanned, FindsClass, LARGE_LIMIT
<1> QED
  BY <1>1, <1>2, <1>3 DEF choose_search

LEMMA halveKeepsInv == SearchInv /\ halve => SearchInv'
<1> SUFFICES ASSUME SearchInv, halve PROVE SearchInv'
  OBVIOUS
<1> DEFINE m == (lo + hi) \div 2
<1> USE DEF SearchInv, SearchTypeOK
<1>1. /\ step = "halve" /\ lo <= hi /\ Other \in Nat
      /\ m \in lo .. hi /\ m \in 0 .. Other - 1
  BY TableFacts DEF halve, InWindow
<1>3. \A i \in 0 .. Other - 1 : ClassSize(i) \in Nat
  BY TableFacts
<1>4. (wanted >= ClassSize(m)) =>
         \A j \in 0 .. m - 1 : wanted > ClassSize(j)
  BY <1>1, <1>3, TableFacts
<1> HIDE DEF m
<1>5. CASE WindowLong /\ wanted = ClassSize(m) /\ Return(m)
  <2>1. IsClass(wanted, m)
    BY <1>1, <1>3, <1>4, <1>5 DEF IsClass, Index
  <2> QED
    BY <1>1, <1>5, <2>1 DEF Return, Starting, InWindow, Scanned, FindsClass, IsClass, Index
<1>6. CASE /\ WindowLong /\ wanted < ClassSize(m)
           /\ hi' = NewHi(m) /\ mi' = m /\ UNCHANGED <<wanted, lo, found, step>>
  <2>1. wanted <= ClassSize(hi') /\ lo' <= hi'
    BY <1>1, <1>3, <1>6 DEF NewHi
  <2>2. \A j \in 0 .. lo - 1 : wanted > ClassSize(j)
    BY <1>1 DEF InWindow
  <2> QED
    BY <1>1, <1>6, <2>1, <2>2 DEF NewHi, Starting, InWindow, Scanned, FindsClass
<1>7. CASE /\ WindowLong /\ wanted > ClassSize(m)
           /\ lo' = m /\ mi' = m /\ UNCHANGED <<wanted, hi, found, step>>
  BY <1>1, <1>3, <1>4, <1>7 DEF Starting, InWindow, Scanned, FindsClass
<1>8. CASE /\ ~ WindowLong /\ mi' = lo /\ step' = "scan"
           /\ UNCHANGED <<wanted, lo, hi, found>>
  BY <1>1, <1>8 DEF Starting, InWindow, Scanned, FindsClass
<1> QED
  BY <1>5, <1>6, <1>7, <1>8 DEF halve, m

LEMMA scanKeepsInv == SearchInv /\ scan => SearchInv'
<1> SUFFICES ASSUME SearchInv, scan PROVE SearchInv'
  OBVIOUS
<1> USE DEF SearchInv, SearchTypeOK
<1>1. /\ step = "scan" /\ mi \in lo .. hi
      /\ wanted <= ClassSize(hi)
      /\ \A j \in 0 .. mi - 1 : wanted > ClassSize(j)
  BY DEF scan, InWindow, Scanned
<1>2. CASE wanted <= ClassSize(mi) /\ Return(mi)
  <2>1. IsClass(wanted, mi)
    BY <1>1, <1>2 DEF IsClass, Index
  <2> QED
    BY <1>1, <1>2, <2>1 DEF Return, Starting, InWindow, Scanned, FindsClass, IsClass, Index
<1>3. CASE /\ wanted > ClassSize(mi) /\ mi' = mi + 1
           /\ UNCHANGED <<wanted, lo, hi, found, step>>
  <2>1. mi # hi
    BY <1>1, <1>3, TableFacts
  <2>2. \A j \in 0 .. mi : wanted > ClassSize(j)
    BY <1>1, <1>3
  <2> QED
    BY <1>1, <1>3, <2>1, <2>2, TableFacts
       DEF Starting, InWindow, Scanned, FindsClass
<1> QED
  BY <1>1, <1>2, <1>3 DEF scan

LEMMA SearchSpecInv == SearchSpec => []SearchInv
<1>1. SearchInv /\ [SearchNext]_searchVars => SearchInv'
  <2> SUFFICES ASSUME SearchInv, [SearchNext]_searchVars PROVE SearchInv'
    OBVIOUS
  <2>1. CASE UNCHANGED searchVars
    BY <2>1
       DEF searchVars, SearchInv, SearchTypeOK, Starting, InWindow, Scanned, FindsClass, IsClass, Index
  <2>2. CASE Search
    BY <2>2, choose_searchKeepsInv, halveKeepsInv, scanKeepsInv DEF Search
  <2>3. CASE Done
    BY <2>1, <2>3 DEF Done
  <2> QED
    BY <2>1, <2>2, <2>3 DEF SearchNext
<1> QED
  BY <1>1, SearchInitInv, PTL DEF SearchSpec

(* The indices of the search stay inside the table.                        *)
THEOREM IndexTypeOK == SearchSpec => []SearchTypeOK
<1>1. SearchInv => SearchTypeOK
  BY DEF SearchInv
<1> QED
  BY <1>1, SearchSpecInv, PTL

(* find_index returns the first list whose class is large enough, for      *)
(* every table and every wanted.                                             *)
THEOREM IndexFindsClass == SearchSpec => []FindsClass
<1>1. SearchInv => FindsClass
  BY DEF SearchInv
<1> QED
  BY <1>1, SearchSpecInv, PTL

(* No size has two classes.                                                *)
LEMMA ClassUnique ==
    ASSUME NEW x \in Nat, NEW i, NEW j, IsClass(x, i), IsClass(x, j)
    PROVE  i = j
<1>1. /\ Other \in Nat /\ i \in 0 .. Other /\ j \in 0 .. Other
      /\ i # Other => x <= ClassSize(i)
      /\ j # Other => x <= ClassSize(j)
      /\ \A k \in 0 .. i - 1 : x > ClassSize(k)
      /\ \A k \in 0 .. j - 1 : x > ClassSize(k)
      /\ \A k \in 0 .. Other - 1 : ClassSize(k) \in Nat
  BY TableFacts DEF IsClass, Index
<1>2. CASE i < j
  <2>1. i \in 0 .. j - 1 /\ i # Other /\ i \in 0 .. Other - 1
    BY <1>1, <1>2
  <2> QED
    BY <1>1, <2>1
<1>3. CASE j < i
  <2>1. j \in 0 .. i - 1 /\ j # Other /\ j \in 0 .. Other - 1
    BY <1>1, <1>3
  <2> QED
    BY <1>1, <2>1
<1> QED
  BY <1>1, <1>2, <1>3

(* What the search returns is what allocate and coalesce_move_blocks take  *)
(* find_index to be in the model of the heap: the theorems about Heap hold *)
(* with the search that the code does.                                     *)
THEOREM SearchIsFindIndex ==
    SearchSpec => [](step = "done" => found = find_index(wanted))
<1>1. SearchInv => (step = "done" => found = find_index(wanted))
  <2> SUFFICES ASSUME SearchInv, step = "done"
               PROVE  found = find_index(wanted)
    OBVIOUS
  <2>1. IsClass(wanted, found) /\ wanted \in Nat
    BY TableFacts DEF SearchInv, FindsClass, SearchTypeOK
  <2>2. found \in Index
    BY <2>1 DEF IsClass
  <2>3. IsClass(wanted, find_index(wanted))
    BY <2>1, <2>2 DEF find_index
  <2> QED
    BY <2>1, <2>3, ClassUnique
<1> QED
  BY <1>1, SearchSpecInv, PTL
=============================================================================
