---------------------------- MODULE FramesProofs ----------------------------
(***************************************************************************)
(* Theorems about FramesMod, for every memory map, set of domains, quota   *)
(* and request size.  While memory is only handed out (SpecAlloc) the free *)
(* counters are exact, no frame is given out twice, accounts and region    *)
(* lists agree with what clients hold, and memory in use at boot and       *)
(* mapped frames are kept.  Under the whole interface (Spec) quotas hold,  *)
(* and only free takes frames from their owner.                            *)
(***************************************************************************)
EXTENDS FramesMod, FiniteSetTheorems, TLAPS

(* Requests are so small that rounding them up does not wrap around 32     *)
(* bits.  Without this a request wraps to no frames, is granted, and its   *)
(* predecessors lose their counters.                                       *)
RequestsFit == \A k \in Sizes, g \in Granules : k + g <= Space

(* What the counters of one region say about themselves: a counter tells   *)
(* where its run of free frames ends, inside the region and at a frame     *)
(* that is taken, and all counters of a run agree on that.  (CountersExact *)
(* follows from it, but says it one frame at a time, which would need      *)
(* induction wherever a whole run is taken.)                               *)
Runs(fr, len) ==
    /\ fr \in [0 .. len - 1 -> Nat]
    /\ \A i \in 0 .. len - 1 :
          /\ i + fr[i] <= len
          /\ i + fr[i] < len => fr[i + fr[i]] = 0
          /\ \A j \in i .. i + fr[i] - 1 : fr[j] = i + fr[i] - j

-----------------------------------------------------------------------------
(* Arithmetic.                                                             *)

LEMMA ModSmall ==
    ASSUME NEW m \in Nat, NEW x \in Nat, x < m
    PROVE  x % m = x
OBVIOUS

(* Rounding up to a granule: at least the request, less than one granule   *)
(* more (align_to_frame_width).                                            *)
LEMMA CoveringBounds ==
    ASSUME NEW k \in Nat \ {0}, NEW g \in Nat \ {0}
    PROVE  /\ Covering(k, g) \in Nat
           /\ k <= Covering(k, g)
           /\ Covering(k, g) < k + g
BY DEF Covering

LEMMA RoundUpExact ==
    ASSUME RequestsFit, NEW k \in Sizes \ {0}, NEW g \in Granules
    PROVE  /\ RoundUp(k, g) = Covering(k, g)
           /\ RoundUp(k, g) \in Nat \ {0}
           /\ RoundUp(k, g) < Space
<1>1. k \in Nat \ {0} /\ g \in Nat \ {0} /\ k + g <= Space /\ Space \in Nat
  BY ParameterAssumption, WidthAssumption DEF RequestsFit
<1>2. Covering(k, g) \in Nat \ {0} /\ Covering(k, g) < Space
  <2>1. /\ Covering(k, g) \in Nat
        /\ k <= Covering(k, g)
        /\ Covering(k, g) < k + g
    BY <1>1, CoveringBounds
  <2> QED
    BY <1>1, <2>1
<1>3. Covering(k, g) % Space = Covering(k, g)
  BY <1>1, <1>2, ModSmall
<1> QED
  BY <1>2, <1>3 DEF RoundUp

-----------------------------------------------------------------------------
(* Counters.                                                               *)

(* alloc_update_free_predecessors and mark_frames_used keep a region's     *)
(* counters consistent and take exactly the frames they are asked to take, *)
(* provided those frames are one free run.  Taking nothing is harmless     *)
(* only at the first frame of a region.                                    *)
LEMMA TakenRuns ==
    ASSUME NEW len \in Nat, len < Word, NEW fr, Runs(fr, len),
           NEW first \in 0 .. len - 1, NEW n \in Nat, n <= fr[first],
           n = 0 => first = 0
    PROVE  /\ Runs(Taken(fr, first, n), len)
           /\ \A j \in 0 .. len - 1 :
                 Taken(fr, first, n)[j] = 0
                    <=> fr[j] = 0 \/ j \in first .. first + n - 1
<1> DEFINE new    == Taken(fr, first, n)
           Ahead(j) == j < first /\ \A k \in j .. first - 1 : fr[k] # 0
<1>1. fr \in [0 .. len - 1 -> Nat] /\ Word \in Nat
  BY WidthAssumption DEF Runs
<1>2. first + fr[first] <= len /\ first + n <= len
  BY <1>1 DEF Runs
<1>3. \A j \in 0 .. len - 1 :
         Ahead(j) => n # 0 /\ fr[j] - fr[first] = first - j
  <2> SUFFICES ASSUME NEW j \in 0 .. len - 1, Ahead(j)
               PROVE  n # 0 /\ fr[j] - fr[first] = first - j
    OBVIOUS
  <2>1. n # 0 /\ fr[first] # 0
    BY <1>1
  <2>2. fr[j] # 0 /\ j + fr[j] <= len
    BY <1>1 DEF Runs
  <2>3. ~ (j + fr[j] < first)
    <3> SUFFICES ASSUME j + fr[j] < first PROVE FALSE
      OBVIOUS
    <3>1. fr[j + fr[j]] = 0
      BY <1>1, <2>2 DEF Runs
    <3> QED
      BY <1>1, <3>1
  <2>4. j + fr[j] # first
    <3> SUFFICES ASSUME j + fr[j] = first PROVE FALSE
      OBVIOUS
    <3>1. fr[j + fr[j]] = 0
      BY <1>1, <2>2 DEF Runs
    <3> QED
      BY <2>1, <3>1
  <2>5. first \in j .. j + fr[j] - 1
    <3>1. j \in Nat /\ fr[j] \in Nat /\ first \in Nat /\ j < first
      BY <1>1
    <3> QED
      BY <2>3, <2>4, <3>1
  <2>6. fr[first] = j + fr[j] - first
    BY <1>1, <2>5 DEF Runs
  <2> QED
    BY <1>1, <2>1, <2>6
<1>4. \A j \in 0 .. len - 1 :
         new[j] = IF j \in first .. first + n - 1 THEN 0
                  ELSE IF Ahead(j) THEN first - j ELSE fr[j]
  <2> SUFFICES ASSUME NEW j \in 0 .. len - 1
               PROVE  new[j] = IF j \in first .. first + n - 1 THEN 0
                               ELSE IF Ahead(j) THEN first - j ELSE fr[j]
    OBVIOUS
  <2>1. new[j] = IF j \in first .. first + n - 1 THEN 0
                 ELSE IF Ahead(j) THEN (fr[j] - fr[first]) % Word
                 ELSE fr[j]
    BY <1>1 DEF Taken
  <2>2. Ahead(j) => (fr[j] - fr[first]) % Word = first - j
    <3> SUFFICES ASSUME Ahead(j) PROVE (fr[j] - fr[first]) % Word = first - j
      OBVIOUS
    <3>1. fr[j] - fr[first] = first - j
      BY <1>3
    <3>2. first - j \in Nat /\ first - j < Word
      BY <1>1
    <3> HIDE DEF Ahead
    <3> QED
      BY <1>1, <3>1, <3>2, ModSmall
  <2> QED
    BY <2>1, <2>2
<1>5. new \in [0 .. len - 1 -> Nat]
  <2>1. DOMAIN new = 0 .. len - 1 /\ new = [j \in 0 .. len - 1 |-> new[j]]
    BY <1>1 DEF Taken
  <2> QED
    BY SMTT(30), <1>1, <1>4, <2>1
<1> HIDE DEF new
<1>6. ASSUME NEW i \in 0 .. len - 1
      PROVE  /\ i + new[i] <= len
             /\ i + new[i] < len => new[i + new[i]] = 0
             /\ \A j \in i .. i + new[i] - 1 : new[j] = i + new[i] - j
  <2>1. CASE i \in first .. first + n - 1
    BY <1>1, <1>4, <2>1
  <2>2. CASE Ahead(i) /\ i \notin first .. first + n - 1
    <3>1. new[i] = first - i /\ i + new[i] = first
      BY SMTT(30), <1>1, <1>4, <2>2
    <3>2. new[first] = 0
      BY <1>1, <1>3, <1>4, <2>2
    <3>3. \A j \in i .. first - 1 : Ahead(j)
      BY <1>1, <2>2
    <3>4. ASSUME NEW j \in i .. first - 1
          PROVE  new[j] = first - j
      <4>1. j \in 0 .. len - 1 /\ j \notin first .. first + n - 1
        OBVIOUS
      <4>2. Ahead(j)
        BY <3>3
      <4> HIDE DEF Ahead
      <4> QED
        BY <1>4, <4>1, <4>2
    <3>5. new[i + new[i]] = 0
      BY <3>1, <3>2
    <3>6. \A j \in i .. i + new[i] - 1 : new[j] = i + new[i] - j
      BY <3>1, <3>4
    <3>7. i + new[i] <= len
      BY <3>1
    <3> QED
      BY <3>5, <3>6, <3>7
  <2>3. CASE ~ Ahead(i) /\ i \notin first .. first + n - 1
    <3>1. new[i] = fr[i]
      BY <1>4, <2>3
    <3>2. CASE i < first
      <4>1. PICK k \in i .. first - 1 : fr[k] = 0
        BY <2>3, <3>2
      <4>2. i + fr[i] <= k
        <5> SUFFICES ASSUME i + fr[i] > k PROVE FALSE
          BY <1>1
        <5>1. k \in i .. i + fr[i] - 1
          BY <1>1, <4>1
        <5>2. fr[k] = i + fr[i] - k
          BY <1>1, <5>1 DEF Runs
        <5> QED
          BY <1>1, <4>1, <5>1, <5>2
      <4>3. \A j \in i .. k : ~ Ahead(j) /\ new[j] = fr[j]
        BY <1>1, <1>4, <4>1
      <4>4. fr[i + fr[i]] = 0
        BY <1>1, <4>1, <4>2 DEF Runs
      <4>5. new[i + fr[i]] = fr[i + fr[i]]
        BY <1>1, <4>1, <4>2, <4>3
      <4>6. \A j \in i .. i + fr[i] - 1 : new[j] = fr[j]
        BY <1>1, <4>1, <4>2, <4>3
      <4> QED
        BY <1>1, <3>1, <4>1, <4>4, <4>5, <4>6 DEF Runs
    <3>3. CASE i >= first
      <4>1. \A j \in i .. len - 1 : ~ Ahead(j) /\ new[j] = fr[j]
        BY <1>1, <1>2, <1>4, <2>3, <3>3
      <4>2. /\ i + fr[i] <= len
            /\ i + fr[i] < len => fr[i + fr[i]] = 0
            /\ \A j \in i .. i + fr[i] - 1 : fr[j] = i + fr[i] - j
        BY <1>1 DEF Runs
      <4>3. i + fr[i] < len => new[i + fr[i]] = fr[i + fr[i]]
        BY <1>1, <4>1, <4>2
      <4>4. \A j \in i .. i + fr[i] - 1 : new[j] = fr[j]
        BY SMTT(30), <1>1, <4>1, <4>2
      <4> QED
        BY <1>1, <3>1, <4>2, <4>3, <4>4
    <3> QED
      BY <1>1, <3>2, <3>3
  <2> QED
    BY <2>1, <2>2, <2>3
<1>7. Runs(new, len)
  BY <1>5, <1>6 DEF Runs
<1>8. \A j \in 0 .. len - 1 :
         new[j] = 0 <=> fr[j] = 0 \/ j \in first .. first + n - 1
  BY <1>1, <1>3, <1>4
<1> QED
  BY <1>7, <1>8 DEF new

-----------------------------------------------------------------------------
(* The inductive invariant.                                                *)

RegionRuns == \A r \in Region : Runs(free[r], Mmap[r].len)

TakenAreHeld ==
    \A r \in RamRegion : \A i \in 0 .. Mmap[r].len - 1 :
        free[r][i] = 0 <=> Granted(Mmap[r].start + i)

Booting ==
    status = "boot" => /\ todo \in DOMAIN Mmap
                       /\ \A d \in Domains : held[d] = {}

(* The part of the invariant that is about frames, apart from types.       *)
FramesInv == RegionRuns /\ TakenAreHeld /\ GrantsExclusive

Inv == TypeOK /\ FramesInv /\ Booting

LEMMA RegionFacts ==
    /\ RamRegion \subseteq Region
    /\ Region \subseteq DOMAIN Mmap
    /\ DOMAIN Mmap \subseteq Nat \ {0}
    /\ \A m \in DOMAIN Mmap : /\ Mmap[m].start \in Nat
                              /\ Mmap[m].len \in Nat \ {0}
                              /\ Mmap[m].len < Word
<1>1. Mmap \in Seq([start : Nat, len : Nat \ {0}, type : EntryTypes])
  BY MmapAssumption
<1>3. DOMAIN Mmap = 1 .. Len(Mmap) /\ Len(Mmap) \in Nat
  BY <1>1
<1>2. \A m \in DOMAIN Mmap : Mmap[m].start \in Nat /\ Mmap[m].len \in Nat \ {0}
  <2> DEFINE R == [start : Nat, len : Nat \ {0}, type : EntryTypes]
  <2>1. Mmap \in Seq(R)
    BY <1>1
  <2>2. \A e \in R : e.start \in Nat /\ e.len \in Nat \ {0}
    OBVIOUS
  <2> HIDE DEF R
  <2>3. \A m \in DOMAIN Mmap : Mmap[m] \in R
    BY <2>1, <1>3
  <2> QED
    BY <2>2, <2>3
<1>4. \A m \in DOMAIN Mmap : Mmap[m].len < Word
  BY <1>2, WidthAssumption
<1>5. RamRegion \subseteq Region
  BY DEF RamRegion, Region, RamTypes
<1> QED
  BY <1>2, <1>3, <1>4, <1>5 DEF Region

(* Handing out the first n frames of a free run to client c, as allocate,  *)
(* create_client and create do, keeps the counters exact and the grants    *)
(* exclusive.  Outside of RAM only the boot code does so, before any       *)
(* domain holds a frame.                                                   *)
LEMMA TakeKeepsFrames ==
    ASSUME TypeOK, FramesInv,
           NEW c \in Clients, NEW r \in Region,
           NEW first \in 0 .. Mmap[r].len - 1,
           NEW n \in Nat, n <= free[r][first], n = 0 => first = 0,
           r \in RamRegion \/ /\ Span(r) \cap RamFrame = {}
                              /\ c = System
                              /\ \A d \in Domains : held[d] = {},
           Take(c, r, first, n),
           held' = [held EXCEPT ![c] =
                      @ \cup (Mmap[r].start + first ..
                              Mmap[r].start + first + n - 1)]
    PROVE  /\ FramesInv'
           /\ DOMAIN free' = Region
           /\ ramtab' \in [RamFrame -> [owner : Clients \cup {None},
                                        state : {Unused, Mapped}]]
           /\ held' \in [Clients -> SUBSET Nat]
<1> DEFINE base  == Mmap[r].start
           range == base + first .. base + first + n - 1
<1>1. /\ base \in Nat /\ Mmap[r].len \in Nat /\ Mmap[r].len < Word
      /\ Runs(free[r], Mmap[r].len)
      /\ DOMAIN free = Region
  BY RegionFacts DEF FramesInv, RegionRuns, TypeOK
<1>2. /\ free' = [free EXCEPT ![r] = Taken(free[r], first, n)]
      /\ ramtab' = Owned(c, r, first, n)
  BY DEF Take
<1>3. /\ Runs(free'[r], Mmap[r].len)
      /\ \A j \in 0 .. Mmap[r].len - 1 :
            free'[r][j] = 0 <=> free[r][j] = 0 \/ j \in first .. first + n - 1
  <2>1. free'[r] = Taken(free[r], first, n)
    BY <1>1, <1>2
  <2> QED
    BY <1>1, <2>1, TakenRuns
<1>4. \A q \in Region \ {r} : free'[q] = free[q]
  BY <1>1, <1>2
<1>5. RegionRuns'
  BY <1>3, <1>4 DEF FramesInv, RegionRuns
<1>6. first + n <= Mmap[r].len /\ range \subseteq Span(r)
  <2>1. first + free[r][first] <= Mmap[r].len /\ free[r][first] \in Nat
    BY <1>1 DEF Runs
  <2>2. first + n <= Mmap[r].len
    BY <1>1, <2>1
  <2> QED
    BY <1>1, <2>2 DEF Span
<1>7. /\ \A d \in Clients \ {c} : held'[d] = held[d]
      /\ held'[c] = held[c] \cup range
      /\ held' \in [Clients -> SUBSET Nat]
  <2>1. held \in [Clients -> SUBSET Nat]
    BY DEF TypeOK
  <2>2. range \subseteq Nat
    BY <1>1
  <2>3. held' = [held EXCEPT ![c] = held[c] \cup range]
    OBVIOUS
  <2> HIDE DEF range
  <2> QED
    BY <2>1, <2>2, <2>3
<1>8. \A f : Granted(f)' <=> Granted(f) \/ f \in range
  BY <1>7 DEF Granted
<1>9. r \in RamRegion => \A f \in range : ~ Granted(f)
  <2> SUFFICES ASSUME r \in RamRegion, NEW f \in range PROVE ~ Granted(f)
    OBVIOUS
  <2> DEFINE j == f - base
  <2>0. free[r][first] \in Nat
    BY <1>1 DEF Runs
  <2>1. /\ j \in 0 .. Mmap[r].len - 1 /\ base + j = f
        /\ j \in first .. first + free[r][first] - 1
    BY <1>1, <1>6, <2>0
  <2>2. free[r][j] = first + free[r][first] - j
    BY <1>1, <2>1 DEF Runs
  <2>3. free[r][j] # 0
    BY <2>0, <2>1, <2>2
  <2> QED
    BY <2>1, <2>3 DEF FramesInv, TakenAreHeld
<1>10. TakenAreHeld'
  <2> SUFFICES ASSUME NEW q \in RamRegion, NEW i \in 0 .. Mmap[q].len - 1
               PROVE  free'[q][i] = 0 <=> Granted(Mmap[q].start + i)'
    BY DEF TakenAreHeld
  <2>1. free[q][i] = 0 <=> Granted(Mmap[q].start + i)
    BY DEF FramesInv, TakenAreHeld
  <2>2. CASE q = r
    <3>1. i \in first .. first + n - 1 <=> base + i \in range
      BY <1>1
    <3> QED
      BY <1>3, <1>8, <2>1, <2>2, <3>1
  <2>3. CASE q # r
    <3>1. Mmap[q].start + i \notin range
      <4>1. Mmap[q].start + i \in Span(q)
        BY RegionFacts DEF Span
      <4>2. Span(q) \cap Span(r) = {}
        BY <2>3, MmapAssumption DEF RamFrame
      <4> QED
        BY <1>6, <4>1, <4>2
    <3>2. free'[q] = free[q]
      BY <1>4, <2>3, RegionFacts
    <3> QED
      BY <1>8, <2>1, <3>1, <3>2
  <2> QED
    BY <2>2, <2>3
<1>11. /\ \A f \in RamFrame : f \in range => ramtab'[f].owner = c
       /\ \A f \in RamFrame : f \notin range => ramtab'[f] = ramtab[f]
       /\ ramtab' \in [RamFrame -> [owner : Clients \cup {None},
                                    state : {Unused, Mapped}]]
  <2>1. CASE r \in RamRegion
    BY <1>2, <2>1 DEF Owned, TypeOK
  <2>2. CASE r \notin RamRegion
    <3>1. \A f \in RamFrame : f \notin range
      BY <1>6, <2>2
    <3>2. ramtab' = [f \in RamFrame |-> ramtab[f]]
      BY <1>2, <2>2 DEF Owned
    <3> QED
      BY <3>1, <3>2 DEF TypeOK
  <2> QED
    BY <2>1, <2>2
<1>12. \A d \in Clients \ {c} : held[d] \cap range = {}
  <2>1. CASE r \in RamRegion
    BY <1>9, <2>1 DEF Granted
  <2>2. CASE r \notin RamRegion
    BY <2>2 DEF Clients
  <2> QED
    BY <2>1, <2>2
<1>13. GrantsExclusive'
  <2>1. \A d, e \in Clients : d # e => held[d] \cap held[e] = {}
    BY DEF FramesInv, GrantsExclusive
  <2>2. \A d, e \in Clients : d # e => held'[d] \cap held'[e] = {}
    BY <1>7, <1>12, <2>1
  <2>3. \A d \in Clients : \A f \in held[d] \cap RamFrame : ramtab[f].owner = d
    BY DEF FramesInv, GrantsExclusive
  <2>4. \A d \in Clients : \A f \in held'[d] \cap RamFrame :
           ramtab'[f].owner = d
    <3> SUFFICES ASSUME NEW d \in Clients, NEW f \in held'[d] \cap RamFrame
                 PROVE  ramtab'[f].owner = d
      OBVIOUS
    <3>1. CASE f \in range
      <4>1. d = c
        BY <1>7, <1>12, <3>1
      <4> QED
        BY <1>11, <3>1, <4>1
    <3>2. CASE f \notin range
      <4>1. f \in held[d] /\ ramtab'[f] = ramtab[f]
        BY <1>7, <1>11, <3>2
      <4> QED
        BY <2>3, <4>1
    <3> QED
      BY <3>1, <3>2
  <2> QED
    BY <2>2, <2>4 DEF GrantsExclusive
<1> QED
  BY <1>1, <1>2, <1>5, <1>7, <1>10, <1>11, <1>13 DEF FramesInv

-----------------------------------------------------------------------------
(* Initial states.                                                         *)

LEMMA InitInv == Init => Inv
<1> SUFFICES ASSUME Init PROVE Inv
  OBVIOUS
<1>1. \A r \in Region : /\ Mmap[r].len \in Nat \ {0} /\ Mmap[r].start \in Nat
                        /\ free[r] = [i \in 0 .. Mmap[r].len - 1 |->
                                         Mmap[r].len - i]
  BY RegionFacts DEF Init
<1>2. RegionRuns
  <2> SUFFICES ASSUME NEW r \in Region PROVE Runs(free[r], Mmap[r].len)
    BY DEF RegionRuns
  <2> DEFINE len == Mmap[r].len
  <2>1. len \in Nat /\ free[r] = [i \in 0 .. len - 1 |-> len - i]
    BY <1>1
  <2> HIDE DEF len
  <2>2. \A i \in 0 .. len - 1 : free[r][i] = len - i /\ len - i \in Nat
    BY <2>1
  <2>3. free[r] \in [0 .. len - 1 -> Nat]
    BY <2>1
  <2>4. Runs(free[r], len)
    BY <2>1, <2>2, <2>3 DEF Runs
  <2> QED
    BY <2>4 DEF len
<1>3. \A c \in Clients : held[c] = {}
  BY DEF Init
<1>4. TakenAreHeld
  <2>1. \A f : ~ Granted(f)
    BY <1>3 DEF Granted
  <2>2. ASSUME NEW r \in RamRegion, NEW i \in 0 .. Mmap[r].len - 1
        PROVE  free[r][i] # 0
    <3>1. r \in Region
      BY RegionFacts
    <3>2. free[r][i] = Mmap[r].len - i /\ Mmap[r].len \in Nat
      BY <1>1, <3>1
    <3> QED
      BY <3>2
  <2> QED
    BY <2>1, <2>2 DEF TakenAreHeld
<1>5. GrantsExclusive
  BY <1>3 DEF GrantsExclusive
<1>6. TypeOK
  <2>1. DOMAIN free = Region /\ \A r \in Region :
           free[r] \in [0 .. Mmap[r].len - 1 -> Nat]
    BY <1>2 DEF Init, RegionRuns, Runs
  <2>2. ramtab \in [RamFrame -> [owner : Clients \cup {None},
                                 state : {Unused, Mapped}]]
    BY DEF Init, Clients
  <2>3. client \in [Clients -> ClientRecord]
    <3>1. Word - 1 \in Nat
      BY WidthAssumption
    <3>2. NoClient \in ClientRecord
      <4>1. << >> \in Seq(ListRange)
        OBVIOUS
      <4> QED
        BY <4>1 DEF NoClient, ClientRecord
    <3>3. [NoClient EXCEPT !.live = TRUE, !.guaranteed = Word - 1,
                           !.extra = Word - 1] \in ClientRecord
      BY <3>1, <3>2 DEF ClientRecord
    <3> QED
      BY <3>2, <3>3 DEF Init
  <2> QED
    BY <2>1, <2>2, <2>3 DEF Init, TypeOK
<1>7. Booting
  <2>1. 1 \in DOMAIN Mmap
    BY MmapAssumption
  <2> QED
    BY <1>3, <2>1 DEF Booting, Init, Clients
<1> QED
  BY <1>2, <1>4, <1>5, <1>6, <1>7 DEF Inv, FramesInv

-----------------------------------------------------------------------------
(* Steps that leave the counters and the grants alone.                     *)

LEMMA StopKeepsInv ==
    ASSUME Inv, NEW why \in Stops, Stop(why)
    PROVE  Inv'
<1>1. UNCHANGED <<free, ramtab, client, heap, sysList, todo, held>>
      /\ status' \in Stops /\ status' # "boot"
  BY DEF Stop, Stops
<1>2. TypeOK'
  BY <1>1 DEF Inv, TypeOK
<1>3. FramesInv'
  BY <1>1 DEF Inv, FramesInv, RegionRuns, TakenAreHeld, GrantsExclusive, Granted
<1> QED
  BY <1>1, <1>2, <1>3 DEF Inv, Booting

LEMMA StutterKeepsInv == Inv /\ UNCHANGED vars => Inv'
BY DEF vars, Inv, TypeOK, FramesInv, RegionRuns, TakenAreHeld,
       GrantsExclusive, Granted, Booting

LEMMA finish_initKeepsInv ==
    ASSUME Inv, finish_init
    PROVE  Inv'
<1>1. CASE Stop("misuse")
  BY <1>1, StopKeepsInv DEF Stops
<1>2. CASE /\ heap' = TRUE
           /\ UNCHANGED <<free, ramtab, client, sysList, todo, status, held>>
  <2>1. TypeOK'
    BY <1>2 DEF Inv, TypeOK
  <2>2. FramesInv'
    BY <1>2 DEF Inv, FramesInv, RegionRuns, TakenAreHeld, GrantsExclusive,
                Granted
  <2> QED
    BY <1>2, <2>1, <2>2 DEF Inv, Booting
<1> QED
  BY <1>1, <1>2 DEF finish_init

LEMMA map_frameKeepsInv ==
    ASSUME Inv, NEW f \in Mappable, map_frame(f)
    PROVE  Inv'
<1>1. CASE Stop("misuse")
  BY <1>1, StopKeepsInv DEF Stops
<1>2. CASE /\ ramtab' = [ramtab EXCEPT ![f].state = Mapped]
           /\ UNCHANGED <<free, client, heap, sysList, todo, status, held>>
  <2>1. f \in RamFrame /\ ramtab \in [RamFrame ->
            [owner : Clients \cup {None}, state : {Unused, Mapped}]]
    BY ParameterAssumption DEF Inv, TypeOK
  <2>2. /\ ramtab' \in [RamFrame -> [owner : Clients \cup {None},
                                     state : {Unused, Mapped}]]
        /\ \A p \in RamFrame : ramtab'[p].owner = ramtab[p].owner
    BY <1>2, <2>1
  <2>3. TypeOK'
    BY <1>2, <2>2 DEF Inv, TypeOK
  <2>4. FramesInv'
    BY <1>2, <2>2 DEF Inv, FramesInv, RegionRuns, TakenAreHeld,
                      GrantsExclusive, Granted
  <2> QED
    BY <1>2, <2>3, <2>4 DEF Inv, Booting
<1> QED
  BY <1>1, <1>2 DEF map_frame

-----------------------------------------------------------------------------
(* Steps that hand out frames.                                             *)

LEMMA add_rangeTyped ==
    ASSUME NEW list \in Seq(ListRange), NEW head \in Nat, NEW start \in Nat,
           NEW n \in Nat, NEW g \in Nat
    PROVE  add_range(list, head, start, n, g) \in Seq(ListRange)
<1>1. CASE n = 0
  BY <1>1 DEF add_range
<1>2. CASE n # 0 /\ MergesRight(list, head, start, n)
  <2>1. 1 \in DOMAIN list /\ list[1] \in ListRange
    BY <1>2 DEF MergesRight
  <2> DEFINE e == [start |-> start, n |-> list[1].n + n,
                   granule |-> list[1].granule]
  <2>2. e \in ListRange
    BY <2>1 DEF ListRange
  <2>3. \A x \in ListRange : [list EXCEPT ![1] = x] \in Seq(ListRange)
    <3> HIDE DEF ListRange
    <3> QED
      BY <2>1
  <2>4. add_range(list, head, start, n, g) = [list EXCEPT ![1] = e]
    BY <1>2 DEF add_range
  <2> QED
    BY <2>2, <2>3, <2>4
<1>3. CASE n # 0 /\ ~ MergesRight(list, head, start, n)
  <2>1. [start |-> start, n |-> n, granule |-> g] \in ListRange
    BY DEF ListRange
  <2>2. \A e \in ListRange : <<e>> \o list \in Seq(ListRange)
    <3> HIDE DEF ListRange
    <3> QED
      OBVIOUS
  <2> QED
    BY <1>3, <2>1, <2>2 DEF add_range
<1> QED
  BY <1>1, <1>2, <1>3

(* alloc_any returns a run of RAM that is long enough; asked for nothing   *)
(* at the smallest width it returns the first frame of a region.           *)
LEMMA alloc_anyFits ==
    ASSUME Inv, NEW n \in Nat, NEW g \in Nat \ {0}, NEW r, NEW i,
           alloc_any(n, g, r, i)
    PROVE  /\ r \in RamRegion
           /\ i \in 0 .. Mmap[r].len - 1
           /\ n <= free[r][i]
           /\ n = 0 /\ g = 1 => i = 0
<1>1. <<r, i>> \in Fits(n, g)
  BY DEF alloc_any
<1>2. /\ r \in RamRegion
      /\ i \in 0 .. Mmap[r].len - 1
      /\ free[r][i] >= n
  BY <1>1 DEF Fits
<1>3. Mmap[r].len \in Nat \ {0} /\ Mmap[r].start \in Nat
      /\ free[r] \in [0 .. Mmap[r].len - 1 -> Nat]
  BY <1>2, RegionFacts DEF Inv, TypeOK
<1>4. ASSUME n = 0, g = 1 PROVE i = 0
  <2>1. 0 \in 0 .. Mmap[r].len - 1 /\ free[r][0] >= 0
        /\ (Mmap[r].start + 0) % 1 = 0
    BY <1>3
  <2>2. <<r, 0>> \in Fits(0, 1)
    BY <1>2, <2>1 DEF Fits
  <2>3. Before(<<r, i>>, <<r, 0>>)
    BY <1>4, <2>2 DEF alloc_any
  <2>4. r \in Nat
    BY <1>2, RegionFacts
  <2> QED
    BY <1>2, <1>3, <2>3, <2>4 DEF Before
<1> QED
  BY <1>2, <1>3, <1>4

LEMMA allocateKeepsInv ==
    ASSUME RequestsFit, Inv,
           NEW c \in Clients, NEW k \in Sizes, NEW g \in Granules,
           allocate(c, k, g)
    PROVE  Inv'
<1> DEFINE n == RoundUp(k, g)
<1>1. CASE UNCHANGED vars
  BY <1>1, StutterKeepsInv
<1>2. ASSUME k # 0, status = "up",
             NEW r \in RamRegion, NEW i \in 0 .. Mmap[r].len - 1,
             alloc_any(n, g, r, i), Grant(c, r, i, n, n, Covering(k, g), g)
      PROVE  Inv'
  <2> DEFINE start == Mmap[r].start + i
  <2>1. /\ n = Covering(k, g) /\ n \in Nat \ {0}
        /\ g \in Nat \ {0}
    BY <1>2, RoundUpExact, ParameterAssumption
  <2> HIDE DEF n
  <2>2. CASE \E why \in Stops : Stop(why)
    BY <2>2, StopKeepsInv
  <2>3. CASE /\ Take(c, r, i, n)
             /\ client' = [client EXCEPT
                   ![c].alloc = (@ + n) % Word,
                   ![c].list = IF Recording(c, n)
                               THEN add_range(@, client[c].head, start, n, g)
                               ELSE @]
             /\ held' = [held EXCEPT ![c] = @ \cup (start .. start + n - 1)]
             /\ UNCHANGED <<heap, sysList, todo, status>>
    <3>1. r \in Region /\ Mmap[r].start \in Nat /\ n <= free[r][i]
          /\ start \in Nat /\ Mmap[r].len \in Nat
      BY <1>2, <2>1, alloc_anyFits, RegionFacts
    <3>2. /\ FramesInv'
          /\ DOMAIN free' = Region
          /\ ramtab' \in [RamFrame -> [owner : Clients \cup {None},
                                       state : {Unused, Mapped}]]
          /\ held' \in [Clients -> SUBSET Nat]
      BY <2>1, <2>3, <3>1, TakeKeepsFrames DEF Inv
    <3>3. client' \in [Clients -> ClientRecord]
      <4>1. client \in [Clients -> ClientRecord]
        BY DEF Inv, TypeOK
      <4>2. /\ client[c].alloc \in Nat /\ client[c].list \in Seq(ListRange)
            /\ client[c].head \in Nat
        BY <4>1 DEF ClientRecord
      <4>3. (client[c].alloc + n) % Word \in Nat
        BY <2>1, <4>2, WidthAssumption
      <4>4. add_range(client[c].list, client[c].head, start, n, g) \in Seq(ListRange)
        BY <2>1, <3>1, <4>2, add_rangeTyped
      <4>5. ASSUME NEW a \in Nat, NEW l \in Seq(ListRange)
            PROVE  [client EXCEPT ![c].alloc = a, ![c].list = l]
                       \in [Clients -> ClientRecord]
        BY <4>1 DEF ClientRecord
      <4> DEFINE a == (client[c].alloc + n) % Word
                 l == IF Recording(c, n)
                      THEN add_range(client[c].list, client[c].head, start, n, g)
                      ELSE client[c].list
      <4>6. client' = [client EXCEPT ![c].alloc = a, ![c].list = l]
        BY <2>3, <4>1 DEF ClientRecord
      <4>7. a \in Nat /\ l \in Seq(ListRange)
        BY <4>2, <4>3, <4>4
      <4> HIDE DEF a, l
      <4> QED
        BY <4>5, <4>6, <4>7
    <3>4. TypeOK'
      BY <2>3, <3>2, <3>3 DEF Inv, TypeOK, FramesInv, RegionRuns, Runs
    <3>5. Booting'
      BY <1>2, <2>3 DEF Booting
    <3> QED
      BY <3>2, <3>4, <3>5 DEF Inv
  <2> QED
    BY <1>2, <2>1, <2>2, <2>3 DEF Grant, Stops
<1> QED
  BY <1>1, <1>2 DEF allocate

LEMMA create_clientKeepsInv ==
    ASSUME Inv, NEW c \in Domains, NEW granted \in Quotas, NEW extra \in Quotas,
           NEW init \in Quotas, create_client(c, granted, extra, init)
    PROVE  Inv'
<1> DEFINE n == Least(init, granted)
<1>0. /\ n \in Nat /\ granted \in Nat /\ extra \in Nat
      /\ c \in Clients /\ System \in Clients /\ c # System
  BY ParameterAssumption, WidthAssumption DEF Least, Clients
<1> HIDE DEF n
<1>1. CASE UNCHANGED vars
  BY <1>1, StutterKeepsInv
<1>2. CASE \E why \in Stops : Stop(why)
  BY <1>2, StopKeepsInv
<1>3. ASSUME status = "up", NEW r \in RamRegion,
             NEW i \in 0 .. Mmap[r].len - 1, NEW head \in HeadStarts,
             alloc_any(n, 1, r, i), Take(c, r, i, n),
             client' = [client EXCEPT
               ![c] = [live |-> TRUE, alloc |-> n, guaranteed |-> granted,
                       extra |-> IF extra < granted THEN granted ELSE extra,
                       list |-> add_range(<<>>, head, Mmap[r].start + i, n, 1),
                       head |-> head],
               ![System].alloc = (@ + n) % Word],
             held' = [held EXCEPT ![c] =
                        @ \cup (Mmap[r].start + i .. Mmap[r].start + i + n - 1)],
             UNCHANGED <<heap, sysList, todo, status>>
      PROVE  Inv'
  <2>1. r \in Region /\ Mmap[r].start + i \in Nat /\ n <= free[r][i]
        /\ (n = 0 => i = 0) /\ head \in Nat
    <3>1. r \in Region /\ Mmap[r].start \in Nat /\ Mmap[r].len \in Nat
      BY <1>3, RegionFacts
    <3>2. n <= free[r][i] /\ (n = 0 => i = 0)
      <4>1. PICK g \in Nat \ {0} : g = 1
        OBVIOUS
      <4>2. alloc_any(n, g, r, i)
        BY <1>3, <4>1
      <4>3. n <= free[r][i] /\ (n = 0 /\ g = 1 => i = 0)
        BY <1>0, <4>2, alloc_anyFits
      <4> QED
        BY <4>1, <4>3
    <3>3. head \in Nat
      BY <1>3, ParameterAssumption
    <3> QED
      BY <3>1, <3>2, <3>3
  <2>2. /\ FramesInv'
        /\ DOMAIN free' = Region
        /\ ramtab' \in [RamFrame -> [owner : Clients \cup {None},
                                     state : {Unused, Mapped}]]
        /\ held' \in [Clients -> SUBSET Nat]
    BY <1>0, <1>3, <2>1, TakeKeepsFrames DEF Inv
  <2>3. client' \in [Clients -> ClientRecord]
    <3> DEFINE rec == [live |-> TRUE, alloc |-> n, guaranteed |-> granted,
                       extra |-> IF extra < granted THEN granted ELSE extra,
                       list |-> add_range(<<>>, head, Mmap[r].start + i, n, 1),
                       head |-> head]
               sys == [client[System] EXCEPT !.alloc = (@ + n) % Word]
    <3>1. client \in [Clients -> ClientRecord]
      BY DEF Inv, TypeOK
    <3>2. rec \in ClientRecord
      <4>1. << >> \in Seq(ListRange)
        OBVIOUS
      <4>2. add_range(<< >>, head, Mmap[r].start + i, n, 1) \in Seq(ListRange)
        BY <1>0, <2>1, <4>1, add_rangeTyped
      <4> QED
        BY <1>0, <2>1, <4>2 DEF ClientRecord
    <3>3. sys \in ClientRecord
      <4>1. client[System] \in ClientRecord
        BY <1>0, <3>1
      <4>2. (client[System].alloc + n) % Word \in Nat
        BY SMTT(30), <1>0, <4>1, WidthAssumption DEF ClientRecord
      <4> QED
        BY <4>1, <4>2 DEF ClientRecord
    <3>4. client' = [[client EXCEPT ![c] = rec] EXCEPT ![System] = sys]
      BY <1>0, <1>3, <3>1
    <3> HIDE DEF rec, sys
    <3> QED
      BY <1>0, <3>1, <3>2, <3>3, <3>4
  <2>4. TypeOK'
    BY <1>3, <2>2, <2>3 DEF Inv, TypeOK, FramesInv, RegionRuns, Runs
  <2>5. Booting'
    BY <1>3 DEF Booting
  <2> QED
    BY <2>2, <2>4, <2>5 DEF Inv
<1> QED
  BY <1>1, <1>2, <1>3 DEF create_client, Stops, n

LEMMA createKeepsInv ==
    ASSUME Inv, create
    PROVE  Inv'
<1>0. /\ status = "boot" /\ todo \in DOMAIN Mmap
      /\ \A d \in Domains : held[d] = {}
      /\ System \in Clients
  BY DEF create, Inv, Booting, Clients
<1>1. CASE Stop("misuse")
  BY <1>1, StopKeepsInv DEF Stops
<1> DEFINE Advance == /\ todo' = todo + 1
                      /\ status' = IF todo = Len(Mmap) THEN "up" ELSE "boot"
                      /\ UNCHANGED <<heap, sysList>>
<1>2. ASSUME Advance
      PROVE  /\ todo' \in Nat /\ status' \in {"boot", "up"}
             /\ heap' = heap /\ sysList' = sysList
             /\ status' = "boot" => todo' \in DOMAIN Mmap
  <2>1. DOMAIN Mmap = 1 .. Len(Mmap) /\ Len(Mmap) \in Nat
    BY MmapAssumption
  <2> QED
    BY <1>0, <1>2, <2>1
<1>3. CASE Advance /\ UNCHANGED <<free, ramtab, client, held>>
  <2>1. TypeOK'
    BY <1>2, <1>3 DEF Inv, TypeOK
  <2>2. FramesInv'
    BY <1>3 DEF Inv, FramesInv, RegionRuns, TakenAreHeld, GrantsExclusive,
                Granted
  <2> QED
    BY <1>0, <1>2, <1>3, <2>1, <2>2 DEF Inv, Booting
<1>4. ASSUME Advance, NEW r \in Region, get_region(Mmap[todo].start, r),
             MarkUsed(todo, r)
      PROVE  Inv'
  <2> DEFINE first == Mmap[todo].start - Mmap[r].start
             n     == Markable(todo, r)
  <2>1. /\ n # 0
        /\ Take(System, r, first, n)
        /\ client' = [client EXCEPT ![System].alloc = (@ + n) % Word]
        /\ held' = [held EXCEPT ![System] =
                       @ \cup (Mmap[todo].start .. Mmap[todo].start + n - 1)]
    BY <1>4 DEF MarkUsed
  <2>2. /\ Mmap[r].start \in Nat /\ Mmap[r].len \in Nat
        /\ Mmap[todo].start \in Nat /\ Mmap[todo].len \in Nat
    BY <1>0, RegionFacts
  <2>3. first \in 0 .. Mmap[r].len - 1 /\ Mmap[todo].start \in Span(r)
    BY <1>4, <2>2 DEF get_region, Span
  <2>4. free[r][first] \in Nat
    BY <2>3 DEF Inv, TypeOK
  <2>5. n \in Nat /\ n <= free[r][first]
    BY <2>2, <2>4 DEF Markable, Least
  <2>6. r \in RamRegion \/ Span(r) \cap RamFrame = {}
    <3> SUFFICES ASSUME r \notin RamRegion, NEW q \in RamRegion,
                        Span(r) \cap Span(q) # {}
                 PROVE  FALSE
      BY DEF RamFrame
    <3>1. q < r /\ Span(r) \subseteq Span(q)
      BY <1>4, MmapAssumption
    <3>2. r <= q
      BY <1>4, <2>3, <3>1, RegionFacts DEF get_region
    <3> QED
      BY <1>4, <3>1, <3>2, RegionFacts
  <2>7. held' = [held EXCEPT ![System] =
                   @ \cup (Mmap[r].start + first .. Mmap[r].start + first + n - 1)]
    <3>1. Mmap[todo].start = Mmap[r].start + first
      BY <2>2
    <3> HIDE DEF first, n
    <3> QED
      BY <2>1, <3>1
  <2> HIDE DEF first, n
  <2>8. /\ FramesInv'
        /\ DOMAIN free' = Region
        /\ ramtab' \in [RamFrame -> [owner : Clients \cup {None},
                                     state : {Unused, Mapped}]]
        /\ held' \in [Clients -> SUBSET Nat]
    BY <1>0, <1>4, <2>1, <2>3, <2>5, <2>6, <2>7, TakeKeepsFrames DEF Inv
  <2>9. client' \in [Clients -> ClientRecord]
    <3>1. client \in [Clients -> ClientRecord]
      BY DEF Inv, TypeOK
    <3>2. (client[System].alloc + n) % Word \in Nat
      BY <1>0, <2>5, <3>1, WidthAssumption DEF ClientRecord
    <3> QED
      BY <1>0, <2>1, <3>1, <3>2 DEF ClientRecord
  <2>10. TypeOK'
    BY <1>2, <1>4, <2>8, <2>9 DEF Inv, TypeOK, FramesInv, RegionRuns, Runs
  <2>11. Booting'
    <3>1. \A d \in Domains : held'[d] = held[d]
      BY <2>7, ParameterAssumption DEF Inv, TypeOK, Clients
    <3> QED
      BY <1>0, <1>2, <1>4, <3>1 DEF Booting
  <2> QED
    BY <2>8, <2>10, <2>11 DEF Inv
<1> QED
  BY <1>1, <1>3, <1>4 DEF create

-----------------------------------------------------------------------------
(* Theorems.                                                               *)

(* The counters' closed form implies the frame-by-frame one.               *)
LEMMA InvCountersExact == Inv => CountersExact
<1> SUFFICES ASSUME Inv, NEW r \in RamRegion, NEW i \in 0 .. Mmap[r].len - 1
             PROVE  free[r][i] = IF Granted(Mmap[r].start + i) THEN 0
                                 ELSE IF i + 1 = Mmap[r].len THEN 1
                                 ELSE 1 + free[r][i + 1]
  BY DEF CountersExact
<1> DEFINE len == Mmap[r].len
           fr  == free[r]
<1>1. len \in Nat /\ Runs(fr, len) /\ i \in 0 .. len - 1
  BY RegionFacts DEF Inv, FramesInv, RegionRuns
<1>2. fr[i] = 0 <=> Granted(Mmap[r].start + i)
  BY DEF Inv, FramesInv, TakenAreHeld
<1> HIDE DEF len, fr
<1>3. ASSUME fr[i] # 0, i + 1 = len PROVE fr[i] = 1
  BY <1>1, <1>3 DEF Runs
<1>4. ASSUME fr[i] # 0, i + 1 # len PROVE fr[i] = 1 + fr[i + 1]
  <2>1. fr[i] \in Nat /\ fr[i + 1] \in Nat /\ i + fr[i] <= len
    BY <1>1, <1>4 DEF Runs
  <2>2. CASE fr[i] = 1
    <3>1. i + fr[i] < len
      BY <1>1, <1>4, <2>1, <2>2
    <3>2. fr[i + fr[i]] = 0
      BY <1>1, <3>1 DEF Runs
    <3> QED
      BY <2>2, <3>2
  <2>3. CASE fr[i] # 1
    <3>1. i + 1 \in i .. i + fr[i] - 1
      BY <1>1, <1>4, <2>1, <2>3
    <3>2. fr[i + 1] = i + fr[i] - (i + 1)
      BY <1>1, <3>1 DEF Runs
    <3> QED
      BY <1>1, <2>1, <3>2
  <2> QED
    BY <2>2, <2>3
<1>5. fr[i] = IF Granted(Mmap[r].start + i) THEN 0
              ELSE IF i + 1 = len THEN 1 ELSE 1 + fr[i + 1]
  BY <1>2, <1>3, <1>4
<1> QED
  BY <1>5 DEF len, fr

LEMMA NextAllocKeepsInv == RequestsFit /\ Inv /\ [NextAlloc]_vars => Inv'
<1> SUFFICES ASSUME RequestsFit, Inv, [NextAlloc]_vars PROVE Inv'
  OBVIOUS
<1>1. CASE UNCHANGED vars
  BY <1>1, StutterKeepsInv
<1>2. CASE create
  BY <1>2, createKeepsInv
<1>3. CASE finish_init
  BY <1>3, finish_initKeepsInv
<1>4. CASE \E c \in Domains, q, x, i \in Quotas : create_client(c, q, x, i)
  BY <1>4, create_clientKeepsInv
<1>5. CASE \E c \in Clients, k \in Sizes, g \in Granules : allocate(c, k, g)
  BY <1>5, allocateKeepsInv
<1>6. CASE \E f \in Mappable : map_frame(f)
  BY <1>6, map_frameKeepsInv
<1>7. CASE Halted
  BY <1>7, StutterKeepsInv DEF Halted
<1> QED
  BY <1>1, <1>2, <1>3, <1>4, <1>5, <1>6, <1>7 DEF NextAlloc

LEMMA SpecAllocInv == ASSUME RequestsFit PROVE SpecAlloc => []Inv
<1>1. Inv /\ [NextAlloc]_vars => Inv'
  BY NextAllocKeepsInv
<1> QED
  BY <1>1, InitInv, PTL DEF SpecAlloc

(* Every reachable state of the allocator is well typed.                   *)
THEOREM AllocTypeOK == ASSUME RequestsFit PROVE SpecAlloc => []TypeOK
<1>1. Inv => TypeOK
  BY DEF Inv
<1> QED
  BY <1>1, SpecAllocInv, PTL

(* While memory is only handed out, the free counters of all RAM are exact *)
(* for every memory map, so that the first-fit search of alloc_any neither *)
(* misses free memory nor finds a frame that is taken.                     *)
THEOREM AllocCountersExact ==
    ASSUME RequestsFit PROVE SpecAlloc => []CountersExact
BY InvCountersExact, SpecAllocInv, PTL

(* While memory is only handed out, allocate and create_client never give  *)
(* a frame to two clients, and the ramtab names its holder.                *)
THEOREM AllocGrantsExclusive ==
    ASSUME RequestsFit PROVE SpecAlloc => []GrantsExclusive
<1>1. Inv => GrantsExclusive
  BY DEF Inv, FramesInv
<1> QED
  BY <1>1, SpecAllocInv, PTL

-----------------------------------------------------------------------------
(* What a step of NextAlloc does to clients, owners and grants, seen from  *)
(* outside of the counters.                                                *)

FramesFrom(start, n) == start .. start + n - 1

(* Nothing changes but the status, the heap or the state of a frame that   *)
(* has an owner.                                                           *)
Bystanding ==
    /\ client' = client /\ held' = held
    /\ heap => heap'
    /\ status' = status \/ status' \in Stops
    /\ status = "boot" => todo' = todo
    /\ \A f \in RamFrame :
          \/ ramtab'[f] = ramtab[f]
          \/ /\ ramtab[f].owner # None
             /\ ramtab'[f] = [owner |-> ramtab[f].owner, state |-> Mapped]

(* Client c gets n frames of RAM from start on that nobody holds.          *)
Handed(c, start, n) ==
    /\ start \in Nat /\ n \in Nat
    /\ FramesFrom(start, n) \subseteq RamFrame
    /\ \A f \in FramesFrom(start, n) : ~ Granted(f)
    /\ held'[c] = held[c] \cup FramesFrom(start, n)
    /\ \A d \in Clients \ {c} : held'[d] = held[d]
    /\ \A f \in FramesFrom(start, n) : ramtab'[f] = [owner |-> c, state |-> Unused]
    /\ \A f \in RamFrame \ FramesFrom(start, n) : ramtab'[f] = ramtab[f]
    /\ heap' = heap /\ status = "up" /\ status' = "up"

(* allocate, to a client that has a record.                                *)
Granting(c, start, n, g) ==
    /\ Handed(c, start, n) /\ n # 0 /\ ~ QuotaExceeded(c, n)
    /\ client[c].live
    /\ \A d \in Clients \ {c} : client'[d] = client[d]
    /\ client'[c].live = client[c].live
    /\ client'[c].alloc = (client[c].alloc + n) % Word
    /\ client'[c].guaranteed = client[c].guaranteed
    /\ client'[c].head = client[c].head
    /\ client'[c].list = IF Recording(c, n)
                         THEN add_range(client[c].list, client[c].head, start, n, g)
                         ELSE client[c].list

(* create_client, to a domain that has none.                               *)
Opening(c, start, n) ==
    /\ Handed(c, start, n)
    /\ c # System /\ ~ client[c].live /\ heap
    /\ \A d \in Domains \ {c} : client'[d] = client[d]
    /\ client'[c].live /\ client'[c].alloc = n /\ n <= client'[c].guaranteed
    /\ client'[c].head \in HeadStarts
    /\ client'[c].list = add_range(<<>>, client'[c].head, start, n, 1)

(* create, for one entry of the memory map.                                *)
Marking ==
    /\ status = "boot" /\ todo \in DOMAIN Mmap
    /\ \A d \in Domains : client'[d] = client[d] /\ held'[d] = held[d]
    /\ heap' = heap /\ todo' = todo + 1
    /\ status' = IF todo = Len(Mmap) THEN "up" ELSE "boot"
    /\ \/ /\ Mmap[todo].type # "non_free"
          /\ held' = held /\ ramtab' = ramtab
       \/ /\ Mmap[todo].type = "non_free"
          /\ \E r \in Region, n \in Nat :
                /\ get_region(Mmap[todo].start, r) /\ n = Markable(todo, r)
                /\ held'[System] = held[System] \cup FramesFrom(Mmap[todo].start, n)
                /\ \A f \in RamFrame :
                      \/ ramtab'[f] = ramtab[f]
                      \/ /\ f \in FramesFrom(Mmap[todo].start, n)
                         /\ ramtab'[f] = [owner |-> System, state |-> Unused]

StepShape ==
    \/ Bystanding
    \/ Marking
    \/ \E c \in Clients, start \in Nat, n \in Nat, g \in Granules :
          Granting(c, start, n, g)
    \/ \E c \in Domains, start \in Nat, n \in Nat : Opening(c, start, n)

LEMMA StopIsBystanding ==
    ASSUME NEW why \in Stops, Stop(why)
    PROVE  Bystanding
BY DEF Stop, Bystanding

LEMMA StutterIsBystanding ==
    ASSUME UNCHANGED vars
    PROVE  Bystanding
BY DEF vars, Bystanding

(* The frames that alloc_any has found are frames of RAM nobody holds.     *)
LEMMA TakeHands ==
    ASSUME Inv, NEW c \in Clients, NEW r \in RamRegion,
           NEW i \in 0 .. Mmap[r].len - 1, NEW n \in Nat, n <= free[r][i],
           Take(c, r, i, n), NEW start, start = Mmap[r].start + i,
           held' = [held EXCEPT ![c] = @ \cup (start .. start + n - 1)],
           UNCHANGED <<heap, status>>, status = "up"
    PROVE  Handed(c, start, n)
<1>1. /\ r \in Region /\ Mmap[r].start \in Nat /\ Mmap[r].len \in Nat
      /\ start \in Nat
  BY RegionFacts
<1>2. /\ Runs(free[r], Mmap[r].len) /\ free[r][i] \in Nat
      /\ i + free[r][i] <= Mmap[r].len
  BY <1>1 DEF Inv, FramesInv, RegionRuns, Runs
<1>3. ASSUME NEW f \in FramesFrom(start, n)
      PROVE  f \in RamFrame /\ ~ Granted(f)
  <2> DEFINE j == f - Mmap[r].start
  <2>1. /\ j \in 0 .. Mmap[r].len - 1 /\ Mmap[r].start + j = f
        /\ j \in i .. i + free[r][i] - 1
    BY <1>1, <1>2 DEF FramesFrom
  <2>2. free[r][j] = i + free[r][i] - j
    BY <1>2, <2>1 DEF Runs
  <2>3. free[r][j] # 0
    BY <1>2, <2>1, <2>2
  <2>4. ~ Granted(f)
    BY <2>1, <2>3 DEF Inv, FramesInv, TakenAreHeld
  <2>5. f \in Span(r)
    BY <1>1, <2>1 DEF Span
  <2> QED
    BY <2>4, <2>5 DEF RamFrame
<1>4. /\ held'[c] = held[c] \cup FramesFrom(start, n)
      /\ \A d \in Clients \ {c} : held'[d] = held[d]
  BY DEF Inv, TypeOK, FramesFrom
<1>5. ramtab' = Owned(c, r, i, n)
  BY DEF Take
<1>6. \A f \in RamFrame : ramtab'[f] = IF f \in FramesFrom(start, n)
                                       THEN [owner |-> c, state |-> Unused]
                                       ELSE ramtab[f]
  BY <1>5 DEF Owned, FramesFrom
<1>7. FramesFrom(start, n) \subseteq RamFrame
  BY <1>3
<1> QED
  BY <1>1, <1>3, <1>4, <1>6, <1>7 DEF Handed

LEMMA allocateShape ==
    ASSUME RequestsFit, Inv, NEW c \in Clients, NEW k \in Sizes, NEW g \in Granules,
           allocate(c, k, g)
    PROVE  StepShape
<1> DEFINE n == RoundUp(k, g)
<1>1. CASE UNCHANGED vars
  BY <1>1, StutterIsBystanding DEF StepShape
<1>2. ASSUME k # 0, status = "up", ~ QuotaExceeded(c, n), client[c].live,
             NEW r \in RamRegion, NEW i \in 0 .. Mmap[r].len - 1,
             alloc_any(n, g, r, i), Grant(c, r, i, n, n, Covering(k, g), g)
      PROVE  StepShape
  <2> DEFINE start == Mmap[r].start + i
  <2>1. /\ n = Covering(k, g) /\ n \in Nat \ {0}
        /\ g \in Nat \ {0}
    BY <1>2, RoundUpExact, ParameterAssumption
  <2> HIDE DEF n
  <2>2. CASE \E why \in Stops : Stop(why)
    BY <2>2, StopIsBystanding DEF StepShape
  <2>3. CASE /\ Take(c, r, i, n)
             /\ client' = [client EXCEPT
                   ![c].alloc = (@ + n) % Word,
                   ![c].list = IF Recording(c, n)
                               THEN add_range(@, client[c].head, start, n, g)
                               ELSE @]
             /\ held' = [held EXCEPT ![c] = @ \cup (start .. start + n - 1)]
             /\ UNCHANGED <<heap, sysList, todo, status>>
    <3>1. /\ n <= free[r][i] /\ start \in Nat
      BY <1>2, <2>1, alloc_anyFits, RegionFacts
    <3>2. Handed(c, start, n)
      BY <1>2, <2>1, <2>3, <3>1, TakeHands
    <3>3. client \in [Clients -> ClientRecord]
      BY DEF Inv, TypeOK
    <3> DEFINE a == (client[c].alloc + n) % Word
               l == IF Recording(c, n)
                    THEN add_range(client[c].list, client[c].head, start, n, g)
                    ELSE client[c].list
               new == [client[c] EXCEPT !.alloc = a, !.list = l]
    <3>4. client' = [client EXCEPT ![c] = new]
      BY <2>3, <3>3 DEF ClientRecord
    <3>5. /\ new.alloc = a /\ new.list = l /\ new.live = client[c].live
          /\ new.guaranteed = client[c].guaranteed /\ new.head = client[c].head
      <4> HIDE DEF a, l
      <4> QED
        BY <3>3 DEF ClientRecord
    <3> HIDE DEF new
    <3>6. client'[c] = new /\ \A d \in Clients \ {c} : client'[d] = client[d]
      BY <3>3, <3>4
    <3>7. Granting(c, start, n, g)
      <4> HIDE DEF start
      <4> QED
        BY <1>2, <2>1, <3>2, <3>5, <3>6 DEF Granting
    <3> QED
      BY <2>1, <3>1, <3>7 DEF StepShape
  <2> QED
    BY <1>2, <2>1, <2>2, <2>3 DEF Grant, Stops
<1> QED
  BY <1>1, <1>2 DEF allocate

LEMMA create_clientShape ==
    ASSUME Inv, NEW c \in Domains, NEW granted \in Quotas, NEW extra \in Quotas,
           NEW init \in Quotas, create_client(c, granted, extra, init)
    PROVE  StepShape
<1> DEFINE n == Least(init, granted)
<1>0. /\ n \in Nat /\ n <= granted /\ granted \in Nat
      /\ c \in Clients /\ System \in Clients /\ c # System
  BY ParameterAssumption, WidthAssumption DEF Least, Clients
<1> HIDE DEF n
<1>1. CASE UNCHANGED vars
  BY <1>1, StutterIsBystanding DEF StepShape
<1>2. CASE \E why \in Stops : Stop(why)
  BY <1>2, StopIsBystanding DEF StepShape
<1>3. ASSUME status = "up", ~ client[c].live, heap, NEW r \in RamRegion,
             NEW i \in 0 .. Mmap[r].len - 1, NEW head \in HeadStarts,
             alloc_any(n, 1, r, i), Take(c, r, i, n),
             client' = [client EXCEPT
               ![c] = [live |-> TRUE, alloc |-> n, guaranteed |-> granted,
                       extra |-> IF extra < granted THEN granted ELSE extra,
                       list |-> add_range(<<>>, head, Mmap[r].start + i, n, 1),
                       head |-> head],
               ![System].alloc = (@ + n) % Word],
             held' = [held EXCEPT ![c] =
                        @ \cup (Mmap[r].start + i .. Mmap[r].start + i + n - 1)],
             UNCHANGED <<heap, sysList, todo, status>>
      PROVE  StepShape
  <2>1. PICK start \in Nat : start = Mmap[r].start + i
    BY RegionFacts
  <2>2. n <= free[r][i]
    <3>1. PICK g \in Nat \ {0} : g = 1
      OBVIOUS
    <3> QED
      BY <1>0, <1>3, <3>1, alloc_anyFits
  <2>3. Handed(c, start, n)
    BY <1>0, <1>3, <2>1, <2>2, TakeHands
  <2> DEFINE rec == [live |-> TRUE, alloc |-> n, guaranteed |-> granted,
                     extra |-> IF extra < granted THEN granted ELSE extra,
                     list |-> add_range(<<>>, head, start, n, 1),
                     head |-> head]
             sys == [client[System] EXCEPT !.alloc = (@ + n) % Word]
  <2>4. client \in [Clients -> ClientRecord]
    BY DEF Inv, TypeOK
  <2>5. client' = [[client EXCEPT ![c] = rec] EXCEPT ![System] = sys]
    BY <1>0, <1>3, <2>1, <2>4
  <2>6. /\ rec.live /\ rec.alloc = n /\ rec.guaranteed = granted /\ rec.head = head
        /\ rec.list = add_range(<<>>, head, start, n, 1)
    OBVIOUS
  <2> HIDE DEF rec, sys
  <2>7. client'[c] = rec /\ \A d \in Domains \ {c} : client'[d] = client[d]
    BY <1>0, <2>4, <2>5, ParameterAssumption DEF Clients
  <2>8. Opening(c, start, n)
    BY <1>0, <1>3, <2>3, <2>6, <2>7 DEF Opening
  <2> QED
    BY <1>0, <2>8 DEF StepShape
<1> QED
  BY <1>1, <1>2, <1>3 DEF create_client, Stops, n

LEMMA createShape ==
    ASSUME Inv, create
    PROVE  StepShape
<1>0. /\ status = "boot" /\ todo \in DOMAIN Mmap /\ System \in Clients
      /\ \A d \in Domains : d \in Clients /\ d # System
  BY ParameterAssumption DEF create, Inv, Booting, Clients
<1>1. CASE Stop("misuse")
  BY <1>1, StopIsBystanding DEF StepShape, Stops
<1> DEFINE Advance == /\ todo' = todo + 1
                      /\ status' = IF todo = Len(Mmap) THEN "up" ELSE "boot"
                      /\ UNCHANGED <<heap, sysList>>
<1>2. CASE Advance /\ Mmap[todo].type # "non_free" /\ UNCHANGED <<free, ramtab, client, held>>
  BY <1>0, <1>2 DEF StepShape, Marking
<1>3. ASSUME Advance, Mmap[todo].type = "non_free", NEW r \in Region,
             get_region(Mmap[todo].start, r), MarkUsed(todo, r)
      PROVE  StepShape
  <2> DEFINE first == Mmap[todo].start - Mmap[r].start
  <2>1. PICK n : n = Markable(todo, r)
    OBVIOUS
  <2>2. /\ Mmap[r].start \in Nat /\ Mmap[r].len \in Nat
        /\ Mmap[todo].start \in Nat /\ Mmap[todo].len \in Nat
    BY <1>0, RegionFacts
  <2>3. first \in 0 .. Mmap[r].len - 1
    BY <1>3, <2>2 DEF get_region, Span
  <2>4. n \in Nat
    <3>1. free[r][first] \in Nat
      BY <2>3 DEF Inv, TypeOK
    <3> QED
      BY <2>1, <2>2, <3>1 DEF Markable, Least
  <2>5. /\ ramtab' = Owned(System, r, first, n)
        /\ client' = [client EXCEPT ![System].alloc = (@ + n) % Word]
        /\ held' = [held EXCEPT ![System] =
                       @ \cup (Mmap[todo].start .. Mmap[todo].start + n - 1)]
    BY <1>3, <2>1 DEF MarkUsed, Take
  <2>6. /\ \A d \in Domains : client'[d] = client[d] /\ held'[d] = held[d]
        /\ held'[System] = held[System] \cup FramesFrom(Mmap[todo].start, n)
    BY <1>0, <2>5 DEF Inv, TypeOK, FramesFrom
  <2>7. Mmap[r].start + first = Mmap[todo].start
    BY <2>2
  <2> HIDE DEF first
  <2>8. \A f \in RamFrame : \/ ramtab'[f] = ramtab[f]
                            \/ /\ f \in FramesFrom(Mmap[todo].start, n)
                               /\ ramtab'[f] = [owner |-> System, state |-> Unused]
    BY <2>5, <2>7 DEF Owned, FramesFrom
  <2>9. Marking
    BY <1>0, <1>3, <2>1, <2>4, <2>6, <2>8 DEF Marking
  <2> QED
    BY <2>9 DEF StepShape
<1> QED
  BY <1>1, <1>2, <1>3 DEF create

LEMMA map_frameShape ==
    ASSUME Inv, NEW f \in Mappable, map_frame(f)
    PROVE  StepShape
<1>1. CASE Stop("misuse")
  BY <1>1, StopIsBystanding DEF StepShape, Stops
<1>2. CASE /\ ramtab[f].owner # None
           /\ ramtab' = [ramtab EXCEPT ![f].state = Mapped]
           /\ UNCHANGED <<free, client, heap, sysList, todo, status, held>>
  <2>1. f \in RamFrame /\ ramtab \in [RamFrame ->
            [owner : Clients \cup {None}, state : {Unused, Mapped}]]
    BY ParameterAssumption DEF Inv, TypeOK
  <2>2. /\ \A p \in RamFrame \ {f} : ramtab'[p] = ramtab[p]
        /\ ramtab'[f] = [owner |-> ramtab[f].owner, state |-> Mapped]
    BY <1>2, <2>1
  <2> QED
    BY <1>2, <2>2 DEF StepShape, Bystanding
<1> QED
  BY <1>1, <1>2 DEF map_frame

LEMMA NextAllocShape ==
    ASSUME RequestsFit, Inv, [NextAlloc]_vars
    PROVE  StepShape
<1>1. CASE UNCHANGED vars
  BY <1>1, StutterIsBystanding DEF StepShape
<1>2. CASE create
  BY <1>2, createShape
<1>3. CASE finish_init
  BY <1>3, StopIsBystanding DEF finish_init, StepShape, Bystanding, Stops
<1>4. CASE \E c \in Domains, q, x, i \in Quotas : create_client(c, q, x, i)
  BY <1>4, create_clientShape
<1>5. CASE \E c \in Clients, k \in Sizes, g \in Granules : allocate(c, k, g)
  BY <1>5, allocateShape
<1>6. CASE \E f \in Mappable : map_frame(f)
  BY <1>6, map_frameShape
<1>7. CASE Halted
  BY <1>7, StutterIsBystanding DEF Halted, StepShape
<1> QED
  BY <1>1, <1>2, <1>3, <1>4, <1>5, <1>6, <1>7 DEF NextAlloc

-----------------------------------------------------------------------------
(* Accounts.                                                               *)

LEMMA RamIsFinite ==
    /\ RamFrame \subseteq 0 .. Space - 1
    /\ Space \in Nat /\ Word \in Nat /\ Space < Word
    /\ \A S \in SUBSET RamFrame :
          IsFiniteSet(S) /\ Cardinality(S) \in Nat /\ Cardinality(S) < Word
<1>1. Space \in Nat /\ Word \in Nat /\ Space < Word
  BY WidthAssumption
<1>2. ASSUME NEW m \in RamRegion PROVE Span(m) \subseteq 0 .. Space - 1
  <2>1. /\ Mmap[m].start \in Nat /\ Mmap[m].len \in Nat
        /\ Mmap[m].start + Mmap[m].len <= Space
    BY RegionFacts, WidthAssumption
  <2> QED
    BY <1>1, <2>1 DEF Span
<1>3. RamFrame \subseteq 0 .. Space - 1
  BY <1>2 DEF RamFrame
<1>4. ASSUME NEW S \in SUBSET RamFrame
      PROVE  IsFiniteSet(S) /\ Cardinality(S) \in Nat /\ Cardinality(S) < Word
  <2>1. 0 \in Int /\ Space - 1 \in Int
    BY <1>1
  <2>2. IsFiniteSet(0 .. Space - 1)
        /\ Cardinality(0 .. Space - 1) = IF 0 > Space - 1 THEN 0 ELSE Space - 1 - 0 + 1
    BY <2>1, FS_Interval
  <2>3. Cardinality(0 .. Space - 1) <= Space /\ Cardinality(0 .. Space - 1) \in Nat
    BY <1>1, <2>2
  <2>4. S \in SUBSET (0 .. Space - 1)
    BY <1>3
  <2>5. IsFiniteSet(S) /\ Cardinality(S) <= Cardinality(0 .. Space - 1)
    BY <2>2, <2>4, FS_Subset
  <2>6. Cardinality(S) \in Nat
    BY <2>5, FS_CardinalityType
  <2> QED
    BY <1>1, <2>3, <2>5, <2>6
<1> QED
  BY <1>1, <1>3, <1>4

LEMMA RangeCounts ==
    ASSUME NEW start \in Nat, NEW n \in Nat
    PROVE  /\ IsFiniteSet(start .. start + n - 1)
           /\ Cardinality(start .. start + n - 1) = n
<1>1. start \in Int /\ start + n - 1 \in Int
  OBVIOUS
<1>2. /\ IsFiniteSet(start .. start + n - 1)
      /\ Cardinality(start .. start + n - 1) =
            IF start > start + n - 1 THEN 0 ELSE start + n - 1 - start + 1
  BY <1>1, FS_Interval
<1> QED
  BY <1>2

(* The frames a client gets are counted once.                              *)
LEMMA HandedCounts ==
    ASSUME Inv, NEW c \in Clients, NEW start \in Nat, NEW n \in Nat,
           held[c] \subseteq RamFrame, Handed(c, start, n)
    PROVE  /\ held'[c] \subseteq RamFrame
           /\ Cardinality(held[c]) \in Nat
           /\ Cardinality(held'[c]) = Cardinality(held[c]) + n
           /\ Cardinality(held[c]) + n < Word
<1> DEFINE new == FramesFrom(start, n)
<1>1. /\ held'[c] = held[c] \cup new /\ new \subseteq RamFrame
      /\ held[c] \cap new = {}
  BY DEF Handed, Granted
<1>2. IsFiniteSet(new) /\ Cardinality(new) = n
  BY RangeCounts DEF FramesFrom
<1> HIDE DEF new
<1>3. IsFiniteSet(held[c]) /\ Cardinality(held[c]) \in Nat
  BY RamIsFinite
<1>4. Cardinality(held[c] \cup new)
         = Cardinality(held[c]) + Cardinality(new) - Cardinality(held[c] \cap new)
  BY <1>2, <1>3, FS_Union
<1>5. Cardinality(held[c] \cap new) = 0
  BY <1>1, FS_EmptySet
<1>6. held'[c] \subseteq RamFrame
  BY <1>1
<1>7. Cardinality(held'[c]) < Word
  BY <1>6, RamIsFinite
<1>8. Cardinality(held'[c]) = Cardinality(held[c]) + n
  BY <1>1, <1>2, <1>3, <1>4, <1>5
<1> QED
  BY <1>3, <1>6, <1>7, <1>8

Accounts ==
    \A c \in Domains :
        /\ held[c] \subseteq RamFrame
        /\ client[c].alloc = Cardinality(held[c])
        /\ client[c].alloc <= client[c].guaranteed
        /\ ~ client[c].live => held[c] = {}

LEMMA InitAccounts == Init => Accounts
<1> SUFFICES ASSUME Init PROVE Accounts
  OBVIOUS
<1>1. ASSUME NEW c \in Domains
      PROVE  held[c] = {} /\ client[c] = NoClient
  BY ParameterAssumption DEF Init, Clients
<1>2. NoClient.alloc = 0 /\ NoClient.guaranteed = 0 /\ Cardinality({}) = 0
  BY FS_EmptySet DEF NoClient
<1> QED
  BY <1>1, <1>2 DEF Accounts

LEMMA StepAccounts ==
    ASSUME Inv, Accounts, StepShape
    PROVE  Accounts'
<1> SUFFICES ASSUME NEW d \in Domains
             PROVE  /\ held'[d] \subseteq RamFrame
                    /\ client'[d].alloc = Cardinality(held'[d])
                    /\ client'[d].alloc <= client'[d].guaranteed
                    /\ ~ client'[d].live => held'[d] = {}
  BY DEF Accounts
<1>0. /\ d \in Clients /\ d # System /\ client[d] \in ClientRecord
      /\ held[d] \subseteq RamFrame
      /\ client[d].alloc = Cardinality(held[d])
      /\ client[d].alloc <= client[d].guaranteed
      /\ ~ client[d].live => held[d] = {}
  BY ParameterAssumption DEF Accounts, Clients, Inv, TypeOK
<1>1. ASSUME client'[d] = client[d], held'[d] = held[d]
      PROVE  /\ held'[d] \subseteq RamFrame
             /\ client'[d].alloc = Cardinality(held'[d])
             /\ client'[d].alloc <= client'[d].guaranteed
             /\ ~ client'[d].live => held'[d] = {}
  BY <1>0, <1>1
<1>2. CASE Bystanding
  BY <1>1, <1>2 DEF Bystanding
<1>3. CASE Marking
  BY <1>1, <1>3 DEF Marking
<1>4. ASSUME NEW c \in Clients, NEW start \in Nat, NEW n \in Nat, NEW g \in Granules,
             Granting(c, start, n, g)
      PROVE  /\ held'[d] \subseteq RamFrame
             /\ client'[d].alloc = Cardinality(held'[d])
             /\ client'[d].alloc <= client'[d].guaranteed
             /\ ~ client'[d].live => held'[d] = {}
  <2>1. CASE c # d
    BY <1>0, <1>1, <1>4, <2>1 DEF Granting, Handed
  <2>2. CASE c = d
    <3>1. /\ held'[d] \subseteq RamFrame /\ Cardinality(held[d]) \in Nat
          /\ Cardinality(held'[d]) = Cardinality(held[d]) + n
          /\ Cardinality(held[d]) + n < Word
      BY <1>0, <1>4, <2>2, HandedCounts DEF Granting
    <3>2. /\ client'[d].alloc = (client[d].alloc + n) % Word
          /\ client'[d].guaranteed = client[d].guaranteed
          /\ client'[d].live /\ ~ QuotaExceeded(d, n)
      BY <1>4, <2>2 DEF Granting
    <3>3. (client[d].alloc + n) % Word = client[d].alloc + n
      BY <1>0, <3>1, ModSmall, WidthAssumption
    <3>4. client[d].alloc + n <= client[d].guaranteed
      BY <1>0, <3>1, <3>2, <3>3 DEF QuotaExceeded, ClientRecord
    <3> QED
      BY <1>0, <3>1, <3>2, <3>3, <3>4
  <2> QED
    BY <2>1, <2>2
<1>5. ASSUME NEW c \in Domains, NEW start \in Nat, NEW n \in Nat, Opening(c, start, n)
      PROVE  /\ held'[d] \subseteq RamFrame
             /\ client'[d].alloc = Cardinality(held'[d])
             /\ client'[d].alloc <= client'[d].guaranteed
             /\ ~ client'[d].live => held'[d] = {}
  <2>1. CASE c # d
    BY <1>0, <1>1, <1>5, <2>1 DEF Opening, Handed
  <2>2. CASE c = d
    <3>1. held[d] = {} /\ Cardinality(held[d]) = 0
      BY <1>0, <1>5, <2>2, FS_EmptySet DEF Opening
    <3>2. /\ held'[d] \subseteq RamFrame
          /\ Cardinality(held'[d]) = Cardinality(held[d]) + n
      BY <1>0, <1>5, <2>2, HandedCounts DEF Opening
    <3>3. /\ client'[d].live /\ client'[d].alloc = n
          /\ n <= client'[d].guaranteed
      BY <1>5, <2>2 DEF Opening
    <3> QED
      BY <3>1, <3>2, <3>3
  <2> QED
    BY <2>1, <2>2
<1> QED
  BY <1>2, <1>3, <1>4, <1>5 DEF StepShape

LEMMA SpecAllocAccounts ==
    ASSUME RequestsFit PROVE SpecAlloc => []Accounts
<1>1. Inv /\ Accounts /\ [NextAlloc]_vars => Accounts'
  BY NextAllocShape, StepAccounts
<1> QED
  BY <1>1, InitAccounts, SpecAllocInv, PTL DEF SpecAlloc

(* While memory is only handed out, a domain's account is the number of    *)
(* frames it holds and never exceeds its guarantee, whatever mix of        *)
(* create_client and allocate gave it the frames: the uint32_t sums that   *)
(* the quota test makes do not wrap, since a client cannot hold more       *)
(* frames than there are.                                                  *)
THEOREM AccountsAreExact ==
    ASSUME RequestsFit PROVE SpecAlloc => []AccountsMatch
<1>1. Accounts => AccountsMatch
  BY DEF Accounts, AccountsMatch
<1> QED
  BY <1>1, SpecAllocAccounts, PTL

-----------------------------------------------------------------------------
(* Region lists.                                                           *)

Lists ==
    /\ ListsExactBelowHead
    /\ \A c \in Domains :
          /\ client[c].live => heap
          /\ ~ client[c].live => client[c].list = <<>>

(* A new element in front of a list adds its frames and no others.         *)
LEMMA FrontElement ==
    ASSUME NEW list \in Seq(ListRange), NEW start \in Nat, NEW n \in Nat, NEW g \in Nat,
           NEW old, Partitions(list, old), old \cap FramesFrom(start, n) = {},
           NEW new, new = <<[start |-> start, n |-> n, granule |-> g]>> \o list
    PROVE  Partitions(new, old \cup FramesFrom(start, n))
<1>0. /\ old = UNION {FramesOf(list[i]) : i \in DOMAIN list}
      /\ \A i, j \in DOMAIN list :
            i # j => FramesOf(list[i]) \cap FramesOf(list[j]) = {}
  BY DEF Partitions
<1> DEFINE e == [start |-> start, n |-> n, granule |-> g]
<1>1. FramesOf(e) = FramesFrom(start, n)
  BY DEF FramesOf, FramesFrom
<1>2. e \in ListRange
  BY DEF ListRange
<1> HIDE DEF e
<1>3. /\ DOMAIN list = 1 .. Len(list) /\ Len(list) \in Nat
      /\ DOMAIN new = 1 .. Len(list) + 1
      /\ new[1] = e /\ \A i \in 1 .. Len(list) : new[i + 1] = list[i]
  BY <1>2 DEF e
<1>4. \A i \in DOMAIN new : i = 1 \/ (i - 1 \in DOMAIN list /\ new[i] = list[i - 1])
  <2> SUFFICES ASSUME NEW i \in DOMAIN new, i # 1
               PROVE  i - 1 \in DOMAIN list /\ new[i] = list[i - 1]
    OBVIOUS
  <2>1. i - 1 \in 1 .. Len(list) /\ (i - 1) + 1 = i
    BY <1>3
  <2> QED
    BY <1>3, <2>1
<1>5. \A i \in DOMAIN list : i + 1 \in DOMAIN new /\ new[i + 1] = list[i]
  BY <1>3
<1>6. 1 \in DOMAIN new /\ DOMAIN new \subseteq Nat /\ DOMAIN list \subseteq Nat
  BY <1>3
<1>7. \A i \in DOMAIN list : FramesOf(list[i]) \subseteq old
  BY <1>0
<1>8. ASSUME NEW i \in DOMAIN new, NEW j \in DOMAIN new, i # j
      PROVE  FramesOf(new[i]) \cap FramesOf(new[j]) = {}
  <2>1. CASE i = 1
    BY <1>1, <1>3, <1>4, <1>7, <1>8, <2>1
  <2>2. CASE j = 1
    BY <1>1, <1>3, <1>4, <1>7, <1>8, <2>2
  <2>3. CASE i # 1 /\ j # 1
    <3>1. i - 1 # j - 1
      BY <1>6, <1>8
    <3> QED
      BY <1>0, <1>4, <2>3, <3>1
  <2> QED
    BY <2>1, <2>2, <2>3
<1>9. old \cup FramesFrom(start, n) = UNION {FramesOf(new[i]) : i \in DOMAIN new}
  <2>1. ASSUME NEW f \in old \cup FramesFrom(start, n)
        PROVE  \E i \in DOMAIN new : f \in FramesOf(new[i])
    BY <1>0, <1>1, <1>3, <1>5, <1>6
  <2>2. ASSUME NEW i \in DOMAIN new
        PROVE  FramesOf(new[i]) \subseteq old \cup FramesFrom(start, n)
    BY <1>1, <1>3, <1>4, <1>7
  <2> DEFINE all == UNION {FramesOf(new[i]) : i \in DOMAIN new}
  <2>3. \A f : f \in all <=> \E i \in DOMAIN new : f \in FramesOf(new[i])
    OBVIOUS
  <2> HIDE DEF all
  <2>4. old \cup FramesFrom(start, n) = all
    BY <2>1, <2>2, <2>3
  <2> QED
    BY <2>4 DEF all
<1> QED
  BY <1>8, <1>9 DEF Partitions

LEMMA InitLists == Init => Lists
<1> SUFFICES ASSUME Init PROVE Lists
  OBVIOUS
<1>1. ASSUME NEW c \in Domains
      PROVE  held[c] = {} /\ client[c] = NoClient
  BY ParameterAssumption DEF Init, Clients
<1>2. ~ NoClient.live /\ NoClient.list = <<>>
  BY DEF NoClient
<1>3. DOMAIN <<>> = {}
  OBVIOUS
<1> QED
  BY <1>1, <1>2, <1>3 DEF Lists, ListsExactBelowHead, Partitions

(* A list is spoilt only by a range that ends where the head seems to      *)
(* start, and then the domain holds the frame below.                       *)
LEMMA StepLists ==
    ASSUME Inv, Accounts, Lists, StepShape
    PROVE  Lists'
<1> DEFINE Good(rec, frames, hp) ==
              /\ rec.head - 1 \notin frames => Partitions(rec.list, frames)
              /\ rec.live => hp
              /\ ~ rec.live => rec.list = <<>>
<1>1. \A d \in Domains : Good(client[d], held[d], heap)
  BY DEF Lists, ListsExactBelowHead
<1> SUFFICES ASSUME NEW d \in Domains
             PROVE  Good(client'[d], held'[d], heap')
  BY DEF Lists, ListsExactBelowHead
<1>2. /\ d \in Clients /\ d # System /\ client[d] \in ClientRecord
      /\ client[d].list \in Seq(ListRange) /\ client[d].head \in Nat
      /\ held[d] \subseteq RamFrame
      /\ ~ client[d].live => held[d] = {}
  BY ParameterAssumption DEF Accounts, Clients, Inv, TypeOK, ClientRecord
<1>3. ASSUME client'[d] = client[d], held'[d] = held[d], heap => heap'
      PROVE  Good(client'[d], held'[d], heap')
  BY <1>1, <1>3
<1>4. CASE Bystanding
  BY <1>3, <1>4 DEF Bystanding
<1>5. CASE Marking
  BY <1>3, <1>5 DEF Marking
<1>6. ASSUME NEW start \in Nat, NEW n \in Nat \ {0}, NEW g \in Nat, Handed(d, start, n),
             NEW list \in Seq(ListRange), NEW head \in Nat,
             head - 1 \notin held[d] => Partitions(list, held[d]),
             head - 1 \notin held'[d],
             NEW new, new = add_range(list, head, start, n, g)
      PROVE  Partitions(new, held'[d])
  <2>1. /\ held'[d] = held[d] \cup FramesFrom(start, n)
        /\ held[d] \cap FramesFrom(start, n) = {}
    BY <1>2, <1>6 DEF Handed, Granted
  <2>2. start + n # head
    <3>1. start + n - 1 \in FramesFrom(start, n)
      BY DEF FramesFrom
    <3>2. start + n - 1 # head - 1
      BY <1>6, <2>1, <3>1
    <3> QED
      BY <3>2
  <2>3. ~ MergesRight(list, head, start, n)
    BY <2>2 DEF MergesRight
  <2>4. new = <<[start |-> start, n |-> n, granule |-> g]>> \o list
    BY <1>6, <2>3 DEF add_range
  <2>5. n \in Nat /\ Partitions(list, held[d]) /\ held[d] \cap FramesFrom(start, n) = {}
    BY <1>6, <2>1
  <2>6. Partitions(new, held[d] \cup FramesFrom(start, n))
    BY Zenon, <1>6, <2>4, <2>5, FrontElement
  <2> QED
    BY <2>1, <2>6
<1>7. ASSUME NEW c \in Clients, NEW start \in Nat, NEW n \in Nat, NEW g \in Granules,
             Granting(c, start, n, g)
      PROVE  Good(client'[d], held'[d], heap')
  <2>1. CASE c # d
    BY <1>2, <1>3, <1>7, <2>1 DEF Granting, Handed
  <2>2. CASE c = d
    <3>1. /\ Handed(d, start, n) /\ n \in Nat \ {0} /\ g \in Nat /\ client[d].live
          /\ client'[d].live = client[d].live
          /\ client'[d].head = client[d].head /\ heap' = heap
      BY <1>7, <2>2, ParameterAssumption DEF Granting, Handed
    <3>2. heap /\ (client[d].head - 1 \notin held[d] => Partitions(client[d].list, held[d]))
      BY <1>1, <3>1
    <3>3. Recording(d, n)
      BY <1>2, <3>1, <3>2 DEF Recording
    <3>4. client'[d].list = add_range(client[d].list, client[d].head, start, n, g)
      BY <1>7, <2>2, <3>3 DEF Granting
    <3>5. ASSUME client'[d].head - 1 \notin held'[d]
          PROVE  Partitions(client'[d].list, held'[d])
      BY <1>2, <1>6, <3>1, <3>2, <3>4, <3>5
    <3> QED
      BY <3>1, <3>2, <3>5
  <2> QED
    BY <2>1, <2>2
<1>8. ASSUME NEW c \in Domains, NEW start \in Nat, NEW n \in Nat, Opening(c, start, n)
      PROVE  Good(client'[d], held'[d], heap')
  <2>1. CASE c # d
    BY <1>2, <1>3, <1>8, <2>1 DEF Opening, Handed
  <2>2. CASE c = d
    <3>1. /\ Handed(d, start, n) /\ ~ client[d].live /\ heap
          /\ client'[d].live /\ client'[d].head \in Nat /\ heap' = heap
          /\ client'[d].list = add_range(<<>>, client'[d].head, start, n, 1)
      BY <1>8, <2>2, ParameterAssumption DEF Opening, Handed
    <3>2. held[d] = {} /\ DOMAIN <<>> = {}
      BY <1>2, <3>1
    <3>3. Partitions(<<>>, held[d])
      BY <3>2 DEF Partitions
    <3>4. <<>> \in Seq(ListRange)
      OBVIOUS
    <3>5. CASE n = 0
      <4>1. FramesFrom(start, n) = {}
        BY <3>5 DEF FramesFrom
      <4>2. held'[d] = held[d]
        BY <3>1, <4>1 DEF Handed
      <4>3. client'[d].list = <<>>
        BY <3>1, <3>5 DEF add_range
      <4> QED
        BY <3>1, <3>3, <4>2, <4>3
    <3>6. CASE n # 0
      <4>1. n \in Nat \ {0} /\ 1 \in Nat
        BY <3>6
      <4>2. ASSUME client'[d].head - 1 \notin held'[d]
            PROVE  Partitions(client'[d].list, held'[d])
        BY <1>6, <3>1, <3>3, <3>4, <4>1, <4>2
      <4> QED
        BY <3>1, <4>2
    <3> QED
      BY <3>5, <3>6
  <2> QED
    BY <2>1, <2>2
<1> QED
  BY <1>4, <1>5, <1>7, <1>8 DEF StepShape

(* The list of ranges that add_range keeps for a domain, and that the      *)
(* domain can read in its DCB, partitions the frames the domain holds,     *)
(* until the domain is given the frame below the address that the unset    *)
(* start field of the list head happens to hold, whatever that is.         *)
THEOREM RegionListsAreExact ==
    ASSUME RequestsFit PROVE SpecAlloc => []ListsExactBelowHead
<1>1. Inv /\ Accounts /\ Lists /\ [NextAlloc]_vars => Lists'
  BY NextAllocShape, StepLists
<1>2. Lists => ListsExactBelowHead
  BY DEF Lists
<1> QED
  BY <1>1, <1>2, InitLists, SpecAllocInv, SpecAllocAccounts, PTL DEF SpecAlloc

-----------------------------------------------------------------------------
(* Mapped frames.                                                          *)

(* A frame that somebody holds is not handed out, whatever its state.      *)
LEMMA StepKeepsMapped ==
    ASSUME Inv, StepShape,
           NEW f \in RamFrame, status = "up", Granted(f), ramtab[f].state = Mapped
    PROVE  ramtab'[f] = ramtab[f]
<1>1. CASE Bystanding
  <2>1. ramtab[f] \in [owner : Clients \cup {None}, state : {Unused, Mapped}]
    BY DEF Inv, TypeOK
  <2>2. ramtab[f] = [owner |-> ramtab[f].owner, state |-> Mapped]
    BY <2>1
  <2> QED
    BY <1>1, <2>2 DEF Bystanding
<1>2. ASSUME NEW c \in Clients, NEW start \in Nat, NEW n \in Nat, Handed(c, start, n)
      PROVE  ramtab'[f] = ramtab[f]
  BY <1>2 DEF Handed
<1>3. ~ Marking
  BY DEF Marking
<1>4. ASSUME NEW c \in Clients, NEW start \in Nat, NEW n \in Nat, NEW g \in Granules,
             Granting(c, start, n, g)
      PROVE  ramtab'[f] = ramtab[f]
  BY <1>2, <1>4 DEF Granting
<1>5. ASSUME NEW c \in Domains, NEW start \in Nat, NEW n \in Nat, Opening(c, start, n)
      PROVE  ramtab'[f] = ramtab[f]
  BY <1>2, <1>5 DEF Opening, Clients
<1> QED
  BY <1>1, <1>3, <1>4, <1>5 DEF StepShape

(* Once the allocator is up, no call hands out a frame that a client holds *)
(* and that is mapped, or forgets that it is mapped, although              *)
(* mark_frames_used never looks at the state of the frames it overwrites:  *)
(* the counters, which are all that the search looks at, are zero there.   *)
THEOREM MappedFramesStay ==
    ASSUME RequestsFit PROVE SpecAlloc => MappedFramesKept
<1> DEFINE Kept == \A f \in RamFrame :
                      status = "up" /\ Granted(f) /\ ramtab[f].state = Mapped
                         => ramtab'[f] = ramtab[f]
<1>1. Inv /\ [NextAlloc]_vars => [Kept]_vars
  BY NextAllocShape, StepKeepsMapped
<1>2. SpecAlloc => [][Kept]_vars
  BY <1>1, SpecAllocInv, PTL DEF SpecAlloc
<1> QED
  BY <1>2 DEF MappedFramesKept

-----------------------------------------------------------------------------
(* The whole interface (Spec): requests for addresses and free included,   *)
(* where counters and grants may go wrong.  Types and quotas do not.       *)

WholeInv ==
    /\ TypeOK
    /\ status = "boot" => todo \in DOMAIN Mmap
    /\ QuotaKept

(* ReleaseAccounted, of one step.                                          *)
ReleaseStep ==
    Released # {} =>
       \E c \in Clients :
          /\ \A f \in Released : ramtab[f] = [owner |-> c, state |-> Unused]
          /\ client'[c].alloc \in {client[c].alloc - Cardinality(Released), 0}

LEMMA InitWholeInv == Init => WholeInv
<1> SUFFICES ASSUME Init PROVE WholeInv
  OBVIOUS
<1>1. Inv /\ Accounts
  BY InitInv, InitAccounts
<1>2. status = "boot" => todo \in DOMAIN Mmap
  BY <1>1 DEF Inv, Booting
<1> QED
  BY <1>1, <1>2 DEF WholeInv, Inv, Accounts, QuotaKept

LEMMA StopKeepsWhole ==
    ASSUME WholeInv, NEW why \in Stops, Stop(why)
    PROVE  WholeInv' /\ ReleaseStep
<1>1. UNCHANGED <<free, ramtab, client, heap, sysList, todo, held>>
      /\ status' \in Stops /\ status' # "boot"
  BY DEF Stop, Stops
<1>2. TypeOK'
  BY <1>1 DEF WholeInv, TypeOK
<1>3. Released = {}
  BY <1>1 DEF Released
<1> QED
  BY <1>1, <1>2, <1>3 DEF WholeInv, QuotaKept, ReleaseStep

LEMMA StutterKeepsWhole ==
    ASSUME WholeInv, UNCHANGED vars
    PROVE  WholeInv' /\ ReleaseStep
<1>1. UNCHANGED <<free, ramtab, client, heap, sysList, todo, held, status>>
  BY DEF vars
<1>2. TypeOK'
  BY <1>1 DEF WholeInv, TypeOK
<1>3. Released = {}
  BY <1>1 DEF Released
<1> QED
  BY <1>1, <1>2, <1>3 DEF WholeInv, QuotaKept, ReleaseStep

(* mark_frames_used keeps the types, and takes no frame from its owner     *)
(* without giving it another one.                                          *)
LEMMA TakeTypes ==
    ASSUME TypeOK, NEW c \in Clients, NEW r \in Region,
           NEW first \in 0 .. Mmap[r].len - 1, NEW n \in Nat, Take(c, r, first, n)
    PROVE  /\ DOMAIN free' = Region
           /\ \A q \in Region : free'[q] \in [0 .. Mmap[q].len - 1 -> Nat]
           /\ ramtab' \in [RamFrame -> [owner : Clients \cup {None},
                                        state : {Unused, Mapped}]]
           /\ Released = {}
<1>1. /\ free' = [free EXCEPT ![r] = Taken(free[r], first, n)]
      /\ ramtab' = Owned(c, r, first, n)
  BY DEF Take
<1>2. /\ DOMAIN free = Region
      /\ \A q \in Region : free[q] \in [0 .. Mmap[q].len - 1 -> Nat]
      /\ ramtab \in [RamFrame -> [owner : Clients \cup {None},
                                  state : {Unused, Mapped}]]
  BY DEF TypeOK
<1>3. Taken(free[r], first, n) \in [0 .. Mmap[r].len - 1 -> Nat]
  <2>1. free[r] \in [0 .. Mmap[r].len - 1 -> Nat] /\ free[r][first] \in Nat
    BY <1>2
  <2>2. \A x, y \in Nat : (x - y) % Word \in Nat
    BY WidthAssumption
  <2>3. \A j \in 0 .. Mmap[r].len - 1 : (free[r][j] - free[r][first]) % Word \in Nat
    BY <2>1, <2>2
  <2> QED
    BY <2>1, <2>3 DEF Taken
<1>4. \A q \in Region : free'[q] = IF q = r THEN Taken(free[r], first, n) ELSE free[q]
  BY <1>1, <1>2
<1>5. \A q \in Region : free'[q] \in [0 .. Mmap[q].len - 1 -> Nat]
  BY <1>2, <1>3, <1>4
<1>6. ASSUME NEW f \in RamFrame
      PROVE  ramtab'[f] \in {[owner |-> c, state |-> Unused], ramtab[f]}
  BY <1>1 DEF Owned
<1>7. ramtab' \in [RamFrame -> [owner : Clients \cup {None}, state : {Unused, Mapped}]]
  <2> DEFINE R == [owner : Clients \cup {None}, state : {Unused, Mapped}]
  <2>1. [owner |-> c, state |-> Unused] \in R /\ ramtab \in [RamFrame -> R]
    BY <1>2
  <2> HIDE DEF R
  <2>2. ramtab' = [f \in RamFrame |-> ramtab'[f]]
    BY <1>1 DEF Owned
  <2>3. ramtab' \in [RamFrame -> R]
    BY <1>6, <2>1, <2>2
  <2> QED
    BY <2>3 DEF R
<1>8. Released = {}
  BY <1>6, ParameterAssumption DEF Released
<1> QED
  BY <1>1, <1>2, <1>5, <1>7, <1>8

(* The end of allocate and of allocate_range, once the quota test is       *)
(* passed.                                                                 *)
LEMMA GrantKeepsWhole ==
    ASSUME WholeInv, status = "up", NEW c \in Clients, NEW r \in Region,
           NEW first \in 0 .. Mmap[r].len - 1, NEW n \in Nat, NEW asked \in Nat,
           NEW promised \in Nat, NEW g \in Nat, ~ QuotaExceeded(c, asked),
           Grant(c, r, first, n, asked, promised, g)
    PROVE  WholeInv' /\ ReleaseStep
<1> DEFINE start == Mmap[r].start + first
<1>1. CASE \E why \in Stops : Stop(why)
  BY <1>1, StopKeepsWhole
<1>2. CASE /\ Take(c, r, first, n)
           /\ client' = [client EXCEPT
                 ![c].alloc = (@ + asked) % Word,
                 ![c].list = IF Recording(c, asked)
                             THEN add_range(@, client[c].head, start, asked, g)
                             ELSE @]
           /\ held' = [held EXCEPT ![c] = @ \cup (start .. start + promised - 1)]
           /\ UNCHANGED <<heap, sysList, todo, status>>
  <2>1. /\ DOMAIN free' = Region
        /\ \A q \in Region : free'[q] \in [0 .. Mmap[q].len - 1 -> Nat]
        /\ ramtab' \in [RamFrame -> [owner : Clients \cup {None},
                                     state : {Unused, Mapped}]]
        /\ Released = {}
    BY <1>2, TakeTypes DEF WholeInv
  <2>2. /\ client \in [Clients -> ClientRecord] /\ held \in [Clients -> SUBSET Nat]
        /\ start \in Nat
    BY RegionFacts DEF WholeInv, TypeOK
  <2> DEFINE a == (client[c].alloc + asked) % Word
             l == IF Recording(c, asked)
                  THEN add_range(client[c].list, client[c].head, start, asked, g)
                  ELSE client[c].list
             new == [client[c] EXCEPT !.alloc = a, !.list = l]
  <2>3. client' = [client EXCEPT ![c] = new]
    BY <1>2, <2>2 DEF ClientRecord
  <2>4. /\ client[c].list \in Seq(ListRange) /\ client[c].head \in Nat
        /\ client[c].alloc \in Nat /\ client[c].guaranteed \in Nat
    BY <2>2 DEF ClientRecord
  <2>5. a \in Nat /\ l \in Seq(ListRange)
    <3>1. a \in Nat
      BY <2>4, WidthAssumption
    <3> HIDE DEF start
    <3>2. l \in Seq(ListRange)
      BY <2>2, <2>4, add_rangeTyped
    <3> QED
      BY <3>1, <3>2
  <2>6. a <= client[c].guaranteed
    BY <2>4, <2>5 DEF QuotaExceeded
  <2> HIDE DEF a, l
  <2>7. new \in ClientRecord /\ new.alloc = a /\ new.guaranteed = client[c].guaranteed
    BY <2>2, <2>5 DEF ClientRecord
  <2> HIDE DEF new
  <2>8. client' \in [Clients -> ClientRecord]
    <3> HIDE DEF ClientRecord
    <3> QED
      BY <2>2, <2>3, <2>7
  <2>9. QuotaKept'
    <3> SUFFICES ASSUME NEW d \in Domains
                 PROVE  client'[d].alloc <= client'[d].guaranteed
      BY DEF QuotaKept
    <3>1. d \in Clients /\ client[d].alloc <= client[d].guaranteed
      BY DEF Clients, WholeInv, QuotaKept
    <3>2. client'[d] = IF d = c THEN new ELSE client[d]
      BY <2>2, <2>3, <3>1
    <3> QED
      BY <2>6, <2>7, <3>1, <3>2
  <2>10. held' \in [Clients -> SUBSET Nat]
    <3> DEFINE S == start .. start + promised - 1
    <3>1. S \subseteq Nat /\ held' = [held EXCEPT ![c] = held[c] \cup S]
      BY <1>2, <2>2
    <3> HIDE DEF S
    <3> QED
      BY <2>2, <3>1
  <2>11. TypeOK'
    BY <1>2, <2>1, <2>8, <2>10 DEF WholeInv, TypeOK
  <2> QED
    BY <1>2, <2>1, <2>9, <2>11 DEF WholeInv, ReleaseStep
<1> QED
  BY <1>1, <1>2 DEF Grant, Stops

LEMMA RoundUpTyped ==
    ASSUME NEW k \in Sizes \ {0}, NEW g \in Granules
    PROVE  /\ g \in Nat \ {0}
           /\ RoundUp(k, g) \in Nat
           /\ Covering(k, g) \in Nat
<1>1. Space \in Nat \ {0}
  <2>1. 1 \in DOMAIN Mmap
    BY MmapAssumption
  <2>2. /\ Mmap[1].start \in Nat /\ Mmap[1].len \in Nat \ {0}
        /\ Mmap[1].start + Mmap[1].len <= Space
    BY <2>1, RegionFacts, WidthAssumption
  <2> QED
    BY <2>2, WidthAssumption
<1>2. k \in Nat \ {0} /\ g \in Nat \ {0}
  BY ParameterAssumption, WidthAssumption
<1>3. Covering(k, g) \in Nat
  BY <1>2, CoveringBounds
<1>4. \A x \in Nat : x % Space \in Nat
  BY <1>1
<1> QED
  BY <1>2, <1>3, <1>4 DEF RoundUp

LEMMA allocateKeepsWhole ==
    ASSUME WholeInv, NEW c \in Clients, NEW k \in Sizes, NEW g \in Granules,
           allocate(c, k, g)
    PROVE  WholeInv' /\ ReleaseStep
<1>1. CASE UNCHANGED vars
  BY <1>1, StutterKeepsWhole
<1>2. ASSUME k # 0, status = "up", ~ QuotaExceeded(c, RoundUp(k, g)),
             NEW r \in RamRegion, NEW i \in 0 .. Mmap[r].len - 1,
             Grant(c, r, i, RoundUp(k, g), RoundUp(k, g), Covering(k, g), g)
      PROVE  WholeInv' /\ ReleaseStep
  <2>1. RoundUp(k, g) \in Nat /\ Covering(k, g) \in Nat /\ g \in Nat /\ r \in Region
    BY <1>2, RoundUpTyped, RegionFacts
  <2> QED
    BY <1>2, <2>1, GrantKeepsWhole
<1> QED
  BY <1>1, <1>2 DEF allocate

LEMMA allocate_rangeKeepsWhole ==
    ASSUME WholeInv, NEW c \in Clients, NEW k \in Sizes, NEW g \in Granules,
           NEW start \in Addresses, allocate_range(c, k, g, start)
    PROVE  WholeInv' /\ ReleaseStep
<1> DEFINE n == RoundUp(k, g)
<1>1. CASE UNCHANGED vars
  BY <1>1, StutterKeepsWhole
<1>2. CASE Stop("misuse")
  BY <1>2, StopKeepsWhole DEF Stops
<1>3. ASSUME k # 0, status = "up", ~ QuotaExceeded(c, n), NEW r \in Region,
             get_region(start, r),
             Grant(c, r, start - Mmap[r].start,
                   Least(n, free[r][start - Mmap[r].start]), n, Covering(k, g), g)
      PROVE  WholeInv' /\ ReleaseStep
  <2>1. n \in Nat /\ Covering(k, g) \in Nat /\ g \in Nat
    BY <1>3, RoundUpTyped
  <2> HIDE DEF n
  <2>2. start - Mmap[r].start \in 0 .. Mmap[r].len - 1
    BY <1>3, RegionFacts DEF get_region, Span
  <2>3. free[r][start - Mmap[r].start] \in Nat
    BY <2>2 DEF WholeInv, TypeOK
  <2>4. Least(n, free[r][start - Mmap[r].start]) \in Nat
    BY <2>1, <2>3 DEF Least
  <2> QED
    BY <1>3, <2>1, <2>2, <2>4, GrantKeepsWhole
<1> QED
  BY <1>1, <1>2, <1>3 DEF allocate_range

LEMMA create_clientKeepsWhole ==
    ASSUME WholeInv, NEW c \in Domains, NEW granted \in Quotas, NEW extra \in Quotas,
           NEW init \in Quotas, create_client(c, granted, extra, init)
    PROVE  WholeInv' /\ ReleaseStep
<1> DEFINE n == Least(init, granted)
<1>0. /\ n \in Nat /\ n <= granted /\ granted \in Nat /\ extra \in Nat
      /\ c \in Clients /\ System \in Clients /\ c # System
      /\ \A head \in HeadStarts : head \in Nat
  BY ParameterAssumption, WidthAssumption DEF Least, Clients
<1> HIDE DEF n
<1>1. CASE UNCHANGED vars
  BY <1>1, StutterKeepsWhole
<1>2. CASE \E why \in Stops : Stop(why)
  BY <1>2, StopKeepsWhole
<1>3. ASSUME status = "up", NEW r \in RamRegion,
             NEW i \in 0 .. Mmap[r].len - 1, NEW head \in HeadStarts,
             Take(c, r, i, n),
             client' = [client EXCEPT
               ![c] = [live |-> TRUE, alloc |-> n, guaranteed |-> granted,
                       extra |-> IF extra < granted THEN granted ELSE extra,
                       list |-> add_range(<<>>, head, Mmap[r].start + i, n, 1),
                       head |-> head],
               ![System].alloc = (@ + n) % Word],
             held' = [held EXCEPT ![c] =
                        @ \cup (Mmap[r].start + i .. Mmap[r].start + i + n - 1)],
             UNCHANGED <<heap, sysList, todo, status>>
      PROVE  WholeInv' /\ ReleaseStep
  <2>1. PICK start \in Nat : start = Mmap[r].start + i
    BY RegionFacts
  <2>2. /\ DOMAIN free' = Region
        /\ \A q \in Region : free'[q] \in [0 .. Mmap[q].len - 1 -> Nat]
        /\ ramtab' \in [RamFrame -> [owner : Clients \cup {None},
                                     state : {Unused, Mapped}]]
        /\ Released = {}
    BY <1>0, <1>3, TakeTypes, RegionFacts DEF WholeInv
  <2> DEFINE rec == [live |-> TRUE, alloc |-> n, guaranteed |-> granted,
                     extra |-> IF extra < granted THEN granted ELSE extra,
                     list |-> add_range(<<>>, head, start, n, 1),
                     head |-> head]
             sys == [client[System] EXCEPT !.alloc = (@ + n) % Word]
  <2>3. /\ client \in [Clients -> ClientRecord] /\ held \in [Clients -> SUBSET Nat]
    BY DEF WholeInv, TypeOK
  <2>4. client' = [[client EXCEPT ![c] = rec] EXCEPT ![System] = sys]
    BY <1>0, <1>3, <2>1, <2>3
  <2>5. rec \in ClientRecord /\ rec.alloc <= rec.guaranteed
    <3>1. <<>> \in Seq(ListRange) /\ 1 \in Nat /\ head \in Nat
      BY <1>0
    <3>2. add_range(<<>>, head, start, n, 1) \in Seq(ListRange)
      BY <1>0, <3>1, add_rangeTyped
    <3> QED
      BY <1>0, <3>1, <3>2 DEF ClientRecord
  <2>6. sys \in ClientRecord
    <3>1. client[System] \in ClientRecord
      BY <1>0, <2>3
    <3>2. client[System].alloc \in Nat
      BY <3>1 DEF ClientRecord
    <3>3. \A x \in Nat : (x + n) % Word \in Nat
      BY <1>0, WidthAssumption
    <3>4. (client[System].alloc + n) % Word \in Nat
      BY <3>2, <3>3
    <3> QED
      BY <3>1, <3>4 DEF ClientRecord
  <2> HIDE DEF rec, sys
  <2>7. client' \in [Clients -> ClientRecord]
    <3> HIDE DEF ClientRecord
    <3> QED
      BY <1>0, <2>3, <2>4, <2>5, <2>6
  <2>8. QuotaKept'
    <3> SUFFICES ASSUME NEW d \in Domains
                 PROVE  client'[d].alloc <= client'[d].guaranteed
      BY DEF QuotaKept
    <3>1. d \in Clients /\ d # System /\ client[d].alloc <= client[d].guaranteed
      BY ParameterAssumption DEF Clients, WholeInv, QuotaKept
    <3>2. client'[d] = IF d = c THEN rec ELSE client[d]
      BY <1>0, <2>3, <2>4, <3>1
    <3> QED
      BY <2>5, <3>1, <3>2
  <2>9. held' \in [Clients -> SUBSET Nat]
    <3> DEFINE S == start .. start + n - 1
    <3>1. S \subseteq Nat /\ held' = [held EXCEPT ![c] = held[c] \cup S]
      BY <1>0, <1>3, <2>1
    <3> HIDE DEF S
    <3> QED
      BY <2>3, <3>1
  <2>10. TypeOK'
    BY <1>3, <2>2, <2>7, <2>9 DEF WholeInv, TypeOK
  <2> QED
    BY <1>3, <2>2, <2>8, <2>10 DEF WholeInv, ReleaseStep
<1> QED
  BY <1>1, <1>2, <1>3 DEF create_client, Stops, n

LEMMA createKeepsWhole ==
    ASSUME WholeInv, create
    PROVE  WholeInv' /\ ReleaseStep
<1>0. /\ status = "boot" /\ todo \in DOMAIN Mmap /\ System \in Clients
      /\ \A d \in Domains : d \in Clients /\ d # System
  BY ParameterAssumption DEF create, WholeInv, Clients
<1>1. CASE Stop("misuse")
  BY <1>1, StopKeepsWhole DEF Stops
<1> DEFINE Advance == /\ todo' = todo + 1
                      /\ status' = IF todo = Len(Mmap) THEN "up" ELSE "boot"
                      /\ UNCHANGED <<heap, sysList>>
<1>2. ASSUME Advance
      PROVE  /\ todo' \in Nat /\ status' \in {"boot", "up"}
             /\ heap' = heap /\ sysList' = sysList
             /\ status' = "boot" => todo' \in DOMAIN Mmap
  <2>1. DOMAIN Mmap = 1 .. Len(Mmap) /\ Len(Mmap) \in Nat
    BY MmapAssumption
  <2> QED
    BY <1>0, <1>2, <2>1
<1>3. CASE Advance /\ UNCHANGED <<free, ramtab, client, held>>
  <2>1. TypeOK'
    BY <1>2, <1>3 DEF WholeInv, TypeOK
  <2>2. Released = {}
    BY <1>3 DEF Released
  <2> QED
    BY <1>2, <1>3, <2>1, <2>2 DEF WholeInv, QuotaKept, ReleaseStep
<1>4. ASSUME Advance, NEW r \in Region, get_region(Mmap[todo].start, r),
             MarkUsed(todo, r)
      PROVE  WholeInv' /\ ReleaseStep
  <2> DEFINE first == Mmap[todo].start - Mmap[r].start
             n     == Markable(todo, r)
  <2>1. /\ Take(System, r, first, n)
        /\ client' = [client EXCEPT ![System].alloc = (@ + n) % Word]
        /\ held' = [held EXCEPT ![System] =
                       @ \cup (Mmap[todo].start .. Mmap[todo].start + n - 1)]
    BY <1>4 DEF MarkUsed
  <2>2. /\ Mmap[r].start \in Nat /\ Mmap[r].len \in Nat
        /\ Mmap[todo].start \in Nat /\ Mmap[todo].len \in Nat
    BY <1>0, RegionFacts
  <2>3. first \in 0 .. Mmap[r].len - 1
    BY <1>4, <2>2 DEF get_region, Span
  <2>4. free[r][first] \in Nat
    BY <2>3 DEF WholeInv, TypeOK
  <2>5. n \in Nat
    BY <2>2, <2>4 DEF Markable, Least
  <2> HIDE DEF first, n
  <2>6. /\ DOMAIN free' = Region
        /\ \A q \in Region : free'[q] \in [0 .. Mmap[q].len - 1 -> Nat]
        /\ ramtab' \in [RamFrame -> [owner : Clients \cup {None},
                                     state : {Unused, Mapped}]]
        /\ Released = {}
    BY <1>0, <2>1, <2>3, <2>5, TakeTypes DEF WholeInv
  <2>7. /\ client \in [Clients -> ClientRecord] /\ held \in [Clients -> SUBSET Nat]
    BY DEF WholeInv, TypeOK
  <2>8. client' \in [Clients -> ClientRecord]
    <3>1. (client[System].alloc + n) % Word \in Nat
      BY <1>0, <2>5, <2>7, WidthAssumption DEF ClientRecord
    <3> QED
      BY <1>0, <2>1, <2>7, <3>1 DEF ClientRecord
  <2>9. QuotaKept'
    <3>1. \A d \in Domains : client'[d] = client[d]
      BY <1>0, <2>1, <2>7
    <3> QED
      BY <3>1 DEF WholeInv, QuotaKept
  <2>10. held' \in [Clients -> SUBSET Nat]
    <3> DEFINE S == Mmap[todo].start .. Mmap[todo].start + n - 1
    <3>1. S \subseteq Nat /\ held' = [held EXCEPT ![System] = held[System] \cup S]
      BY <2>1, <2>2, <2>5
    <3> HIDE DEF S
    <3> QED
      BY <2>7, <3>1
  <2>11. TypeOK'
    BY <1>2, <1>4, <2>6, <2>8, <2>10 DEF WholeInv, TypeOK
  <2> QED
    BY <1>2, <1>4, <2>6, <2>9, <2>11 DEF WholeInv, ReleaseStep
<1> QED
  BY <1>1, <1>3, <1>4 DEF create

LEMMA map_frameKeepsWhole ==
    ASSUME WholeInv, NEW f \in Mappable, map_frame(f)
    PROVE  WholeInv' /\ ReleaseStep
<1>1. CASE Stop("misuse")
  BY <1>1, StopKeepsWhole DEF Stops
<1>2. CASE /\ ramtab' = [ramtab EXCEPT ![f].state = Mapped]
           /\ UNCHANGED <<free, client, heap, sysList, todo, status, held>>
  <2>1. f \in RamFrame /\ ramtab \in [RamFrame ->
            [owner : Clients \cup {None}, state : {Unused, Mapped}]]
    BY ParameterAssumption DEF WholeInv, TypeOK
  <2>2. /\ ramtab' \in [RamFrame -> [owner : Clients \cup {None},
                                     state : {Unused, Mapped}]]
        /\ \A p \in RamFrame : ramtab'[p].owner = ramtab[p].owner
    BY <1>2, <2>1
  <2>3. TypeOK'
    BY <1>2, <2>2 DEF WholeInv, TypeOK
  <2>4. Released = {}
    BY <2>2 DEF Released
  <2> QED
    BY <1>2, <2>3, <2>4 DEF WholeInv, QuotaKept, ReleaseStep
<1> QED
  BY <1>1, <1>2 DEF map_frame

(* A counter that free writes, and one that it leaves alone.               *)
LEMMA FreedValues ==
    ASSUME NEW fr, NEW first, NEW n, NEW j \in DOMAIN fr
    PROVE  \/ Freed(fr, first, n)[j] = (fr[first + n] + (first + n - j) + 1) % Word
           \/ Freed(fr, first, n)[j] = fr[j]
<1> DEFINE Run == \/ j \in first .. first + n
                  \/ j < first /\ \A k \in j .. first - 1 : fr[k] # 0
<1>1. Freed(fr, first, n)[j] = IF Run THEN (fr[first + n] + (first + n - j) + 1) % Word
                                      ELSE fr[j]
  BY Zenon DEF Freed
<1> HIDE DEF Run
<1> QED
  BY <1>1, Zenon

(* free takes the frames it checked, and no others, from the caller.       *)
LEMMA free_framesKeepsWhole ==
    ASSUME WholeInv, NEW c \in Clients, NEW f \in Addresses, NEW k \in Sizes,
           free_frames(c, f, k)
    PROVE  WholeInv' /\ ReleaseStep
<1>0. f \in Nat /\ k \in Nat /\ c # None
  <2>1. k \in 0 .. Space /\ f \in Nat /\ c # None
    BY ParameterAssumption
  <2> QED
    BY <2>1, WidthAssumption
<1>1. CASE \E why \in Stops : Stop(why)
  BY <1>1, StopKeepsWhole
<1>2. ASSUME NEW r \in Region, NEW first, first = f - Mmap[r].start,
             get_region(f, r), Freeable(c, r, f, k), first # 0,
             first + k < Mmap[r].len,
             free' = [free EXCEPT ![r] = Freed(@, first, k)],
             ramtab' = [p \in RamFrame |->
                          IF r \in RamRegion /\ p \in f .. f + k - 1
                          THEN [owner |-> None, state |-> Unused]
                          ELSE ramtab[p]],
             client' = [client EXCEPT ![c].alloc = IF @ < k THEN 0 ELSE @ - k],
             held' = [held EXCEPT ![c] = @ \ (f .. f + k - 1)],
             UNCHANGED <<heap, sysList, todo, status>>
      PROVE  WholeInv' /\ ReleaseStep
  <2>1. /\ Mmap[r].start \in Nat /\ Mmap[r].len \in Nat
        /\ first \in 0 .. Mmap[r].len - 1 /\ first + k \in 0 .. Mmap[r].len - 1
    BY <1>0, <1>2, RegionFacts DEF get_region, Span
  <2>2. /\ DOMAIN free = Region
        /\ \A q \in Region : free[q] \in [0 .. Mmap[q].len - 1 -> Nat]
        /\ ramtab \in [RamFrame -> [owner : Clients \cup {None},
                                    state : {Unused, Mapped}]]
        /\ client \in [Clients -> ClientRecord] /\ held \in [Clients -> SUBSET Nat]
    BY DEF WholeInv, TypeOK
  <2>3. /\ DOMAIN free' = Region
        /\ \A q \in Region : free'[q] \in [0 .. Mmap[q].len - 1 -> Nat]
    <3>1. Freed(free[r], first, k) \in [0 .. Mmap[r].len - 1 -> Nat]
      <4>1. free[r] \in [0 .. Mmap[r].len - 1 -> Nat] /\ free[r][first + k] \in Nat
        BY <2>1, <2>2
      <4>2. \A x \in Int : x % Word \in Nat
        BY WidthAssumption
      <4> DEFINE g == Freed(free[r], first, k)
      <4>5. ASSUME NEW j \in 0 .. Mmap[r].len - 1
            PROVE  g[j] \in Nat
        <5> DEFINE x == free[r][first + k] + (first + k - j) + 1
        <5>1. free[r][first + k] \in Int /\ first \in Int /\ k \in Int /\ j \in Int
          BY <1>0, <2>1, <4>1
        <5>2. x \in Int
          BY <5>1
        <5>3. j \in DOMAIN free[r] /\ free[r][j] \in Nat
          BY <4>1
        <5>4. g[j] = x % Word \/ g[j] = free[r][j]
          BY <5>3, FreedValues
        <5> HIDE DEF x
        <5>5. x % Word \in Nat
          BY <4>2, <5>2
        <5> QED
          BY <5>3, <5>4, <5>5
      <4>6. g = [j \in 0 .. Mmap[r].len - 1 |-> g[j]]
        BY <4>1 DEF Freed
      <4> QED
        BY <4>5, <4>6
    <3>2. \A q \in Region : free'[q] = IF q = r THEN Freed(free[r], first, k) ELSE free[q]
      BY <1>2, <2>2
    <3>3. DOMAIN free' = Region
      BY <1>2, <2>2
    <3> QED
      BY <2>2, <3>1, <3>2, <3>3
  <2>4. ramtab' \in [RamFrame -> [owner : Clients \cup {None}, state : {Unused, Mapped}]]
    BY <1>2, <2>2
  <2> DEFINE a == IF client[c].alloc < k THEN 0 ELSE client[c].alloc - k
             new == [client[c] EXCEPT !.alloc = a]
  <2>5. client' = [client EXCEPT ![c] = new]
    BY <1>2, <2>2 DEF ClientRecord
  <2>6. /\ client[c].alloc \in Nat /\ client[c].guaranteed \in Nat
        /\ a \in Nat /\ a <= client[c].alloc /\ a \in {client[c].alloc - k, 0}
    BY <1>0, <2>2 DEF ClientRecord
  <2> HIDE DEF a
  <2>7. new \in ClientRecord /\ new.alloc = a /\ new.guaranteed = client[c].guaranteed
    BY <2>2, <2>6 DEF ClientRecord
  <2> HIDE DEF new
  <2>8. client' \in [Clients -> ClientRecord] /\ client'[c] = new
    <3> HIDE DEF ClientRecord
    <3> QED
      BY <2>2, <2>5, <2>7
  <2>9. QuotaKept'
    <3> SUFFICES ASSUME NEW d \in Domains
                 PROVE  client'[d].alloc <= client'[d].guaranteed
      BY DEF QuotaKept
    <3>1. d \in Clients /\ client[d].alloc <= client[d].guaranteed
      BY DEF Clients, WholeInv, QuotaKept
    <3>2. client'[d] = IF d = c THEN new ELSE client[d]
      BY <2>2, <2>5, <3>1
    <3> QED
      BY <2>6, <2>7, <3>1, <3>2
  <2>10. held' \in [Clients -> SUBSET Nat]
    <3> DEFINE S == f .. f + k - 1
    <3>1. held' = [held EXCEPT ![c] = held[c] \ S]
      BY <1>2
    <3> HIDE DEF S
    <3> QED
      BY <2>2, <3>1
  <2>11. TypeOK'
    BY <1>2, <2>3, <2>4, <2>8, <2>10 DEF WholeInv, TypeOK
  <2>12. ReleaseStep
    <3> SUFFICES ASSUME Released # {}
                 PROVE  /\ \A p \in Released : ramtab[p] = [owner |-> c, state |-> Unused]
                        /\ client'[c].alloc \in {client[c].alloc - Cardinality(Released), 0}
      BY DEF ReleaseStep
    <3>1. r \in RamRegion /\ \A p \in Released : p \in f .. f + k - 1
      BY <1>2 DEF Released
    <3>2. \A p \in f .. f + k - 1 : /\ p \in RamFrame
                                    /\ ramtab[p] = [owner |-> c, state |-> Unused]
      BY <1>2, <3>1 DEF Freeable
    <3>3. \A p \in f .. f + k - 1 : ramtab[p].owner # None /\ ramtab'[p].owner = None
      BY <1>0, <1>2, <3>1, <3>2
    <3>4. Released = f .. f + k - 1
      BY <3>1, <3>2, <3>3 DEF Released
    <3>5. Cardinality(f .. f + k - 1) = k
      BY <1>0, RangeCounts
    <3> QED
      BY <2>6, <2>7, <2>8, <3>2, <3>4, <3>5
  <2> QED
    BY <1>2, <2>9, <2>11, <2>12 DEF WholeInv
<1> QED
  BY <1>1, <1>2 DEF free_frames, Stops

LEMMA NextKeepsWhole ==
    ASSUME WholeInv, [Next]_vars
    PROVE  WholeInv' /\ ReleaseStep
<1>1. CASE UNCHANGED vars
  BY <1>1, StutterKeepsWhole
<1>2. CASE create
  BY <1>2, createKeepsWhole
<1>3. CASE finish_init
  <2>1. CASE Stop("misuse")
    BY <2>1, StopKeepsWhole DEF Stops
  <2>2. CASE /\ heap' = TRUE
             /\ UNCHANGED <<free, ramtab, client, sysList, todo, status, held>>
    <3>1. TypeOK'
      BY <2>2 DEF WholeInv, TypeOK
    <3>2. Released = {}
      BY <2>2 DEF Released
    <3> QED
      BY <2>2, <3>1, <3>2 DEF WholeInv, QuotaKept, ReleaseStep
  <2> QED
    BY <1>3, <2>1, <2>2 DEF finish_init
<1>4. CASE \E c \in Domains, q, x, i \in Quotas : create_client(c, q, x, i)
  BY <1>4, create_clientKeepsWhole
<1>5. CASE \E c \in Clients, k \in Sizes, g \in Granules : allocate(c, k, g)
  BY <1>5, allocateKeepsWhole
<1>6. CASE \E f \in Mappable : map_frame(f)
  BY <1>6, map_frameKeepsWhole
<1>7. CASE Halted
  BY <1>7, StutterKeepsWhole DEF Halted
<1>8. CASE RangeCalls
  BY <1>8, allocate_rangeKeepsWhole DEF RangeCalls
<1>9. CASE FreeCalls
  BY <1>9, free_framesKeepsWhole DEF FreeCalls
<1>10. CASE \E c \in Clients : destroy(c)
  BY <1>10, StopKeepsWhole DEF destroy, Stops
<1> QED
  BY <1>1, <1>2, <1>3, <1>4, <1>5, <1>6, <1>7, <1>8, <1>9, <1>10 DEF Next, NextAlloc

LEMMA SpecWholeInv == Spec => []WholeInv
<1>1. WholeInv /\ [Next]_vars => WholeInv'
  BY NextKeepsWhole
<1> QED
  BY <1>1, InitWholeInv, PTL DEF Spec

(* No sequence of calls of the whole interface, frees and requests for     *)
(* addresses included, brings a domain's account above its guarantee: the  *)
(* quota test is made on the very sum that is stored, so that even a sum   *)
(* that wraps stays below the guarantee.                                   *)
THEOREM QuotasAreKept == Spec => []QuotaKept
<1>1. WholeInv => QuotaKept
  BY DEF WholeInv
<1> QED
  BY <1>1, SpecWholeInv, PTL

(* Only free takes frames of RAM from their owner; it takes them from one  *)
(* client, when none of them is mapped, and takes as many off that         *)
(* client's account as it releases, or all that is left.                   *)
THEOREM ReleasesAreAccounted == Spec => ReleaseAccounted
<1>1. WholeInv /\ [Next]_vars => [ReleaseStep]_vars
  BY NextKeepsWhole
<1>2. Spec => [][ReleaseStep]_vars
  BY <1>1, SpecWholeInv, PTL DEF Spec
<1> QED
  BY <1>2 DEF ReleaseAccounted, ReleaseStep
=============================================================================
