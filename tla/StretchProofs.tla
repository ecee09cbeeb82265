---------------------------- MODULE StretchProofs ----------------------------
(***************************************************************************)
(* Theorems about StretchAllocator: pages are handed out once and none is  *)
(* lost, shadow entries name the last stretch, and frames back pages, for  *)
(* address spaces, memory maps and tables of every size.                   *)
(***************************************************************************)
EXTENDS StretchAllocator, FiniteSetTheorems, TLAPS

Ext(rg) == Span(rg.start, rg.n)

(* The pools: regions end inside the address space, and no two overlap.    *)
InSpace == \A a \in Allocators : \A rg \in pool[a] : rg.start + rg.n <= Pages

PoolsApart ==
    \A a, b \in Allocators : \A rg \in pool[a], other \in pool[b] :
        (a = b /\ rg = other) \/ Ext(rg) \cap Ext(other) = {}

Pooled == pool \in [Allocators -> SUBSET VirtRegion] /\ InSpace /\ PoolsApart

-----------------------------------------------------------------------------
(* Ranges of pages.                                                        *)

LEMMA Constants ==
    /\ Pages \in Nat /\ Pages > 0 /\ SysPages \in 1 .. Pages - 1
    /\ SidMax \in Nat /\ TableSpan \in Nat /\ TableSpan > 0 /\ TableMax \in Nat
    /\ BootMapped \subseteq Page /\ System \notin Nailed
    /\ Sizes \subseteq 0 .. Pages - 1 /\ Starts \subseteq Address
    /\ None \notin Sid /\ None \notin Stretch
    /\ AnyAddress \notin [page : Page, inside : BOOLEAN]
BY SizeAssumption

(* A range that does not reach the end of the address space does not wrap. *)
LEMMA SpanIsInterval ==
    ASSUME NEW p \in Nat, NEW n \in Nat, p + n <= Pages
    PROVE  Span(p, n) = p .. p + n - 1
<1>1. \A i \in 0 .. n - 1 : (p + i) % Pages = p + i
  BY Constants
<1>2. ASSUME NEW x \in p .. p + n - 1
      PROVE  x \in Span(p, n)
  <2>1. x - p \in 0 .. n - 1 /\ p + (x - p) = x
    OBVIOUS
  <2>2. (p + (x - p)) % Pages \in Span(p, n)
    BY <2>1 DEF Span
  <2>3. (p + (x - p)) % Pages = p + (x - p)
    BY <1>1, <2>1
  <2> QED
    BY <2>1, <2>2, <2>3
<1>3. ASSUME NEW x \in Span(p, n)
      PROVE  x \in p .. p + n - 1
  <2>1. PICK i \in 0 .. n - 1 : x = (p + i) % Pages
    BY DEF Span
  <2> QED
    BY <1>1, <2>1
<1> QED
  BY <1>2, <1>3

LEMMA SpanType ==
    ASSUME NEW p \in Nat, NEW n \in Nat
    PROVE  Span(p, n) \subseteq Page
BY Constants DEF Span, Page

(* The pieces that are left of a region are inside of it, apart from each  *)
(* other and from what was taken, and cover the rest.                      *)
Fits(rg, p, n) ==
    /\ rg \in VirtRegion /\ rg.start + rg.n <= Pages
    /\ p \in Page /\ n \in Nat
    /\ rg.start <= p /\ p + n <= rg.start + rg.n

LEMMA CarveFacts ==
    ASSUME NEW rg, NEW p, NEW n, Fits(rg, p, n)
    PROVE  /\ Span(p, n) \subseteq Ext(rg)
           /\ \A c \in Carve(rg, p, n) :
                 /\ c \in VirtRegion /\ c.start + c.n <= Pages
                 /\ Ext(c) \subseteq Ext(rg) \ Span(p, n)
           /\ \A c, e \in Carve(rg, p, n) : c = e \/ Ext(c) \cap Ext(e) = {}
           /\ \A x \in Ext(rg) : \/ x \in Span(p, n)
                                 \/ \E c \in Carve(rg, p, n) : x \in Ext(c)
<1> DEFINE c1 == [start |-> rg.start, n |-> p - rg.start]
           c2 == [start |-> p + n, n |-> rg.start + rg.n - (p + n)]
<1>1. /\ rg.start \in Nat /\ rg.n \in Nat /\ rg.start + rg.n <= Pages
      /\ p \in Nat /\ n \in Nat /\ rg.start <= p /\ p + n <= rg.start + rg.n
      /\ Pages \in Nat
  BY Constants DEF Fits, VirtRegion, Page
<1>2. Ext(rg) = rg.start .. rg.start + rg.n - 1 /\ Span(p, n) = p .. p + n - 1
  BY <1>1, SpanIsInterval DEF Ext
<1>3. /\ c1 \in VirtRegion <=> rg.start < p
      /\ c2 \in VirtRegion <=> p + n < rg.start + rg.n
  BY <1>1 DEF VirtRegion, Page
<1>4. Ext(c1) = rg.start .. p - 1
  <2>1. c1.start = rg.start /\ c1.n = p - rg.start
    OBVIOUS
  <2>2. rg.start + (p - rg.start) = p /\ p - rg.start \in Nat
    BY <1>1
  <2> QED
    BY <1>1, <2>1, <2>2, SpanIsInterval DEF Ext
<1>5. Ext(c2) = p + n .. rg.start + rg.n - 1
  <2>1. c2.start = p + n /\ c2.n = rg.start + rg.n - (p + n)
    OBVIOUS
  <2>2. /\ (p + n) + (rg.start + rg.n - (p + n)) = rg.start + rg.n
        /\ rg.start + rg.n - (p + n) \in Nat /\ p + n \in Nat
    BY <1>1
  <2> QED
    BY SMTT(30), <1>1, <2>1, <2>2, SpanIsInterval DEF Ext
<1>6. Carve(rg, p, n) = {c1, c2} \cap VirtRegion
  BY DEF Carve
<1>7. c1.start + c1.n <= Pages /\ c2.start + c2.n <= Pages
  BY <1>1
<1> HIDE DEF c1, c2
<1>8. Span(p, n) \subseteq Ext(rg)
  BY <1>1, <1>2
<1>9. Ext(c1) \subseteq Ext(rg) \ Span(p, n) /\ Ext(c2) \subseteq Ext(rg) \ Span(p, n)
  BY SMTT(30), <1>1, <1>2, <1>4, <1>5
<1>10. Ext(c1) \cap Ext(c2) = {}
  BY <1>1, <1>4, <1>5
<1>11. ASSUME NEW x \in Ext(rg), x \notin Span(p, n)
       PROVE  \E c \in Carve(rg, p, n) : x \in Ext(c)
  <2>1. x \in rg.start .. p - 1 \/ x \in p + n .. rg.start + rg.n - 1
    BY <1>1, <1>2, <1>11
  <2>2. CASE x \in rg.start .. p - 1
    BY <1>1, <1>3, <1>4, <1>6, <2>2
  <2>3. CASE x \in p + n .. rg.start + rg.n - 1
    BY <1>1, <1>3, <1>5, <1>6, <2>3
  <2> QED
    BY <2>1, <2>2, <2>3
<1> QED
  BY <1>6, <1>7, <1>8, <1>9, <1>10, <1>11

-----------------------------------------------------------------------------
(* What vm_alloc takes out of a pool.                                      *)

LEMMA VmAllocFits ==
    ASSUME Pooled, NEW a \in Allocators, NEW n \in Nat, NEW start \in Address,
           NEW rg \in pool[a], NEW p \in Page, vm_alloc(a, n, start, rg, p)
    PROVE  Fits(rg, p, n)
<1>1. rg \in VirtRegion /\ rg.start + rg.n <= Pages
  BY DEF Pooled, InSpace
<1>2. rg \in Suitable(a, n, start) /\ p = Place(start, rg)
  BY DEF vm_alloc, Chosen
<1>3. rg.start \in Nat /\ rg.n \in Nat /\ p \in Nat
  BY <1>1, Constants DEF VirtRegion, Page
<1>4. CASE start = AnyAddress
  BY <1>1, <1>2, <1>3, <1>4 DEF Suitable, Place, Fits
<1>5. CASE start # AnyAddress
  BY <1>1, <1>2, <1>3, <1>5 DEF Suitable, Place, Fits
<1> QED
  BY <1>4, <1>5

(* The pool of a after the range has been taken: exactly its pages are no  *)
(* longer free.                                                            *)
LEMMA WithoutFacts ==
    ASSUME Pooled, NEW a \in Allocators, NEW rg \in pool[a], NEW p, NEW n,
           Fits(rg, p, n)
    PROVE  /\ \A r \in Without(a, rg, p, n) :
                 /\ r \in VirtRegion /\ r.start + r.n <= Pages
                 /\ Ext(r) \subseteq FreePages(a) \ Span(p, n)
           /\ \A r, q \in Without(a, rg, p, n) : r = q \/ Ext(r) \cap Ext(q) = {}
           /\ Span(p, n) \subseteq FreePages(a)
           /\ \A x \in FreePages(a) \ Span(p, n) :
                 \E r \in Without(a, rg, p, n) : x \in Ext(r)
<1> DEFINE C == Carve(rg, p, n)
           T == Span(p, n)
<1>1. /\ T \subseteq Ext(rg)
      /\ \A c \in C : /\ c \in VirtRegion /\ c.start + c.n <= Pages
                      /\ Ext(c) \subseteq Ext(rg) \ T
      /\ \A c, e \in C : c = e \/ Ext(c) \cap Ext(e) = {}
      /\ \A x \in Ext(rg) : x \in T \/ \E c \in C : x \in Ext(c)
  BY CarveFacts
<1>2. Without(a, rg, p, n) = (pool[a] \ {rg}) \cup C
  BY DEF Without
<1>3. /\ \A r \in pool[a] : r \in VirtRegion /\ r.start + r.n <= Pages
      /\ \A r, q \in pool[a] : r = q \/ Ext(r) \cap Ext(q) = {}
  BY DEF Pooled, InSpace, PoolsApart
<1>4. \A x : x \in FreePages(a) <=> \E r \in pool[a] : x \in Ext(r)
  BY DEF FreePages, Ext
<1> HIDE DEF C, T
<1>5. ASSUME NEW r \in pool[a] \ {rg}
      PROVE  /\ Ext(r) \cap Ext(rg) = {} /\ Ext(r) \cap T = {}
             /\ Ext(r) \subseteq FreePages(a)
  BY <1>1, <1>3, <1>4, <1>5
<1>6. ASSUME NEW r \in (pool[a] \ {rg}) \cup C
      PROVE  /\ r \in VirtRegion /\ r.start + r.n <= Pages
             /\ Ext(r) \subseteq FreePages(a) \ T
  <2>1. CASE r \in C
    BY <1>1, <1>4, <2>1
  <2>2. CASE r \in pool[a] \ {rg}
    BY <1>3, <1>5, <2>2
  <2> QED
    BY <1>6, <2>1, <2>2
<1>7. ASSUME NEW r \in (pool[a] \ {rg}) \cup C, NEW q \in (pool[a] \ {rg}) \cup C, r # q
      PROVE  Ext(r) \cap Ext(q) = {}
  <2>1. CASE r \in C /\ q \in C
    BY <1>1, <1>7, <2>1
  <2>2. CASE r \in C /\ q \in pool[a] \ {rg}
    BY <1>1, <1>5, <2>2
  <2>3. CASE r \in pool[a] \ {rg} /\ q \in C
    BY <1>1, <1>5, <2>3
  <2>4. CASE r \in pool[a] \ {rg} /\ q \in pool[a] \ {rg}
    BY <1>3, <1>7, <2>4
  <2> QED
    BY <1>7, <2>1, <2>2, <2>3, <2>4
<1>8. T \subseteq FreePages(a)
  BY <1>1, <1>4
<1>9. ASSUME NEW x \in FreePages(a) \ T
      PROVE  \E r \in (pool[a] \ {rg}) \cup C : x \in Ext(r)
  <2>1. PICK r \in pool[a] : x \in Ext(r)
    BY <1>4, <1>9
  <2> QED
    BY <1>1, <1>9, <2>1
<1> QED
  BY <1>2, <1>6, <1>7, <1>8, <1>9 DEF T
(* A step in which exactly the pages T leave the pool of a.                *)
Takes(a, T) ==
    /\ Pooled'
    /\ T \subseteq FreePages(a)
    /\ FreePages(a)' = FreePages(a) \ T
    /\ \A b \in Allocators \ {a} : FreePages(b)' = FreePages(b)

LEMMA PagesOfPools ==
    ASSUME NEW a
    PROVE  \A x : x \in FreePages(a) <=> \E r \in pool[a] : x \in Ext(r)
BY DEF FreePages, Ext

LEMMA FreeOnce ==
    ASSUME Pooled, NEW a \in Allocators, NEW b \in Allocators, a # b
    PROVE  FreePages(a) \cap FreePages(b) = {}
<1> SUFFICES ASSUME NEW x \in FreePages(a), x \in FreePages(b)
             PROVE  FALSE
  OBVIOUS
<1>1. PICK r \in pool[a] : x \in Ext(r)
  BY PagesOfPools
<1>2. PICK q \in pool[b] : x \in Ext(q)
  BY PagesOfPools
<1> QED
  BY <1>1, <1>2 DEF Pooled, PoolsApart

LEMMA PoolUpdated ==
    ASSUME Pooled, NEW a \in Allocators, NEW rg \in pool[a], NEW p, NEW n,
           Fits(rg, p, n), pool' = [pool EXCEPT ![a] = Without(a, rg, p, n)]
    PROVE  Takes(a, Span(p, n))
<1> DEFINE W == Without(a, rg, p, n)
           T == Span(p, n)
<1>1. /\ \A r \in W : /\ r \in VirtRegion /\ r.start + r.n <= Pages
                      /\ Ext(r) \subseteq FreePages(a) \ T
      /\ \A r, q \in W : r = q \/ Ext(r) \cap Ext(q) = {}
      /\ T \subseteq FreePages(a)
      /\ \A x \in FreePages(a) \ T : \E r \in W : x \in Ext(r)
  BY WithoutFacts
<1> HIDE DEF W, T
<1>2. pool \in [Allocators -> SUBSET VirtRegion]
  BY DEF Pooled
<1>3. /\ pool' \in [Allocators -> SUBSET VirtRegion] /\ pool'[a] = W
      /\ \A b \in Allocators \ {a} : pool'[b] = pool[b]
  <2>1. W \in SUBSET VirtRegion
    BY <1>1
  <2> QED
    BY <1>2, <2>1 DEF W
<1>4. InSpace'
  BY <1>1, <1>3 DEF Pooled, InSpace
<1>5. \A b : \A x : x \in FreePages(b)' <=> \E r \in pool'[b] : x \in Ext(r)
  BY DEF FreePages, Ext
<1>6. FreePages(a)' = FreePages(a) \ T
  BY <1>1, <1>3, <1>5
<1>7. ASSUME NEW b \in Allocators \ {a}
      PROVE  FreePages(b)' = FreePages(b)
  BY <1>3 DEF FreePages
<1>8. ASSUME NEW b \in Allocators, NEW c \in Allocators,
             NEW r \in pool'[b], NEW q \in pool'[c], ~(b = c /\ r = q)
      PROVE  Ext(r) \cap Ext(q) = {}
  <2>1. CASE b = a /\ c = a
    BY <1>1, <1>3, <1>8, <2>1
  <2>2. CASE b # a /\ c # a
    BY <1>3, <1>8, <2>2 DEF Pooled, PoolsApart
  <2>3. CASE b = a /\ c # a
    <3>1. Ext(r) \subseteq FreePages(a) /\ Ext(q) \subseteq FreePages(c)
      BY <1>1, <1>3, <2>3, PagesOfPools
    <3> QED
      BY <2>3, <3>1, FreeOnce
  <2>4. CASE b # a /\ c = a
    <3>1. Ext(r) \subseteq FreePages(b) /\ Ext(q) \subseteq FreePages(a)
      BY <1>1, <1>3, <2>4, PagesOfPools
    <3> QED
      BY <2>4, <3>1, FreeOnce
  <2> QED
    BY <2>1, <2>2, <2>3, <2>4
<1>9. PoolsApart'
  BY <1>8 DEF PoolsApart
<1> QED
  BY <1>1, <1>3, <1>4, <1>6, <1>7, <1>9 DEF Takes, Pooled, T

-----------------------------------------------------------------------------
(* The L2 tables.                                                          *)

(* Every set of naturals has a least element.                              *)
LEMMA LeastElement ==
    ASSUME NEW S \in SUBSET Nat, S # {}
    PROVE  \E m \in S : \A k \in S : m <= k
<1> DEFINE R == OpToRel(<, Nat)
<1>1. IsWellFoundedOn(R, Nat)
  BY NatLessThanWellFounded
<1> HIDE DEF R
<1>2. PICK m \in S : \A k \in S : ~(<<k, m>> \in R)
  BY <1>1, WFMin
<1>3. \A k, l \in Nat : k < l => <<k, l>> \in R
  BY DEF R, OpToRel
<1>4. \A k \in S : ~(k < m)
  BY <1>2, <1>3
<1> QED
  BY <1>4

AllTables == {p \div TableSpan : p \in Page}

LEMMA TablesFinite == IsFiniteSet(AllTables)
<1> DEFINE f == [p \in Page |-> p \div TableSpan]
<1>1. IsFiniteSet(Page)
  BY Constants, FS_Interval DEF Page
<1>2. f \in Surjection(Page, AllTables)
  BY DEF Surjection, AllTables
<1> HIDE DEF f
<1> QED
  BY <1>1, <1>2, FS_Surjection

LEMMA TableOfPage ==
    ASSUME NEW x \in Nat
    PROVE  TableOf(x) \in AllTables
<1>1. x % Pages \in Page
  BY Constants DEF Page
<1> QED
  BY <1>1 DEF TableOf, AllTables

(* add_page fails only when the tables have run out: as long as one is     *)
(* left after a range has been entered, all of its pages have entries.     *)
LEMMA EnteredAll ==
    ASSUME tables \subseteq AllTables, NEW p \in Nat, NEW n \in Nat,
           NEW more, more \subseteq AllTables, tables \subseteq more,
           \A i \in Entered(p, n) : TableOf(p + i) \in more,
           Cardinality(more) < TableMax
    PROVE  Entered(p, n) = 0 .. n - 1
<1>1. IsFiniteSet(more) /\ IsFiniteSet(tables)
  BY TablesFinite, FS_Subset
<1>2. \A i \in Nat : NewTables(p, i) \subseteq AllTables
  BY TableOfPage DEF NewTables
<1>3. \A i \in Nat : IsFiniteSet(NewTables(p, i))
  BY <1>2, TablesFinite, FS_Subset
<1> DEFINE Missing == (0 .. n - 1) \ Entered(p, n)
<1> SUFFICES ASSUME Missing # {}
             PROVE  FALSE
  BY DEF Entered
<1>4. PICK i \in Missing : \A k \in Missing : i <= k
  <2>1. Missing \in SUBSET Nat
    OBVIOUS
  <2> QED
    BY <2>1, LeastElement
<1>5. i \in 0 .. n - 1 /\ i \notin Entered(p, n) /\ \A k \in 0 .. i - 1 : k \in Entered(p, n)
  BY <1>4
<1> DEFINE before == NewTables(p, i) \ {TableOf(p + i)}
<1>6. before \subseteq more \ tables
  <2> SUFFICES ASSUME NEW x \in before
               PROVE  x \in more /\ x \notin tables
    OBVIOUS
  <2>1. x \in {TableOf(p + j) : j \in 0 .. i} /\ x \notin tables /\ x # TableOf(p + i)
    BY DEF NewTables
  <2>2. PICK j \in 0 .. i : x = TableOf(p + j)
    BY <2>1
  <2>3. j \in 0 .. i - 1
    BY <1>5, <2>1, <2>2
  <2> QED
    BY <1>5, <2>1, <2>2, <2>3
<1>7. IsFiniteSet(before) /\ IsFiniteSet(more \ tables)
  BY <1>1, <1>3, <1>5, FS_Subset
<1>8. Cardinality(before) <= Cardinality(more \ tables)
  BY <1>6, <1>7, FS_Subset
<1>9. Cardinality(more \ tables) = Cardinality(more) - Cardinality(tables)
  <2>1. more \cap tables = tables
    OBVIOUS
  <2> QED
    BY <1>1, <2>1, FS_Difference
<1>10. Cardinality(NewTables(p, i)) <= Cardinality(before) + 1
  <2>1. i \in Nat /\ IsFiniteSet(NewTables(p, i))
    BY <1>3, <1>5
  <2>2. Cardinality(before) = IF TableOf(p + i) \in NewTables(p, i)
                              THEN Cardinality(NewTables(p, i)) - 1
                              ELSE Cardinality(NewTables(p, i))
    BY <2>1, FS_RemoveElement
  <2> QED
    BY <2>1, <2>2, FS_CardinalityType
<1>11. /\ Cardinality(more) \in Nat /\ Cardinality(tables) \in Nat
       /\ Cardinality(before) \in Nat /\ Cardinality(NewTables(p, i)) \in Nat
  BY <1>1, <1>3, <1>5, <1>7, FS_CardinalityType
<1>12. Cardinality(tables) + Cardinality(NewTables(p, i)) <= TableMax
  BY <1>8, <1>9, <1>10, <1>11, Constants
<1> QED
  BY <1>5, <1>12 DEF Entered

(* add_range and add_mapped_range.                                         *)
LEMMA AddPagesFacts ==
    ASSUME TypeOK, NEW s \in Sid, NEW p \in Page, NEW n \in Nat, p + n <= Pages,
           NEW valid \in BOOLEAN, add_pages(s, p, n, valid)
    PROVE  /\ tables \subseteq tables' /\ tables' \subseteq AllTables
           /\ shadow' \in [Page -> Sid \cup {None}] /\ present' \subseteq Page
           /\ \A q \in Page \ Span(p, n) : shadow'[q] = shadow[q]
           /\ \A q \in present \ Span(p, n) : q \in present'
           /\ Cardinality(tables') < TableMax =>
                 /\ Cardinality(tables) < TableMax
                 /\ \A q \in Span(p, n) : shadow'[q] = s /\ (valid => q \in present')
<1> DEFINE done == {(p + i) % Pages : i \in Entered(p, n)}
<1>1. /\ tables' = tables \cup {TableOf(q) : q \in done}
      /\ shadow' = [q \in Page |-> IF q \in done THEN s ELSE shadow[q]]
      /\ present' = IF valid THEN present \cup done ELSE present \ done
  BY DEF add_pages
<1>2. Entered(p, n) \subseteq 0 .. n - 1 /\ p \in Nat
  BY Constants DEF Entered, Page
<1>3. done \subseteq Span(p, n) /\ Span(p, n) \subseteq Page
  BY <1>2, SpanType DEF Span
<1>4. /\ tables \subseteq AllTables /\ shadow \in [Page -> Sid \cup {None}]
      /\ present \subseteq Page
  BY DEF TypeOK, AllTables
<1>5. \A i \in 0 .. n - 1 : (p + i) % Pages = p + i /\ p + i \in Nat
  BY <1>2, Constants
<1>6. done = {p + i : i \in Entered(p, n)}
  BY <1>2, <1>5
<1> HIDE DEF done
<1>7. tables \subseteq tables' /\ tables' \subseteq AllTables
  <2>1. \A q \in done : TableOf(q) \in AllTables
    BY <1>3, TableOfPage DEF Page
  <2> QED
    BY <1>1, <1>4, <2>1
<1>8. shadow' \in [Page -> Sid \cup {None}] /\ present' \subseteq Page
  BY <1>1, <1>3, <1>4
<1>9. \A q \in Page \ Span(p, n) : shadow'[q] = shadow[q]
  BY <1>1, <1>3
<1>10. \A q \in present \ Span(p, n) : q \in present'
  BY <1>1, <1>3
<1>11. ASSUME Cardinality(tables') < TableMax
       PROVE  /\ Cardinality(tables) < TableMax
              /\ \A q \in Span(p, n) : shadow'[q] = s /\ (valid => q \in present')
  <2>1. IsFiniteSet(tables')
    BY <1>7, TablesFinite, FS_Subset
  <2>2. /\ Cardinality(tables) <= Cardinality(tables')
        /\ Cardinality(tables) \in Nat /\ Cardinality(tables') \in Nat
    BY <1>7, <2>1, FS_Subset, FS_CardinalityType
  <2>3. \A i \in Entered(p, n) : TableOf(p + i) \in tables'
    BY <1>1, <1>6
  <2>4. Entered(p, n) = 0 .. n - 1
    BY <1>2, <1>4, <1>7, <1>11, <2>3, EnteredAll
  <2>5. Span(p, n) = done
    BY <1>5, <1>6, <2>4 DEF Span
  <2> QED
    BY <1>1, <1>3, <1>11, <2>2, <2>5, Constants
<1> QED
  BY <1>7, <1>8, <1>9, <1>10, <1>11
-----------------------------------------------------------------------------
(* The inductive invariant.                                                *)

OwnPages    == UNION {StretchPages(s) : s \in OwnSids}
NailedPages == UNION {StretchPages(s) : s \in NailedSids}

StretchesApart ==
    \A s, t \in OwnSids : s = t \/ StretchPages(s) \cap StretchPages(t) = {}

FreeApart ==
    \A a \in Allocators :
        /\ FreePages(a) \cap (reserved \cup lost) = {}
        /\ FreePages(a) \cap OwnPages = {}

Accounted ==
    \A x \in Page : \/ x \in reserved \cup lost \/ x \in OwnPages
                    \/ \E a \in Allocators : x \in FreePages(a)

(* SIDs are given out in ascending order and none is given back, only the  *)
(* nailed allocators' stretches have frames, and an allocator that does    *)
(* not exist yet has no pages.                                             *)
Numbered == \A s \in UsedSids : \A t \in Sid : t < s => t \in UsedSids
Owned    == NailedSids \subseteq OwnSids
Idle     == \A a \in Allocators \ live : pool[a] = {}

(* The memory map: what create has gone through is reserved.               *)
Booted ==
    /\ status = "boot" => todo \in 1 .. Len(Entries)
    /\ status = "up" => todo > Len(Entries)
    /\ \A i \in 1 .. Len(Entries) :
          i < todo /\ Entries[i].type \in ReservedTypes /\ Entries[i].start # AnyAddress
              => Span(Entries[i].start.page, Entries[i].len) \subseteq reserved

Inv ==
    /\ TypeOK /\ Pooled
    /\ StretchesApart /\ FreeApart /\ Accounted
    /\ Numbered /\ Owned /\ Idle /\ Booted
    /\ ShadowLatest /\ NailedBacked

(* What a step never does to the pages taken out of the pool at boot.      *)
ReservedMapped == reserved \cap present \subseteq present'

-----------------------------------------------------------------------------
(* create_stretch.                                                         *)

Added(s, a, T, over) ==
    /\ s \in Sid \ UsedSids /\ tab' \in [Sid -> Stretch \cup {None}]
    /\ UsedSids' = UsedSids \cup {s}
    /\ \A t \in UsedSids : t < s
    /\ \A t \in UsedSids : StretchPages(t)' = StretchPages(t)
    /\ StretchPages(s)' = T
    /\ OwnSids' = IF over THEN OwnSids ELSE OwnSids \cup {s}
    /\ NailedSids' = IF a = System THEN NailedSids ELSE NailedSids \cup {s}
    /\ Numbered'

LEMMA StretchAdded ==
    ASSUME TypeOK, Numbered, NEW s \in Sid, NEW a \in Allocators, NEW p \in Page,
           NEW n \in Nat, NEW over \in BOOLEAN, create_stretch(s, a, p, n, over)
    PROVE  Added(s, a, Span(p, n), over)
<1> DEFINE rec == [base |-> p, n |-> n, by |-> a, over |-> over]
<1>1. tab \in [Sid -> Stretch \cup {None}] /\ tab' = [tab EXCEPT ![s] = rec]
  BY DEF TypeOK, create_stretch
<1>2. /\ rec \in Stretch /\ rec # None
      /\ rec.base = p /\ rec.n = n /\ rec.by = a /\ rec.over = over
  BY Constants DEF Stretch
<1> HIDE DEF rec
<1>3. /\ tab' \in [Sid -> Stretch \cup {None}] /\ tab'[s] = rec
      /\ \A t \in Sid \ {s} : tab'[t] = tab[t]
  BY <1>1, <1>2
<1>4. s \in Sid \ UsedSids /\ \A t \in Sid \ UsedSids : s <= t
  BY DEF create_stretch, alloc_sid, FreeSids, UsedSids
<1>5. UsedSids' = UsedSids \cup {s}
  BY <1>2, <1>3, <1>4 DEF UsedSids
<1>6. Sid \subseteq Nat /\ \A t \in UsedSids : t \in Sid \ {s}
  BY <1>4, Constants DEF Sid, UsedSids
<1>7. \A t \in UsedSids : t < s
  <2> SUFFICES ASSUME NEW t \in UsedSids
               PROVE  t < s
    OBVIOUS
  <2>1. s < t => s \in UsedSids
    BY DEF Numbered
  <2>2. s \in Nat /\ t \in Nat /\ s # t
    BY <1>6
  <2> QED
    BY <1>4, <2>1, <2>2
<1>8. \A t \in UsedSids : StretchPages(t)' = StretchPages(t)
  BY <1>3, <1>6 DEF StretchPages
<1>9. StretchPages(s)' = Span(p, n)
  BY <1>2, <1>3 DEF StretchPages
<1>10. OwnSids' = IF over THEN OwnSids ELSE OwnSids \cup {s}
  BY <1>2, <1>3, <1>4, <1>5, <1>6 DEF OwnSids
<1>11. NailedSids' = IF a = System THEN NailedSids ELSE NailedSids \cup {s}
  BY <1>2, <1>3, <1>4, <1>5, <1>6 DEF NailedSids
<1>12. Numbered'
  <2> SUFFICES ASSUME NEW u \in UsedSids', NEW t \in Sid, t < u
               PROVE  t \in UsedSids'
    BY DEF Numbered
  <2>1. CASE u \in UsedSids
    BY <1>5, <2>1 DEF Numbered
  <2>2. CASE u = s
    BY <1>4, <1>5, <1>6, <2>2
  <2> QED
    BY <1>5, <2>1, <2>2
<1> QED
  BY <1>3, <1>4, <1>5, <1>7, <1>8, <1>9, <1>10, <1>11, <1>12 DEF Added

(* The shadow entries after a stretch has been created over the pages T.   *)
LEMMA ShadowKept ==
    ASSUME ShadowLatest, NEW s, NEW a, NEW T, NEW over, Added(s, a, T, over),
           T \subseteq Page,
           Cardinality(tables') < TableMax =>
              Cardinality(tables) < TableMax /\ \A q \in T : shadow'[q] = s,
           \A q \in Page \ T : shadow'[q] = shadow[q]
    PROVE  ShadowLatest'
<1> SUFFICES ASSUME Cardinality(tables') < TableMax, NEW q \in Page
             PROVE  LET over1 == {t \in UsedSids' : q \in StretchPages(t)'}
                    IN  \/ over1 = {} /\ shadow'[q] = None
                        \/ shadow'[q] \in over1 /\ \A t \in over1 : t <= shadow'[q]
  BY DEF ShadowLatest
<1> DEFINE old == {t \in UsedSids : q \in StretchPages(t)}
           new == {t \in UsedSids' : q \in StretchPages(t)'}
<1>1. /\ s \in Sid \ UsedSids /\ UsedSids' = UsedSids \cup {s}
      /\ \A t \in UsedSids : t < s
      /\ \A t \in UsedSids : StretchPages(t)' = StretchPages(t)
      /\ StretchPages(s)' = T
  BY DEF Added
<1>2. \/ old = {} /\ shadow[q] = None
      \/ shadow[q] \in old /\ \A t \in old : t <= shadow[q]
  BY DEF ShadowLatest
<1>3. CASE q \in T
  <2>1. new = old \cup {s} /\ shadow'[q] = s
    BY <1>1, <1>3
  <2>2. s \in Int /\ \A t \in old : t < s /\ t \in Int
    BY <1>1, Constants DEF UsedSids, Sid
  <2> QED
    BY <2>1, <2>2
<1>4. CASE q \notin T
  <2>1. new = old /\ shadow'[q] = shadow[q]
    BY <1>1, <1>4
  <2> QED
    BY <1>2, <2>1
<1> QED
  BY <1>3, <1>4

-----------------------------------------------------------------------------
(* Pages that leave a pool: they are reserved or lost, or become a stretch *)
(* N = {s}.                                                                *)
LEMMA TakenOnce ==
    ASSUME Inv, NEW a \in Allocators, NEW T, Takes(a, T), NEW N,
           OwnSids' = OwnSids \cup N, N \cap OwnSids = {},
           \A t \in OwnSids : StretchPages(t)' = StretchPages(t),
           \A t \in N : StretchPages(t)' = T, \A t, u \in N : t = u,
           reserved' \cup lost' = (reserved \cup lost) \cup (IF N = {} THEN T ELSE {})
    PROVE  StretchesApart' /\ FreeApart' /\ Accounted'
<1>1. StretchesApart /\ FreeApart /\ Accounted /\ Pooled
  BY DEF Inv
<1>2. /\ T \subseteq FreePages(a) /\ FreePages(a)' = FreePages(a) \ T
      /\ \A b \in Allocators \ {a} : FreePages(b)' = FreePages(b)
  BY DEF Takes
<1>3. /\ \A b \in Allocators \ {a} : FreePages(b) \cap T = {}
      /\ \A b \in Allocators : FreePages(b)' \cap T = {} /\ FreePages(b)' \subseteq FreePages(b)
      /\ T \cap (reserved \cup lost) = {} /\ T \cap OwnPages = {}
  <2>1. \A b \in Allocators \ {a} : FreePages(b) \cap T = {}
    BY <1>1, <1>2, FreeOnce
  <2> QED
    BY <1>1, <1>2, <2>1 DEF FreeApart
<1>4. \A t \in OwnSids : StretchPages(t) \subseteq OwnPages
  BY DEF OwnPages
<1>5. OwnPages' = IF N = {} THEN OwnPages ELSE OwnPages \cup T
  BY DEF OwnPages
<1>6. StretchesApart'
  <2> SUFFICES ASSUME NEW s \in OwnSids', NEW t \in OwnSids', s # t
               PROVE  StretchPages(s)' \cap StretchPages(t)' = {}
    BY DEF StretchesApart
  <2>1. CASE s \in OwnSids /\ t \in OwnSids
    BY <1>1, <2>1 DEF StretchesApart
  <2>2. CASE s \in N /\ t \in OwnSids
    BY <1>3, <1>4, <2>2
  <2>3. CASE s \in OwnSids /\ t \in N
    BY <1>3, <1>4, <2>3
  <2> QED
    BY <2>1, <2>2, <2>3
<1>7. FreeApart'
  <2> SUFFICES ASSUME NEW b \in Allocators
               PROVE  /\ FreePages(b)' \cap (reserved' \cup lost') = {}
                      /\ FreePages(b)' \cap OwnPages' = {}
    BY DEF FreeApart
  <2>1. FreePages(b) \cap (reserved \cup lost) = {} /\ FreePages(b) \cap OwnPages = {}
    BY <1>1 DEF FreeApart
  <2> QED
    BY <1>3, <1>5, <2>1
<1>8. Accounted'
  <2> SUFFICES ASSUME NEW x \in Page
               PROVE  \/ x \in reserved' \cup lost' \/ x \in OwnPages'
                      \/ \E b \in Allocators : x \in FreePages(b)'
    BY DEF Accounted
  <2>1. CASE x \in T
    BY <1>5, <2>1
  <2>2. CASE x \notin T /\ x \in reserved \cup lost
    BY <2>2
  <2>3. CASE x \in OwnPages
    BY <1>5, <2>3
  <2>4. CASE x \notin T /\ \E b \in Allocators : x \in FreePages(b)
    BY <1>2, <2>4
  <2> QED
    BY <1>1, <2>1, <2>2, <2>3, <2>4 DEF Accounted
<1> QED
  BY <1>6, <1>7, <1>8
(* A stretch made from a pool, in nailed_create and create_over.           *)
LEMMA StretchFromPool ==
    ASSUME Inv, NEW a \in Allocators, NEW n \in Nat, NEW p \in Page,
           NEW rg \in pool[a], Fits(rg, p, n),
           pool' = [pool EXCEPT ![a] = Without(a, rg, p, n)],
           NEW s \in Sid, create_stretch(s, a, p, n, FALSE),
           NEW valid \in BOOLEAN, add_pages(s, p, n, valid), a # System => valid,
           set_default_rights(s, a),
           frames' = IF a = System THEN frames ELSE frames + n,
           UNCHANGED <<todo, status, live, pdid, reserved, lost>>
    PROVE  Inv' /\ ReservedMapped
<1> DEFINE T == Span(p, n)
<1>1. /\ TypeOK /\ Pooled /\ Numbered /\ Owned /\ Idle /\ Booted
      /\ ShadowLatest /\ NailedBacked /\ FreeApart
  BY DEF Inv
<1>2. /\ p \in Nat /\ p + n <= Pages /\ T \subseteq Page
      /\ T = p .. p + n - 1 /\ IsFiniteSet(T) /\ Cardinality(T) = n
  <2>1. p \in Nat /\ p + n <= Pages
    BY Constants DEF Fits, VirtRegion, Page
  <2>2. T = p .. p + n - 1
    BY <2>1, SpanIsInterval
  <2>3. IsFiniteSet(p .. p + n - 1) /\ Cardinality(p .. p + n - 1) = n
    <3>1. p \in Int /\ p + n - 1 \in Int /\ (p > p + n - 1 <=> n = 0)
      BY <2>1
    <3>2. /\ IsFiniteSet(p .. p + n - 1)
          /\ Cardinality(p .. p + n - 1) = IF p > p + n - 1 THEN 0 ELSE (p + n - 1) - p + 1
      BY <3>1, FS_Interval
    <3> QED
      BY <2>1, <3>1, <3>2
  <2> QED
    BY <2>1, <2>2, <2>3, SpanType
<1>3. Takes(a, T)
  BY <1>1, PoolUpdated
<1>4. Added(s, a, T, FALSE)
  BY <1>1, StretchAdded
<1>5. /\ tables \subseteq tables' /\ tables' \subseteq AllTables
      /\ shadow' \in [Page -> Sid \cup {None}] /\ present' \subseteq Page
      /\ \A q \in Page \ T : shadow'[q] = shadow[q]
      /\ \A q \in present \ T : q \in present'
      /\ Cardinality(tables') < TableMax =>
            /\ Cardinality(tables) < TableMax
            /\ \A q \in T : shadow'[q] = s /\ (valid => q \in present')
  BY <1>1, <1>2, AddPagesFacts
<1> HIDE DEF T
<1>6. /\ s \in Sid \ UsedSids /\ tab' \in [Sid -> Stretch \cup {None}]
      /\ UsedSids' = UsedSids \cup {s} /\ \A t \in UsedSids : StretchPages(t)' = StretchPages(t)
      /\ StretchPages(s)' = T /\ OwnSids' = OwnSids \cup {s} /\ Numbered'
      /\ NailedSids' = IF a = System THEN NailedSids ELSE NailedSids \cup {s}
  BY <1>4 DEF Added
<1>7. OwnSids \subseteq UsedSids /\ NailedSids \subseteq UsedSids
  BY DEF OwnSids, NailedSids
<1>8. StretchesApart' /\ FreeApart' /\ Accounted'
  <2> DEFINE N == {s}
  <2>1. /\ OwnSids' = OwnSids \cup N /\ N \cap OwnSids = {} /\ N # {}
        /\ \A t \in OwnSids : StretchPages(t)' = StretchPages(t)
        /\ \A t \in N : StretchPages(t)' = T
        /\ \A t, u \in N : t = u
    BY <1>6, <1>7
  <2> HIDE DEF N
  <2>2. reserved' \cup lost' = (reserved \cup lost) \cup (IF N = {} THEN T ELSE {})
    BY <2>1
  <2> QED
    BY <1>3, <2>1, <2>2, TakenOnce
<1>9. ShadowLatest'
  BY <1>1, <1>2, <1>4, <1>5, ShadowKept
<1>10. T \subseteq FreePages(a) /\ T \cap OwnPages = {} /\ T \cap reserved = {} /\ Pooled'
  <2>1. T \subseteq FreePages(a) /\ Pooled'
    BY <1>3 DEF Takes
  <2> QED
    BY <1>1, <2>1 DEF FreeApart
<1>11. NailedPages \subseteq OwnPages /\ NailedPages \subseteq Page
  <2>1. NailedPages \subseteq OwnPages
    BY <1>1 DEF NailedPages, OwnPages, Owned
  <2>2. \A t \in UsedSids : StretchPages(t) \subseteq Page
    BY <1>1, Constants, SpanType DEF StretchPages, UsedSids, TypeOK, Stretch, Page
  <2> QED
    BY <1>7, <2>1, <2>2 DEF NailedPages
<1>12. NailedPages' = IF a = System THEN NailedPages ELSE NailedPages \cup T
  BY <1>6, <1>7 DEF NailedPages
<1>13. NailedBacked'
  <2>1. /\ frames = Cardinality(NailedPages)
        /\ Cardinality(tables) < TableMax => NailedPages \subseteq present
    BY <1>1 DEF NailedBacked, NailedPages
  <2>2. IsFiniteSet(NailedPages)
    <3>1. IsFiniteSet(Page)
      BY Constants, FS_Interval DEF Page
    <3> QED
      BY <1>11, <3>1, FS_Subset
  <2>3. NailedPages \cap T = {}
    BY <1>10, <1>11
  <2>4. Cardinality(NailedPages \cup T) = Cardinality(NailedPages) + n
    <3>1. Cardinality(NailedPages \cap T) = 0
      BY <2>3, FS_EmptySet
    <3>2. Cardinality(NailedPages \cup T) =
             Cardinality(NailedPages) + Cardinality(T) - Cardinality(NailedPages \cap T)
      BY <1>2, <2>2, FS_Union
    <3> QED
      BY <1>2, <2>2, <3>1, <3>2, FS_CardinalityType
  <2>5. frames' = Cardinality(NailedPages')
    BY <1>12, <2>1, <2>4
  <2>6. ASSUME Cardinality(tables') < TableMax
        PROVE  NailedPages' \subseteq present'
    <3>1. NailedPages \subseteq present'
      BY <1>5, <2>1, <2>3, <2>6
    <3> QED
      BY <1>5, <1>12, <2>6, <3>1
  <2> QED
    BY <2>5, <2>6 DEF NailedBacked, NailedPages
<1>14. Owned'
  BY <1>1, <1>6 DEF Owned
<1>15. Idle'
  <2>1. a \in live
    BY <1>1 DEF Idle
  <2> QED
    BY <1>1, <2>1 DEF Idle, Pooled
<1>16. Booted'
  BY <1>1 DEF Booted
<1>17. TypeOK'
  <2>1. rights' \subseteq Sid
    BY <1>1 DEF set_default_rights, TypeOK
  <2>2. frames' \in Nat
    BY <1>1 DEF TypeOK
  <2>3. pool' \in [Allocators -> SUBSET VirtRegion]
    BY <1>10 DEF Pooled
  <2>4. tables' \subseteq {q \div TableSpan : q \in Page}
    BY <1>5 DEF AllTables
  <2> QED
    BY <1>1, <1>5, <1>6, <2>1, <2>2, <2>3, <2>4 DEF TypeOK
<1>18. ReservedMapped
  BY <1>5, <1>10 DEF ReservedMapped
<1> QED
  BY <1>6, <1>8, <1>9, <1>10, <1>13, <1>14, <1>15, <1>16, <1>17, <1>18 DEF Inv

-----------------------------------------------------------------------------
(* The steps.                                                              *)

(* The variables that the parts of the invariant speak of are as before.   *)
LEMMA Same ==
    ASSUME Inv, UNCHANGED <<pool, live, tab, tables, shadow, present, frames,
                            reserved, lost>>,
           TypeOK', Booted'
    PROVE  Inv' /\ ReservedMapped
<1>1. Pooled' /\ Idle'
  BY DEF Inv, Pooled, InSpace, PoolsApart, Idle
<1>2. /\ UsedSids' = UsedSids /\ OwnSids' = OwnSids /\ NailedSids' = NailedSids
      /\ \A s : StretchPages(s)' = StretchPages(s)
      /\ \A a : FreePages(a)' = FreePages(a)
      /\ OwnPages' = OwnPages
  BY DEF UsedSids, OwnSids, NailedSids, StretchPages, FreePages, OwnPages
<1>3. StretchesApart' /\ FreeApart' /\ Accounted' /\ Numbered' /\ Owned'
  BY <1>2 DEF Inv, StretchesApart, FreeApart, Accounted, Numbered, Owned
<1>4. ShadowLatest'
  BY <1>2 DEF Inv, ShadowLatest
<1>5. NailedBacked'
  BY <1>2 DEF Inv, NailedBacked
<1> QED
  BY <1>1, <1>3, <1>4, <1>5 DEF Inv, ReservedMapped

LEMMA StopKeepsInv ==
    ASSUME Inv, NEW why \in Stops, Stop(why)
    PROVE  Inv' /\ ReservedMapped
<1>1. UNCHANGED <<todo, pool, live, tab, rights, pdid, tables, shadow, present, frames,
                  reserved, lost>> /\ status' = why
  BY DEF Stop, mmu
<1>2. TypeOK'
  BY <1>1 DEF Inv, TypeOK
<1>3. Booted'
  BY <1>1 DEF Inv, Booted, Stops
<1> QED
  BY <1>1, <1>2, <1>3, Same

LEMMA StutterKeepsInv ==
    ASSUME Inv, UNCHANGED vars
    PROVE  Inv' /\ ReservedMapped
<1>1. UNCHANGED <<todo, status, pool, live, tab, rights, pdid, tables, shadow, present,
                  frames, reserved, lost>>
  BY DEF vars
<1>2. TypeOK'
  BY <1>1 DEF Inv, TypeOK
<1>3. Booted'
  BY <1>1 DEF Inv, Booted
<1> QED
  BY <1>1, <1>2, <1>3, Same
(* Pages that leave a pool and are reserved, or lost to a failed call.     *)
LEMMA SetAside ==
    ASSUME Inv, NEW a \in Allocators, NEW T, Takes(a, T), T \subseteq Page,
           UNCHANGED <<live, tab, tables, shadow, present, frames>>,
           \/ reserved' = reserved \cup T /\ UNCHANGED lost
           \/ lost' = lost \cup T /\ UNCHANGED reserved,
           a \in live, \A b \in Allocators \ {a} : pool'[b] = pool[b],
           TypeOK', Booted'
    PROVE  Inv' /\ ReservedMapped
<1>1. /\ UsedSids' = UsedSids /\ OwnSids' = OwnSids /\ NailedSids' = NailedSids
      /\ \A s : StretchPages(s)' = StretchPages(s)
  BY DEF UsedSids, OwnSids, NailedSids, StretchPages
<1>2. StretchesApart' /\ FreeApart' /\ Accounted'
  <2> DEFINE N == {}
  <2>1. /\ OwnSids' = OwnSids \cup N /\ N \cap OwnSids = {}
        /\ \A t \in OwnSids : StretchPages(t)' = StretchPages(t)
        /\ \A t \in N : StretchPages(t)' = T
        /\ \A t, u \in N : t = u
        /\ N = {}
    BY <1>1
  <2> HIDE DEF N
  <2>2. reserved' \cup lost' = (reserved \cup lost) \cup (IF N = {} THEN T ELSE {})
    BY <2>1
  <2> QED
    BY <2>1, <2>2, TakenOnce
<1>3. Pooled'
  BY DEF Takes
<1>4. Numbered' /\ Owned' /\ ShadowLatest' /\ NailedBacked'
  BY <1>1 DEF Inv, Numbered, Owned, ShadowLatest, NailedBacked
<1>5. Idle'
  BY DEF Inv, Idle
<1> QED
  BY <1>2, <1>3, <1>4, <1>5 DEF Inv, ReservedMapped

(* One entry of the memory map.                                            *)
LEMMA CreateKeepsInv ==
    ASSUME Inv, create
    PROVE  Inv' /\ ReservedMapped
<1> DEFINE e == Entries[todo]
<1>1. TypeOK /\ Pooled /\ Booted /\ Idle /\ status = "boot" /\ todo \in 1 .. Len(Entries)
  BY DEF Inv, create, Booted
<1>2. e.start \in Address /\ e.len \in Nat
  <2> DEFINE Entry == [start : Address, len : Nat, type : STRING]
  <2>1. Entries \in Seq(Entry)
    BY SizeAssumption
  <2> HIDE DEF Entry
  <2>2. e \in Entry
    BY <1>1, <2>1
  <2> HIDE DEF e
  <2> QED
    BY <2>2 DEF Entry
<1>3. Len(Entries) \in Nat
  BY SizeAssumption
<1>4. CASE \E why \in {"debug_stop", "wild"} : Stop(why)
  BY <1>4, StopKeepsInv DEF Stops
<1>5. ASSUME e.type \notin ReservedTypes, UNCHANGED <<pool, reserved>>,
             todo' = todo + 1, status' = IF todo = Len(Entries) THEN "up" ELSE "boot",
             UNCHANGED <<live, tab, rights, pdid, mmu, frames, lost>>
      PROVE  Inv' /\ ReservedMapped
  <2>1. TypeOK'
    BY <1>1, <1>5 DEF TypeOK, mmu
  <2>2. Booted'
    BY <1>1, <1>3, <1>5 DEF Booted
  <2> QED
    BY <1>5, <2>1, <2>2, Same DEF mmu
<1>6. ASSUME NEW rg \in pool[System], NEW p \in Page,
             vm_alloc(System, e.len, e.start, rg, p),
             pool' = [pool EXCEPT ![System] = Without(System, rg, p, e.len)],
             reserved' = reserved \cup Span(p, e.len),
             todo' = todo + 1, status' = IF todo = Len(Entries) THEN "up" ELSE "boot",
             UNCHANGED <<live, tab, rights, pdid, mmu, frames, lost>>
      PROVE  Inv' /\ ReservedMapped
  <2>1. System \in Allocators
    BY DEF Allocators
  <2>2. Fits(rg, p, e.len)
    BY <1>1, <1>2, <1>6, <2>1, VmAllocFits
  <2>3. Takes(System, Span(p, e.len))
    BY <1>1, <1>6, <2>1, <2>2, PoolUpdated
  <2>4. Span(p, e.len) \subseteq Page
    BY <1>2, Constants, SpanType DEF Page
  <2>5. TypeOK'
    <3>1. pool' \in [Allocators -> SUBSET VirtRegion]
      BY <2>3 DEF Takes, Pooled
    <3> QED
      BY <1>1, <1>6, <2>4, <3>1 DEF TypeOK, mmu
  <2>6. e.start # AnyAddress => p = e.start.page
    BY <1>6 DEF vm_alloc, Place, StartPage
  <2>7. Booted'
    <3>1. /\ status' = "boot" => todo' \in 1 .. Len(Entries)
          /\ status' = "up" => todo' > Len(Entries)
      BY <1>1, <1>3, <1>6
    <3>2. ASSUME NEW i \in 1 .. Len(Entries), i < todo',
                 Entries[i].type \in ReservedTypes, Entries[i].start # AnyAddress
          PROVE  Span(Entries[i].start.page, Entries[i].len) \subseteq reserved'
      <4>1. CASE i = todo
        BY <1>6, <2>6, <3>2, <4>1
      <4>2. CASE i < todo
        BY <1>1, <1>6, <3>2, <4>2 DEF Booted
      <4> QED
        BY <1>1, <1>3, <1>6, <3>2, <4>1, <4>2
    <3> QED
      BY <3>1, <3>2 DEF Booted
  <2>8. System \in live
    BY <1>1, <1>6, <2>1 DEF Idle
  <2>9. \A b \in Allocators \ {System} : pool'[b] = pool[b]
    BY <1>1, <1>6 DEF Pooled
  <2> HIDE DEF e
  <2>10. UNCHANGED <<live, tab, tables, shadow, present, frames>> /\ UNCHANGED lost
    BY <1>6 DEF mmu
  <2> QED
    BY <1>6, <2>1, <2>3, <2>4, <2>5, <2>7, <2>8, <2>9, <2>10, SetAside
<1> QED
  BY <1>4, <1>5, <1>6 DEF create

LEMMA FinishKeepsInv ==
    ASSUME Inv, finish_init
    PROVE  Inv' /\ ReservedMapped
<1>1. UNCHANGED <<todo, status, pool, live, tab, rights, tables, shadow, present, frames,
                  reserved, lost>> /\ pdid' = TRUE
  BY DEF finish_init, mmu
<1>2. TypeOK'
  BY <1>1 DEF Inv, TypeOK
<1>3. Booted'
  BY <1>1 DEF Inv, Booted
<1> QED
  BY <1>1, <1>2, <1>3, Same

LEMMA NailedCreateKeepsInv ==
    ASSUME Inv, NEW a \in Nailed, NEW n \in Sizes, nailed_create(a, n)
    PROVE  Inv' /\ ReservedMapped
<1>1. TypeOK /\ Pooled /\ Booted /\ Idle
  BY DEF Inv
<1>2. a \in Allocators /\ a # System /\ n \in Nat /\ a \in live
  BY Constants DEF Allocators, nailed_create
<1>3. CASE UNCHANGED vars
  BY <1>3, StutterKeepsInv
<1>4. CASE \E why \in {"wild", "out_of_memory"} : Stop(why)
  BY <1>4, StopKeepsInv DEF Stops
<1>5. CASE FramesReturned(n) /\ UNCHANGED <<todo, status, pool, live, tab, rights, pdid, mmu,
                                           reserved, lost>>
  BY <1>5, StutterKeepsInv DEF FramesReturned, mmu, vars
<1>6. ASSUME NEW rg \in pool[a], NEW p \in Page,
             vm_alloc(a, n, AnyAddress, rg, p),
             pool' = [pool EXCEPT ![a] = Without(a, rg, p, n)],
             \/ \E s \in Sid : /\ create_stretch(s, a, p, n, FALSE)
                               /\ add_pages(s, p, n, TRUE)
                               /\ set_default_rights(s, a)
                               /\ frames' = frames + n
                               /\ UNCHANGED lost
             \/ /\ FramesReturned(n)
                /\ lost' = lost \cup Span(p, n)
                /\ UNCHANGED <<tab, rights, mmu>>,
             UNCHANGED <<todo, status, live, pdid, reserved>>
      PROVE  Inv' /\ ReservedMapped
  <2>1. Fits(rg, p, n)
    BY <1>1, <1>2, <1>6, VmAllocFits DEF Address
  <2>2. ASSUME NEW s \in Sid, create_stretch(s, a, p, n, FALSE),
               add_pages(s, p, n, TRUE), set_default_rights(s, a),
               frames' = frames + n, UNCHANGED lost
        PROVE  Inv' /\ ReservedMapped
    BY <1>2, <1>6, <2>1, <2>2, StretchFromPool
  <2>3. ASSUME FramesReturned(n), lost' = lost \cup Span(p, n), UNCHANGED <<tab, rights, mmu>>
        PROVE  Inv' /\ ReservedMapped
    <3>1. Takes(a, Span(p, n))
      BY <1>1, <1>2, <1>6, <2>1, PoolUpdated
    <3>2. Span(p, n) \subseteq Page
      BY <1>2, Constants, SpanType DEF Page
    <3>3. UNCHANGED <<tab, rights, tables, shadow, present, frames>>
      BY <2>3 DEF mmu, FramesReturned
    <3>4. TypeOK'
      <4>1. pool' \in [Allocators -> SUBSET VirtRegion]
        BY <3>1 DEF Takes, Pooled
      <4> QED
        BY <1>1, <1>6, <2>3, <3>2, <3>3, <4>1 DEF TypeOK
    <3>5. Booted'
      BY <1>1, <1>6 DEF Booted
    <3>6. \A b \in Allocators \ {a} : pool'[b] = pool[b]
      BY <1>1, <1>6 DEF Pooled
    <3> QED
      BY <1>2, <1>6, <2>3, <3>1, <3>2, <3>3, <3>4, <3>5, <3>6, SetAside
  <2> QED
    BY <1>6, <2>2, <2>3
<1> QED
  BY <1>3, <1>4, <1>5, <1>6 DEF nailed_create

(* A nailed allocator gets its pages from the system allocator.            *)
LEMMA CreateNailedKeepsInv ==
    ASSUME Inv, NEW a \in Nailed, create_nailed(a)
    PROVE  Inv' /\ ReservedMapped
<1> DEFINE n == SysPages
<1>1. TypeOK /\ Pooled /\ Booted /\ Idle /\ StretchesApart /\ FreeApart /\ Accounted
  BY DEF Inv
<1>2. a \in Allocators /\ a # System /\ n \in 1 .. Pages - 1 /\ a \notin live
      /\ System \in Allocators /\ n \in Nat /\ Pages \in Nat
  BY Constants DEF Allocators, create_nailed
<1>3. CASE \E why \in {"debug_stop", "wild"} : Stop(why)
  BY <1>3, StopKeepsInv DEF Stops
<1>4. ASSUME NEW rg \in pool[System], NEW p \in Page,
             vm_alloc(System, n, AnyAddress, rg, p),
             pool' = [pool EXCEPT ![System] = Without(System, rg, p, n),
                                  ![a] = {[start |-> p, n |-> n]}],
             live' = live \cup {a},
             UNCHANGED <<todo, status, tab, rights, pdid, mmu, frames, reserved, lost>>
      PROVE  Inv' /\ ReservedMapped
  <2> DEFINE W == Without(System, rg, p, n)
             T == Span(p, n)
             new == [start |-> p, n |-> n]
  <2>1. Fits(rg, p, n)
    BY <1>1, <1>2, <1>4, VmAllocFits DEF Address
  <2>2. /\ \A r \in W : /\ r \in VirtRegion /\ r.start + r.n <= Pages
                        /\ Ext(r) \subseteq FreePages(System) \ T
        /\ \A r, q \in W : r = q \/ Ext(r) \cap Ext(q) = {}
        /\ T \subseteq FreePages(System)
        /\ \A x \in FreePages(System) \ T : \E r \in W : x \in Ext(r)
    BY <1>1, <1>2, <2>1, WithoutFacts
  <2>3. new \in VirtRegion /\ new.start + new.n <= Pages /\ Ext(new) = T
    <3>1. p + n <= Pages
      BY <1>2, <2>1, Constants DEF Fits, VirtRegion, Page
    <3> QED
      BY <1>2, <3>1 DEF VirtRegion, Ext
  <2>4. pool' = [pool EXCEPT ![System] = W, ![a] = {new}]
    BY <1>4
  <2> HIDE DEF W, T, new, n
  <2>5. /\ pool' \in [Allocators -> SUBSET VirtRegion]
        /\ pool'[System] = W /\ pool'[a] = {new}
        /\ \A b \in Allocators \ {System, a} : pool'[b] = pool[b]
    <3>1. W \in SUBSET VirtRegion /\ {new} \in SUBSET VirtRegion
      BY <2>2, <2>3
    <3> QED
      BY <1>1, <1>2, <2>4, <3>1 DEF Pooled
  <2>6. \A b : \A x : x \in FreePages(b)' <=> \E r \in pool'[b] : x \in Ext(r)
    BY DEF FreePages, Ext
  <2>7. /\ FreePages(System)' = FreePages(System) \ T
        /\ FreePages(a)' = T
        /\ \A b \in Allocators \ {System, a} : FreePages(b)' = FreePages(b)
    <3>1. FreePages(System)' = FreePages(System) \ T
      BY <2>2, <2>5, <2>6
    <3>2. FreePages(a)' = T
      <4>1. \A x : x \in FreePages(a)' <=> \E r \in {new} : x \in Ext(r)
        BY <2>5, <2>6
      <4> QED
        BY <2>3, <4>1
    <3>3. \A b \in Allocators \ {System, a} : FreePages(b)' = FreePages(b)
      BY <2>5 DEF FreePages
    <3> QED
      BY <3>1, <3>2, <3>3
  <2>8. \A b \in Allocators, c \in Allocators : b # c => FreePages(b)' \cap FreePages(c)' = {}
    <3> SUFFICES ASSUME NEW b \in Allocators, NEW c \in Allocators, b # c,
                        NEW x \in FreePages(b)', x \in FreePages(c)'
                 PROVE  FALSE
      OBVIOUS
    <3>1. \A d \in Allocators, f \in Allocators : d # f => FreePages(d) \cap FreePages(f) = {}
      BY <1>1, FreeOnce
    <3>2. CASE b # a /\ c # a
      BY <2>7, <3>1, <3>2
    <3>3. CASE b = a \/ c = a
      BY <1>2, <2>2, <2>7, <3>1, <3>3
    <3> QED
      BY <3>2, <3>3
  <2>9. Pooled'
    <3>1. InSpace'
      BY <1>1, <1>2, <2>2, <2>3, <2>5 DEF InSpace, Pooled
    <3>2. ASSUME NEW b \in Allocators, NEW c \in Allocators,
                 NEW r \in pool'[b], NEW q \in pool'[c], ~(b = c /\ r = q)
          PROVE  Ext(r) \cap Ext(q) = {}
      <4>1. CASE b # c
        <5>1. Ext(r) \subseteq FreePages(b)' /\ Ext(q) \subseteq FreePages(c)'
          BY <2>6
        <5> QED
          BY <2>8, <4>1, <5>1
      <4>2. CASE b = c /\ b = System
        BY <2>2, <2>5, <3>2, <4>2
      <4>3. CASE b = c /\ b = a
        BY <2>5, <3>2, <4>3
      <4>4. CASE b = c /\ b # a /\ b # System
        BY <1>1, <2>5, <3>2, <4>4 DEF Pooled, PoolsApart
      <4> QED
        BY <4>1, <4>2, <4>3, <4>4
    <3>3. PoolsApart'
      BY <3>2 DEF PoolsApart
    <3> QED
      BY <2>5, <3>1, <3>3 DEF Pooled
  <2>10. UNCHANGED <<todo, status, tab, rights, pdid, tables, shadow, present, frames,
                     reserved, lost>>
    BY <1>4 DEF mmu
  <2>11. /\ UsedSids' = UsedSids /\ OwnSids' = OwnSids /\ NailedSids' = NailedSids
         /\ \A s : StretchPages(s)' = StretchPages(s)
    BY <2>10 DEF UsedSids, OwnSids, NailedSids, StretchPages
  <2>12. OwnPages' = OwnPages
    BY <2>11 DEF OwnPages
  <2>13. StretchesApart' /\ Numbered' /\ Owned' /\ ShadowLatest' /\ NailedBacked'
    <3>1. StretchesApart' /\ Numbered' /\ Owned'
      BY <2>11 DEF Inv, StretchesApart, Numbered, Owned
    <3>2. ShadowLatest'
      BY <2>10, <2>11 DEF Inv, ShadowLatest
    <3>3. NailedBacked'
      BY <2>10, <2>11 DEF Inv, NailedBacked
    <3> QED
      BY <3>1, <3>2, <3>3
  <2>14. FreeApart'
    <3> SUFFICES ASSUME NEW b \in Allocators
                 PROVE  /\ FreePages(b)' \cap (reserved \cup lost) = {}
                        /\ FreePages(b)' \cap OwnPages = {}
      BY <2>10, <2>12 DEF FreeApart
    <3>1. \A c \in Allocators : /\ FreePages(c) \cap (reserved \cup lost) = {}
                                /\ FreePages(c) \cap OwnPages = {}
      BY <1>1 DEF FreeApart
    <3>2. FreePages(b)' \subseteq FreePages(System) \/ FreePages(b)' = FreePages(b)
      BY <2>2, <2>7
    <3> QED
      BY <1>2, <3>1, <3>2
  <2>15. Accounted'
    <3> SUFFICES ASSUME NEW x \in Page
                 PROVE  \/ x \in reserved \cup lost \/ x \in OwnPages
                        \/ \E b \in Allocators : x \in FreePages(b)'
      BY <2>10, <2>12 DEF Accounted
    <3>1. FreePages(a) = {}
      BY <1>1, <1>2 DEF Idle, FreePages
    <3> QED
      BY <1>1, <1>2, <2>7, <3>1 DEF Accounted
  <2>16. Idle'
    BY <1>1, <1>2, <1>4, <2>5 DEF Idle
  <2>17. Booted'
    BY <1>1, <2>10 DEF Booted
  <2>18. TypeOK'
    BY <1>1, <1>2, <1>4, <2>5, <2>10 DEF TypeOK
  <2> QED
    BY <2>9, <2>10, <2>13, <2>14, <2>15, <2>16, <2>17, <2>18 DEF Inv, ReservedMapped
<1> QED
  BY <1>3, <1>4 DEF create_nailed

(* create_over where nothing is free: a stretch over pages in use.         *)
LEMMA OverlayKeepsInv ==
    ASSUME Inv, NEW n \in Nat, NEW p \in Page, NEW s \in Sid,
           create_stretch(s, System, p, n, TRUE), update_range(s, p, n),
           set_default_rights(s, System),
           UNCHANGED <<todo, status, pool, live, pdid, frames, reserved, lost>>
    PROVE  Inv' /\ ReservedMapped
<1> DEFINE T == Span(p, n)
<1>1. TypeOK /\ Pooled /\ Numbered /\ Booted /\ Idle /\ ShadowLatest /\ NailedBacked
  BY DEF Inv
<1>2. System \in Allocators /\ T \subseteq Page
  BY Constants, SpanType DEF Allocators, Page
<1>3. Added(s, System, T, TRUE)
  BY <1>1, <1>2, StretchAdded
<1>4. /\ shadow' = [q \in Page |-> IF q \in T THEN s ELSE shadow[q]]
      /\ present' = present \cup T /\ tables' = tables
  BY DEF update_range
<1> HIDE DEF T
<1>5. /\ tab' \in [Sid -> Stretch \cup {None}] /\ UsedSids' = UsedSids \cup {s}
      /\ OwnSids' = OwnSids /\ NailedSids' = NailedSids /\ Numbered'
      /\ \A t \in UsedSids : StretchPages(t)' = StretchPages(t)
  BY <1>3 DEF Added
<1>6. OwnSids \subseteq UsedSids /\ NailedSids \subseteq UsedSids
  BY DEF OwnSids, NailedSids
<1>7. OwnPages' = OwnPages /\ NailedPages' = NailedPages
  BY <1>5, <1>6 DEF OwnPages, NailedPages
<1>8. \A a : FreePages(a)' = FreePages(a)
  BY DEF FreePages
<1>9. StretchesApart' /\ FreeApart' /\ Accounted' /\ Owned'
  BY <1>5, <1>6, <1>7, <1>8 DEF Inv, StretchesApart, FreeApart, Accounted, Owned
<1>10. ShadowLatest'
  <2>1. /\ \A q \in T : shadow'[q] = s
        /\ \A q \in Page \ T : shadow'[q] = shadow[q]
    BY <1>2, <1>4
  <2> QED
    BY <1>1, <1>2, <1>3, <1>4, <2>1, ShadowKept
<1>11. NailedBacked'
  <2>1. /\ frames = Cardinality(NailedPages)
        /\ Cardinality(tables) < TableMax => NailedPages \subseteq present
    BY <1>1 DEF NailedBacked, NailedPages
  <2>2. /\ frames' = Cardinality(NailedPages')
        /\ Cardinality(tables') < TableMax => NailedPages' \subseteq present'
    BY <1>4, <1>7, <2>1
  <2> QED
    BY <2>2 DEF NailedBacked, NailedPages
<1>12. Pooled' /\ Idle'
  BY <1>1 DEF Pooled, InSpace, PoolsApart, Idle
<1>13. Booted'
  BY <1>1 DEF Booted
<1>14. TypeOK'
  <2>1. rights' \subseteq Sid
    BY <1>1 DEF set_default_rights, TypeOK
  <2>2. shadow' \in [Page -> Sid \cup {None}] /\ present' \subseteq Page
    BY <1>1, <1>2, <1>4 DEF TypeOK
  <2> QED
    BY <1>1, <1>4, <1>5, <2>1, <2>2 DEF TypeOK
<1> QED
  BY <1>4, <1>5, <1>9, <1>10, <1>11, <1>12, <1>13, <1>14 DEF Inv, ReservedMapped

LEMMA CreateOverKeepsInv ==
    ASSUME Inv, NEW n \in Sizes, NEW start \in Starts, create_over(n, start)
    PROVE  Inv' /\ ReservedMapped
<1>1. n \in Nat /\ start \in Address /\ System \in Allocators /\ Pooled
  BY Constants DEF Allocators, Inv
<1>2. CASE \E why \in Stops : Stop(why)
  BY <1>2, StopKeepsInv
<1>3. ASSUME NEW rg \in pool[System], NEW p \in Page, NEW s \in Sid,
             vm_alloc(System, n, start, rg, p),
             pool' = [pool EXCEPT ![System] = Without(System, rg, p, n)],
             create_stretch(s, System, p, n, FALSE),
             add_pages(s, p, n, FALSE),
             set_default_rights(s, System),
             UNCHANGED <<todo, status, live, pdid, frames, reserved, lost>>
      PROVE  Inv' /\ ReservedMapped
  <2>1. Fits(rg, p, n)
    BY <1>1, <1>3, VmAllocFits
  <2> QED
    BY <1>1, <1>3, <2>1, StretchFromPool
<1>4. ASSUME NEW s \in Sid, create_stretch(s, System, Overlaid(start), n, TRUE),
             update_range(s, Overlaid(start), n), set_default_rights(s, System),
             UNCHANGED <<todo, status, pool, live, pdid, frames, reserved, lost>>
      PROVE  Inv' /\ ReservedMapped
  <2>1. Overlaid(start) \in Page
    BY <1>1, Constants DEF Overlaid, Address, Page
  <2> QED
    BY <1>1, <1>4, <2>1, OverlayKeepsInv
<1> QED
  BY <1>2, <1>3, <1>4 DEF create_over, Stops

LEMMA InitInv ==
    ASSUME Init
    PROVE  Inv
<1> DEFINE all == [start |-> 0, n |-> Pages]
<1>1. all \in VirtRegion /\ all.start + all.n <= Pages /\ Ext(all) = Page
  <2>1. 0 + Pages <= Pages /\ Pages \in Nat /\ 0 \in Nat
    BY Constants
  <2>2. Span(0, Pages) = 0 .. 0 + Pages - 1
    BY <2>1, SpanIsInterval
  <2> QED
    BY <2>1, <2>2, Constants DEF VirtRegion, Page, Ext
<1>2. pool = [a \in Allocators |-> IF a = System THEN {all} ELSE {}]
  BY DEF Init
<1> HIDE DEF all
<1>3. Pooled
  BY <1>1, <1>2 DEF Pooled, InSpace, PoolsApart
<1>4. UsedSids = {} /\ OwnSids = {} /\ NailedSids = {}
  BY DEF Init, UsedSids, OwnSids, NailedSids
<1>5. StretchesApart /\ Numbered /\ Owned /\ Idle
  BY <1>2, <1>4 DEF StretchesApart, Numbered, Owned, Idle, Init
<1>6. OwnPages = {} /\ NailedPages = {}
  BY <1>4 DEF OwnPages, NailedPages
<1>7. FreeApart /\ Accounted
  <2>1. System \in Allocators /\ FreePages(System) = Page
    <3>1. System \in Allocators
      BY DEF Allocators
    <3>2. \A x : x \in FreePages(System) <=> \E r \in {all} : x \in Ext(r)
      BY <1>2, <3>1, PagesOfPools
    <3> QED
      BY <1>1, <3>1, <3>2
  <2> QED
    BY <1>6, <2>1 DEF FreeApart, Accounted, Init
<1>8. ShadowLatest
  BY <1>4 DEF ShadowLatest, Init
<1>9. NailedBacked
  BY <1>6, FS_EmptySet DEF NailedBacked, NailedPages, Init
<1>10. Booted
  <2>1. Len(Entries) \in Nat /\ (Entries # <<>> => Len(Entries) >= 1)
        /\ (Entries = <<>> => Len(Entries) = 0)
    BY SizeAssumption
  <2> QED
    BY <2>1 DEF Booted, Init
<1>11. TypeOK
  <2>1. pool \in [Allocators -> SUBSET VirtRegion]
    BY <1>3 DEF Pooled
  <2>2. tables \subseteq {p \div TableSpan : p \in Page}
    BY Constants DEF Init
  <2>3. live \subseteq Allocators /\ present \subseteq Page
    BY Constants DEF Init, Allocators
  <2> QED
    BY <2>1, <2>2, <2>3 DEF TypeOK, Init
<1> QED
  BY <1>3, <1>5, <1>7, <1>8, <1>9, <1>10, <1>11 DEF Inv

LEMMA NextInv ==
    ASSUME Inv, [Next]_vars
    PROVE  Inv' /\ ReservedMapped
<1>1. CASE UNCHANGED vars
  BY <1>1, StutterKeepsInv
<1>2. CASE create
  BY <1>2, CreateKeepsInv
<1>3. CASE finish_init
  BY <1>3, FinishKeepsInv
<1>4. ASSUME NEW a \in Nailed, NEW n \in Sizes, nailed_create(a, n)
      PROVE  Inv' /\ ReservedMapped
  BY <1>4, NailedCreateKeepsInv
<1>5. ASSUME NEW a \in Allocators, stubs(a)
      PROVE  Inv' /\ ReservedMapped
  BY <1>5, StutterKeepsInv, StopKeepsInv DEF stubs, Stops
<1>6. ASSUME NEW a \in Nailed, create_nailed(a)
      PROVE  Inv' /\ ReservedMapped
  BY <1>6, CreateNailedKeepsInv
<1>7. ASSUME NEW n \in Sizes, NEW start \in Starts, create_over(n, start)
      PROVE  Inv' /\ ReservedMapped
  BY <1>7, CreateOverKeepsInv
<1>8. CASE Halted
  BY <1>8, StutterKeepsInv DEF Halted
<1> QED
  BY <1>1, <1>2, <1>3, <1>4, <1>5, <1>6, <1>7, <1>8 DEF Next

LEMMA SpecInv == Spec => []Inv
<1>1. Init => Inv
  BY InitInv
<1>2. Inv /\ [Next]_vars => Inv'
  BY NextInv
<1> QED
  BY <1>1, <1>2, PTL DEF Spec

-----------------------------------------------------------------------------
(* The theorems.                                                           *)

(* vm_alloc never hands out a page twice, whatever is split or carved out  *)
(* of the list of regions.                                                 *)
THEOREM AllocationsAreExclusive == Spec => []AllocationsExclusive
<1>1. Inv => AllocationsExclusive
  <2> SUFFICES ASSUME Inv
               PROVE  AllocationsExclusive
    OBVIOUS
  <2>1. \A a, b \in Allocators : \A rg \in pool[a], other \in pool[b] :
          \/ a = b /\ rg = other
          \/ Span(rg.start, rg.n) \cap Span(other.start, other.n) = {}
    BY DEF Inv, Pooled, PoolsApart, Ext
  <2>2. \A s, t \in OwnSids : s = t \/ StretchPages(s) \cap StretchPages(t) = {}
    BY DEF Inv, StretchesApart
  <2>3. \A s \in OwnSids : StretchPages(s) \subseteq OwnPages
    BY DEF OwnPages
  <2>4. \A a \in Allocators :
          /\ FreePages(a) \cap (reserved \cup lost) = {}
          /\ \A s \in OwnSids : FreePages(a) \cap StretchPages(s) = {}
    BY <2>3 DEF Inv, FreeApart
  <2> QED
    BY <2>1, <2>2, <2>4 DEF AllocationsExclusive
<1> QED
  BY <1>1, SpecInv, PTL

(* No page disappears from the pools, the stretches and the reserved pages *)
(* but those of calls that failed after vm_alloc.                          *)
THEOREM PagesAreAccounted == Spec => []PagesAccounted
<1>1. Inv => PagesAccounted
  <2> SUFFICES ASSUME Inv
               PROVE  PagesAccounted
    OBVIOUS
  <2>1. TypeOK /\ Accounted /\ Pooled
    BY DEF Inv
  <2> DEFINE free == UNION {FreePages(a) : a \in Allocators}
  <2>2. OwnPages \subseteq Page
    <3>1. ASSUME NEW s \in OwnSids
          PROVE  StretchPages(s) \subseteq Page
      BY <2>1, Constants, SpanType DEF OwnSids, UsedSids, StretchPages, TypeOK, Stretch, Page
    <3> QED
      BY <3>1 DEF OwnPages
  <2>3. free \subseteq Page
    <3>1. ASSUME NEW a \in Allocators, NEW rg \in pool[a]
          PROVE  Ext(rg) \subseteq Page
      BY <2>1, Constants, SpanType DEF Pooled, VirtRegion, Ext, Page
    <3> QED
      BY <3>1, PagesOfPools
  <2>4. Page \subseteq reserved \cup lost \cup OwnPages \cup free
    BY <2>1 DEF Accounted
  <2>5. reserved \cup lost \subseteq Page
    BY <2>1 DEF TypeOK
  <2>6. Page = reserved \cup lost \cup OwnPages \cup free
    BY <2>2, <2>3, <2>4, <2>5
  <2> QED
    BY <2>1, <2>6 DEF PagesAccounted, OwnPages
<1> QED
  BY <1>1, SpecInv, PTL

(* The shadow entry of a page names the stretch created last over it, as   *)
(* long as mmu_mod has L2 tables left.                                     *)
THEOREM ShadowsAreLatest == Spec => []ShadowLatest
<1>1. Inv => ShadowLatest
  BY DEF Inv
<1> QED
  BY <1>1, SpecInv, PTL

(* Nailed stretches are backed by frames, and no frame is lost when        *)
(* nailed_create fails.                                                    *)
THEOREM NailedAreBacked == Spec => []NailedBacked
<1>1. Inv => NailedBacked
  BY DEF Inv
<1> QED
  BY <1>1, SpecInv, PTL

(* Whatever the memory map says, no call of the allocators unmaps a page   *)
(* that its bootinfo and non_free entries claim.                           *)
THEOREM ClaimedPagesStay == Spec => ClaimedPagesKept
<1>1. Inv /\ [Next]_vars => [ClaimedPages \cap present \subseteq present']_vars
  <2> SUFFICES ASSUME Inv, [Next]_vars
               PROVE  ClaimedPages \cap present \subseteq present'
    OBVIOUS
  <2>1. CASE status = "up"
    <3>1. ClaimedPages \subseteq reserved
      <4> SUFFICES ASSUME NEW q \in ClaimedPages
                   PROVE  q \in reserved
        OBVIOUS
      <4>1. PICK i \in 1 .. Len(Entries) :
               /\ Entries[i].type \in ReservedTypes /\ Entries[i].start # AnyAddress
               /\ q \in Span(Entries[i].start.page, Entries[i].len)
        BY DEF ClaimedPages, ReservedTypes
      <4>2. i < todo
        <5>1. todo > Len(Entries) /\ todo \in Nat /\ Len(Entries) \in Nat
          BY <2>1, SizeAssumption DEF Inv, Booted, TypeOK
        <5> QED
          BY <5>1
      <4> QED
        BY <4>1, <4>2 DEF Inv, Booted
    <3>2. reserved \cap present \subseteq present'
      BY NextInv DEF ReservedMapped
    <3> QED
      BY <3>1, <3>2
  <2>2. CASE status # "up"
    <3>1. UNCHANGED present
      BY <2>2 DEF Next, vars, create, finish_init, nailed_create, stubs, create_nailed,
                  create_over, Halted, Stop, mmu
    <3> QED
      BY <3>1
  <2> QED
    BY <2>1, <2>2
<1> QED
  BY <1>1, SpecInv, PTL DEF Spec, ClaimedPagesKept
=============================================================================
