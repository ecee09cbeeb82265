-------------------------- MODULE BlockCacheProofs --------------------------
(***************************************************************************)
(* Theorems about BlockCache: for any number of devices and blocks and any *)
(* size of the cache, its map and its list agree, no write is lost as long *)
(* as a device is not read, and flush leaves nothing unwritten.            *)
(***************************************************************************)
EXTENDS BlockCache, FiniteSetTheorems, WellFoundedInduction, TLAPS

LEMMA CacheFacts ==
    /\ NumBlocks \in Nat \ {0} /\ max_blocks \in Nat \ {0} /\ LargeRead \in Nat
    /\ Ids \subseteq Nat \ {0} /\ Null \notin Ids /\ Null \notin Nat
    /\ Absent \notin Ids /\ Absent # Null /\ Null \notin Devices
    /\ Zero \in Data
BY CacheAssumption DEF Ids, Absent

(* Every set of naturals has a least element.                              *)
LEMMA LeastElement ==
    ASSUME NEW S \in SUBSET Nat, S # {}
    PROVE  \E m \in S : \A k \in S : m <= k
<1> DEFINE R == OpToRel(<, Nat)
<1>1. IsWellFoundedOn(R, Nat)
  BY NatLessThanWellFounded
<1> HIDE DEF R
<1>2. PICK m \in S : \A k \in S : ~(<<k, m>> \in R)
  BY <1>1, WFMin
<1>3. \A k, l \in Nat : k < l => <<k, l>> \in R
  BY DEF R, OpToRel
<1>4. \A k \in S : ~(k < m)
  BY <1>2, <1>3
<1> QED
  BY <1>4

-----------------------------------------------------------------------------
(* The list of blocks.                                                     *)

ListType == [lru : Ids \cup {Null}, mru : Ids \cup {Null},
             node : [Ids -> [next : Ids \cup {Null}, prev : Ids \cup {Null}]]]

(* The links of l run through the n blocks p[1], ..., p[n], in this order  *)
(* and back, and through no others.                                        *)
Chained(l, p, n) ==
    /\ l \in ListType
    /\ n \in Nat
    /\ p \in [1 .. n -> Ids]
    /\ \A i, j \in 1 .. n : p[i] = p[j] => i = j
    /\ l.lru = IF n = 0 THEN Null ELSE p[1]
    /\ l.mru = IF n = 0 THEN Null ELSE p[n]
    /\ \A j \in 1 .. n : /\ l.node[p[j]].next = IF j = n THEN Null ELSE p[j + 1]
                         /\ l.node[p[j]].prev = IF j = 1 THEN Null ELSE p[j - 1]
    /\ \A i \in Ids : (\A j \in 1 .. n : p[j] # i) => l.node[i] = Alone

(* The order of the other blocks, and with one more at the end.            *)
Without(p, n, m) == [j \in 1 .. n - 1 |-> IF j < m THEN p[j] ELSE p[j + 1]]
Appended(p, n, i) == [j \in 1 .. n + 1 |-> IF j = n + 1 THEN i ELSE p[j]]

LEMMA UnlinkTyped ==
    ASSUME NEW l \in ListType, NEW i \in Ids
    PROVE  unlink_from(l, i) \in ListType
<1> DEFINE P == l.node[i].prev
           N == l.node[i].next
           u == unlink_from(l, i)
<1>1. /\ l.lru \in Ids \cup {Null} /\ l.mru \in Ids \cup {Null}
      /\ P \in Ids \cup {Null} /\ N \in Ids \cup {Null}
      /\ \A j \in Ids : /\ l.node[j].next \in Ids \cup {Null}
                        /\ l.node[j].prev \in Ids \cup {Null}
  BY DEF ListType
<1> DEFINE R == [next : Ids \cup {Null}, prev : Ids \cup {Null}]
<1>2. Alone \in R
  BY DEF Alone
<1>3. \A j \in Ids : [next |-> IF j = P THEN N ELSE l.node[j].next,
                      prev |-> IF j = N THEN P ELSE l.node[j].prev] \in R
  BY <1>1
<1>4. u = [lru  |-> IF l.lru = i THEN N ELSE l.lru,
           mru  |-> IF l.mru = i THEN P ELSE l.mru,
           node |-> [j \in Ids |->
                     IF j = i THEN Alone
                     ELSE [next |-> IF j = P THEN N ELSE l.node[j].next,
                           prev |-> IF j = N THEN P ELSE l.node[j].prev]]]
  BY DEF unlink_from
<1> HIDE DEF R
<1>5. [j \in Ids |->
         IF j = i THEN Alone
         ELSE [next |-> IF j = P THEN N ELSE l.node[j].next,
               prev |-> IF j = N THEN P ELSE l.node[j].prev]] \in [Ids -> R]
  BY <1>2, <1>3
<1>6. /\ (IF l.lru = i THEN N ELSE l.lru) \in Ids \cup {Null}
      /\ (IF l.mru = i THEN P ELSE l.mru) \in Ids \cup {Null}
  BY <1>1
<1> HIDE DEF u, P, N
<1> QED
  BY <1>4, <1>5, <1>6 DEF ListType, R, u

(* What unlink_from does to links, one field at a time.                    *)
LEMMA UnlinkFields ==
    ASSUME NEW l \in ListType, NEW i \in Ids, NEW u, u = unlink_from(l, i)
    PROVE  /\ u.lru = IF l.lru = i THEN l.node[i].next ELSE l.lru
           /\ u.mru = IF l.mru = i THEN l.node[i].prev ELSE l.mru
           /\ u.node[i] = Alone
           /\ \A j \in Ids \ {i} :
                 /\ u.node[j].next = IF j = l.node[i].prev THEN l.node[i].next
                                     ELSE l.node[j].next
                 /\ u.node[j].prev = IF j = l.node[i].next THEN l.node[i].prev
                                     ELSE l.node[j].prev
                 /\ u.node[j] = [next |-> u.node[j].next, prev |-> u.node[j].prev]
BY DEF unlink_from

LEMMA UnlinkChained ==
    ASSUME NEW l, NEW p, NEW n, Chained(l, p, n), NEW m \in 1 .. n
    PROVE  Chained(unlink_from(l, p[m]), Without(p, n, m), n - 1)
<1> DEFINE i == p[m]
           u == unlink_from(l, i)
           q == Without(p, n, m)
<1>1. /\ l \in ListType /\ n \in Nat \ {0} /\ p \in [1 .. n -> Ids] /\ i \in Ids
      /\ \A j, k \in 1 .. n : p[j] = p[k] => j = k
      /\ m \in Nat
  BY DEF Chained
<1>2. /\ l.node[i].next = IF m = n THEN Null ELSE p[m + 1]
      /\ l.node[i].prev = IF m = 1 THEN Null ELSE p[m - 1]
  BY DEF Chained
<1>3. u \in ListType
  BY <1>1, UnlinkTyped
<1>4. /\ u.lru = IF l.lru = i THEN l.node[i].next ELSE l.lru
      /\ u.mru = IF l.mru = i THEN l.node[i].prev ELSE l.mru
      /\ u.node[i] = Alone
      /\ \A j \in Ids \ {i} :
            /\ u.node[j].next = IF j = l.node[i].prev THEN l.node[i].next
                                ELSE l.node[j].next
            /\ u.node[j].prev = IF j = l.node[i].next THEN l.node[i].prev
                                ELSE l.node[j].prev
            /\ u.node[j] = [next |-> u.node[j].next, prev |-> u.node[j].prev]
  BY <1>1, UnlinkFields
<1> HIDE DEF u
<1>5. /\ \A j \in 1 .. n - 1 : q[j] = IF j < m THEN p[j] ELSE p[j + 1]
      /\ q \in [1 .. n - 1 -> Ids]
  BY <1>1 DEF Without
<1> HIDE DEF q
<1>6. ASSUME NEW j \in 1 .. n - 1 PROVE q[j] # i /\ q[j] \in Ids
  BY <1>1, <1>5
<1>7. ASSUME NEW j \in 1 .. n - 1, NEW k \in 1 .. n - 1, q[j] = q[k] PROVE j = k
  BY <1>1, <1>5, <1>7
<1>8. u.lru = IF n - 1 = 0 THEN Null ELSE q[1]
  <2>1. l.lru = p[1] /\ (p[1] = i <=> m = 1)
    BY <1>1 DEF Chained
  <2> QED
    BY <1>1, <1>2, <1>4, <1>5, <2>1
<1>9. u.mru = IF n - 1 = 0 THEN Null ELSE q[n - 1]
  <2>1. l.mru = p[n] /\ (p[n] = i <=> m = n)
    BY <1>1 DEF Chained
  <2> QED
    BY <1>1, <1>2, <1>4, <1>5, <2>1
<1>10. ASSUME NEW j \in 1 .. n - 1
       PROVE  u.node[q[j]].next = IF j = n - 1 THEN Null ELSE q[j + 1]
  <2>1. u.node[q[j]].next = IF q[j] = l.node[i].prev THEN l.node[i].next
                            ELSE l.node[q[j]].next
    BY <1>4, <1>6
  <2>2. \A k \in 1 .. n : l.node[p[k]].next = IF k = n THEN Null ELSE p[k + 1]
    BY DEF Chained
  <2>3. CASE j < m - 1
    <3>1. /\ j \in 1 .. n /\ j + 1 \in 1 .. n - 1 /\ j # n /\ j # n - 1
          /\ q[j] = p[j] /\ q[j + 1] = p[j + 1] /\ m # 1
          /\ m - 1 \in 1 .. n /\ m - 1 # j
      BY <1>1, <1>5, <2>3
    <3>2. q[j] # l.node[i].prev
      BY <1>1, <1>2, <3>1
    <3> QED
      BY <2>1, <2>2, <3>1, <3>2
  <2>4. CASE j = m - 1
    <3>1. q[j] = p[m - 1] /\ m # 1
      BY <1>1, <1>5, <2>4
    <3>2. u.node[q[j]].next = IF m = n THEN Null ELSE p[m + 1]
      BY <1>2, <2>1, <3>1
    <3>3. m # n => j + 1 \in 1 .. n - 1 /\ q[j + 1] = p[m + 1]
      BY <1>1, <1>5, <2>4
    <3> QED
      BY <1>1, <2>4, <3>2, <3>3
  <2>5. CASE j >= m
    <3>1. q[j] = p[j + 1] /\ j + 1 \in 1 .. n
      BY <1>1, <1>5, <2>5
    <3>2. q[j] # l.node[i].prev
      <4>1. CASE m = 1
        BY <1>1, <1>2, <1>6, <4>1, CacheFacts
      <4>2. CASE m # 1
        <5>1. m - 1 \in 1 .. n /\ m - 1 # j + 1
          BY <1>1, <2>5, <4>2
        <5> QED
          BY <1>1, <1>2, <3>1, <4>2, <5>1
      <4> QED
        BY <4>1, <4>2
    <3>3. u.node[q[j]].next = IF j + 1 = n THEN Null ELSE p[j + 1 + 1]
      BY <2>1, <2>2, <3>1, <3>2
    <3>4. j + 1 # n => j + 1 \in 1 .. n - 1 /\ q[j + 1] = p[j + 1 + 1]
      BY <1>1, <1>5, <2>5
    <3> QED
      BY <1>1, <3>3, <3>4
  <2> QED
    BY <1>1, <2>3, <2>4, <2>5
<1>11. ASSUME NEW j \in 1 .. n - 1
       PROVE  u.node[q[j]].prev = IF j = 1 THEN Null ELSE q[j - 1]
  <2>1. u.node[q[j]].prev = IF q[j] = l.node[i].next THEN l.node[i].prev
                            ELSE l.node[q[j]].prev
    BY <1>4, <1>6
  <2>2. \A k \in 1 .. n : l.node[p[k]].prev = IF k = 1 THEN Null ELSE p[k - 1]
    BY DEF Chained
  <2>3. CASE j < m
    <3>1. q[j] = p[j] /\ j \in 1 .. n
      BY <1>1, <1>5, <2>3
    <3>2. q[j] # l.node[i].next
      <4>1. CASE m = n
        BY <1>1, <1>2, <1>6, <4>1, CacheFacts
      <4>2. CASE m # n
        <5>1. m + 1 \in 1 .. n /\ m + 1 # j
          BY <1>1, <2>3, <4>2
        <5> QED
          BY <1>1, <1>2, <3>1, <4>2, <5>1
      <4> QED
        BY <4>1, <4>2
    <3>3. u.node[q[j]].prev = IF j = 1 THEN Null ELSE p[j - 1]
      BY <2>1, <2>2, <3>1, <3>2
    <3>4. j # 1 => q[j - 1] = p[j - 1]
      BY <1>1, <1>5, <2>3
    <3> QED
      BY <3>3, <3>4
  <2>4. CASE j = m
    <3>1. q[j] = p[m + 1] /\ m # n
      BY <1>1, <1>5, <2>4
    <3>2. u.node[q[j]].prev = IF m = 1 THEN Null ELSE p[m - 1]
      BY <1>2, <2>1, <3>1
    <3>3. m # 1 => q[j - 1] = p[m - 1]
      BY <1>1, <1>5, <2>4
    <3> QED
      BY <1>1, <2>4, <3>2, <3>3
  <2>5. CASE j > m
    <3>1. /\ q[j] = p[j + 1] /\ j + 1 \in 1 .. n /\ j + 1 # 1 /\ j # 1
          /\ q[j - 1] = p[j] /\ j + 1 - 1 = j
      BY <1>1, <1>5, <2>5
    <3>2. q[j] # l.node[i].next
      <4>1. m + 1 \in 1 .. n /\ m + 1 # j + 1 /\ m # n
        BY <1>1, <2>5
      <4> QED
        BY <1>1, <1>2, <3>1, <4>1
    <3> QED
      BY <2>1, <2>2, <3>1, <3>2
  <2> QED
    BY <1>1, <2>3, <2>4, <2>5
<1>12. ASSUME NEW x \in Ids, \A j \in 1 .. n - 1 : q[j] # x PROVE u.node[x] = Alone
  <2>1. CASE x = i
    BY <1>4, <2>1
  <2>2. CASE x # i
    <3>1. \A j \in 1 .. n : p[j] # x
      <4> SUFFICES ASSUME NEW j \in 1 .. n, p[j] = x PROVE FALSE
        OBVIOUS
      <4>1. j # m
        BY <2>2
      <4>2. CASE j < m
        BY <1>1, <1>5, <1>12, <4>2
      <4>3. CASE j > m
        <5>1. j - 1 \in 1 .. n - 1 /\ q[j - 1] = p[j - 1 + 1] /\ j - 1 + 1 = j
          BY <1>1, <1>5, <4>3
        <5> QED
          BY <1>12, <5>1
      <4> QED
        BY <1>1, <4>1, <4>2, <4>3
    <3>2. l.node[x] = Alone
      BY <3>1 DEF Chained
    <3>3. x # l.node[i].prev /\ x # l.node[i].next
      <4>1. m # 1 => m - 1 \in 1 .. n
        BY <1>1
      <4>2. m # n => m + 1 \in 1 .. n
        BY <1>1
      <4> QED
        BY <1>2, <3>1, <4>1, <4>2, CacheFacts
    <3>4. u.node[x].next = l.node[x].next /\ u.node[x].prev = l.node[x].prev
      BY <1>4, <2>2, <3>3
    <3>5. u.node[x] = [next |-> u.node[x].next, prev |-> u.node[x].prev]
      BY <1>4, <2>2
    <3> QED
      BY <3>2, <3>4, <3>5 DEF Alone
  <2> QED
    BY <2>1, <2>2
<1>13. n - 1 \in Nat
  BY <1>1
<1>14. Chained(u, q, n - 1)
  BY <1>3, <1>5, <1>7, <1>8, <1>9, <1>10, <1>11, <1>12, <1>13 DEF Chained
<1> QED
  BY <1>14 DEF u, q

(* What link_at_mru does to a list that the block is not on.               *)
LEMMA LinkFields ==
    ASSUME NEW l \in ListType, NEW i \in Ids, i # l.mru, NEW u, u = link_at_mru(l, i)
    PROVE  /\ u \in ListType
           /\ u.lru = IF l.lru = Null THEN i ELSE l.lru
           /\ u.mru = i
           /\ u.node[i].next = l.node[i].next /\ u.node[i].prev = l.mru
           /\ l.mru # Null => /\ u.node[l.mru].next = i
                              /\ u.node[l.mru].prev = l.node[l.mru].prev
           /\ \A j \in Ids \ {i, l.mru} : u.node[j] = l.node[j]
<1> DEFINE R == [next : Ids \cup {Null}, prev : Ids \cup {Null}]
           f == [j \in Ids |-> CASE j = i     -> [l.node[i] EXCEPT !.prev = l.mru]
                                 [] j = l.mru -> [l.node[j] EXCEPT !.next = i]
                                 [] OTHER     -> l.node[j]]
<1>1. /\ l.lru \in Ids \cup {Null} /\ l.mru \in Ids \cup {Null}
      /\ \A j \in Ids : l.node[j] \in R
  BY DEF ListType
<1>2. u = [lru |-> IF l.lru = Null THEN i ELSE l.lru, mru |-> i, node |-> f]
  BY DEF link_at_mru
<1>3. /\ f[i] = [l.node[i] EXCEPT !.prev = l.mru]
      /\ \A j \in Ids : j # i /\ j = l.mru => f[j] = [l.node[j] EXCEPT !.next = i]
      /\ \A j \in Ids : j # i /\ j # l.mru => f[j] = l.node[j]
      /\ f = [j \in Ids |-> f[j]]
  OBVIOUS
<1> HIDE DEF f
<1>4. f[i] \in R /\ f[i].next = l.node[i].next /\ f[i].prev = l.mru
  BY <1>1, <1>3
<1>5. ASSUME NEW j \in Ids, j # i, j = l.mru
      PROVE  f[j] \in R /\ f[j].next = i /\ f[j].prev = l.node[j].prev
  BY <1>1, <1>3, <1>5
<1>6. f \in [Ids -> R]
  <2>1. \A j \in Ids : f[j] \in R
    <3> HIDE DEF R
    <3> QED
      BY <1>1, <1>3, <1>4, <1>5
  <2> QED
    BY <1>3, <2>1
<1>7. u.lru = (IF l.lru = Null THEN i ELSE l.lru) /\ u.mru = i /\ u.node = f
  BY <1>2
<1>8. u \in ListType
  BY <1>1, <1>2, <1>6 DEF ListType
<1>9. l.mru # Null => u.node[l.mru].next = i /\ u.node[l.mru].prev = l.node[l.mru].prev
  BY <1>1, <1>5, <1>7
<1>10. \A j \in Ids \ {i, l.mru} : u.node[j] = l.node[j]
  BY <1>3, <1>7
<1> QED
  BY <1>4, <1>7, <1>8, <1>9, <1>10

LEMMA LinkChained ==
    ASSUME NEW l, NEW p, NEW n, Chained(l, p, n), NEW i \in Ids,
           \A j \in 1 .. n : p[j] # i
    PROVE  Chained(link_at_mru(l, i), Appended(p, n, i), n + 1)
<1> DEFINE u == link_at_mru(l, i)
           q == Appended(p, n, i)
<1>1. /\ l \in ListType /\ n \in Nat /\ p \in [1 .. n -> Ids]
      /\ \A j, k \in 1 .. n : p[j] = p[k] => j = k
      /\ l.lru = IF n = 0 THEN Null ELSE p[1]
      /\ l.mru = IF n = 0 THEN Null ELSE p[n]
      /\ l.node[i] = Alone
  BY DEF Chained
<1>2. i # l.mru
  BY <1>1, CacheFacts
<1>3. /\ u \in ListType
      /\ u.lru = IF l.lru = Null THEN i ELSE l.lru
      /\ u.mru = i
      /\ u.node[i].next = l.node[i].next /\ u.node[i].prev = l.mru
      /\ l.mru # Null => /\ u.node[l.mru].next = i
                         /\ u.node[l.mru].prev = l.node[l.mru].prev
      /\ \A j \in Ids \ {i, l.mru} : u.node[j] = l.node[j]
  BY <1>1, <1>2, LinkFields
<1> HIDE DEF u
<1>4. /\ \A j \in 1 .. n : q[j] = p[j]
      /\ q[n + 1] = i
      /\ q \in [1 .. n + 1 -> Ids]
  BY <1>1 DEF Appended
<1> HIDE DEF q
<1>5. \A j \in 1 .. n + 1 : j = n + 1 \/ j \in 1 .. n
  BY <1>1
<1>6. ASSUME NEW j \in 1 .. n + 1, NEW k \in 1 .. n + 1, q[j] = q[k] PROVE j = k
  BY <1>1, <1>4, <1>5, <1>6
<1>7. u.lru = IF n + 1 = 0 THEN Null ELSE q[1]
  <2>1. n # 0 => p[1] \in Ids /\ q[1] = p[1]
    BY <1>1, <1>4
  <2>2. n = 0 => q[1] = i
    BY <1>4
  <2> QED
    BY <1>1, <1>3, <2>1, <2>2, CacheFacts
<1>8. u.mru = IF n + 1 = 0 THEN Null ELSE q[n + 1]
  BY <1>1, <1>3, <1>4
<1>9. ASSUME NEW j \in 1 .. n + 1
      PROVE  /\ u.node[q[j]].next = IF j = n + 1 THEN Null ELSE q[j + 1]
             /\ u.node[q[j]].prev = IF j = 1 THEN Null ELSE q[j - 1]
  <2>1. CASE j = n + 1
    <3>1. u.node[q[j]].next = Null
      BY <1>1, <1>3, <1>4, <2>1 DEF Alone
    <3>2. u.node[q[j]].prev = IF n = 0 THEN Null ELSE p[n]
      BY <1>1, <1>3, <1>4, <2>1
    <3>3. n # 0 => q[j - 1] = p[n]
      BY <1>1, <1>4, <2>1
    <3> QED
      BY <1>1, <2>1, <3>1, <3>2, <3>3
  <2>2. CASE j = n /\ n # 0
    <3>1. q[j] = l.mru /\ l.mru # Null /\ q[j] = p[n] /\ j \in 1 .. n
      BY <1>1, <1>4, <2>2, CacheFacts
    <3>2. l.node[p[n]].prev = IF n = 1 THEN Null ELSE p[n - 1]
      BY <2>2, <3>1 DEF Chained
    <3>3. n # 1 => q[j - 1] = p[n - 1]
      BY <1>1, <1>4, <2>2
    <3>4. u.node[q[j]].next = i /\ u.node[q[j]].prev = l.node[p[n]].prev
      BY <1>3, <3>1
    <3>5. j # n + 1 /\ q[j + 1] = i
      BY <1>1, <1>4, <2>2
    <3> QED
      BY <2>2, <3>2, <3>3, <3>4, <3>5
  <2>3. CASE j \in 1 .. n /\ j # n
    <3>1. /\ q[j] = p[j] /\ j + 1 \in 1 .. n /\ q[j + 1] = p[j + 1] /\ j # n + 1
          /\ n \in 1 .. n /\ n # 0
      BY <1>1, <1>4, <2>3
    <3>2. q[j] \in Ids \ {i, l.mru}
      BY <1>1, <2>3, <3>1
    <3>3. /\ l.node[p[j]].next = IF j = n THEN Null ELSE p[j + 1]
          /\ l.node[p[j]].prev = IF j = 1 THEN Null ELSE p[j - 1]
      BY <2>3 DEF Chained
    <3>4. j # 1 => q[j - 1] = p[j - 1]
      BY <1>1, <1>4, <2>3
    <3> QED
      BY <1>3, <2>3, <3>1, <3>2, <3>3, <3>4
  <2> QED
    BY <1>1, <1>5, <2>1, <2>2, <2>3
<1>10. ASSUME NEW x \in Ids, \A j \in 1 .. n + 1 : q[j] # x PROVE u.node[x] = Alone
  <2>1. \A j \in 1 .. n : p[j] # x
    BY <1>1, <1>4, <1>10
  <2>2. x # i
    BY <1>1, <1>4, <1>10
  <2>3. x # l.mru
    BY <1>1, <2>1, CacheFacts
  <2>4. l.node[x] = Alone
    BY <2>1 DEF Chained
  <2> QED
    BY <1>3, <2>2, <2>3, <2>4
<1>11. n + 1 \in Nat
  BY <1>1
<1>12. Chained(u, q, n + 1)
  BY <1>3, <1>4, <1>6, <1>7, <1>8, <1>9, <1>10, <1>11 DEF Chained
<1> QED
  BY <1>12 DEF u, q

-----------------------------------------------------------------------------
(* The walk along the list.                                                *)

(* The blocks of a chain, one at each position, then nothing.              *)
Along(p, n) == [k \in 0 .. max_blocks |-> IF k < n THEN p[k + 1] ELSE Null]

(* The equation that defines Walk.                                         *)
WalkStep(w) ==
    [k \in 0 .. max_blocks |->
        IF k = 0 THEN list.lru
        ELSE IF w[k - 1] = Null THEN Null ELSE list.node[w[k - 1]].next]

(* Walk solves its equation if anything does.                              *)
LEMMA WalkEquation ==
    ASSUME NEW w, w = WalkStep(w)
    PROVE  Walk = WalkStep(Walk)
BY Zenon DEF Walk, WalkStep

LEMMA ChainIsShort ==
    ASSUME NEW l, NEW p, NEW n, Chained(l, p, n)
    PROVE  n \in 0 .. max_blocks
<1>1. n \in Nat /\ p \in [1 .. n -> Ids] /\ \A i, j \in 1 .. n : p[i] = p[j] => i = j
  BY DEF Chained
<1>2. p \in Injection(1 .. n, Ids)
  BY <1>1 DEF Injection, IsInjective
<1>3. max_blocks \in Nat
  BY CacheFacts
<1>4. /\ IsFiniteSet(1 .. max_blocks)
      /\ Cardinality(1 .. max_blocks) = IF 1 > max_blocks THEN 0 ELSE max_blocks - 1 + 1
  <2>1. 1 \in Int /\ max_blocks \in Int
    BY <1>3
  <2> QED
    BY <2>1, FS_Interval
<1>5. IsFiniteSet(Ids) /\ Cardinality(Ids) = max_blocks
  BY <1>3, <1>4, CacheFacts DEF Ids
<1>6. /\ IsFiniteSet(1 .. n)
      /\ Cardinality(1 .. n) = IF 1 > n THEN 0 ELSE n - 1 + 1
  <2>1. 1 \in Int /\ n \in Int
    BY <1>1
  <2> QED
    BY <2>1, FS_Interval
<1>7. Cardinality(1 .. n) <= Cardinality(Ids)
  BY <1>2, <1>5, FS_Injection
<1>8. Cardinality(1 .. n) = n
  BY <1>1, <1>6
<1> QED
  BY <1>1, <1>3, <1>5, <1>7, <1>8

LEMMA WalkIsChain ==
    ASSUME NEW p, NEW n, Chained(list, p, n)
    PROVE  \A k \in 0 .. max_blocks : Walk[k] = IF k < n THEN p[k + 1] ELSE Null
<1> DEFINE w == Along(p, n)
           Good(k) == IF k < n THEN p[k + 1] ELSE Null
<1>1. /\ n \in 0 .. max_blocks /\ max_blocks \in Nat /\ p \in [1 .. n -> Ids]
      /\ list.lru = IF n = 0 THEN Null ELSE p[1]
      /\ \A j \in 1 .. n : list.node[p[j]].next = IF j = n THEN Null ELSE p[j + 1]
  <2>1. n \in 0 .. max_blocks
    BY ChainIsShort
  <2> QED
    BY <2>1, CacheFacts DEF Chained
<1>2. ASSUME NEW k \in 0 .. max_blocks
      PROVE  Good(k) = IF k = 0 THEN list.lru
                       ELSE IF Good(k - 1) = Null THEN Null
                       ELSE list.node[Good(k - 1)].next
  <2>1. CASE k = 0
    BY <1>1, <2>1
  <2>2. CASE k # 0 /\ k - 1 < n
    <3>1. k \in 1 .. n /\ Good(k - 1) = p[k]
      BY <1>1, <2>2
    <3>2. p[k] \in Ids /\ p[k] # Null
      BY <1>1, <3>1, CacheFacts
    <3>3. list.node[p[k]].next = IF k = n THEN Null ELSE p[k + 1]
      BY <1>1, <3>1
    <3>4. Good(k) = IF k = n THEN Null ELSE p[k + 1]
      BY <1>1, <3>1
    <3> HIDE DEF Good
    <3> QED
      BY <2>2, <3>1, <3>2, <3>3, <3>4
  <2>3. CASE k # 0 /\ ~ (k - 1 < n)
    <3>1. Good(k - 1) = Null /\ Good(k) = Null
      BY <1>1, <2>3
    <3> HIDE DEF Good
    <3> QED
      BY <2>3, <3>1
  <2> QED
    BY <2>1, <2>2, <2>3
<1>3. w = [k \in 0 .. max_blocks |-> Good(k)]
  BY DEF Along
<1> HIDE DEF Good, w
<1>4. \A k \in 0 .. max_blocks : w[k] = Good(k) /\ (k # 0 => w[k - 1] = Good(k - 1))
  BY <1>1, <1>3
<1>5. w = WalkStep(w)
  BY <1>2, <1>3, <1>4 DEF WalkStep
<1>6. \A k \in 0 .. max_blocks :
         Walk[k] = IF k = 0 THEN list.lru
                   ELSE IF Walk[k - 1] = Null THEN Null ELSE list.node[Walk[k - 1]].next
  <2>1. Walk = WalkStep(Walk)
    BY <1>5, WalkEquation
  <2> QED
    BY <2>1 DEF WalkStep
<1>7. \A k \in 0 .. max_blocks : Walk[k] = Good(k)
  <2> DEFINE Bad == {k \in 0 .. max_blocks : Walk[k] # Good(k)}
  <2> SUFFICES ASSUME Bad # {} PROVE FALSE
    OBVIOUS
  <2>1. Bad \in SUBSET Nat
    BY <1>1
  <2>2. PICK k \in Bad : \A j \in Bad : k <= j
    BY <2>1, LeastElement
  <2>3. k \in 0 .. max_blocks /\ Walk[k] # Good(k)
    BY <2>2
  <2>4. k # 0
    BY <1>2, <1>6, <2>3
  <2>5. k - 1 \in 0 .. max_blocks /\ ~ (k <= k - 1)
    BY <1>1, <2>3, <2>4
  <2>6. Walk[k - 1] = Good(k - 1)
    BY <2>2, <2>5
  <2> QED
    BY <1>2, <1>6, <2>3, <2>4, <2>6
<1> QED
  BY <1>7 DEF Good

-----------------------------------------------------------------------------
(* The inductive invariant.                                                *)

(* The map and the blocks know each other, and every block is dirty.       *)
Held ==
    /\ \A k \in Keys : cache[k] \in Ids => /\ entry[cache[k]].key = k
                                            /\ entry[cache[k]].dirty
    /\ \A i \in Ids : \/ entry[i] = Free
                      \/ /\ entry[i].key \in Keys /\ entry[i].dirty
                         /\ cache[entry[i].key] = i

(* The list holds the blocks that are in use.                              *)
Ordered(p, n) ==
    /\ Chained(list, p, n)
    /\ \A i \in Ids : entry[i] # Free <=> \E j \in 1 .. n : p[j] = i

(* flush has passed the blocks before the one at position m, none of which *)
(* is of its device.                                                       *)
Passed(p, n, m) ==
    Flushing =>
        /\ op.at = IF m = n + 1 THEN Null ELSE p[m]
        /\ \A j \in 1 .. m - 1 : entry[p[j]].key[1] # op.dev

Ranked == \E p, n : Ordered(p, n) /\ \E m \in 1 .. n + 1 : Passed(p, n, m)

(* What a call that runs may rely on.                                      *)
Calls ==
    status = "up" =>
        /\ op.kind # "none" => op.dev \in Devices /\ Mapped(op.dev)
        /\ op.kind \in {"read", "write"} => op.n > 0
        /\ op.kind = "write" => op.num + op.n <= NumBlocks

(* Nothing written is lost on a device that has not been read.             *)
Kept ==
    \A d \in Devices, b \in Blocks :
        file[d].state # "failed" => Contents(<<d, b>>) = latest[<<d, b>>]

Inv == TypeOK /\ Held /\ Ranked /\ Calls /\ Kept

LEMMA KeyForm == \A k \in Keys : /\ k = <<k[1], k[2]>>
                                 /\ k[1] \in Devices /\ k[2] \in Blocks
BY DEF Keys

LEMMA InvWritesKept == Inv => WritesKept
<1> SUFFICES ASSUME Inv, NEW k \in Keys
             PROVE  /\ cache[k] \in Ids => entry[cache[k]].dirty
                    /\ file[k[1]].state # "failed" => Contents(k) = latest[k]
  BY DEF WritesKept
<1>1. cache[k] \in Ids => entry[cache[k]].dirty
  BY DEF Inv, Held
<1>2. k = <<k[1], k[2]>> /\ k[1] \in Devices /\ k[2] \in Blocks
  BY KeyForm
<1>3. file[k[1]].state # "failed" => Contents(<<k[1], k[2]>>) = latest[<<k[1], k[2]>>]
  BY <1>2 DEF Inv, Kept
<1> QED
  BY <1>1, <1>2, <1>3

LEMMA InvMapAndListAgree == Inv => MapAndListAgree
<1> SUFFICES ASSUME Inv PROVE MapAndListAgree
  OBVIOUS
<1> DEFINE cached == {k \in Keys : cache[k] \in Ids}
           len    == Cardinality(cached)
<1>1. PICK p, n : Ordered(p, n)
  BY DEF Inv, Ranked
<1>2. /\ Chained(list, p, n) /\ n \in Nat /\ p \in [1 .. n -> Ids]
      /\ \A i, j \in 1 .. n : p[i] = p[j] => i = j
      /\ \A i \in Ids : entry[i] # Free <=> \E j \in 1 .. n : p[j] = i
  BY <1>1 DEF Ordered, Chained
<1>3. n \in 0 .. max_blocks
  BY <1>2, ChainIsShort
<1>4. \A k \in 0 .. max_blocks : Walk[k] = IF k < n THEN p[k + 1] ELSE Null
  BY <1>2, WalkIsChain
<1>5. ASSUME NEW j \in 1 .. n
      PROVE  /\ entry[p[j]].key \in Keys /\ cache[entry[p[j]].key] = p[j]
             /\ p[j] \in Ids
  BY <1>2 DEF Inv, Held
<1>6. ASSUME NEW k \in cached PROVE \E j \in 1 .. n : p[j] = cache[k]
  <2>1. cache[k] \in Ids /\ entry[cache[k]].dirty
    BY DEF Inv, Held
  <2>2. entry[cache[k]] # Free
    BY <2>1 DEF Free
  <2> QED
    BY <1>2, <2>1, <2>2
<1>7. len = n
  <2> DEFINE f == [j \in 1 .. n |-> entry[p[j]].key]
  <2>1. \A j \in 1 .. n : entry[p[j]].key \in cached
    BY <1>5
  <2>2. \A i, j \in 1 .. n : entry[p[i]].key = entry[p[j]].key => i = j
    BY <1>2, <1>5
  <2>3. \A k \in cached : \E j \in 1 .. n : entry[p[j]].key = k
    BY <1>6 DEF Inv, Held
  <2> HIDE DEF cached
  <2>4. f \in Bijection(1 .. n, cached)
    BY <2>1, <2>2, <2>3 DEF Bijection, Injection, Surjection, IsInjective
  <2>5. /\ IsFiniteSet(1 .. n)
        /\ Cardinality(1 .. n) = IF 1 > n THEN 0 ELSE n - 1 + 1
    <3>1. 1 \in Int /\ n \in Int
      BY <1>2
    <3> QED
      BY <3>1, FS_Interval
  <2>6. ExistsBijection(1 .. n, cached)
    BY <2>4 DEF ExistsBijection
  <2>7. Cardinality(cached) = Cardinality(1 .. n)
    BY <2>5, <2>6, FS_Bijection
  <2> QED
    BY <1>2, <2>5, <2>7
<1>8. {Walk[j] : j \in 0 .. n - 1} = {cache[k] : k \in cached}
  <2>1. ASSUME NEW j \in 0 .. n - 1 PROVE \E k \in cached : Walk[j] = cache[k]
    <3>1. j + 1 \in 1 .. n /\ Walk[j] = p[j + 1]
      BY <1>2, <1>3, <1>4, CacheFacts
    <3> QED
      BY <1>5, <3>1
  <2>2. ASSUME NEW k \in cached PROVE \E j \in 0 .. n - 1 : Walk[j] = cache[k]
    <3>1. PICK i \in 1 .. n : p[i] = cache[k]
      BY <1>6
    <3>2. i - 1 \in 0 .. n - 1 /\ i - 1 \in 0 .. max_blocks /\ i - 1 < n /\ i - 1 + 1 = i
      BY <1>2, <1>3, CacheFacts
    <3>3. Walk[i - 1] = cache[k]
      BY <1>4, <3>1, <3>2
    <3> QED
      BY <3>2, <3>3
  <2> HIDE DEF cached
  <2> QED
    BY <2>1, <2>2
<1>9. Walk[n] = Null
  BY <1>2, <1>3, <1>4
<1>10. \A k \in cached : entry[cache[k]].key = k
  BY DEF Inv, Held
<1>11. ASSUME NEW j \in 0 .. n - 1
       PROVE  list.node[Walk[j]].prev = IF j = 0 THEN Null ELSE Walk[j - 1]
  <2>1. /\ j + 1 \in 1 .. n /\ Walk[j] = p[j + 1]
        /\ j # 0 => Walk[j - 1] = p[j]
    BY <1>2, <1>3, <1>4, CacheFacts
  <2>2. list.node[p[j + 1]].prev = IF j + 1 = 1 THEN Null ELSE p[j + 1 - 1]
    BY <1>2, <2>1 DEF Chained
  <2>3. j + 1 - 1 = j /\ (j + 1 = 1 <=> j = 0)
    OBVIOUS
  <2> QED
    BY <2>1, <2>2, <2>3
<1>12. list.mru = IF n = 0 THEN Null ELSE Walk[n - 1]
  <2>1. n # 0 => Walk[n - 1] = p[n]
    BY <1>2, <1>3, <1>4, CacheFacts
  <2> QED
    BY <1>2, <2>1 DEF Chained
<1> HIDE DEF cached, len
<1>13. /\ TypeOK
       /\ {Walk[j] : j \in 0 .. len - 1} = {cache[k] : k \in cached}
       /\ Walk[len] = Null
       /\ \A k \in cached : entry[cache[k]].key = k
       /\ \A j \in 0 .. len - 1 :
             list.node[Walk[j]].prev = IF j = 0 THEN Null ELSE Walk[j - 1]
       /\ list.mru = IF len = 0 THEN Null ELSE Walk[len - 1]
  BY <1>7, <1>8, <1>9, <1>10, <1>11, <1>12 DEF Inv
<1> QED
  BY <1>13 DEF MapAndListAgree, cached, len

(* No block can be evicted, for every block on the list is dirty.          *)
LEMMA NothingUsable == Inv => Usable = {}
<1> SUFFICES ASSUME Inv, NEW k \in 0 .. max_blocks, Walk[k] # Null, ~ entry[Walk[k]].dirty
             PROVE  FALSE
  BY DEF Usable
<1>1. PICK p, n : Ordered(p, n)
  BY DEF Inv, Ranked
<1>2. /\ Chained(list, p, n) /\ n \in Nat /\ p \in [1 .. n -> Ids]
      /\ \A i \in Ids : entry[i] # Free <=> \E j \in 1 .. n : p[j] = i
  BY <1>1 DEF Ordered, Chained
<1>3. Walk[k] = IF k < n THEN p[k + 1] ELSE Null
  BY <1>2, WalkIsChain
<1>4. Walk[k] = p[k + 1] /\ k + 1 \in 1 .. n
  BY <1>2, <1>3
<1>5. Walk[k] \in Ids /\ entry[Walk[k]] # Free
  BY <1>2, <1>4
<1> QED
  BY <1>5 DEF Inv, Held

(* While the map has room there is a block that is not in use.             *)
LEMMA FreshIsFree ==
    ASSUME Inv, nfree > 0
    PROVE  Fresh \in Ids /\ entry[Fresh] = Free
<1> DEFINE used == {k \in Keys : cache[k] # Absent}
           F    == {i \in Ids : entry[i] = Free}
<1>1. IsFiniteSet(used) /\ Cardinality(used) \in Nat
  <2>1. IsFiniteSet(Blocks)
    <3>1. 0 \in Int /\ NumBlocks - 1 \in Int
      BY CacheFacts
    <3> QED
      BY <3>1, FS_Interval DEF Blocks
  <2>2. IsFiniteSet(Keys)
    BY <2>1, FS_Product, CacheAssumption DEF Keys
  <2>3. used \in SUBSET Keys
    OBVIOUS
  <2> HIDE DEF used
  <2>4. IsFiniteSet(used)
    BY <2>2, <2>3, FS_Subset
  <2> QED
    BY <2>4, FS_CardinalityType
<1>2. /\ IsFiniteSet(Ids) /\ Cardinality(Ids) = max_blocks /\ max_blocks \in Nat
  <2>1. 1 \in Int /\ max_blocks \in Int /\ max_blocks \in Nat \ {0}
    BY CacheFacts
  <2>2. /\ IsFiniteSet(1 .. max_blocks)
        /\ Cardinality(1 .. max_blocks) = IF 1 > max_blocks THEN 0 ELSE max_blocks - 1 + 1
    BY <2>1, FS_Interval
  <2> QED
    BY <2>1, <2>2 DEF Ids
<1>3. F # {}
  <2> SUFFICES ASSUME F = {} PROVE FALSE
    OBVIOUS
  <2> DEFINE f == [i \in Ids |-> entry[i].key]
  <2>1. \A i \in Ids : entry[i].key \in Keys /\ cache[entry[i].key] = i
    BY DEF Inv, Held
  <2>2. \A i \in Ids : entry[i].key \in used
    BY <2>1, CacheFacts
  <2>3. \A i, j \in Ids : entry[i].key = entry[j].key => i = j
    BY <2>1
  <2> HIDE DEF used
  <2>4. f \in Injection(Ids, used)
    BY <2>2, <2>3 DEF Injection, IsInjective
  <2>5. Cardinality(Ids) <= Cardinality(used)
    BY <1>1, <2>4, FS_Injection
  <2>6. max_blocks - Cardinality(used) > 0
    BY DEF nfree, used
  <2> QED
    BY <1>1, <1>2, <2>5, <2>6
<1>4. F \in SUBSET Nat
  BY CacheFacts
<1>5. PICK m \in F : \A k \in F : m <= k
  BY <1>3, <1>4, LeastElement
<1>6. \E i \in Ids : entry[i] = Free /\ \A j \in Ids : entry[j] = Free => i <= j
  BY <1>5
<1> QED
  BY <1>6 DEF Fresh

-----------------------------------------------------------------------------
(* Initial states, and steps that leave blocks and list alone.             *)

LEMMA InitInv == Init => Inv
<1> SUFFICES ASSUME Init PROVE Inv
  OBVIOUS
<1>1. /\ cache = [k \in Keys |-> Absent] /\ entry = [i \in Ids |-> Free]
      /\ list = [lru |-> Null, mru |-> Null, node |-> [i \in Ids |-> Alone]]
      /\ file = [d \in Devices |-> NewFile] /\ op = NoCall /\ status = "up"
      /\ latest = [k \in Keys |-> Zero]
  BY DEF Init
<1>2. TypeOK
  <2>1. Free \in [key : Keys \cup {Null}, data : Data, dirty : BOOLEAN]
    BY CacheFacts DEF Free
  <2>2. NewFile \in [state : {"unmapped", "good", "failed", "closed"},
                     disk : [Blocks -> Data]]
    BY CacheFacts DEF NewFile
  <2>3. NoCall \in [kind : {"none", "write", "read", "flush", "unmap"},
                    dev : Devices \cup {Null}, num : Nat, n : Nat,
                    data : Data, at : Ids \cup {Null}]
    BY CacheFacts DEF NoCall
  <2>4. list \in ListType
    BY <1>1 DEF ListType, Alone
  <2>5. entry \in [Ids -> [key : Keys \cup {Null}, data : Data, dirty : BOOLEAN]]
    BY <1>1, <2>1
  <2>6. file \in [Devices -> [state : {"unmapped", "good", "failed", "closed"},
                              disk : [Blocks -> Data]]]
    BY <1>1, <2>2
  <2>7. cache \in [Keys -> Ids \cup {Null, Absent}] /\ latest \in [Keys -> Data]
    BY <1>1, CacheFacts
  <2> QED
    BY <1>1, <2>3, <2>4, <2>5, <2>6, <2>7 DEF TypeOK, ListType
<1>3. \A k \in Keys : cache[k] \notin Ids
  BY <1>1, CacheFacts
<1>4. Held
  BY <1>1, <1>3 DEF Held
<1>5. ~ Flushing /\ op.kind = "none"
  BY <1>1 DEF Flushing, NoCall
<1>6. Ranked
  <2> DEFINE p == [j \in 1 .. 0 |-> 1]
  <2>1. list \in ListType
    BY <1>2 DEF TypeOK, ListType
  <2>2. Chained(list, p, 0)
    BY <1>1, <2>1 DEF Chained
  <2>3. Ordered(p, 0)
    BY <1>1, <2>2 DEF Ordered
  <2>4. Passed(p, 0, 1) /\ 1 \in 1 .. 0 + 1
    BY <1>5 DEF Passed
  <2> HIDE DEF p
  <2> QED
    BY <2>3, <2>4 DEF Ranked
<1>7. Calls
  BY <1>5 DEF Calls
<1>8. Kept
  <2> SUFFICES ASSUME NEW d \in Devices, NEW b \in Blocks
               PROVE  Contents(<<d, b>>) = latest[<<d, b>>]
    BY DEF Kept
  <2>1. <<d, b>> \in Keys
    BY DEF Keys
  <2>2. Contents(<<d, b>>) = file[d].disk[b]
    BY <1>3, <2>1 DEF Contents
  <2>3. file[d].disk[b] = Zero
    BY <1>1 DEF NewFile
  <2> QED
    BY <1>1, <2>1, <2>2, <2>3
<1> QED
  BY <1>2, <1>4, <1>6, <1>7, <1>8 DEF Inv

LEMMA QuietStep ==
    ASSUME Inv, UNCHANGED <<cache, entry, list, latest>>,
           TypeOK', ~ Flushing', Calls', Kept'
    PROVE  Inv'
<1>1. Held'
  BY DEF Inv, Held
<1>2. PICK p, n : Ordered(p, n)
  BY DEF Inv, Ranked
<1>3. Ordered(p, n)' /\ 1 \in 1 .. n + 1
  BY <1>2 DEF Ordered, Chained
<1>4. Passed(p, n, 1)'
  BY DEF Passed
<1>5. Ranked'
  BY <1>3, <1>4 DEF Ranked
<1> QED
  BY <1>1, <1>5 DEF Inv

(* Files whose contents and states do not get worse keep what is written.  *)
LEMMA KeptByFiles ==
    ASSUME Inv, UNCHANGED <<cache, entry, latest>>,
           \A d \in Devices : file'[d].state # "failed" =>
              file[d].state # "failed" /\ file'[d].disk = file[d].disk
    PROVE  Kept'
<1> SUFFICES ASSUME NEW d \in Devices, NEW b \in Blocks, file'[d].state # "failed"
             PROVE  Contents(<<d, b>>)' = latest'[<<d, b>>]
  BY DEF Kept
<1>1. Contents(<<d, b>>) = latest[<<d, b>>]
  BY DEF Inv, Kept
<1>2. Contents(<<d, b>>)' = Contents(<<d, b>>)
  BY DEF Contents
<1> QED
  BY <1>1, <1>2

LEMMA StopKeepsInv ==
    ASSUME Inv, NEW why \in {"hung", "crashed"}, Stop(why)
    PROVE  Inv'
<1>1. UNCHANGED <<cache, entry, list, file, op, latest>> /\ status' = why
  BY DEF Stop
<1>2. TypeOK' /\ ~ Flushing' /\ Calls'
  BY <1>1 DEF Inv, TypeOK, Flushing, Calls
<1>3. Kept'
  BY <1>1, KeptByFiles
<1> QED
  BY <1>1, <1>2, <1>3, QuietStep

LEMMA StutterKeepsInv ==
    ASSUME Inv, UNCHANGED vars
    PROVE  Inv'
<1>1. UNCHANGED <<cache, entry, list, file, op, status, latest>>
  BY DEF vars
<1>2. TypeOK' /\ Held' /\ Calls'
  BY <1>1 DEF Inv, TypeOK, Held, Calls, Mapped
<1>3. Kept'
  BY <1>1, KeptByFiles
<1>4. PICK p, n : Ordered(p, n) /\ \E m \in 1 .. n + 1 : Passed(p, n, m)
  BY DEF Inv, Ranked
<1>5. Ordered(p, n)' /\ \E m \in 1 .. n + 1 : Passed(p, n, m)'
  BY <1>1, <1>4 DEF Ordered, Chained, Passed, Flushing
<1>6. Ranked'
  BY <1>5 DEF Ranked
<1> QED
  BY <1>2, <1>3, <1>6 DEF Inv

(* Calls that begin.                                                       *)

OpType == [kind : {"none", "write", "read", "flush", "unmap"},
           dev : Devices \cup {Null}, num : Nat, n : Nat,
           data : Data, at : Ids \cup {Null}]

FileType == [state : {"unmapped", "good", "failed", "closed"}, disk : [Blocks -> Data]]

LEMMA map_deviceKeepsInv ==
    ASSUME Inv, NEW d \in Devices, map_device(d)
    PROVE  Inv'
<1>1. /\ file' = [file EXCEPT ![d].state = "good"] /\ file[d].state = "unmapped"
      /\ UNCHANGED <<cache, entry, list, op, status, latest>>
      /\ op.kind = "none"
  BY DEF map_device, Mapped, Idle
<1>2. file \in [Devices -> FileType]
  BY DEF Inv, TypeOK, FileType
<1>3. /\ file' \in [Devices -> FileType]
      /\ \A c \in Devices : file'[c].disk = file[c].disk
      /\ \A c \in Devices \ {d} : file'[c] = file[c]
  BY <1>1, <1>2 DEF FileType
<1>4. TypeOK'
  BY <1>1, <1>3 DEF Inv, TypeOK, FileType
<1>5. ~ Flushing' /\ Calls'
  BY <1>1 DEF Flushing, Calls
<1>6. Kept'
  <2>1. \A c \in Devices : file'[c].state # "failed" =>
           file[c].state # "failed" /\ file'[c].disk = file[c].disk
    BY <1>1, <1>3
  <2> QED
    BY <1>1, <2>1, KeptByFiles
<1> QED
  BY <1>1, <1>4, <1>5, <1>6, QuietStep

LEMMA cached_writeKeepsInv ==
    ASSUME Inv, NEW d \in Devices, NEW b \in Blocks, NEW n \in 1 .. NumBlocks,
           NEW v \in Data, cached_write(d, b, n, v)
    PROVE  Inv'
<1> DEFINE new == [NoCall EXCEPT !.kind = "write", !.dev = d, !.num = b, !.n = n, !.data = v]
<1>1. /\ op' = new /\ Mapped(d) /\ n > 0 /\ b + n <= NumBlocks
      /\ UNCHANGED <<cache, entry, list, file, status, latest>>
  BY DEF cached_write
<1>2. b \in Nat /\ n \in Nat
  BY CacheFacts DEF Blocks
<1>3. /\ new \in OpType
      /\ new.kind = "write" /\ new.dev = d /\ new.num = b /\ new.n = n
  BY <1>2, CacheFacts DEF NoCall, OpType
<1> HIDE DEF new
<1>4. TypeOK'
  BY <1>1, <1>3 DEF Inv, TypeOK, OpType
<1>5. ~ Flushing'
  BY <1>1, <1>3 DEF Flushing
<1>6. Calls'
  BY <1>1, <1>2, <1>3 DEF Calls, Mapped
<1>7. Kept'
  BY <1>1, KeptByFiles
<1> QED
  BY <1>1, <1>4, <1>5, <1>6, <1>7, QuietStep

LEMMA cached_readKeepsInv ==
    ASSUME Inv, NEW d \in Devices, NEW b \in Blocks, NEW n \in ReadSizes,
           cached_read(d, b, n)
    PROVE  Inv'
<1> DEFINE new == [NoCall EXCEPT !.kind = "read", !.dev = d, !.num = b, !.n = n]
<1>1. /\ op' = new /\ Mapped(d)
      /\ UNCHANGED <<cache, entry, list, file, status, latest>>
  BY DEF cached_read
<1>2. b \in Nat /\ n \in Nat \ {0}
  BY CacheAssumption DEF Blocks
<1>3. /\ new \in OpType
      /\ new.kind = "read" /\ new.dev = d /\ new.n = n
  BY <1>2, CacheFacts DEF NoCall, OpType
<1> HIDE DEF new
<1>4. TypeOK'
  BY <1>1, <1>3 DEF Inv, TypeOK, OpType
<1>5. ~ Flushing'
  BY <1>1, <1>3 DEF Flushing
<1>6. Calls'
  BY <1>1, <1>2, <1>3 DEF Calls, Mapped
<1>7. Kept'
  BY <1>1, KeptByFiles
<1> QED
  BY <1>1, <1>4, <1>5, <1>6, <1>7, QuietStep

(* flush and unmap_device begin at the head of the list.                   *)
LEMMA FlushBegins ==
    ASSUME Inv, NEW d \in Devices, NEW kind \in {"flush", "unmap"}, Mapped(d),
           op' = [NoCall EXCEPT !.kind = kind, !.dev = d, !.at = list.lru],
           UNCHANGED <<cache, entry, list, file, status, latest>>
    PROVE  Inv'
<1>1. list.lru \in Ids \cup {Null}
  BY DEF Inv, TypeOK
<1>2. /\ op' \in OpType /\ op'.kind = kind /\ op'.dev = d /\ op'.at = list.lru
  BY <1>1, CacheFacts DEF NoCall, OpType
<1>3. TypeOK' /\ Held'
  BY <1>2 DEF Inv, TypeOK, OpType, Held
<1>4. Calls'
  BY <1>2 DEF Calls, Mapped
<1>5. Kept'
  BY KeptByFiles
<1>6. PICK p, n : Ordered(p, n)
  BY DEF Inv, Ranked
<1>7. /\ Ordered(p, n)' /\ n \in Nat /\ 1 \in 1 .. n + 1
      /\ list.lru = IF n = 0 THEN Null ELSE p[1]
  BY <1>6 DEF Ordered, Chained
<1>8. Passed(p, n, 1)'
  BY <1>2, <1>7 DEF Passed
<1>9. Ranked'
  BY <1>7, <1>8 DEF Ranked
<1> QED
  BY <1>3, <1>4, <1>5, <1>9 DEF Inv

LEMMA large_readKeepsInv ==
    ASSUME Inv, NEW d \in Devices, NEW b \in Blocks, NEW n \in ReadSizes,
           NEW junk \in Data, large_read(d, b, n, junk)
    PROVE  Inv'
<1>1. CASE Stop("crashed")
  BY <1>1, StopKeepsInv
<1>2. ASSUME file' = AfterRead(d), Idle,
             entry' = [i \in Ids |->
                         IF entry[i].dirty /\ \E m \in b .. b + n - 1 : block_lookup(<<d, m>>) = i
                         THEN [entry[i] EXCEPT !.data = junk] ELSE entry[i]],
             UNCHANGED <<cache, list, op, status, latest>>
      PROVE  Inv'
  <2> DEFINE E == [key : Keys \cup {Null}, data : Data, dirty : BOOLEAN]
  <2>1. /\ file \in [Devices -> FileType] /\ entry \in [Ids -> E]
    BY DEF Inv, TypeOK, FileType
  <2>2. /\ file' \in [Devices -> FileType] /\ file'[d].state = "failed"
        /\ \A c \in Devices \ {d} : file'[c] = file[c]
    BY <1>2, <2>1 DEF FileType, AfterRead
  <2>3. ASSUME NEW i \in Ids
        PROVE  /\ entry'[i] \in E
               /\ entry'[i].key = entry[i].key /\ entry'[i].dirty = entry[i].dirty
               /\ entry[i] = Free => entry'[i] = Free
    <3>1. entry'[i] = entry[i] \/ (entry[i].dirty /\ entry'[i] = [entry[i] EXCEPT !.data = junk])
      BY <1>2
    <3>2. ~ Free.dirty
      BY DEF Free
    <3> QED
      BY <2>1, <3>1, <3>2
  <2>4. entry' \in [Ids -> E]
    <3>1. entry' = [i \in Ids |-> entry'[i]]
      BY <1>2
    <3> HIDE DEF E
    <3> QED
      BY <2>3, <3>1
  <2>5. TypeOK'
    BY <1>2, <2>2, <2>4 DEF Inv, TypeOK, FileType
  <2>6. ASSUME NEW i \in Ids, entry[i].key \in Keys, entry[i].key[1] # d,
               cache[entry[i].key] = i
        PROVE  entry'[i] = entry[i]
    <3> SUFFICES ASSUME NEW m \in b .. b + n - 1, block_lookup(<<d, m>>) = i
                 PROVE  FALSE
      BY <1>2
    <3>1. <<d, m>> \in Keys /\ cache[<<d, m>>] = i
      BY CacheFacts DEF block_lookup
    <3>2. entry[i].key = <<d, m>>
      BY <3>1 DEF Inv, Held
    <3> QED
      BY <2>6, <3>2
  <2>7. \A i \in Ids : entry[i] # Free <=> entry'[i] # Free
    <3> SUFFICES ASSUME NEW i \in Ids, entry[i] # Free PROVE entry'[i] # Free
      BY <2>3
    <3>1. entry'[i].dirty
      BY <2>3 DEF Inv, Held
    <3> QED
      BY <3>1 DEF Free
  <2>8. Held'
    <3>1. \A k \in Keys : cache'[k] \in Ids => entry'[cache'[k]].key = k /\ entry'[cache'[k]].dirty
      BY <1>2, <2>3 DEF Inv, Held
    <3>2. ASSUME NEW i \in Ids
          PROVE  \/ entry'[i] = Free
                 \/ /\ entry'[i].key \in Keys /\ entry'[i].dirty
                    /\ cache'[entry'[i].key] = i
      <4>1. CASE entry[i] = Free
        BY <2>3, <4>1
      <4>2. CASE entry[i] # Free
        <5>1. entry[i].key \in Keys /\ entry[i].dirty /\ cache[entry[i].key] = i
          BY <4>2 DEF Inv, Held
        <5>2. entry'[i].key = entry[i].key /\ entry'[i].dirty = entry[i].dirty
          BY <2>3
        <5> QED
          BY <1>2, <5>1, <5>2
      <4> QED
        BY <4>1, <4>2
    <3> QED
      BY <3>1, <3>2 DEF Held
  <2>9. ~ Flushing' /\ Calls'
    BY <1>2 DEF Flushing, Calls, Idle
  <2>10. Ranked'
    <3>1. PICK p, k : Ordered(p, k)
      BY DEF Inv, Ranked
    <3>2. Ordered(p, k)' /\ 1 \in 1 .. k + 1
      BY <1>2, <2>7, <3>1 DEF Ordered, Chained
    <3>3. Passed(p, k, 1)'
      BY <2>9 DEF Passed
    <3> QED
      BY <3>2, <3>3 DEF Ranked
  <2>11. Kept'
    <3> SUFFICES ASSUME NEW c \in Devices, NEW x \in Blocks, file'[c].state # "failed"
                 PROVE  Contents(<<c, x>>)' = latest'[<<c, x>>]
      BY DEF Kept
    <3>1. c # d /\ file'[c] = file[c] /\ <<c, x>> \in Keys
      BY <2>2 DEF Keys
    <3>2. Contents(<<c, x>>) = latest[<<c, x>>]
      BY <3>1 DEF Inv, Kept
    <3>3. CASE cache[<<c, x>>] \in Ids
      <4>1. entry[cache[<<c, x>>]].key = <<c, x>>
        BY <3>1, <3>3 DEF Inv, Held
      <4>2. entry'[cache[<<c, x>>]] = entry[cache[<<c, x>>]]
        BY <2>6, <3>1, <3>3, <4>1
      <4> QED
        BY <1>2, <3>2, <3>3, <4>2 DEF Contents
    <3>4. CASE cache[<<c, x>>] \notin Ids
      BY <1>2, <3>1, <3>2, <3>4 DEF Contents
    <3> QED
      BY <3>3, <3>4
  <2> QED
    BY <2>5, <2>8, <2>9, <2>10, <2>11 DEF Inv
<1> QED
  BY <1>1, <1>2 DEF large_read

-----------------------------------------------------------------------------
(* Turns of reading and writing.                                           *)

LEMMA NextBlockCalls ==
    ASSUME Inv, status = "up", op.kind \in {"read", "write"}, NextBlock,
           UNCHANGED <<file, status>>
    PROVE  op' \in OpType /\ ~ Flushing' /\ Calls'
<1>1. /\ op \in OpType /\ op.n > 0 /\ op.dev \in Devices /\ Mapped(op.dev)
      /\ op.kind = "write" => op.num + op.n <= NumBlocks
      /\ op.num \in Nat /\ op.n \in Nat
  BY DEF Inv, TypeOK, OpType, Calls
<1>2. CASE op.n = 1
  <2>1. op' = NoCall
    BY <1>2 DEF NextBlock
  <2>2. NoCall \in OpType /\ NoCall.kind = "none"
    BY CacheFacts DEF NoCall, OpType
  <2> QED
    BY <2>1, <2>2 DEF Flushing, Calls
<1>3. CASE op.n # 1
  <2> DEFINE new == [op EXCEPT !.n = op.n - 1, !.num = op.num + 1]
  <2>1. op' = new
    BY <1>3 DEF NextBlock
  <2>2. op.n - 1 \in Nat /\ op.n - 1 > 0 /\ op.num + 1 \in Nat
    BY <1>1, <1>3
  <2>3. /\ new \in OpType /\ new.kind = op.kind /\ new.dev = op.dev
        /\ new.n = op.n - 1 /\ new.num = op.num + 1
    BY <1>1, <2>2 DEF OpType
  <2> HIDE DEF new
  <2>4. op.kind = "write" => (op.num + 1) + (op.n - 1) <= NumBlocks
    BY <1>1
  <2> QED
    BY <1>1, <2>1, <2>2, <2>3, <2>4 DEF Flushing, Calls, Mapped
<1> QED
  BY <1>2, <1>3

(* The block of the write call that runs is one of the device.             *)
LEMMA WriteKey ==
    ASSUME Inv, status = "up", op.kind = "write"
    PROVE  Key \in Keys /\ Key = <<op.dev, op.num>> /\ op.dev \in Devices
           /\ op.num \in Blocks /\ op.data \in Data
<1>1. /\ op.n > 0 /\ op.dev \in Devices /\ op.num + op.n <= NumBlocks
      /\ op.num \in Nat /\ op.n \in Nat /\ op.data \in Data
  BY DEF Inv, TypeOK, OpType, Calls
<1>2. op.num \in Blocks
  BY <1>1, CacheFacts DEF Blocks
<1> QED
  BY <1>1, <1>2 DEF Key, Keys

(* Writing into block i, which is in use for this key or not at all, with  *)
(* a list l that holds the other blocks.                                   *)
LEMMA PutKeepsInv ==
    ASSUME Inv, status = "up", op.kind = "write", NEW i \in Ids,
           \/ entry[i] = Free /\ cache[Key] \notin Ids
           \/ cache[Key] = i,
           NEW l, NEW p, NEW n, Chained(l, p, n),
           \A x \in Ids : x # i /\ entry[x] # Free <=> \E j \in 1 .. n : p[j] = x,
           Put(i, l)
    PROVE  Inv'
<1> DEFINE new == [key |-> Key, data |-> op.data, dirty |-> TRUE]
           E   == [key : Keys \cup {Null}, data : Data, dirty : BOOLEAN]
<1>1. /\ entry' = [entry EXCEPT ![i] = new]
      /\ list' = link_at_mru(l, i)
      /\ cache' = [cache EXCEPT ![Key] = i]
      /\ latest' = [latest EXCEPT ![Key] = op.data]
      /\ NextBlock
      /\ UNCHANGED <<file, status>>
  BY DEF Put
<1>2. /\ Key \in Keys /\ Key = <<op.dev, op.num>> /\ op.dev \in Devices
      /\ op.num \in Blocks /\ op.data \in Data
  BY WriteKey
<1>3. /\ cache \in [Keys -> Ids \cup {Null, Absent}] /\ entry \in [Ids -> E]
      /\ latest \in [Keys -> Data]
  BY DEF Inv, TypeOK
<1>4. new \in E /\ new.key = Key /\ new.data = op.data /\ new.dirty /\ new # Free
  BY <1>2 DEF Free
<1> HIDE DEF new, E
<1>5. /\ entry' \in [Ids -> E] /\ entry'[i] = new
      /\ \A x \in Ids \ {i} : entry'[x] = entry[x]
      /\ cache' \in [Keys -> Ids \cup {Null, Absent}] /\ cache'[Key] = i
      /\ \A k \in Keys \ {Key} : cache'[k] = cache[k]
      /\ latest' \in [Keys -> Data] /\ latest'[Key] = op.data
      /\ \A k \in Keys \ {Key} : latest'[k] = latest[k]
  BY <1>1, <1>2, <1>3, <1>4
<1>6. op' \in OpType /\ ~ Flushing' /\ Calls'
  BY <1>1, NextBlockCalls
<1>7. \A j \in 1 .. n : p[j] # i /\ p[j] \in Ids
  BY DEF Chained
<1>8. Chained(list', Appended(p, n, i), n + 1)
  BY <1>1, <1>7, LinkChained
<1>9. TypeOK'
  <2>1. list' \in ListType
    BY <1>8 DEF Chained
  <2> QED
    BY <1>1, <1>5, <1>6, <2>1 DEF Inv, TypeOK, OpType, ListType, E
<1>10. Held'
  <2>1. ASSUME NEW k \in Keys, cache'[k] \in Ids
        PROVE  entry'[cache'[k]].key = k /\ entry'[cache'[k]].dirty
    <3>1. CASE k = Key
      BY <1>4, <1>5, <3>1
    <3>2. CASE k # Key
      <4>1. /\ cache'[k] = cache[k] /\ entry[cache[k]].key = k
            /\ entry[cache[k]].dirty
        BY <1>5, <2>1, <3>2 DEF Inv, Held
      <4>2. cache[k] # i
        <5> SUFFICES ASSUME cache[k] = i PROVE FALSE
          OBVIOUS
        <5>1. entry[i] # Free
          BY <4>1 DEF Free
        <5>2. cache[Key] = i /\ entry[i].key = Key
          BY <1>2, <5>1 DEF Inv, Held
        <5> QED
          BY <3>2, <4>1, <5>2
      <4> QED
        BY <1>5, <2>1, <4>1, <4>2
    <3> QED
      BY <3>1, <3>2
  <2>2. ASSUME NEW x \in Ids
        PROVE  \/ entry'[x] = Free
               \/ /\ entry'[x].key \in Keys /\ entry'[x].dirty
                  /\ cache'[entry'[x].key] = x
    <3>1. CASE x = i
      BY <1>2, <1>4, <1>5, <3>1
    <3>2. CASE x # i /\ entry[x] # Free
      <4>1. /\ entry'[x] = entry[x] /\ entry[x].key \in Keys /\ entry[x].dirty
            /\ cache[entry[x].key] = x
        BY <1>5, <3>2 DEF Inv, Held
      <4>2. entry[x].key # Key
        BY <3>2, <4>1
      <4> QED
        BY <1>5, <4>1, <4>2
    <3>3. CASE x # i /\ entry[x] = Free
      BY <1>5, <3>3
    <3> QED
      BY <3>1, <3>2, <3>3
  <2> QED
    BY <2>1, <2>2 DEF Held
<1>11. Ranked'
  <2>1. PICK q : q = Appended(p, n, i)
    OBVIOUS
  <2>2. n \in Nat /\ q[n + 1] = i /\ \A j \in 1 .. n : q[j] = p[j]
    BY <2>1 DEF Appended, Chained
  <2>3. ASSUME NEW x \in Ids
        PROVE  entry'[x] # Free <=> \E j \in 1 .. n + 1 : q[j] = x
    <3>1. CASE x = i
      BY <1>4, <1>5, <2>2, <3>1
    <3>2. CASE x # i
      <4>1. entry'[x] # Free <=> \E j \in 1 .. n : p[j] = x
        BY <1>5, <3>2
      <4>2. \A j \in 1 .. n + 1 : j \in 1 .. n \/ j = n + 1
        BY <2>2
      <4>3. \A j \in 1 .. n : j \in 1 .. n + 1
        BY <2>2
      <4> QED
        BY <2>2, <3>2, <4>1, <4>2, <4>3
    <3> QED
      BY <3>1, <3>2
  <2>4. Ordered(q, n + 1)'
    BY <1>8, <2>1, <2>3 DEF Ordered
  <2>5. PICK k : k = n + 1
    OBVIOUS
  <2>6. 1 \in 1 .. k + 1 /\ Passed(q, k, 1)' /\ Ordered(q, k)'
    BY <1>6, <2>2, <2>4, <2>5 DEF Passed
  <2> QED
    BY <2>6 DEF Ranked
<1>12. Kept'
  <2> SUFFICES ASSUME NEW c \in Devices, NEW b \in Blocks, file'[c].state # "failed"
               PROVE  Contents(<<c, b>>)' = latest'[<<c, b>>]
    BY DEF Kept
  <2>1. <<c, b>> \in Keys /\ Contents(<<c, b>>) = latest[<<c, b>>]
    BY <1>1 DEF Inv, Kept, Keys
  <2>2. CASE <<c, b>> = Key
    <3>1. Contents(<<c, b>>)' = entry'[i].data
      BY <1>5, <2>2 DEF Contents
    <3> QED
      BY <1>4, <1>5, <2>2, <3>1
  <2>3. CASE <<c, b>> # Key
    <3>1. cache'[<<c, b>>] = cache[<<c, b>>] /\ latest'[<<c, b>>] = latest[<<c, b>>]
      BY <1>5, <2>1, <2>3
    <3>2. CASE cache[<<c, b>>] \in Ids
      <4>1. entry[cache[<<c, b>>]].key = <<c, b>> /\ entry[cache[<<c, b>>]].dirty
        BY <2>1, <3>2 DEF Inv, Held
      <4>2. cache[<<c, b>>] # i
        <5> SUFFICES ASSUME cache[<<c, b>>] = i PROVE FALSE
          OBVIOUS
        <5>1. entry[i] # Free
          BY <4>1 DEF Free
        <5>2. entry[i].key = Key
          BY <1>2, <5>1 DEF Inv, Held
        <5> QED
          BY <2>3, <4>1, <5>2
      <4>3. entry'[cache[<<c, b>>]] = entry[cache[<<c, b>>]]
        BY <1>5, <3>2, <4>2
      <4> QED
        BY <2>1, <3>1, <3>2, <4>3 DEF Contents
    <3>3. CASE cache[<<c, b>>] \notin Ids
      BY <1>1, <2>1, <3>1, <3>3 DEF Contents
    <3> QED
      BY <3>2, <3>3
  <2> QED
    BY <2>2, <2>3
<1> QED
  BY <1>6, <1>9, <1>10, <1>11, <1>12 DEF Inv

(* The rest of the list when the block at position m is taken off.         *)
LEMMA OthersInOrder ==
    ASSUME NEW p, NEW n, Ordered(p, n), NEW m \in 1 .. n, NEW i, i = p[m],
           NEW q, q = Without(p, n, m), NEW k, k = n - 1
    PROVE  /\ i \in Ids /\ Chained(unlink_from(list, i), q, k)
           /\ \A x \in Ids : x # i /\ entry[x] # Free <=> \E h \in 1 .. k : q[h] = x
<1>2. /\ Chained(list, p, n) /\ n \in Nat /\ p \in [1 .. n -> Ids]
      /\ \A j, h \in 1 .. n : p[j] = p[h] => j = h
      /\ \A x \in Ids : entry[x] # Free <=> \E j \in 1 .. n : p[j] = x
  BY DEF Ordered, Chained
<1>3. p[m] = i /\ i \in Ids
  BY <1>2
<1>4. q = Without(p, n, m) /\ k = n - 1
  OBVIOUS
<1>5. Chained(unlink_from(list, i), q, k)
  BY <1>2, <1>3, <1>4, UnlinkChained
<1>6. \A j \in 1 .. k : q[j] = IF j < m THEN p[j] ELSE p[j + 1]
  BY <1>4 DEF Without
<1>7. ASSUME NEW x \in Ids, x # i, NEW j \in 1 .. n, p[j] = x
      PROVE  \E h \in 1 .. k : q[h] = x
  <2>1. CASE j < m
    <3>1. j \in 1 .. k /\ q[j] = p[j]
      BY <1>2, <1>4, <1>6, <2>1
    <3> QED
      BY <1>7, <3>1
  <2>2. CASE j > m
    <3>1. j - 1 \in 1 .. k /\ q[j - 1] = p[j - 1 + 1] /\ j - 1 + 1 = j
      BY <1>2, <1>4, <1>6, <2>2
    <3> QED
      BY <1>7, <3>1
  <2>3. j # m
    BY <1>3, <1>7
  <2> QED
    BY <2>1, <2>2, <2>3
<1>8. ASSUME NEW h \in 1 .. k
      PROVE  q[h] # i /\ \E j \in 1 .. n : p[j] = q[h]
  <2>1. CASE h < m
    <3>1. h \in 1 .. n /\ q[h] = p[h] /\ h # m
      BY <1>2, <1>4, <1>6, <2>1
    <3> QED
      BY <1>2, <1>3, <3>1
  <2>2. CASE ~ (h < m)
    <3>1. h + 1 \in 1 .. n /\ q[h] = p[h + 1] /\ h + 1 # m
      BY <1>2, <1>4, <1>6, <2>2
    <3> QED
      BY <1>2, <1>3, <3>1
  <2> QED
    BY <2>1, <2>2
<1>9. \A x \in Ids : x # i /\ entry[x] # Free <=> \E h \in 1 .. k : q[h] = x
  BY <1>2, <1>7, <1>8
<1> QED
  BY <1>3, <1>5, <1>9

LEMMA OthersChained ==
    ASSUME Inv, NEW i \in Ids, entry[i] # Free
    PROVE  \E p, n : /\ Chained(unlink_from(list, i), p, n)
                     /\ \A x \in Ids : x # i /\ entry[x] # Free
                                        <=> \E j \in 1 .. n : p[j] = x
<1>1. PICK p, n : Ordered(p, n)
  BY DEF Inv, Ranked
<1>2. PICK m \in 1 .. n : i = p[m]
  BY <1>1 DEF Ordered
<1>3. PICK q, k : q = Without(p, n, m) /\ k = n - 1
  OBVIOUS
<1>4. /\ Chained(unlink_from(list, i), q, k)
      /\ \A x \in Ids : x # i /\ entry[x] # Free <=> \E h \in 1 .. k : q[h] = x
  BY <1>1, <1>2, <1>3, OthersInOrder
<1> QED
  BY <1>4

LEMMA write_hitKeepsInv ==
    ASSUME Inv, write_hit
    PROVE  Inv'
<1>1. /\ status = "up" /\ op.kind = "write" /\ block_lookup(Key) # Null
      /\ Put(block_lookup(Key), unlink_from(list, block_lookup(Key)))
  BY DEF write_hit
<1>2. PICK i : i = block_lookup(Key)
  OBVIOUS
<1>3. i \in Ids /\ cache[Key] = i
  BY <1>1, <1>2, CacheFacts DEF block_lookup, Inv, TypeOK
<1>4. entry[i] # Free
  <2>1. Key \in Keys
    BY <1>1, WriteKey
  <2>2. entry[i].dirty
    BY <1>3, <2>1 DEF Inv, Held
  <2> QED
    BY <2>2 DEF Free
<1>5. PICK p, n : /\ Chained(unlink_from(list, i), p, n)
                  /\ \A x \in Ids : x # i /\ entry[x] # Free
                                     <=> \E j \in 1 .. n : p[j] = x
  BY <1>3, <1>4, OthersChained
<1> QED
  BY <1>1, <1>2, <1>3, <1>5, PutKeepsInv

LEMMA write_missKeepsInv ==
    ASSUME Inv, write_miss
    PROVE  Inv'
<1>1. status = "up" /\ op.kind = "write" /\ block_lookup(Key) = Null
  BY DEF write_miss
<1>2. CASE Stop("hung")
  BY <1>2, StopKeepsInv
<1>3. ASSUME get_block # Null,
             Put(get_block, IF nfree > 0 THEN list ELSE unlink_from(list, get_block))
      PROVE  Inv'
  <2>1. nfree > 0 /\ get_block = Fresh
    <3>1. Usable = {}
      BY NothingUsable
    <3>2. nfree > 0 => ~ (nfree = 0 /\ Usable # {})
      BY <3>1
    <3>3. nfree > 0 \/ ~ (nfree > 0)
      OBVIOUS
    <3> QED
      BY <1>3, <3>1, <3>2, <3>3 DEF get_block
  <2>2. PICK i \in Ids : i = Fresh /\ entry[i] = Free
    BY <2>1, FreshIsFree
  <2>3. Put(i, list)
    BY <1>3, <2>1, <2>2
  <2>4. cache[Key] \notin Ids
    <3>1. Key \in Keys
      BY <1>1, WriteKey
    <3> QED
      BY <1>1, <3>1, CacheFacts DEF block_lookup
  <2>5. PICK p, n : Ordered(p, n)
    BY DEF Inv, Ranked
  <2>6. Chained(list, p, n) /\ \A x \in Ids : x # i /\ entry[x] # Free
                                              <=> \E j \in 1 .. n : p[j] = x
    BY <2>2, <2>5 DEF Ordered
  <2> QED
    BY <1>1, <2>2, <2>3, <2>4, <2>6, PutKeepsInv
<1> QED
  BY <1>2, <1>3 DEF write_miss

LEMMA read_hitKeepsInv ==
    ASSUME Inv, read_hit
    PROVE  Inv'
<1>1. /\ status = "up" /\ op.kind = "read" /\ NextBlock
      /\ UNCHANGED <<cache, entry, file, status, latest>>
  BY DEF read_hit
<1>2. PICK i : i = block_lookup(Key) /\ i # Null /\ list' = MakeMru(list, i)
  BY DEF read_hit
<1>3. i \in Ids /\ Key \in Keys /\ cache[Key] = i
  BY <1>2, CacheFacts DEF block_lookup, Inv, TypeOK
<1>4. entry[i] # Free
  <2>1. entry[i].dirty
    BY <1>3 DEF Inv, Held
  <2> QED
    BY <2>1 DEF Free
<1>5. PICK p, n : /\ Chained(unlink_from(list, i), p, n)
                  /\ \A x \in Ids : x # i /\ entry[x] # Free
                                     <=> \E j \in 1 .. n : p[j] = x
  BY <1>3, <1>4, OthersChained
<1>6. n \in Nat /\ \A j \in 1 .. n : p[j] # i /\ p[j] \in Ids
  BY <1>5 DEF Chained
<1>7. PICK q, k : q = Appended(p, n, i) /\ k = n + 1
  OBVIOUS
<1>8. Chained(list', q, k)
  BY <1>2, <1>3, <1>5, <1>6, <1>7, LinkChained DEF MakeMru
<1>9. \A x \in Ids : entry[x] # Free <=> \E j \in 1 .. k : q[j] = x
  <2>1. q[k] = i /\ k \in 1 .. k /\ \A j \in 1 .. n : q[j] = p[j] /\ j \in 1 .. k
    BY <1>6, <1>7 DEF Appended
  <2>2. \A j \in 1 .. k : j \in 1 .. n \/ j = k
    BY <1>6, <1>7
  <2> QED
    BY <1>4, <1>5, <2>1, <2>2
<1>10. op' \in OpType /\ ~ Flushing' /\ Calls'
  BY <1>1, NextBlockCalls
<1>11. TypeOK'
  <2>1. list' \in ListType
    BY <1>8 DEF Chained
  <2> QED
    BY <1>1, <1>10, <2>1 DEF Inv, TypeOK, OpType, ListType
<1>12. Held' /\ Kept'
  <2>1. Kept'
    BY <1>1, KeptByFiles
  <2> QED
    BY <1>1, <2>1 DEF Inv, Held
<1>13. Ranked'
  <2>1. Ordered(q, k)'
    BY <1>1, <1>8, <1>9 DEF Ordered
  <2>2. 1 \in 1 .. k + 1 /\ Passed(q, k, 1)'
    BY <1>6, <1>7, <1>10 DEF Passed
  <2> QED
    BY <2>1, <2>2 DEF Ranked
<1> QED
  BY <1>10, <1>11, <1>12, <1>13 DEF Inv

LEMMA read_missKeepsInv ==
    ASSUME Inv, read_miss
    PROVE  Inv'
<1>1. CASE Stop("crashed")
  BY <1>1, StopKeepsInv
<1>2. /\ status = "up" /\ op.kind = "read" /\ op.dev \in Devices
  BY DEF read_miss, Inv, Calls
<1>3. ASSUME file' = AfterRead(op.dev), UNCHANGED <<cache, entry, list, latest>>,
             \/ op' = NoCall /\ status' = status
             \/ op' = op /\ status' = "hung"
      PROVE  Inv'
  <2>1. file \in [Devices -> FileType]
    BY DEF Inv, TypeOK, FileType
  <2>2. /\ file' \in [Devices -> FileType] /\ file'[op.dev].state = "failed"
        /\ \A c \in Devices \ {op.dev} : file'[c] = file[c]
    BY <1>2, <1>3, <2>1 DEF FileType, AfterRead
  <2>3. NoCall \in OpType /\ NoCall.kind = "none"
    BY CacheFacts DEF NoCall, OpType
  <2>4. TypeOK'
    BY <1>3, <2>2, <2>3 DEF Inv, TypeOK, OpType, FileType
  <2>5. ~ Flushing' /\ Calls'
    BY <1>3, <2>3 DEF Flushing, Calls
  <2>6. \A c \in Devices : file'[c].state # "failed" =>
           file[c].state # "failed" /\ file'[c].disk = file[c].disk
    BY <2>2
  <2>7. Kept'
    BY <1>3, <2>6, KeptByFiles
  <2> QED
    BY <1>3, <2>4, <2>5, <2>7, QuietStep
<1>4. \/ Stop("crashed")
      \/ /\ file' = AfterRead(op.dev) /\ UNCHANGED <<cache, entry, list, latest>>
         /\ \/ op' = NoCall /\ status' = status
            \/ op' = op /\ status' = "hung"
  <2> DEFINE A == file[op.dev].state = "closed"
             B == Stripe > max_blocks
  <2>1. CASE A
    BY <2>1 DEF read_miss
  <2>2. CASE ~ A /\ B
    BY <2>2 DEF read_miss
  <2>3. CASE ~ A /\ ~ B
    BY <2>3 DEF read_miss
  <2> QED
    BY <2>1, <2>2, <2>3
<1> QED
  BY <1>1, <1>3, <1>4

-----------------------------------------------------------------------------
(* Turns of flush.                                                         *)

LEMMA flush_otherKeepsInv ==
    ASSUME Inv, flush_other
    PROVE  Inv'
<1>1. /\ Flushing /\ op.at # Null /\ entry[op.at].key[1] # op.dev
      /\ op' = [op EXCEPT !.at = list.node[op.at].next]
      /\ UNCHANGED <<cache, entry, list, file, status, latest>>
  BY DEF flush_other
<1>2. PICK p, n : Ordered(p, n) /\ \E m \in 1 .. n + 1 : Passed(p, n, m)
  BY DEF Inv, Ranked
<1>3. PICK m \in 1 .. n + 1 : Passed(p, n, m)
  BY <1>2
<1>4. /\ op.at = IF m = n + 1 THEN Null ELSE p[m]
      /\ \A j \in 1 .. m - 1 : entry[p[j]].key[1] # op.dev
  BY <1>1, <1>3 DEF Passed
<1>5. n \in Nat /\ m \in 1 .. n /\ op.at = p[m] /\ p[m] \in Ids
  BY <1>1, <1>2, <1>4 DEF Ordered, Chained
<1>6. list.node[op.at].next = IF m = n THEN Null ELSE p[m + 1]
  BY <1>2, <1>5 DEF Ordered, Chained
<1>7. list.node[op.at].next \in Ids \cup {Null}
  <2>1. m # n => p[m + 1] \in Ids
    BY <1>2, <1>5 DEF Ordered, Chained
  <2> QED
    BY <1>6, <2>1
<1>8. /\ op' \in OpType /\ op'.at = list.node[op.at].next
      /\ op'.kind = op.kind /\ op'.dev = op.dev /\ op'.num = op.num /\ op'.n = op.n
  <2>1. op \in OpType
    BY DEF Inv, TypeOK, OpType
  <2> QED
    BY <1>1, <1>7, <2>1 DEF OpType
<1>9. TypeOK' /\ Held'
  BY <1>1, <1>8 DEF Inv, TypeOK, OpType, Held
<1>10. Calls'
  BY <1>1, <1>8 DEF Inv, Calls, Mapped
<1>11. Kept'
  BY <1>1, KeptByFiles
<1>12. PICK k : k = m + 1
  OBVIOUS
<1>13. k \in 1 .. n + 1 /\ (k = n + 1 <=> m = n) /\ k - 1 = m
  BY <1>5, <1>12
<1>14. \A j \in 1 .. k - 1 : entry[p[j]].key[1] # op.dev
  <2>1. \A j \in 1 .. k - 1 : j \in 1 .. m - 1 \/ j = m
    BY <1>5, <1>13
  <2> QED
    BY <1>1, <1>4, <1>5, <2>1
<1>15. Passed(p, n, k)'
  <2>1. op'.at = IF k = n + 1 THEN Null ELSE p[k]
    BY <1>6, <1>8, <1>12, <1>13
  <2> QED
    BY <1>1, <1>8, <1>14, <2>1 DEF Passed
<1>16. Ordered(p, n)'
  BY <1>1, <1>2 DEF Ordered, Chained
<1>17. Ranked'
  BY <1>13, <1>15, <1>16 DEF Ranked
<1> QED
  BY <1>9, <1>10, <1>11, <1>17 DEF Inv

LEMMA flush_blockKeepsInv ==
    ASSUME Inv, flush_block
    PROVE  Inv'
<1>0. CASE Stop("crashed")
  BY <1>0, StopKeepsInv
<1>1. ASSUME NEW key, key = entry[op.at].key, Flushing, op.at # Null, key[1] = op.dev,
             file[op.dev].state # "closed",
             file' = write_block(op.dev, key[2], entry[op.at].data),
             op' = [op EXCEPT !.at = FlushNext(op.at)],
             list' = unlink_from(list, op.at),
             cache' = [cache EXCEPT ![key] = Null],
             entry' = [entry EXCEPT ![op.at] = Free],
             UNCHANGED <<status, latest>>
      PROVE  Inv'
  <2>1. PICK p, n : Ordered(p, n) /\ \E m \in 1 .. n + 1 : Passed(p, n, m)
    BY DEF Inv, Ranked
  <2>2. PICK m \in 1 .. n + 1 : Passed(p, n, m)
    BY <2>1
  <2>3. /\ op.at = IF m = n + 1 THEN Null ELSE p[m]
        /\ \A j \in 1 .. m - 1 : entry[p[j]].key[1] # op.dev
    BY <1>1, <2>2 DEF Passed
  <2>4. PICK i : i = op.at
    OBVIOUS
  <2>5. /\ n \in Nat /\ m \in 1 .. n /\ i = p[m] /\ i \in Ids
        /\ p \in [1 .. n -> Ids]
        /\ \A j, h \in 1 .. n : p[j] = p[h] => j = h
        /\ list.node[i].next = IF m = n THEN Null ELSE p[m + 1]
        /\ entry[i] # Free
    BY <1>1, <2>1, <2>3, <2>4 DEF Ordered, Chained
  <2>6. /\ key \in Keys /\ cache[key] = i /\ entry[i].key = key
        /\ op.dev \in Devices /\ key = <<op.dev, key[2]>> /\ key[2] \in Blocks
    <3>1. key \in Keys /\ cache[key] = i /\ entry[i].key = key
      BY <1>1, <2>4, <2>5 DEF Inv, Held
    <3>2. key = <<key[1], key[2]>> /\ key[1] \in Devices /\ key[2] \in Blocks
      BY <3>1, KeyForm
    <3> QED
      BY <1>1, <3>1, <3>2
  <2> DEFINE E == [key : Keys \cup {Null}, data : Data, dirty : BOOLEAN]
  <2>7. /\ cache \in [Keys -> Ids \cup {Null, Absent}] /\ entry \in [Ids -> E]
        /\ file \in [Devices -> FileType] /\ op \in OpType
    BY DEF Inv, TypeOK, FileType, OpType
  <2>8. Free \in E
    BY CacheFacts DEF Free
  <2> HIDE DEF E
  <2>9. /\ entry' \in [Ids -> E] /\ entry'[i] = Free
        /\ \A x \in Ids \ {i} : entry'[x] = entry[x]
        /\ cache' \in [Keys -> Ids \cup {Null, Absent}] /\ cache'[key] = Null
        /\ \A k \in Keys \ {key} : cache'[k] = cache[k]
    BY <1>1, <2>4, <2>5, <2>6, <2>7, <2>8
  <2>10. list.node[i].next \in Ids \cup {Null}
    <3>1. m # n => p[m + 1] \in Ids
      BY <2>5
    <3> QED
      BY <2>5, <3>1
  <2>11. /\ op' \in OpType /\ op'.at = list.node[i].next
         /\ op'.kind = op.kind /\ op'.dev = op.dev /\ op'.num = op.num /\ op'.n = op.n
    BY <1>1, <2>4, <2>7, <2>10 DEF OpType, FlushNext
  <2>12. PICK q, k : q = Without(p, n, m) /\ k = n - 1
    OBVIOUS
  <2>13. /\ Chained(list', q, k)
         /\ \A x \in Ids : x # i /\ entry[x] # Free <=> \E h \in 1 .. k : q[h] = x
    BY <1>1, <2>1, <2>4, <2>5, <2>12, OthersInOrder
  <2>14. entry[i].data \in Data
    BY <2>5, <2>7 DEF E
  <2>15. /\ file' \in [Devices -> FileType]
         /\ \A c \in Devices \ {op.dev} : file'[c] = file[c]
         /\ file'[op.dev].state = file[op.dev].state
         /\ \A b \in Blocks \ {key[2]} : file'[op.dev].disk[b] = file[op.dev].disk[b]
         /\ file[op.dev].state # "failed" => file'[op.dev].disk[key[2]] = entry[i].data
    <3>1. file[op.dev].state \in {"good", "failed"}
      BY <1>1, <2>6, <2>7 DEF Flushing, Inv, Calls, Mapped, FileType
    <3>2. CASE file[op.dev].state = "good"
      <4>1. file' = [file EXCEPT ![op.dev].disk[key[2]] = entry[i].data]
        BY <1>1, <2>4, <3>2 DEF write_block
      <4>2. file[op.dev] \in FileType /\ file[op.dev].disk \in [Blocks -> Data]
        BY <2>6, <2>7 DEF FileType
      <4> DEFINE dsk == [file[op.dev].disk EXCEPT ![key[2]] = entry[i].data]
                 rec == [file[op.dev] EXCEPT !.disk = dsk]
      <4>3. file' = [file EXCEPT ![op.dev] = rec]
        BY <4>1
      <4>4. /\ dsk \in [Blocks -> Data] /\ dsk[key[2]] = entry[i].data
            /\ \A b \in Blocks \ {key[2]} : dsk[b] = file[op.dev].disk[b]
        BY <2>6, <2>14, <4>2
      <4> HIDE DEF dsk
      <4>5. rec \in FileType /\ rec.disk = dsk /\ rec.state = file[op.dev].state
        BY <4>2, <4>4 DEF FileType
      <4> HIDE DEF rec
      <4>6. /\ file' \in [Devices -> FileType] /\ file'[op.dev] = rec
            /\ \A c \in Devices \ {op.dev} : file'[c] = file[c]
        BY <2>6, <2>7, <4>3, <4>5
      <4> QED
        BY <4>4, <4>5, <4>6
    <3>3. CASE file[op.dev].state = "failed"
      <4>1. file' = file
        BY <1>1, <3>3 DEF write_block
      <4> QED
        BY <2>7, <3>3, <4>1
    <3> QED
      BY <3>1, <3>2, <3>3
  <2>16. TypeOK'
    <3>1. list' \in ListType
      BY <2>13 DEF Chained
    <3> QED
      BY <1>1, <2>9, <2>11, <2>15, <3>1 DEF Inv, TypeOK, OpType, FileType, ListType, E
  <2>17. Calls'
    BY <1>1, <2>6, <2>11, <2>15 DEF Inv, Calls, Mapped, Flushing
  <2>18. Held'
    <3>1. ASSUME NEW x \in Keys, cache'[x] \in Ids
          PROVE  entry'[cache'[x]].key = x /\ entry'[cache'[x]].dirty
      <4>1. x # key /\ cache'[x] = cache[x]
        BY <2>9, <3>1, CacheFacts
      <4>2. entry[cache[x]].key = x /\ entry[cache[x]].dirty
        BY <3>1, <4>1 DEF Inv, Held
      <4>3. cache[x] # i
        BY <2>6, <4>1, <4>2
      <4> QED
        BY <2>9, <3>1, <4>1, <4>2, <4>3
    <3>2. ASSUME NEW x \in Ids
          PROVE  \/ entry'[x] = Free
                 \/ /\ entry'[x].key \in Keys /\ entry'[x].dirty
                    /\ cache'[entry'[x].key] = x
      <4>1. CASE x = i \/ entry[x] = Free
        BY <2>9, <4>1
      <4>2. CASE x # i /\ entry[x] # Free
        <5>1. /\ entry'[x] = entry[x] /\ entry[x].key \in Keys /\ entry[x].dirty
              /\ cache[entry[x].key] = x
          BY <2>9, <4>2 DEF Inv, Held
        <5>2. entry[x].key # key
          BY <2>6, <4>2, <5>1
        <5> QED
          BY <2>9, <5>1, <5>2
      <4> QED
        BY <4>1, <4>2
    <3> QED
      BY <3>1, <3>2 DEF Held
  <2>19. Ranked'
    <3>1. \A x \in Ids : entry'[x] # Free <=> \E h \in 1 .. k : q[h] = x
      BY <2>5, <2>9, <2>13
    <3>2. Ordered(q, k)'
      BY <2>13, <3>1 DEF Ordered
    <3>3. /\ m \in 1 .. k + 1 /\ (m = k + 1 <=> m = n)
          /\ m # n => q[m] = p[m + 1]
          /\ \A j \in 1 .. m - 1 : q[j] = p[j] /\ j \in 1 .. n /\ j # m
      BY <2>5, <2>12 DEF Without
    <3>4. op'.at = IF m = k + 1 THEN Null ELSE q[m]
      BY <2>5, <2>11, <3>3
    <3>5. \A j \in 1 .. m - 1 : entry'[q[j]].key[1] # op'.dev
      <4> SUFFICES ASSUME NEW j \in 1 .. m - 1 PROVE entry'[q[j]].key[1] # op'.dev
        OBVIOUS
      <4>1. q[j] = p[j] /\ p[j] \in Ids \ {i}
        BY <2>5, <3>3
      <4> QED
        BY <2>3, <2>9, <2>11, <4>1
    <3>6. Passed(q, k, m)'
      BY <3>4, <3>5 DEF Passed
    <3> QED
      BY <3>2, <3>3, <3>6 DEF Ranked
  <2>20. Kept'
    <3> SUFFICES ASSUME NEW c \in Devices, NEW b \in Blocks, file'[c].state # "failed"
                 PROVE  Contents(<<c, b>>)' = latest'[<<c, b>>]
      BY DEF Kept
    <3>1. /\ <<c, b>> \in Keys /\ file[c].state # "failed"
          /\ Contents(<<c, b>>) = latest[<<c, b>>]
      <4>1. file[c].state # "failed"
        BY <2>15
      <4> QED
        BY <4>1 DEF Inv, Kept, Keys
    <3>2. CASE <<c, b>> = key
      <4>1. c = op.dev /\ b = key[2]
        BY <2>6, <3>2
      <4>2. Contents(<<c, b>>) = entry[i].data
        BY <2>5, <2>6, <3>2 DEF Contents
      <4>3. Contents(<<c, b>>)' = file'[c].disk[b]
        BY <2>9, <3>2, CacheFacts DEF Contents
      <4> QED
        BY <1>1, <2>15, <3>1, <4>1, <4>2, <4>3
    <3>3. CASE <<c, b>> # key
      <4>1. cache'[<<c, b>>] = cache[<<c, b>>]
        BY <2>9, <3>1, <3>3
      <4>2. CASE cache[<<c, b>>] \in Ids
        <5>1. entry[cache[<<c, b>>]].key = <<c, b>>
          BY <3>1, <4>2 DEF Inv, Held
        <5>2. cache[<<c, b>>] # i
          BY <2>6, <3>3, <5>1
        <5>3. entry'[cache[<<c, b>>]] = entry[cache[<<c, b>>]]
          BY <2>9, <4>2, <5>2
        <5> QED
          BY <1>1, <3>1, <4>1, <4>2, <5>3 DEF Contents
      <4>3. CASE cache[<<c, b>>] \notin Ids
        <5>1. file'[c].disk[b] = file[c].disk[b]
          <6>1. c = op.dev => b # key[2]
            BY <2>6, <3>3
          <6> QED
            BY <2>15, <6>1
        <5> QED
          BY <1>1, <3>1, <4>1, <4>3, <5>1 DEF Contents
      <4> QED
        BY <4>2, <4>3
    <3> QED
      BY <3>2, <3>3
  <2> QED
    BY <2>16, <2>17, <2>18, <2>19, <2>20 DEF Inv
<1> QED
  BY <1>0, <1>1 DEF flush_block

LEMMA flush_endKeepsInv ==
    ASSUME Inv, flush_end
    PROVE  Inv'
<1>1. /\ Flushing /\ op' = NoCall /\ UNCHANGED <<cache, entry, list, latest>>
  BY DEF flush_end
<1>2. op.dev \in Devices /\ status = "up"
  BY <1>1 DEF Flushing, Inv, Calls
<1>3. file \in [Devices -> FileType] /\ status' \in {"up", "aborted"}
  BY <1>2 DEF flush_end, Inv, TypeOK, FileType
<1>4. /\ file' \in [Devices -> FileType]
      /\ \A d \in Devices : file'[d].state # "failed" =>
            file[d].state # "failed" /\ file'[d].disk = file[d].disk
  <2>1. CASE file' = file
    BY <1>3, <2>1
  <2>2. CASE /\ file[op.dev].state = "good"
             /\ file' = [file EXCEPT ![op.dev].state = "closed"]
    <3>1. /\ file' \in [Devices -> FileType]
          /\ file'[op.dev].disk = file[op.dev].disk
          /\ \A c \in Devices \ {op.dev} : file'[c] = file[c]
      BY <1>2, <1>3, <2>2 DEF FileType
    <3> QED
      BY <2>2, <3>1
  <2> QED
    BY <2>1, <2>2 DEF flush_end
<1>5. NoCall \in OpType /\ NoCall.kind = "none"
  BY CacheFacts DEF NoCall, OpType
<1>6. TypeOK'
  BY <1>1, <1>3, <1>4, <1>5 DEF Inv, TypeOK, OpType, FileType
<1>7. ~ Flushing' /\ Calls'
  BY <1>1, <1>5 DEF Flushing, Calls
<1>8. Kept'
  BY <1>1, <1>4, KeptByFiles
<1> QED
  BY <1>1, <1>6, <1>7, <1>8, QuietStep

-----------------------------------------------------------------------------
LEMMA NextKeepsInv == Inv /\ [Next]_vars => Inv'
<1> SUFFICES ASSUME Inv, [Next]_vars PROVE Inv'
  OBVIOUS
<1>1. ASSUME NEW d \in Devices, flush(d) PROVE Inv'
  <2>1. /\ Mapped(d) /\ UNCHANGED <<cache, entry, list, file, status, latest>>
        /\ op' = [NoCall EXCEPT !.kind = "flush", !.dev = d, !.at = list.lru]
    BY <1>1 DEF flush
  <2> QED
    BY <2>1, FlushBegins
<1>2. ASSUME NEW d \in Devices, unmap_device(d) PROVE Inv'
  <2>1. /\ Mapped(d) /\ UNCHANGED <<cache, entry, list, file, status, latest>>
        /\ op' = [NoCall EXCEPT !.kind = "unmap", !.dev = d, !.at = list.lru]
    BY <1>2 DEF unmap_device
  <2> QED
    BY <2>1, FlushBegins
<1>3. CASE Call
  <2>1. ASSUME NEW d \in Devices, map_device(d) PROVE Inv'
    BY <2>1, map_deviceKeepsInv
  <2>2. ASSUME NEW d \in Devices, NEW b \in Blocks, NEW v \in Data,
               NEW n \in 1 .. NumBlocks, cached_write(d, b, n, v)
        PROVE  Inv'
    BY <2>2, cached_writeKeepsInv
  <2>3. ASSUME NEW d \in Devices, NEW b \in Blocks, NEW v \in Data,
               NEW n \in ReadSizes, large_read(d, b, n, v)
        PROVE  Inv'
    BY <2>3, large_readKeepsInv
  <2>4. ASSUME NEW d \in Devices, NEW b \in Blocks, NEW n \in ReadSizes,
               cached_read(d, b, n)
        PROVE  Inv'
    BY <2>4, cached_readKeepsInv
  <2> QED
    BY <1>1, <1>2, <1>3, <2>1, <2>2, <2>3, <2>4 DEF Call
<1>4. CASE Turn
  BY <1>4, write_hitKeepsInv, write_missKeepsInv, read_hitKeepsInv, read_missKeepsInv,
     flush_otherKeepsInv, flush_blockKeepsInv, flush_endKeepsInv DEF Turn
<1>5. CASE UNCHANGED vars
  BY <1>5, StutterKeepsInv
<1> QED
  BY <1>3, <1>4, <1>5 DEF Next

LEMMA SpecInv == Spec => []Inv
<1> QED
  BY InitInv, NextKeepsInv, PTL DEF Spec

-----------------------------------------------------------------------------
(* The end of flush.                                                       *)

(* At the end of the list, no block of the device is cached.               *)
LEMMA NothingLeft ==
    ASSUME Inv, Flushing, op.at = Null, NEW b \in Blocks
    PROVE  <<op.dev, b>> \in Keys /\ cache[<<op.dev, b>>] \notin Ids
<1>1. PICK p, n : Ordered(p, n) /\ \E m \in 1 .. n + 1 : Passed(p, n, m)
  BY DEF Inv, Ranked
<1>2. PICK m \in 1 .. n + 1 : Passed(p, n, m)
  BY <1>1
<1>3. /\ op.at = IF m = n + 1 THEN Null ELSE p[m]
      /\ \A j \in 1 .. m - 1 : entry[p[j]].key[1] # op.dev
  BY <1>2 DEF Passed
<1>4. n \in Nat /\ p \in [1 .. n -> Ids]
  BY <1>1 DEF Ordered, Chained
<1>5. m = n + 1
  <2>1. m # n + 1 => m \in 1 .. n
    BY <1>4
  <2> QED
    BY <1>3, <1>4, <2>1, CacheFacts
<1>6. \A j \in 1 .. n : entry[p[j]].key[1] # op.dev
  BY <1>3, <1>4, <1>5
<1>7. <<op.dev, b>> \in Keys
  BY DEF Flushing, Inv, Calls, Keys
<1>8. ASSUME cache[<<op.dev, b>>] \in Ids PROVE FALSE
  <2>1. PICK i \in Ids : i = cache[<<op.dev, b>>]
    BY <1>8
  <2>2. entry[i].key = <<op.dev, b>> /\ entry[i].dirty
    BY <1>7, <2>1 DEF Inv, Held
  <2>3. entry[i] # Free
    BY <2>2 DEF Free
  <2>4. PICK j \in 1 .. n : p[j] = i
    BY <1>1, <2>3 DEF Ordered
  <2> QED
    BY <1>6, <2>2, <2>4
<1> QED
  BY <1>7, <1>8

LEMMA FlushStepSaves ==
    ASSUME Inv, [Next]_vars, Flushing, op'.kind = "none"
    PROVE  /\ \A b \in Blocks : cache'[<<op.dev, b>>] \notin Ids
           /\ file[op.dev].state # "failed" =>
                \A b \in Blocks : file'[op.dev].disk[b] = latest'[<<op.dev, b>>]
<1>1. status = "up" /\ op.kind \in {"flush", "unmap"} /\ op.dev \in Devices
  BY DEF Flushing, Inv, Calls
<1>2. ~ Idle /\ op.kind # "write" /\ op.kind # "read" /\ op' # op
  BY <1>1 DEF Idle
<1>3. ~ Call
  <2>1. ASSUME NEW d, map_device(d) \/ flush(d) \/ unmap_device(d) PROVE FALSE
    BY <1>2, <2>1 DEF map_device, flush, unmap_device
  <2>2. ASSUME NEW d, NEW b, NEW n, NEW v,
               cached_write(d, b, n, v) \/ large_read(d, b, n, v) \/ cached_read(d, b, n)
        PROVE  FALSE
    BY <1>2, <2>2 DEF cached_write, large_read, cached_read
  <2> QED
    BY <2>1, <2>2 DEF Call
<1>4. op \in OpType
  BY DEF Inv, TypeOK, OpType
<1>5. ~ flush_other
  <2>1. flush_other => op'.kind = op.kind
    BY <1>4 DEF flush_other, OpType
  <2> QED
    BY <1>1, <2>1
<1>6. ~ flush_block
  <2>1. flush_block => op'.kind = op.kind
    BY <1>4 DEF flush_block, OpType, Stop
  <2> QED
    BY <1>1, <2>1
<1>7. ~ (write_hit \/ write_miss \/ read_hit \/ read_miss)
  BY <1>2 DEF write_hit, write_miss, read_hit, read_miss
<1>8. flush_end
  BY <1>2, <1>3, <1>5, <1>6, <1>7 DEF Next, Turn, vars
<1>9. op.at = Null /\ cache' = cache /\ latest' = latest
  BY <1>8 DEF flush_end
<1>10. \A b \in Blocks : <<op.dev, b>> \in Keys /\ cache[<<op.dev, b>>] \notin Ids
  BY <1>9, NothingLeft
<1>11. file'[op.dev].disk = file[op.dev].disk
  <2>1. file \in [Devices -> FileType]
    BY DEF Inv, TypeOK, FileType
  <2>2. file' = file \/ file' = [file EXCEPT ![op.dev].state = "closed"]
    BY <1>8 DEF flush_end
  <2> QED
    BY <1>1, <2>1, <2>2 DEF FileType
<1>12. ASSUME file[op.dev].state # "failed", NEW b \in Blocks
       PROVE  file'[op.dev].disk[b] = latest'[<<op.dev, b>>]
  <2>1. Contents(<<op.dev, b>>) = latest[<<op.dev, b>>]
    BY <1>1, <1>12 DEF Inv, Kept
  <2>2. Contents(<<op.dev, b>>) = file[op.dev].disk[b]
    BY <1>10 DEF Contents
  <2> QED
    BY <1>9, <1>11, <2>1, <2>2
<1> QED
  BY <1>9, <1>10, <1>12

-----------------------------------------------------------------------------
(* Map and list hold the same blocks after any sequence of writes, reads   *)
(* and flushes: the walk that get_blocks and flush make from lru meets     *)
(* each block that block_lookup can return, once, and ends at mru.         *)
THEOREM MapsAndListsAgree == Spec => []MapAndListAgree
BY SpecInv, InvMapAndListAgree, PTL

(* cached_write loses nothing: what was written last is in a dirty block   *)
(* of the cache or, unless the device has been read, on the device.        *)
THEOREM WritesAreKept == Spec => []WritesKept
BY SpecInv, InvWritesKept, PTL

(* When flush or unmap_device returns, no block of the device is left in   *)
(* the cache, and the file holds the last write to every block unless the  *)
(* device has been read.                                                   *)
THEOREM FlushesSave == Spec => FlushSaves
<1> DEFINE Saves == Flushing /\ op'.kind = "none" =>
              /\ \A b \in Blocks : cache'[<<op.dev, b>>] \notin Ids
              /\ file[op.dev].state # "failed" =>
                    \A b \in Blocks : file'[op.dev].disk[b] = latest'[<<op.dev, b>>]
<1>1. Inv /\ [Next]_vars => [Saves]_vars
  BY FlushStepSaves
<1>2. Spec => [][Saves]_vars
  BY <1>1, SpecInv, PTL DEF Spec
<1> QED
  BY <1>2 DEF FlushSaves
=============================================================================
