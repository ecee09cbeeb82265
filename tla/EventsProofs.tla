---------------------------- MODULE EventsProofs ----------------------------
(***************************************************************************)
(* Theorems about Events and EventMutex: the wait queues are exact and no  *)
(* wake-up is lost, for every number of threads, counts and endpoints, as  *)
(* long as event values stay in half of their range; and the mutex that is *)
(* built from them lets in at most two.                                    *)
(***************************************************************************)
EXTENDS EventMutex, SequenceTheorems, FiniteSetTheorems, TLAPS

(* Event values are compared by the sign of their difference, and wait     *)
(* queues are ordered by a plain comparison.  The two agree while values   *)
(* stay below 2^63.                                                        *)
HalfRange == 2 * MaxValue < Word

-----------------------------------------------------------------------------
(* Values.                                                                 *)

LEMMA Constants ==
    /\ Word \in Nat /\ Word > 0 /\ MaxValue \in Nat /\ MaxValue < Word
    /\ Increments \subseteq Nat
    /\ None \notin Threads /\ None \notin Counts /\ NullEp \notin Endpoints
    /\ 2 * (Word \div 2) = Word
<1>1. PICK n \in 1 .. Word : Word = 2 * n
  BY EventsAssumption
<1>2. MaxValue \in 0 .. Word - 1 /\ Increments \subseteq 0 .. Word - 1
  BY EventsAssumption DEF Value
<1>3. Word \in Nat
  BY <1>1
<1> QED
  BY <1>1, <1>2, <1>3, EventsAssumption

LEMMA Comparisons ==
    ASSUME HalfRange, NEW v \in 0 .. MaxValue, NEW w \in 0 .. MaxValue
    PROVE  /\ EC_GT(v, w) <=> v > w
           /\ EC_LE(v, w) <=> v <= w
<1>1. /\ Word \in Nat /\ MaxValue \in Nat /\ 2 * MaxValue < Word
      /\ 2 * (Word \div 2) = Word
  BY Constants DEF HalfRange
<1>2. PICK h \in Nat : h = Word \div 2
  BY <1>1
<1>3. Word = 2 * h /\ MaxValue < h
  BY <1>1, <1>2
<1>4. CASE v >= w
  <2>1. Diff(v, w) = v - w
    BY <1>1, <1>4 DEF Diff
  <2> QED
    BY <1>1, <1>2, <1>3, <1>4, <2>1 DEF EC_GT, EC_LE, EC_LT
<1>5. CASE v < w
  <2>1. Diff(v, w) = Word - (w - v)
    BY <1>1, <1>5 DEF Diff
  <2> QED
    BY <1>1, <1>2, <1>3, <1>5, <2>1 DEF EC_GT, EC_LE, EC_LT
<1> QED
  BY <1>4, <1>5

(* Every set of naturals has a least element.                              *)
LEMMA LeastElement ==
    ASSUME NEW S \in SUBSET Nat, S # {}
    PROVE  \E m \in S : \A k \in S : m <= k
<1> DEFINE R == OpToRel(<, Nat)
<1>1. IsWellFoundedOn(R, Nat)
  BY NatLessThanWellFounded
<1> HIDE DEF R
<1>2. PICK m \in S : \A k \in S : ~(<<k, m>> \in R)
  BY <1>1, WFMin
<1>3. \A k, l \in Nat : k < l => <<k, l>> \in R
  BY DEF R, OpToRel
<1>4. \A k \in S : ~(k < m)
  BY <1>2, <1>3
<1> QED
  BY <1>4

-----------------------------------------------------------------------------
(* Wait queues.                                                            *)

(* q holds the threads of S once each, in the order of the values that     *)
(* they have in th.                                                        *)
Queue(q, th, S) ==
    /\ q \in Seq(Threads) /\ IsInjective(q) /\ ToSet(q) = S
    /\ \A i, j \in 1 .. Len(q) : i < j => th[q[i]].want <= th[q[j]].want

LEMMA QueueFacts ==
    ASSUME NEW th, NEW S, NEW q, Queue(q, th, S)
    PROVE  /\ q \in Seq(Threads) /\ Len(q) \in Nat /\ DOMAIN q = 1 .. Len(q)
           /\ \A i \in 1 .. Len(q) : q[i] \in S /\ q[i] \in Threads
           /\ \A u \in S : \E i \in 1 .. Len(q) : q[i] = u
           /\ \A i, j \in 1 .. Len(q) : q[i] = q[j] => i = j
           /\ \A i, j \in 1 .. Len(q) : i < j => th[q[i]].want <= th[q[j]].want
           /\ S \subseteq Threads
<1>1. q \in Seq(Threads) /\ IsInjective(q) /\ ToSet(q) = S
  BY DEF Queue
<1>2. /\ Len(q) \in Nat /\ DOMAIN q = 1 .. Len(q)
      /\ \A i \in 1 .. Len(q) : q[i] \in Threads
  BY <1>1, LenProperties, ElementOfSeq
<1>3. /\ \A i \in 1 .. Len(q) : q[i] \in S
      /\ \A u \in S : \E i \in 1 .. Len(q) : q[i] = u
  BY <1>1, <1>2 DEF ToSet
<1>4. \A i, j \in 1 .. Len(q) : q[i] = q[j] => i = j
  BY <1>1, <1>2 DEF IsInjective
<1> QED
  BY <1>1, <1>2, <1>3, <1>4 DEF Queue

LEMMA IsQueue ==
    ASSUME NEW th, NEW S, NEW q \in Seq(Threads),
           \A i \in 1 .. Len(q) : q[i] \in S,
           \A u \in S : \E i \in 1 .. Len(q) : q[i] = u,
           \A i, j \in 1 .. Len(q) : q[i] = q[j] => i = j,
           \A i, j \in 1 .. Len(q) : i < j => th[q[i]].want <= th[q[j]].want
    PROVE  Queue(q, th, S)
<1>1. Len(q) \in Nat /\ DOMAIN q = 1 .. Len(q)
  BY LenProperties
<1>2. ToSet(q) = S /\ IsInjective(q)
  BY <1>1 DEF ToSet, IsInjective
<1> QED
  BY <1>2 DEF Queue

(* A queue stays one while its threads keep their values.                  *)
LEMMA QueueKept ==
    ASSUME NEW th, NEW th2, NEW S, NEW q, Queue(q, th, S),
           \A u \in S : th2[u].want = th[u].want
    PROVE  Queue(q, th2, S)
<1>1. \A i \in 1 .. Len(q) : th2[q[i]].want = th[q[i]].want
  BY QueueFacts
<1> QED
  BY <1>1 DEF Queue

LEMMA EmptyQueue == ASSUME NEW th PROVE Queue(<<>>, th, {})
BY DEF Queue, IsInjective, ToSet

(* The values of the waiting threads are in range.                         *)
InRange(th, S) == \A u \in S : th[u].want \in 0 .. MaxValue

(* unblock_event: who is taken off the front has a value that is reached,  *)
(* and who stays has not.                                                  *)
LEMMA ReachedPrefix ==
    ASSUME HalfRange, NEW S, NEW q, Queue(q, thr, S), InRange(thr, S),
           NEW v \in 0 .. MaxValue
    PROVE  /\ Reached(q, v) \in 0 .. Len(q)
           /\ \A i \in 1 .. Reached(q, v) : thr[q[i]].want <= v
           /\ \A i \in Reached(q, v) + 1 .. Len(q) : thr[q[i]].want > v
<1>1. /\ Len(q) \in Nat /\ \A i \in 1 .. Len(q) : q[i] \in S
      /\ \A i, j \in 1 .. Len(q) : i < j => thr[q[i]].want <= thr[q[j]].want
  BY QueueFacts
<1> DEFINE I == {i \in 1 .. Len(q) : ~EC_LE(thr[q[i]].want, v)}
           k == IF I # {} THEN Min(I) ELSE 0
<1>2. Reached(q, v) = IF k = 0 THEN Len(q) ELSE k - 1
  BY DEF Reached, SelectInSeq
<1>3. \A i \in 1 .. Len(q) : thr[q[i]].want \in 0 .. MaxValue
  BY <1>1 DEF InRange
<1>4. \A i \in 1 .. Len(q) : EC_LE(thr[q[i]].want, v) <=> thr[q[i]].want <= v
  BY <1>3, Comparisons
<1>5. CASE I = {}
  BY <1>1, <1>2, <1>4, <1>5
<1>6. CASE I # {}
  <2>1. PICK m \in I : \A i \in I : m <= i
    <3>1. I \in SUBSET Nat
      BY <1>1
    <3> HIDE DEF I
    <3> QED
      BY <1>6, <3>1, LeastElement
  <2>2. Min(I) \in I /\ \A i \in I : Min(I) <= i
    BY <2>1 DEF Min
  <2>3. PICK n \in 1 .. Len(q) : n = Min(I)
    BY <2>2
  <2>4. Reached(q, v) = n - 1
    BY <1>2, <1>6, <2>3
  <2>5. \A i \in 1 .. n - 1 : thr[q[i]].want <= v
    <3>1. SUFFICES ASSUME NEW i \in 1 .. n - 1
                   PROVE  thr[q[i]].want <= v
      OBVIOUS
    <3>2. i \in 1 .. Len(q) /\ i < n
      BY <1>1
    <3>3. i \notin I
      <4>1. i \in I => n <= i
        BY <2>2, <2>3
      <4> HIDE DEF I
      <4> QED
        BY <1>1, <3>2, <4>1
    <3> QED
      BY <1>4, <3>2, <3>3
  <2>6. \A i \in n .. Len(q) : thr[q[i]].want > v
    <3>1. SUFFICES ASSUME NEW i \in n .. Len(q)
                   PROVE  thr[q[i]].want > v
      OBVIOUS
    <3>2. thr[q[n]].want > v /\ thr[q[n]].want \in 0 .. MaxValue
      <4>1. n \in I /\ n \in 1 .. Len(q)
        BY <2>2, <2>3
      <4>2. ~EC_LE(thr[q[n]].want, v)
        BY <4>1
      <4>3. thr[q[n]].want \in 0 .. MaxValue /\ ~(thr[q[n]].want <= v)
        BY <1>3, <1>4, <4>1, <4>2
      <4> HIDE DEF I
      <4> QED
        BY <4>3, Constants
    <3>3. thr[q[n]].want <= thr[q[i]].want /\ i \in 1 .. Len(q)
      BY <1>1, <1>3, <3>2
    <3> QED
      BY <1>3, <3>2, <3>3
  <2> QED
    BY <1>1, <2>4, <2>5, <2>6
<1> QED
  BY <1>5, <1>6

(* Those who stay are a queue again.                                       *)
LEMMA RestIsQueue ==
    ASSUME HalfRange, NEW S, NEW q, Queue(q, thr, S), InRange(thr, S),
           NEW v \in 0 .. MaxValue
    PROVE  /\ Queue(SubSeq(q, Reached(q, v) + 1, Len(q)), thr,
                    {u \in S : thr[u].want > v})
           /\ ToSet(SubSeq(q, 1, Reached(q, v))) = {u \in S : thr[u].want <= v}
<1>1. PICK n \in 0 .. Len(q) : n = Reached(q, v)
  BY ReachedPrefix
<1>2. /\ \A i \in 1 .. n : thr[q[i]].want <= v
      /\ \A i \in n + 1 .. Len(q) : thr[q[i]].want > v
  BY <1>1, ReachedPrefix
<1>3. /\ q \in Seq(Threads) /\ Len(q) \in Nat
      /\ \A i \in 1 .. Len(q) : q[i] \in S /\ q[i] \in Threads
      /\ \A u \in S : \E i \in 1 .. Len(q) : q[i] = u
      /\ \A i, j \in 1 .. Len(q) : q[i] = q[j] => i = j
      /\ \A i, j \in 1 .. Len(q) : i < j => thr[q[i]].want <= thr[q[j]].want
  BY QueueFacts
<1>4. \A u \in S : thr[u].want \in Int
  BY DEF InRange
<1> DEFINE r == SubSeq(q, n + 1, Len(q))
           f == SubSeq(q, 1, n)
           T == {u \in S : thr[u].want > v}
<1>5. /\ r \in Seq(Threads) /\ Len(r) = Len(q) - n
      /\ \A i \in 1 .. Len(q) - n : r[i] = q[n + i]
  <2>1. n + 1 \in Int /\ Len(q) \in Int /\ \A i \in n + 1 .. Len(q) : q[i] \in Threads
    BY <1>3
  <2>2. /\ r \in Seq(Threads)
        /\ Len(r) = IF n + 1 <= Len(q) THEN Len(q) - (n + 1) + 1 ELSE 0
        /\ \A i \in 1 .. Len(q) - (n + 1) + 1 : r[i] = q[n + 1 + i - 1]
    BY <2>1, SubSeqProperties
  <2> QED
    BY <1>3, <2>2
<1>6. /\ f \in Seq(Threads) /\ Len(f) = n /\ \A i \in 1 .. n : f[i] = q[i]
  <2>1. 1 \in Int /\ n \in Int /\ \A i \in 1 .. n : q[i] \in Threads
    BY <1>3
  <2>2. /\ f \in Seq(Threads)
        /\ Len(f) = IF 1 <= n THEN n - 1 + 1 ELSE 0
        /\ \A i \in 1 .. n - 1 + 1 : f[i] = q[1 + i - 1]
    BY <2>1, SubSeqProperties
  <2> QED
    BY <1>3, <2>2
<1> HIDE DEF r, f
<1>7. \A i \in 1 .. Len(r) :
         n + i \in 1 .. Len(q) /\ n + i \in n + 1 .. Len(q) /\ r[i] = q[n + i]
  BY <1>3, <1>5
<1>8. Queue(r, thr, T)
  <2>1. \A i \in 1 .. Len(r) : r[i] \in T
    BY <1>2, <1>3, <1>7
  <2>2. ASSUME NEW u \in T
        PROVE  \E i \in 1 .. Len(r) : r[i] = u
    <3>1. PICK i \in 1 .. Len(q) : q[i] = u
      BY <1>3
    <3>2. i \in n + 1 .. Len(q)
      BY <1>2, <1>3, <1>4, <3>1
    <3>3. i - n \in 1 .. Len(r) /\ n + (i - n) = i
      BY <1>3, <1>5, <3>2
    <3> QED
      BY <1>7, <3>1, <3>3
  <2>3. ASSUME NEW i \in 1 .. Len(r), NEW j \in 1 .. Len(r), r[i] = r[j]
        PROVE  i = j
    <3>1. n + i = n + j
      BY <1>3, <1>7, <2>3
    <3> QED
      BY <1>3, <1>5, <3>1
  <2>4. ASSUME NEW i \in 1 .. Len(r), NEW j \in 1 .. Len(r), i < j
        PROVE  thr[r[i]].want <= thr[r[j]].want
    <3>1. PICK a \in 1 .. Len(q) : a = n + i /\ r[i] = q[a]
      BY <1>7
    <3>2. PICK b \in 1 .. Len(q) : b = n + j /\ r[j] = q[b]
      BY <1>7
    <3>3. a < b
      BY <1>3, <1>5, <2>4, <3>1, <3>2
    <3> QED
      BY <1>3, <3>1, <3>2, <3>3
  <2> QED
    BY <1>5, <2>1, <2>2, <2>3, <2>4, IsQueue
<1>9. ToSet(f) = {u \in S : thr[u].want <= v}
  <2>1. DOMAIN f = 1 .. n
    BY <1>6, LenProperties
  <2>2. \A i \in 1 .. n : i \in 1 .. Len(q)
    BY <1>3
  <2>3. \A u \in ToSet(f) : u \in S /\ thr[u].want <= v
    BY <1>2, <1>3, <1>6, <2>1, <2>2 DEF ToSet
  <2>4. ASSUME NEW u \in S, thr[u].want <= v
        PROVE  u \in ToSet(f)
    <3>1. PICK i \in 1 .. Len(q) : q[i] = u
      BY <1>3
    <3>2. i \in 1 .. n
      BY <1>2, <1>3, <1>4, <2>4, <3>1
    <3> QED
      BY <1>6, <2>1, <3>1, <3>2 DEF ToSet
  <2> QED
    BY <2>3, <2>4
<1> QED
  BY <1>1, <1>8, <1>9 DEF r, f

(* block_event: the place among the others keeps the order.                *)
LEMMA InsertedIsQueue ==
    ASSUME NEW S, NEW q, Queue(q, thr, S), NEW t \in Threads, t \notin S,
           \A u \in S : thr[u].want \in Nat, thr[t].want \in Nat
    PROVE  Queue(InsertAt(q, PlaceOf(q, thr[t].want), t), thr, S \cup {t})
<1>1. /\ q \in Seq(Threads) /\ Len(q) \in Nat
      /\ \A i \in 1 .. Len(q) : q[i] \in S /\ q[i] \in Threads
      /\ \A u \in S : \E i \in 1 .. Len(q) : q[i] = u
      /\ \A i, j \in 1 .. Len(q) : q[i] = q[j] => i = j
      /\ \A i, j \in 1 .. Len(q) : i < j => thr[q[i]].want <= thr[q[j]].want
  BY QueueFacts
<1>2. PICK w \in Nat : w = thr[t].want
  OBVIOUS
<1>3. \A i \in 1 .. Len(q) : thr[q[i]].want \in Nat
  BY <1>1
<1>4. PICK n \in 1 .. Len(q) + 1 :
         /\ n = PlaceOf(q, w)
         /\ \A i \in 1 .. n - 1 : thr[q[i]].want <= w
         /\ \A i \in n .. Len(q) : thr[q[i]].want >= w
  <2> DEFINE I == {i \in 1 .. Len(q) : thr[q[i]].want > w}
             k == IF I # {} THEN Min(I) ELSE 0
  <2>1. PlaceOf(q, w) = IF k = 0 THEN Len(q) + 1 ELSE k
    BY DEF PlaceOf, SelectInSeq
  <2>2. CASE I = {}
    <3>1. PlaceOf(q, w) = Len(q) + 1
      BY <2>1, <2>2
    <3>2. \A i \in 1 .. Len(q) : thr[q[i]].want <= w
      BY <1>3, <2>2
    <3> QED
      BY <1>1, <3>1, <3>2
  <2>3. CASE I # {}
    <3>1. PICK m \in I : \A i \in I : m <= i
      <4>1. I \in SUBSET Nat
        BY <1>1
      <4> HIDE DEF I
      <4> QED
        BY <2>3, <4>1, LeastElement
    <3>2. Min(I) \in I /\ \A i \in I : Min(I) <= i
      BY <3>1 DEF Min
    <3>3. PICK x \in 1 .. Len(q) : x = Min(I)
      BY <3>2
    <3>4. PlaceOf(q, w) = x
      BY <2>1, <2>3, <3>3
    <3>5. \A i \in 1 .. x - 1 : thr[q[i]].want <= w
      <4>1. SUFFICES ASSUME NEW i \in 1 .. x - 1
                     PROVE  thr[q[i]].want <= w
        OBVIOUS
      <4>2. i \in 1 .. Len(q) /\ i < x
        BY <1>1
      <4>3. i \notin I
        <5>1. i \in I => x <= i
          BY <3>2, <3>3
        <5> HIDE DEF I
        <5> QED
          BY <1>1, <4>2, <5>1
      <4> QED
        BY <1>3, <4>2, <4>3
    <3>6. \A i \in x .. Len(q) : thr[q[i]].want >= w
      <4>1. SUFFICES ASSUME NEW i \in x .. Len(q)
                     PROVE  thr[q[i]].want >= w
        OBVIOUS
      <4>2. thr[q[x]].want > w
        BY <3>2, <3>3
      <4>3. i \in 1 .. Len(q) /\ thr[q[x]].want <= thr[q[i]].want
        BY <1>1, <1>3
      <4> QED
        BY <1>3, <4>2, <4>3
    <3> QED
      BY <1>1, <3>4, <3>5, <3>6
  <2> QED
    BY <2>2, <2>3
<1> DEFINE l == SubSeq(q, 1, n - 1)
           r == SubSeq(q, n, Len(q))
           s == InsertAt(q, n, t)
<1>5. /\ l \in Seq(Threads) /\ Len(l) = n - 1
      /\ \A i \in 1 .. n - 1 : l[i] = q[i]
  <2>1. 1 \in Int /\ n - 1 \in Int /\ \A i \in 1 .. n - 1 : q[i] \in Threads
    BY <1>1
  <2>2. /\ l \in Seq(Threads)
        /\ Len(l) = IF 1 <= n - 1 THEN n - 1 - 1 + 1 ELSE 0
        /\ \A i \in 1 .. n - 1 - 1 + 1 : l[i] = q[1 + i - 1]
    BY <2>1, SubSeqProperties
  <2> QED
    BY <1>1, <2>2
<1>6. /\ r \in Seq(Threads) /\ Len(r) = Len(q) + 1 - n
      /\ \A i \in 1 .. Len(q) + 1 - n : r[i] = q[n + i - 1]
  <2>1. n \in Int /\ Len(q) \in Int /\ \A i \in n .. Len(q) : q[i] \in Threads
    BY <1>1
  <2>2. /\ r \in Seq(Threads)
        /\ Len(r) = IF n <= Len(q) THEN Len(q) - n + 1 ELSE 0
        /\ \A i \in 1 .. Len(q) - n + 1 : r[i] = q[n + i - 1]
    BY <2>1, SubSeqProperties
  <2> QED
    BY <1>1, <2>2
<1>7. s = l \o <<t>> \o r
  BY DEF InsertAt
<1> HIDE DEF l, r, s
<1>8. /\ s \in Seq(Threads) /\ Len(s) = Len(q) + 1
      /\ \A i \in 1 .. Len(q) + 1 :
            s[i] = IF i < n THEN q[i] ELSE IF i = n THEN t ELSE q[i - 1]
  <2>1. <<t>> \in Seq(Threads) /\ Len(<<t>>) = 1 /\ <<t>>[1] = t
    OBVIOUS
  <2> DEFINE lt == l \o <<t>>
  <2>2. /\ lt \in Seq(Threads) /\ Len(lt) = Len(l) + Len(<<t>>)
        /\ \A i \in 1 .. Len(l) + Len(<<t>>) :
              lt[i] = IF i <= Len(l) THEN l[i] ELSE <<t>>[i - Len(l)]
    BY <1>5, <2>1, ConcatProperties
  <2> HIDE DEF lt
  <2>3. Len(lt) = n /\ lt[n] = t /\ \A i \in 1 .. n - 1 : lt[i] = q[i]
    BY <1>1, <1>5, <2>1, <2>2
  <2>4. /\ lt \o r \in Seq(Threads) /\ Len(lt \o r) = Len(lt) + Len(r)
        /\ \A i \in 1 .. Len(lt) + Len(r) :
              (lt \o r)[i] = IF i <= Len(lt) THEN lt[i] ELSE r[i - Len(lt)]
    <3>1. lt \in Seq(Threads) /\ r \in Seq(Threads)
      BY <1>6, <2>2
    <3> QED
      BY <3>1, ConcatProperties
  <2>5. s = lt \o r
    BY <1>7 DEF lt
  <2>6. ASSUME NEW i \in 1 .. Len(q) + 1
        PROVE  s[i] = IF i < n THEN q[i] ELSE IF i = n THEN t ELSE q[i - 1]
    <3>1. s[i] = IF i <= n THEN lt[i] ELSE r[i - n]
      BY <1>1, <1>6, <2>3, <2>4, <2>5
    <3>2. CASE i < n
      <4>1. s[i] = lt[i] /\ i \in 1 .. n - 1
        BY <1>1, <3>1, <3>2
      <4> QED
        BY <2>3, <3>2, <4>1
    <3>3. CASE i = n
      BY <2>3, <3>1, <3>3
    <3>4. CASE i > n
      <4>1. i - n \in 1 .. Len(q) + 1 - n /\ n + (i - n) - 1 = i - 1
        BY <1>1, <3>4
      <4>2. s[i] = r[i - n]
        BY <1>1, <3>1, <3>4
      <4> QED
        BY <1>1, <1>6, <3>4, <4>1, <4>2
    <3> QED
      BY <1>1, <3>2, <3>3, <3>4
  <2> QED
    BY <1>1, <1>6, <2>3, <2>4, <2>5, <2>6
<1>9. \A i \in 1 .. Len(q) + 1 : /\ i < n => i \in 1 .. Len(q)
                                 /\ i > n => i - 1 \in 1 .. Len(q)
  BY <1>1
<1>10. ASSUME NEW i \in 1 .. Len(s)
       PROVE  s[i] \in S \cup {t}
  <2>1. i \in 1 .. Len(q) + 1
    BY <1>8
  <2>2. CASE i < n
    BY <1>1, <1>8, <1>9, <2>1, <2>2
  <2>3. CASE i = n
    BY <1>8, <2>1, <2>3
  <2>4. CASE i > n
    <3>1. i - 1 \in 1 .. Len(q) /\ s[i] = q[i - 1]
      BY <1>1, <1>8, <1>9, <2>1, <2>4
    <3> QED
      BY <1>1, <3>1
  <2> QED
    BY <1>1, <2>2, <2>3, <2>4
<1>11. ASSUME NEW u \in S \cup {t}
       PROVE  \E i \in 1 .. Len(s) : s[i] = u
  <2>1. CASE u = t
    <3>1. n \in 1 .. Len(s) /\ s[n] = t
      BY <1>1, <1>8
    <3> QED
      BY <2>1, <3>1
  <2>2. CASE u # t
    <3>1. PICK i \in 1 .. Len(q) : q[i] = u
      BY <1>1, <2>2
    <3>2. CASE i < n
      <4>1. i \in 1 .. Len(s) /\ s[i] = u
        BY <1>1, <1>8, <3>1, <3>2
      <4> QED
        BY <4>1
    <3>3. CASE i >= n
      <4>1. i + 1 \in 1 .. Len(q) + 1 /\ i + 1 > n /\ (i + 1) - 1 = i
        BY <1>1, <3>3
      <4>2. s[i + 1] = q[(i + 1) - 1]
        BY <1>8, <4>1
      <4> QED
        BY <1>8, <3>1, <4>1, <4>2
    <3> QED
      BY <1>1, <3>2, <3>3
  <2> QED
    BY <2>1, <2>2
<1> DEFINE o(i) == IF i < n THEN i ELSE i - 1
<1>12. \A i \in 1 .. Len(s) : i # n => o(i) \in 1 .. Len(q) /\ s[i] = q[o(i)]
  BY <1>1, <1>8, <1>9
<1>13. s[n] = t /\ n \in 1 .. Len(s)
  BY <1>1, <1>8
<1>14. ASSUME NEW i \in 1 .. Len(s), NEW j \in 1 .. Len(s), s[i] = s[j]
       PROVE  i = j
  <2>1. CASE i # n /\ j # n
    <3>1. PICK a \in 1 .. Len(q) : a = o(i) /\ s[i] = q[a]
      BY <1>12, <2>1
    <3>2. PICK b \in 1 .. Len(q) : b = o(j) /\ s[j] = q[b]
      BY <1>12, <2>1
    <3>3. a = b
      BY <1>1, <1>14, <3>1, <3>2
    <3> QED
      BY <1>1, <1>8, <2>1, <3>1, <3>2, <3>3
  <2>2. CASE i = n /\ j # n
    BY <1>1, <1>12, <1>13, <1>14, <2>2
  <2>3. CASE i # n /\ j = n
    BY <1>1, <1>12, <1>13, <1>14, <2>3
  <2> QED
    BY <2>1, <2>2, <2>3
<1>15. ASSUME NEW i \in 1 .. Len(s), NEW j \in 1 .. Len(s), i < j
       PROVE  thr[s[i]].want <= thr[s[j]].want
  <2>1. CASE i # n /\ j # n
    <3>1. PICK a \in 1 .. Len(q) : a = o(i) /\ s[i] = q[a]
      BY <1>12, <2>1
    <3>2. PICK b \in 1 .. Len(q) : b = o(j) /\ s[j] = q[b]
      BY <1>12, <2>1
    <3>3. a < b
      BY <1>1, <1>8, <1>15, <2>1, <3>1, <3>2
    <3> HIDE DEF o
    <3>4. thr[q[a]].want <= thr[q[b]].want
      BY <1>1, <3>3
    <3> QED
      BY <3>1, <3>2, <3>4
  <2>2. CASE i = n
    <3>1. j # n /\ o(j) \in n .. Len(q)
      BY <1>1, <1>8, <1>15, <2>2
    <3> HIDE DEF o
    <3> QED
      BY <1>2, <1>4, <1>12, <1>13, <2>2, <3>1
  <2>3. CASE j = n
    <3>1. i # n /\ o(i) \in 1 .. n - 1
      BY <1>1, <1>8, <1>15, <2>3
    <3> HIDE DEF o
    <3> QED
      BY <1>2, <1>4, <1>12, <1>13, <2>3, <3>1
  <2> QED
    BY <2>1, <2>2, <2>3
<1>16. Queue(s, thr, S \cup {t})
  BY <1>8, <1>10, <1>11, <1>14, <1>15, IsQueue
<1> QED
  BY <1>2, <1>4, <1>16 DEF s
-----------------------------------------------------------------------------
(* The inductive invariant of SpecAwait.                                   *)

Bounded == 0 .. MaxValue

Shape ==
    /\ count \in [Counts -> [life : {"free", "live", "closing"},
                             value : Bounded, type : Types, ep : AllEndpoints,
                             queue : Seq(Threads)]]
    /\ thr \in [Threads -> [pc : {"idle", "entering", "syncing", "acking", "blocked",
                                  "ready", "closing", "stranded"},
                            ec : Counts \cup {None}, want : Bounded, timed : {FALSE},
                            rx : Bounded \cup {None}, alerted : BOOLEAN]]
    /\ cs \in Threads \cup {None}
    /\ timeq = {}
    /\ ep \in [Endpoints ->
                  [state : {"free", "local", "connected"}, type : Types, val : Bounded,
                   ack : Bounded, listed : BOOLEAN, notify : Counts \cup {None}]]
    /\ status \in {"up", "null", "relinked", "dangling", "stale", "notify", "panic", "masked"}

BlockedOn(e) == {t \in Threads : thr[t].pc = "blocked" /\ thr[t].ec = e}

(* Each wait queue holds who waits on its count, in the order of values.   *)
Queued == \A e \in Counts : Queue(count[e].queue, thr, BlockedOn(e))

(* A count without memory has nothing; one with a channel has an endpoint. *)
CountsFit ==
    \A e \in Counts : /\ ~Live(e) => count[e] = NoCount
                      /\ count[e].type # "none" => count[e].ep \in Endpoints

(* What a thread in the middle of an operation relies on.                  *)
Entering(t) == thr[t].pc = "entering" => thr[t].ec \in Counts /\ thr[t].rx = None
InLoop(t) ==
    thr[t].pc \in {"syncing", "acking"} =>
        /\ status = "up" => cs = t
        /\ thr[t].ec \in Counts
        /\ Live(thr[t].ec) /\ count[thr[t].ec].type = "rx"
        /\ thr[t].pc = "acking" => thr[t].rx \in Bounded
Closes(t) ==
    thr[t].pc = "closing" =>
        /\ thr[t].ec \in Counts
        /\ count[thr[t].ec].life = "closing" /\ count[thr[t].ec].type = "rx"
        /\ \A u \in Threads : thr[u].pc = "closing" /\ thr[u].ec = thr[t].ec => u = t

ThreadsFit == \A t \in Threads : Entering(t) /\ InLoop(t) /\ Closes(t)

(* A waiting thread: its value is not reached, or its endpoint asks for    *)
(* attention.  Only a receiving count lets a thread wait that has been     *)
(* through the loop.                                                       *)
Quiet(e, t) ==
    LET x == ep[count[e].ep]
    IN  x.val = x.ack /\ thr[t].want > x.val /\ thr[t].want > count[e].value

Waits(e, t) ==
    /\ thr[t].rx # None => count[e].type = "rx"
    /\ count[e].type # "rx" => thr[t].want > count[e].value
    /\ Tied(e, t) => ep[count[e].ep].listed \/ Quiet(e, t)

WaitsRight == \A e \in Counts : \A t \in BlockedOn(e) : Waits(e, t)

(* Between the look at an endpoint and its acknowledgement the endpoint    *)
(* asks for attention if anybody else waits for it.                        *)
Acknowledges ==
    \A u \in Threads : thr[u].pc = "acking" =>
        \A e \in Counts : \A t \in BlockedOn(e) :
            Tied(e, t) /\ count[e].ep = count[thr[u].ec].ep => ep[count[e].ep].listed

Inv == Shape /\ Queued /\ CountsFit /\ ThreadsFit /\ WaitsRight /\ Acknowledges

-----------------------------------------------------------------------------
(* What each part of the invariant says of one count, thread or endpoint.  *)

CountType == [life : {"free", "live", "closing"}, value : Bounded, type : Types,
              ep : AllEndpoints, queue : Seq(Threads)]
ThreadType == [pc : {"idle", "entering", "syncing", "acking", "blocked", "ready",
                     "closing", "stranded"},
               ec : Counts \cup {None}, want : Bounded, timed : {FALSE},
               rx : Bounded \cup {None}, alerted : BOOLEAN]
EndpointType == [state : {"free", "local", "connected"}, type : Types, val : Bounded,
                 ack : Bounded, listed : BOOLEAN, notify : Counts \cup {None}]

LEMMA ShapeFacts ==
    /\ Shape <=> /\ count \in [Counts -> CountType]
                 /\ thr \in [Threads -> ThreadType]
                 /\ cs \in Threads \cup {None}
                 /\ timeq = {}
                 /\ ep \in [Endpoints -> EndpointType]
                 /\ status \in {"up", "null", "relinked", "dangling", "stale",
                                "notify", "panic", "masked"}
    /\ Shape => /\ \A e \in Counts : /\ count[e].value \in Bounded
                                     /\ count[e].type \in Types
                                     /\ count[e].queue \in Seq(Threads)
                                     /\ count[e].life \in {"free", "live", "closing"}
                                     /\ count[e].ep \in AllEndpoints
                /\ \A t \in Threads : /\ thr[t].want \in Bounded
                                      /\ ~thr[t].timed
                                      /\ thr[t].rx \in Bounded \cup {None}
                                      /\ thr[t].ec \in Counts \cup {None}
                /\ \A p \in Endpoints : /\ ep[p].val \in Bounded
                                        /\ ep[p].ack \in Bounded
                                        /\ ep[p].listed \in BOOLEAN
                                        /\ ep[p].notify \in Counts \cup {None}
<1>1. Shape <=> /\ count \in [Counts -> CountType]
                /\ thr \in [Threads -> ThreadType]
                /\ cs \in Threads \cup {None}
                /\ timeq = {}
                /\ ep \in [Endpoints -> EndpointType]
                /\ status \in {"up", "null", "relinked", "dangling", "stale",
                               "notify", "panic", "masked"}
  BY DEF Shape, CountType, ThreadType, EndpointType
<1>2. ASSUME Shape, NEW e \in Counts
      PROVE  /\ count[e].value \in Bounded /\ count[e].type \in Types
             /\ count[e].queue \in Seq(Threads)
             /\ count[e].life \in {"free", "live", "closing"}
             /\ count[e].ep \in AllEndpoints
  <2>1. count[e] \in CountType
    BY <1>1, <1>2
  <2> QED
    BY <2>1 DEF CountType
<1>3. ASSUME Shape, NEW t \in Threads
      PROVE  /\ thr[t].want \in Bounded /\ ~thr[t].timed
             /\ thr[t].rx \in Bounded \cup {None} /\ thr[t].ec \in Counts \cup {None}
  <2>1. thr[t] \in ThreadType
    BY <1>1, <1>3
  <2> QED
    BY <2>1 DEF ThreadType
<1>4. ASSUME Shape, NEW p \in Endpoints
      PROVE  /\ ep[p].val \in Bounded /\ ep[p].ack \in Bounded
             /\ ep[p].listed \in BOOLEAN /\ ep[p].notify \in Counts \cup {None}
  <2>1. ep[p] \in EndpointType
    BY <1>1, <1>4
  <2> QED
    BY <2>1 DEF EndpointType
<1> QED
  BY <1>1, <1>2, <1>3, <1>4

(* Numbers that the model begins with, and what a step may write.          *)
LEMMA Records ==
    /\ 0 \in Bounded /\ Bounded \subseteq Nat
    /\ NewCount \in CountType /\ NoCount \in CountType
    /\ NewCount.life = "live" /\ NewCount.value = 0 /\ NewCount.type = "none"
    /\ NewCount.queue = <<>>
    /\ NoCount.life = "free" /\ NoCount.type = "none" /\ NoCount.queue = <<>>
    /\ Idle \in ThreadType /\ Idle.pc = "idle" /\ Idle.rx = None
    /\ \A s \in {"free", "local"} :
          Endpoint(s) \in EndpointType /\ Endpoint(s).notify = None
<1>1. 0 \in Bounded /\ Bounded \subseteq Nat
  BY Constants DEF Bounded
<1>2. <<>> \in Seq(Threads)
  OBVIOUS
<1> QED
  BY <1>1, <1>2 DEF NewCount, NoCount, Idle, Endpoint, CountType, ThreadType, EndpointType,
     AllEndpoints, Types

(* The domain stops where it is.                                           *)
LEMMA StopKeeps ==
    ASSUME Inv, UNCHANGED <<count, thr, timeq, ep>>, cs' \in {cs, None},
           status' \in {"null", "relinked", "dangling", "stale", "notify", "panic", "masked"}
    PROVE  Inv'
<1>1. \A e : BlockedOn(e)' = BlockedOn(e)
  BY DEF BlockedOn
<1>2. Shape' /\ Queued'
  BY <1>1 DEF Inv, Shape, Queued
<1>3. CountsFit' /\ ThreadsFit'
  BY DEF Inv, CountsFit, ThreadsFit, Entering, InLoop, Closes, Live
<1>4. WaitsRight' /\ Acknowledges'
  BY <1>1 DEF Inv, WaitsRight, Acknowledges, Waits, Quiet, Tied
<1> QED
  BY <1>2, <1>3, <1>4 DEF Inv

(* Wait queues do not change when no thread starts or stops to wait.       *)
LEMMA SameQueues ==
    ASSUME Queued,
           \A e \in Counts : count'[e].queue = count[e].queue,
           \A u \in Threads : thr[u].pc = "blocked" \/ thr'[u].pc = "blocked"
                                  => thr'[u] = thr[u]
    PROVE  Queued' /\ \A e : BlockedOn(e)' = BlockedOn(e)
<1>1. ASSUME NEW e
      PROVE  BlockedOn(e)' = BlockedOn(e) /\ \A u \in BlockedOn(e) : thr'[u] = thr[u]
  BY DEF BlockedOn
<1>2. ASSUME NEW e \in Counts
      PROVE  Queue(count'[e].queue, thr', BlockedOn(e)')
  <2>1. Queue(count[e].queue, thr, BlockedOn(e))
    BY DEF Queued
  <2>2. \A u \in BlockedOn(e) : thr'[u].want = thr[u].want
    BY <1>1
  <2>3. Queue(count[e].queue, thr', BlockedOn(e))
    BY <2>1, <2>2, QueueKept
  <2> QED
    BY <1>1, <2>3
<1> QED
  BY <1>1, <1>2 DEF Queued

-----------------------------------------------------------------------------
(* Steps that change a count or a thread and wake nobody.                  *)

LEMMA CreateStep ==
    ASSUME Inv, NEW t \in Threads, NEW e \in Counts, create(t, e)
    PROVE  Inv'
<1>1. /\ count' = [count EXCEPT ![e] = NewCount] /\ ~Live(e)
      /\ UNCHANGED <<thr, cs, timeq, ep, status>>
  BY DEF create
<1>2. count[e] = NoCount /\ count[e].life = "free" /\ count[e].queue = <<>>
  BY <1>1, Records DEF Inv, CountsFit
<1>3. /\ count' \in [Counts -> CountType] /\ count'[e] = NewCount
      /\ \A f \in Counts \ {e} : count'[f] = count[f]
  BY <1>1, ShapeFacts, Records DEF Inv
<1>4. Shape'
  BY <1>1, <1>3, ShapeFacts DEF Inv, Shape, CountType
<1>5. Queued' /\ \A f : BlockedOn(f)' = BlockedOn(f)
  BY <1>1, <1>2, <1>3, Records, SameQueues DEF Inv
<1>6. BlockedOn(e) = {}
  <2>1. Queue(count[e].queue, thr, BlockedOn(e))
    BY DEF Inv, Queued
  <2> QED
    BY <1>2, <2>1 DEF Queue, ToSet
<1>7. CountsFit'
  BY <1>3, Records DEF Inv, CountsFit, Live
<1>8. ThreadsFit'
  BY <1>1, <1>2, <1>3 DEF Inv, ThreadsFit, Entering, InLoop, Closes, Live
<1>9. WaitsRight'
  BY <1>1, <1>3, <1>5, <1>6 DEF Inv, WaitsRight, Waits, Quiet, Tied
<1>10. Acknowledges'
  <2>1. \A u \in Threads : thr[u].pc = "acking" => thr[u].ec \in Counts \ {e}
    BY <1>1 DEF Inv, ThreadsFit, InLoop
  <2> QED
    BY <1>1, <1>3, <1>5, <1>6, <2>1 DEF Inv, Acknowledges, Tied
<1> QED
  BY <1>4, <1>5, <1>7, <1>8, <1>9, <1>10 DEF Inv

LEMMA ReadStep ==
    ASSUME Inv, NEW t \in Threads, NEW e \in Counts, read(t, e)
    PROVE  Inv'
<1>1. /\ count' = [count EXCEPT ![e].value = ep[count[e].ep].val]
      /\ Live(e) /\ count[e].type = "rx"
      /\ UNCHANGED <<thr, cs, timeq, ep, status>>
  BY DEF read
<1>2. PICK p \in Endpoints : p = count[e].ep
  BY <1>1 DEF Inv, CountsFit
<1>3. PICK v \in Bounded : v = ep[p].val
  BY ShapeFacts DEF Inv
<1>4. count \in [Counts -> CountType] /\ count[e] \in CountType
  BY ShapeFacts DEF Inv
<1>5. /\ count' \in [Counts -> CountType]
      /\ count'[e].value = v
      /\ \A f \in Counts \ {e} : count'[f] = count[f]
      /\ \A f \in Counts : /\ count'[f].life = count[f].life
                           /\ count'[f].type = count[f].type
                           /\ count'[f].ep = count[f].ep
                           /\ count'[f].queue = count[f].queue
  BY <1>1, <1>2, <1>3, <1>4 DEF CountType
<1>6. Shape'
  BY <1>1, <1>5, ShapeFacts DEF Inv, Shape, CountType
<1>7. Queued' /\ \A f : BlockedOn(f)' = BlockedOn(f)
  BY <1>1, <1>5, SameQueues DEF Inv
<1>8. CountsFit' /\ ThreadsFit'
  BY <1>1, <1>5 DEF Inv, CountsFit, ThreadsFit, Entering, InLoop, Closes, Live
<1>9. WaitsRight'
  BY <1>1, <1>2, <1>3, <1>5, <1>7 DEF Inv, WaitsRight, Waits, Quiet, Tied
<1>10. Acknowledges'
  <2>1. \A u \in Threads : thr[u].pc = "acking" => thr[u].ec \in Counts
    BY DEF Inv, ThreadsFit, InLoop
  <2> QED
    BY <1>1, <1>5, <1>7, <2>1 DEF Inv, Acknowledges, Tied
<1> QED
  BY <1>6, <1>7, <1>8, <1>9, <1>10 DEF Inv

(* A thread that is at none of the places the invariant speaks of, before  *)
(* and after the step.                                                     *)
LEMMA ThreadStep ==
    ASSUME Inv, NEW t \in Threads, NEW r \in ThreadType,
           thr[t].pc # "blocked", r.pc \notin {"blocked", "syncing", "acking", "closing"},
           r.pc = "entering" => r.ec \in Counts /\ r.rx = None,
           thr' = [thr EXCEPT ![t] = r],
           UNCHANGED <<count, cs, timeq, ep, status>>
    PROVE  Inv'
<1>1. /\ thr' \in [Threads -> ThreadType] /\ thr'[t] = r
      /\ \A u \in Threads \ {t} : thr'[u] = thr[u]
  BY ShapeFacts DEF Inv
<1>2. Shape'
  BY <1>1, ShapeFacts DEF Inv, Shape, ThreadType
<1>3. Queued' /\ \A e : BlockedOn(e)' = BlockedOn(e)
  BY <1>1, SameQueues DEF Inv
<1>4. CountsFit'
  BY DEF Inv, CountsFit, Live
<1>5. ThreadsFit'
  BY <1>1 DEF Inv, ThreadsFit, Entering, InLoop, Closes, Live
<1>6. \A e : \A u \in BlockedOn(e) : u # t /\ thr'[u] = thr[u]
  BY <1>1 DEF BlockedOn
<1>7. WaitsRight'
  BY <1>3, <1>6 DEF Inv, WaitsRight, Waits, Quiet, Tied
<1>8. Acknowledges'
  BY <1>1, <1>3, <1>6 DEF Inv, Acknowledges, Tied
<1> QED
  BY <1>2, <1>3, <1>4, <1>5, <1>7, <1>8 DEF Inv

LEMMA AwaitStep ==
    ASSUME Inv, NEW t \in Threads, NEW e \in Counts, NEW v \in Bounded,
           await(t, e, v, FALSE)
    PROVE  Inv'
<1> DEFINE r == [Idle EXCEPT !.pc = "entering", !.ec = e, !.want = v, !.timed = FALSE]
<1>1. /\ thr' = [thr EXCEPT ![t] = r] /\ thr[t].pc = "idle"
      /\ UNCHANGED <<count, cs, timeq, ep, status>>
  BY DEF await, Calls
<1>2. r \in ThreadType /\ r.pc = "entering" /\ r.ec = e /\ r.rx = None
  BY DEF Idle, ThreadType
<1> HIDE DEF r
<1> QED
  BY <1>1, <1>2, ThreadStep

LEMMA ResumeStep ==
    ASSUME Inv, NEW t \in Threads, resume(t)
    PROVE  Inv'
<1>1. CASE ~thr[t].alerted /\ ~Live(thr[t].ec)
  BY <1>1, StopKeeps DEF resume, Stop
<1>2. CASE ~(~thr[t].alerted /\ ~Live(thr[t].ec))
  <2>1. /\ thr[t].pc = "ready" /\ thr' = [thr EXCEPT ![t] = Idle]
        /\ UNCHANGED <<count, cs, timeq, ep, status>>
    BY <1>2 DEF resume
  <2> QED
    BY <2>1, Records, ThreadStep
<1> QED
  BY <1>1, <1>2

-----------------------------------------------------------------------------
(* Steps that change an endpoint.  Its handler is taken away, or it still  *)
(* asks for attention if it did, and does so when there is news.           *)
LEMMA EndpointStep ==
    ASSUME Inv, NEW p \in Endpoints, NEW r \in EndpointType,
           \/ r.notify = None
           \/ /\ r.notify = ep[p].notify
              /\ ep[p].listed => r.listed
              /\ \/ r.listed
                 \/ ep[p].val # ep[p].ack
                 \/ r.val = ep[p].val /\ r.ack = ep[p].ack,
           ep' = [ep EXCEPT ![p] = r],
           UNCHANGED <<count, thr, cs, timeq, status>>
    PROVE  Inv'
<1>1. /\ ep' \in [Endpoints -> EndpointType] /\ ep'[p] = r
      /\ \A o \in Endpoints \ {p} : ep'[o] = ep[o]
  BY ShapeFacts DEF Inv
<1>2. Shape'
  BY <1>1, ShapeFacts DEF Inv, Shape, EndpointType
<1>3. Queued' /\ \A e : BlockedOn(e)' = BlockedOn(e)
  BY SameQueues DEF Inv
<1>4. CountsFit' /\ ThreadsFit'
  BY DEF Inv, CountsFit, ThreadsFit, Entering, InLoop, Closes, Live
<1>5. \A e \in Counts : count[e].type = "rx" => count[e].ep \in Endpoints
  BY DEF Inv, CountsFit
<1>6. \A e \in Counts : e # None
  BY Constants
<1>7. ASSUME NEW e \in Counts, NEW u \in BlockedOn(e)
      PROVE  Waits(e, u)'
  <2>1. Waits(e, u)
    BY DEF Inv, WaitsRight
  <2>2. CASE count[e].ep # p \/ count[e].type # "rx"
    BY <1>1, <1>5, <2>1, <2>2 DEF Waits, Quiet, Tied
  <2>3. CASE count[e].ep = p /\ count[e].type = "rx"
    BY <1>1, <1>6, <2>1, <2>3 DEF Waits, Quiet, Tied
  <2> QED
    BY <2>2, <2>3
<1>8. WaitsRight'
  BY <1>3, <1>7 DEF WaitsRight
<1>9. ASSUME NEW u \in Threads, thr[u].pc = "acking", NEW e \in Counts, NEW w \in BlockedOn(e),
             Tied(e, w)', count[e].ep = count[thr[u].ec].ep
      PROVE  ep'[count[e].ep].listed
  <2>1. Tied(e, w) => ep[count[e].ep].listed
    BY <1>9 DEF Inv, Acknowledges
  <2>2. CASE count[e].ep # p
    BY <1>1, <1>5, <1>9, <2>1, <2>2 DEF Tied
  <2>3. CASE count[e].ep = p
    BY <1>1, <1>6, <1>9, <2>1, <2>3 DEF Tied
  <2> QED
    BY <2>2, <2>3
<1>10. Acknowledges'
  BY <1>3, <1>9 DEF Acknowledges
<1> QED
  BY <1>2, <1>3, <1>4, <1>8, <1>10 DEF Inv

LEMMA ChannelSteps ==
    ASSUME Inv, NEW p \in Endpoints,
           \/ \E t \in Threads : create_channel(t, p) \/ destroy_channel(t, p)
           \/ \E type \in {"rx", "tx"} : connect(p, type)
           \/ arrive(p) \/ activation(p)
    PROVE  Inv'
<1>1. ep[p] \in EndpointType
  BY ShapeFacts DEF Inv
<1>2. ASSUME NEW t \in Threads, create_channel(t, p) \/ destroy_channel(t, p)
      PROVE  Inv'
  <2>1. CASE Stop("panic")
    BY <2>1, StopKeeps DEF Stop
  <2>2. CASE ~Stop("panic")
    <3>1. PICK s \in {"free", "local"} :
             /\ ep' = [ep EXCEPT ![p] = Endpoint(s)]
             /\ UNCHANGED <<count, thr, cs, timeq, status>>
      BY <1>2, <2>2 DEF create_channel, destroy_channel
    <3> QED
      BY <3>1, Records, EndpointStep
  <2> QED
    BY <2>1, <2>2
<1>3. ASSUME NEW type \in {"rx", "tx"}, connect(p, type)
      PROVE  Inv'
  <2> DEFINE r == [ep[p] EXCEPT !.state = "connected", !.type = type]
  <2>1. ep' = [ep EXCEPT ![p] = r] /\ UNCHANGED <<count, thr, cs, timeq, status>>
    BY <1>3 DEF connect
  <2>2. /\ r \in EndpointType /\ r.notify = ep[p].notify /\ r.listed = ep[p].listed
        /\ r.val = ep[p].val /\ r.ack = ep[p].ack
    BY <1>1 DEF EndpointType, Types
  <2> HIDE DEF r
  <2> QED
    BY <2>1, <2>2, EndpointStep
<1>4. ASSUME arrive(p)
      PROVE  Inv'
  <2> DEFINE r == [ep[p] EXCEPT !.val = ep[p].val + 1,
                                !.listed = ep[p].listed \/ ep[p].val = ep[p].ack]
  <2>1. /\ ep' = [ep EXCEPT ![p] = r] /\ UNCHANGED <<count, thr, cs, timeq, status>>
        /\ ep[p].val < MaxValue
    BY <1>4 DEF arrive
  <2>2. ep[p].val \in Bounded /\ ep[p].val + 1 \in Bounded
    BY <1>1, <2>1, Constants DEF EndpointType, Bounded
  <2>3. /\ r \in EndpointType /\ r.notify = ep[p].notify
        /\ r.listed = (ep[p].listed \/ ep[p].val = ep[p].ack)
        /\ r.val = ep[p].val + 1 /\ r.ack = ep[p].ack
    BY <1>1, <2>2 DEF EndpointType
  <2> HIDE DEF r
  <2> QED
    BY <2>1, <2>3, EndpointStep
<1>5. ASSUME activation(p)
      PROVE  Inv'
  <2>1. CASE ep[p].notify # None
    BY <1>5, <2>1, StopKeeps DEF activation, Stop
  <2>2. CASE ep[p].notify = None
    <3> DEFINE r == [ep[p] EXCEPT !.listed = FALSE]
    <3>1. ep' = [ep EXCEPT ![p] = r] /\ UNCHANGED <<count, thr, cs, timeq, status>>
      BY <1>5, <2>2 DEF activation
    <3>2. r \in EndpointType /\ r.notify = None
      BY <1>1, <2>2 DEF EndpointType
    <3> HIDE DEF r
    <3> QED
      BY <3>1, <3>2, EndpointStep
  <2> QED
    BY <2>1, <2>2
<1> QED
  BY <1>2, <1>3, <1>4, <1>5

-----------------------------------------------------------------------------
(* Steps that wake threads.                                                *)

WokenUp(e) == [pc |-> "ready", ec |-> e, want |-> 0, timed |-> FALSE, rx |-> None,
               alerted |-> FALSE]

Rest(e, v) == SubSeq(count[e].queue, Reached(count[e].queue, v) + 1, Len(count[e].queue))

LEMMA WakeUps ==
    ASSUME HalfRange, Inv, NEW e \in Counts, NEW v \in Bounded
    PROVE  /\ Queue(Rest(e, v), thr, {u \in BlockedOn(e) : thr[u].want > v})
           /\ \A u \in Threads :
                 Woken(e, v)[u] = IF u \in BlockedOn(e) /\ thr[u].want <= v
                                  THEN WokenUp(e) ELSE thr[u]
           /\ Woken(e, v) \in [Threads -> ThreadType]
           /\ Updated(e, v) \in [Counts -> CountType]
           /\ Updated(e, v)[e].value = v /\ Updated(e, v)[e].queue = Rest(e, v)
           /\ \A f \in Counts : /\ Updated(e, v)[f].life = count[f].life
                                /\ Updated(e, v)[f].type = count[f].type
                                /\ Updated(e, v)[f].ep = count[f].ep
                                /\ f # e => Updated(e, v)[f] = count[f]
           /\ WokenUp(e) \in ThreadType
<1>1. /\ Queue(count[e].queue, thr, BlockedOn(e)) /\ InRange(thr, BlockedOn(e))
      /\ v \in 0 .. MaxValue
  BY ShapeFacts DEF Inv, Queued, InRange, BlockedOn, Bounded
<1>2. /\ Queue(Rest(e, v), thr, {u \in BlockedOn(e) : thr[u].want > v})
      /\ ToSet(SubSeq(count[e].queue, 1, Reached(count[e].queue, v)))
            = {u \in BlockedOn(e) : thr[u].want <= v}
  BY <1>1, RestIsQueue DEF Rest
<1>3. WokenUp(e) \in ThreadType
  BY Records DEF WokenUp, ThreadType
<1>4. ASSUME NEW u \in Threads
      PROVE  Woken(e, v)[u] = IF u \in BlockedOn(e) /\ thr[u].want <= v
                              THEN WokenUp(e) ELSE thr[u]
  <2>1. CASE u \in BlockedOn(e) /\ thr[u].want <= v
    <3>1. Woken(e, v)[u] = [Idle EXCEPT !.pc = "ready", !.ec = thr[u].ec, !.alerted = FALSE]
      BY <1>2, <2>1 DEF Woken, Unblocked
    <3>2. thr[u].ec = e
      BY <2>1 DEF BlockedOn
    <3> QED
      BY <2>1, <3>1, <3>2 DEF WokenUp, Idle
  <2>2. CASE ~(u \in BlockedOn(e) /\ thr[u].want <= v)
    BY <1>2, <2>2 DEF Woken, Unblocked
  <2> QED
    BY <2>1, <2>2
<1>5. Woken(e, v) \in [Threads -> ThreadType]
  <2>1. thr \in [Threads -> ThreadType]
    BY ShapeFacts DEF Inv
  <2>2. Woken(e, v) = [u \in Threads |-> Woken(e, v)[u]]
    BY DEF Woken, Unblocked
  <2> QED
    BY <1>3, <1>4, <2>1, <2>2
<1>6. count \in [Counts -> CountType] /\ count[e] \in CountType /\ Rest(e, v) \in Seq(Threads)
  BY <1>2, ShapeFacts DEF Inv, Queue
<1>7. Updated(e, v) = [count EXCEPT ![e].value = v, ![e].queue = Rest(e, v)]
  BY DEF Updated, Rest
<1>8. /\ Updated(e, v) \in [Counts -> CountType]
      /\ Updated(e, v)[e].value = v /\ Updated(e, v)[e].queue = Rest(e, v)
      /\ \A f \in Counts : /\ Updated(e, v)[f].life = count[f].life
                           /\ Updated(e, v)[f].type = count[f].type
                           /\ Updated(e, v)[f].ep = count[f].ep
                           /\ f # e => Updated(e, v)[f] = count[f]
  <2> DEFINE r == [count[e] EXCEPT !.value = v, !.queue = Rest(e, v)]
  <2>1. /\ r \in CountType /\ r.value = v /\ r.queue = Rest(e, v)
        /\ r.life = count[e].life /\ r.type = count[e].type /\ r.ep = count[e].ep
    BY <1>6 DEF CountType
  <2>2. Updated(e, v) = [count EXCEPT ![e] = r]
    BY <1>6, <1>7
  <2> HIDE DEF r
  <2> QED
    BY <1>6, <2>1, <2>2
<1> QED
  BY <1>2, <1>3, <1>4, <1>5, <1>8

(* What Updated does to the records of the counts.                         *)
LEMMA UpdatedRecords ==
    ASSUME HalfRange, Inv, NEW e \in Counts, NEW v \in Bounded
    PROVE  /\ Updated(e, v)[e] \in CountType
           /\ Updated(e, v)[e].life = count[e].life
<1>1. Updated(e, v) \in [Counts -> CountType]
  BY WakeUps
<1>2. Updated(e, v)[e].life = count[e].life
  BY WakeUps
<1> QED
  BY <1>1, <1>2

(* The queues after count e has got value v and thread t has returned.     *)
LEMMA WakeQueues ==
    ASSUME HalfRange, Inv, NEW e \in Counts, NEW v \in Bounded, NEW t \in Threads,
           thr[t].pc # "blocked", thr'[t].pc # "blocked",
           \A u \in Threads \ {t} : thr'[u] = Woken(e, v)[u],
           count'[e].queue = Rest(e, v),
           \A f \in Counts \ {e} : count'[f].queue = count[f].queue
    PROVE  /\ Queued'
           /\ BlockedOn(e)' = {u \in BlockedOn(e) : thr[u].want > v}
           /\ \A u \in Threads \ {t} : thr'[u] = thr[u] \/ thr'[u].pc = "ready"
<1>1. \A u \in Threads \ {t} : thr'[u] = IF u \in BlockedOn(e) /\ thr[u].want <= v
                                         THEN WokenUp(e) ELSE thr[u]
  <2>1. \A u \in Threads : Woken(e, v)[u] = IF u \in BlockedOn(e) /\ thr[u].want <= v
                                            THEN WokenUp(e) ELSE thr[u]
    BY WakeUps
  <2> QED
    BY <2>1
<1>2. WokenUp(e).pc = "ready"
  BY DEF WokenUp
<1>3. \A u \in Threads : thr[u].want \in Nat
  BY ShapeFacts, Records DEF Inv
<1>4. v \in Nat
  BY Records
<1> DEFINE S == {u \in BlockedOn(e) : thr[u].want > v}
<1>5. ASSUME NEW u
      PROVE  u \in BlockedOn(e)' <=> u \in S
  BY <1>1, <1>2, <1>3, <1>4 DEF BlockedOn
<1>6. BlockedOn(e)' = S
  BY <1>5
<1>7. ASSUME NEW f \in Counts \ {e}
      PROVE  BlockedOn(f)' = BlockedOn(f) /\ \A u \in BlockedOn(f) : thr'[u] = thr[u]
  <2>1. ASSUME NEW u
        PROVE  /\ u \in BlockedOn(f)' <=> u \in BlockedOn(f)
               /\ u \in BlockedOn(f) => thr'[u] = thr[u]
    BY <1>1, <1>2 DEF BlockedOn
  <2> QED
    BY <2>1
<1>8. \A u \in S : thr'[u] = thr[u]
  BY <1>1, <1>3, <1>4 DEF BlockedOn
<1>9. Queue(count'[e].queue, thr', BlockedOn(e)')
  <2>1. Queue(Rest(e, v), thr, S)
    BY WakeUps
  <2>2. \A u \in S : thr'[u].want = thr[u].want
    BY <1>8
  <2> HIDE DEF S
  <2>3. Queue(Rest(e, v), thr', S)
    BY <2>1, <2>2, QueueKept
  <2> QED
    BY <1>6, <2>3
<1>10. ASSUME NEW f \in Counts \ {e}
       PROVE  Queue(count'[f].queue, thr', BlockedOn(f)')
  <2>1. Queue(count[f].queue, thr, BlockedOn(f))
    BY DEF Inv, Queued
  <2>2. \A u \in BlockedOn(f) : thr'[u].want = thr[u].want
    BY <1>7
  <2>3. Queue(count[f].queue, thr', BlockedOn(f))
    BY <2>1, <2>2, QueueKept
  <2> QED
    BY <1>7, <2>3
<1>11. Queued'
  BY <1>9, <1>10 DEF Queued
<1> QED
  BY <1>1, <1>2, <1>6, <1>11

(* A step of thread t that returns: it may wake others and attach counts   *)
(* that had no channel.                                                    *)
LEMMA ReturnStep ==
    ASSUME Inv, Shape', Queued', NEW t \in Threads, Runs(t), thr'[t].pc = "idle",
           \A u \in Threads \ {t} : thr'[u] = thr[u] \/ thr'[u].pc = "ready",
           \A f \in Counts :
              /\ count'[f].life = count[f].life
              /\ ~Live(f) => count'[f] = count[f]
              /\ \/ count'[f].type = count[f].type /\ count'[f].ep = count[f].ep
                 \/ count[f].type = "none" /\ count'[f].ep \in Endpoints
              /\ \/ count'[f].value = count[f].value
                 \/ \A u \in BlockedOn(f)' : thr[u].want > count'[f].value,
           \A p \in Endpoints :
              /\ ep'[p].val = ep[p].val /\ ep'[p].ack = ep[p].ack
              /\ ep'[p].listed = ep[p].listed
              /\ ep'[p].notify = ep[p].notify \/ count[ep'[p].notify].type = "none"
    PROVE  Inv'
<1>1. ASSUME NEW f, NEW u \in BlockedOn(f)'
      PROVE  u \in BlockedOn(f) /\ thr'[u] = thr[u]
  BY DEF BlockedOn
<1>2. CountsFit'
  BY DEF Inv, CountsFit, Live
<1>3. \A u \in Threads \ {t} : thr[u].pc \notin {"syncing", "acking"}
  BY Constants DEF Inv, ThreadsFit, InLoop, Runs
<1>4. \A u \in Threads : thr'[u].pc \notin {"syncing", "acking"}
  BY <1>3
<1>5. ASSUME NEW u \in Threads
      PROVE  Entering(u)' /\ InLoop(u)' /\ Closes(u)'
  <2>1. Entering(u) /\ Closes(u)
    BY DEF Inv, ThreadsFit
  <2>2. Entering(u)'
    BY <2>1 DEF Entering
  <2>3. ASSUME thr'[u].pc = "closing"
        PROVE  Closes(u)'
    <3>1. thr'[u] = thr[u]
      BY <2>3
    <3>2. /\ thr[u].ec \in Counts /\ count[thr[u].ec].life = "closing"
          /\ count[thr[u].ec].type = "rx"
          /\ \A w \in Threads : thr[w].pc = "closing" /\ thr[w].ec = thr[u].ec => w = u
      BY <2>1, <2>3, <3>1 DEF Closes
    <3>3. \A w \in Threads : thr'[w].pc = "closing" => thr'[w] = thr[w]
      OBVIOUS
    <3> QED
      BY <3>1, <3>2, <3>3 DEF Closes
  <2> QED
    BY <1>4, <2>2, <2>3 DEF InLoop, Closes
<1>6. ASSUME NEW f \in Counts, NEW u \in BlockedOn(f)'
      PROVE  Waits(f, u)'
  <2>1. Waits(f, u) /\ thr'[u] = thr[u]
    BY <1>1, <1>6 DEF Inv, WaitsRight
  <2>2. count[f].type = "rx" => count'[f].ep = count[f].ep /\ count[f].ep \in Endpoints
    BY DEF Inv, CountsFit
  <2>3. thr'[u].rx # None => count'[f].type = "rx" /\ count[f].type = "rx"
    BY <2>1 DEF Waits
  <2>4. count'[f].type # "rx" => thr'[u].want > count'[f].value
    BY <1>6, <2>1 DEF Waits
  <2>5. ASSUME Tied(f, u)'
        PROVE  (ep[count[f].ep].listed \/ Quiet(f, u))'
    <3>1. /\ count[f].type = "rx" /\ count'[f].ep = count[f].ep /\ count[f].ep \in Endpoints
          /\ ep'[count[f].ep].notify = f
      BY <2>2, <2>3, <2>5 DEF Tied
    <3>2. Tied(f, u)
      BY <2>1, <2>3, <2>5, <3>1 DEF Tied
    <3> QED
      BY <1>6, <2>1, <3>1, <3>2 DEF Waits, Quiet
  <2> QED
    BY <2>3, <2>4, <2>5 DEF Waits
<1>7. WaitsRight' /\ ThreadsFit'
  BY <1>5, <1>6 DEF WaitsRight, ThreadsFit
<1>8. Acknowledges'
  BY <1>4 DEF Acknowledges
<1> QED
  BY <1>2, <1>7, <1>8 DEF Inv

LEMMA AdvanceStep ==
    ASSUME HalfRange, Inv, NEW t \in Threads, NEW e \in Counts, NEW n \in Nat,
           advance(t, e, n)
    PROVE  Inv'
<1>1. PICK v \in Bounded : v = (count[e].value + n) % Word
  <2> DEFINE c == count[e].value
  <2>0. c \in Nat
    BY ShapeFacts, Records DEF Inv
  <2>1. PICK m \in Nat : m = c + n
    BY <2>0
  <2>2. m % Word \in Nat
    BY Constants
  <2>3. m % Word <= MaxValue
    BY <2>1 DEF advance
  <2> QED
    BY <2>1, <2>2, <2>3, Constants DEF Bounded
<1>2. /\ count' = Updated(e, v) /\ thr' = Woken(e, v) /\ Runs(t)
      /\ thr[t].pc = "idle" /\ Live(e) /\ UNCHANGED <<cs, timeq, ep, status>>
  BY <1>1 DEF advance, Calls
<1>3. /\ \A u \in Threads : Woken(e, v)[u] = IF u \in BlockedOn(e) /\ thr[u].want <= v
                                             THEN WokenUp(e) ELSE thr[u]
      /\ Woken(e, v) \in [Threads -> ThreadType]
      /\ Updated(e, v) \in [Counts -> CountType]
      /\ Updated(e, v)[e].value = v /\ Updated(e, v)[e].queue = Rest(e, v)
      /\ \A f \in Counts : /\ Updated(e, v)[f].life = count[f].life
                           /\ Updated(e, v)[f].type = count[f].type
                           /\ Updated(e, v)[f].ep = count[f].ep
                           /\ f # e => Updated(e, v)[f] = count[f]
  BY ZenonT(60), WakeUps
<1>4. Shape'
  BY <1>2, <1>3, ShapeFacts DEF Inv, Shape, CountType, ThreadType
<1>5. thr'[t] = thr[t]
  BY <1>2, <1>3 DEF BlockedOn
<1>6. /\ Queued' /\ BlockedOn(e)' = {u \in BlockedOn(e) : thr[u].want > v}
      /\ \A u \in Threads \ {t} : thr'[u] = thr[u] \/ thr'[u].pc = "ready"
  BY <1>2, <1>3, <1>5, WakeQueues
<1> QED
  BY <1>2, <1>3, <1>4, <1>5, <1>6, ReturnStep

-----------------------------------------------------------------------------
(* Channels are attached.                                                  *)

LEMMA AttachedFacts ==
    ASSUME Inv, NEW e \in Counts, NEW p \in Endpoints, NEW type \in {"rx", "tx"}
    PROVE  /\ Attached(e, p, type) \in [Counts -> CountType]
           /\ Attached(e, p, type)[e].ep = p /\ Attached(e, p, type)[e].type = type
           /\ \A f \in Counts : /\ Attached(e, p, type)[f].life = count[f].life
                                /\ Attached(e, p, type)[f].value = count[f].value
                                /\ Attached(e, p, type)[f].queue = count[f].queue
                                /\ f # e => Attached(e, p, type)[f] = count[f]
<1>1. count \in [Counts -> CountType] /\ count[e] \in CountType
  BY ShapeFacts DEF Inv
<1> DEFINE r == [count[e] EXCEPT !.ep = p, !.type = type]
<1>2. /\ r \in CountType /\ r.ep = p /\ r.type = type
      /\ r.life = count[e].life /\ r.value = count[e].value /\ r.queue = count[e].queue
  BY <1>1 DEF CountType, AllEndpoints, Types
<1>3. Attached(e, p, type) = [count EXCEPT ![e] = r]
  BY <1>1 DEF Attached
<1> HIDE DEF r
<1> QED
  BY <1>1, <1>2, <1>3

(* An endpoint gets a handler.                                             *)
LEMMA NotifyFacts ==
    ASSUME Inv, NEW p \in Endpoints, NEW e \in Counts \cup {None},
           ep' = [ep EXCEPT ![p].notify = e]
    PROVE  /\ ep' \in [Endpoints -> EndpointType]
           /\ ep'[p].notify = e
           /\ \A o \in Endpoints : /\ ep'[o].val = ep[o].val /\ ep'[o].ack = ep[o].ack
                                   /\ ep'[o].listed = ep[o].listed
                                   /\ o # p => ep'[o] = ep[o]
<1>1. ep \in [Endpoints -> EndpointType] /\ ep[p] \in EndpointType
  BY ShapeFacts DEF Inv
<1> DEFINE r == [ep[p] EXCEPT !.notify = e]
<1>2. /\ r \in EndpointType /\ r.notify = e /\ r.val = ep[p].val /\ r.ack = ep[p].ack
      /\ r.listed = ep[p].listed
  BY <1>1 DEF EndpointType
<1>3. ep' = [ep EXCEPT ![p] = r]
  BY <1>1
<1> HIDE DEF r
<1> QED
  BY <1>1, <1>2, <1>3

LEMMA AttachStep ==
    ASSUME HalfRange, Inv, NEW t \in Threads, NEW e \in Counts, NEW p \in Endpoints,
           NEW x \in EndpointZero, attach(t, e, p, x.type, x)
    PROVE  Inv'
<1>1. PICK type \in {"rx", "tx"} : type = x.type
  BY DEF EndpointZero
<1>2. PICK v \in Bounded : v = x.val
  BY DEF EndpointZero, Bounded
<1>3. /\ Runs(t) /\ thr[t].pc = "idle" /\ Live(e) /\ count[e].type = "none"
  BY DEF attach, Calls
<1> DEFINE c == Attached(e, p, type)
<1>4. /\ c \in [Counts -> CountType] /\ c[e].ep = p /\ c[e].type = type
      /\ \A f \in Counts : /\ c[f].life = count[f].life /\ c[f].value = count[f].value
                           /\ c[f].queue = count[f].queue
                           /\ f # e => c[f] = count[f]
  BY AttachedFacts
<1>5. ASSUME UNCHANGED <<cs, timeq, status>>,
             (type = "rx" /\ ep' = [ep EXCEPT ![p].notify = e]) \/ UNCHANGED ep
      PROVE  /\ ep' \in [Endpoints -> EndpointType]
             /\ \A o \in Endpoints :
                   /\ ep'[o].val = ep[o].val /\ ep'[o].ack = ep[o].ack
                   /\ ep'[o].listed = ep[o].listed
                   /\ ep'[o].notify = ep[o].notify \/ count[ep'[o].notify].type = "none"
  <2>1. CASE UNCHANGED ep
    BY <2>1, ShapeFacts DEF Inv
  <2>2. CASE ep' = [ep EXCEPT ![p].notify = e]
    BY ZenonT(60), <1>3, <2>2, NotifyFacts
  <2> QED
    BY <1>5, <2>1, <2>2
<1>6. ASSUME count' = c, UNCHANGED <<thr, cs, timeq, status>>,
             (type = "rx" /\ ep' = [ep EXCEPT ![p].notify = e]) \/ UNCHANGED ep
      PROVE  Inv'
  <2>1. Shape'
    BY <1>4, <1>5, <1>6, ShapeFacts DEF Inv, Shape, CountType, EndpointType
  <2>2. Queued' /\ \A f : BlockedOn(f)' = BlockedOn(f)
    BY <1>4, <1>6, SameQueues DEF Inv
  <2> HIDE DEF c
  <2> QED
    BY <1>3, <1>4, <1>5, <1>6, <2>1, <2>2, ReturnStep
<1>7. ASSUME count' = [c EXCEPT ![e] = [Updated(e, v)[e] EXCEPT !.ep = p, !.type = type]],
             thr' = Woken(e, v), UNCHANGED <<cs, timeq, status>>,
             (type = "rx" /\ ep' = [ep EXCEPT ![p].notify = e]) \/ UNCHANGED ep
      PROVE  Inv'
  <2>1. /\ \A u \in Threads : Woken(e, v)[u] = IF u \in BlockedOn(e) /\ thr[u].want <= v
                                               THEN WokenUp(e) ELSE thr[u]
        /\ Woken(e, v) \in [Threads -> ThreadType]
        /\ Updated(e, v)[e] \in CountType
        /\ Updated(e, v)[e].value = v /\ Updated(e, v)[e].queue = Rest(e, v)
        /\ Updated(e, v)[e].life = count[e].life
    BY ZenonT(60), WakeUps
  <2> DEFINE r == [Updated(e, v)[e] EXCEPT !.ep = p, !.type = type]
  <2>2. /\ r \in CountType /\ r.ep = p /\ r.type = type
        /\ r.life = count[e].life /\ r.value = v /\ r.queue = Rest(e, v)
    BY <2>1 DEF CountType, AllEndpoints, Types
  <2>3. count' = [c EXCEPT ![e] = r]
    BY <1>7
  <2> HIDE DEF c, r
  <2>4. /\ count' \in [Counts -> CountType] /\ count'[e] = r
        /\ \A f \in Counts \ {e} : count'[f] = count[f]
    BY <1>4, <2>2, <2>3
  <2>5. Shape'
    BY <1>5, <1>7, <2>1, <2>4, ShapeFacts DEF Inv, Shape, CountType, ThreadType, EndpointType
  <2>6. thr'[t] = thr[t]
    BY <1>3, <1>7, <2>1 DEF BlockedOn
  <2>7. /\ Queued' /\ BlockedOn(e)' = {u \in BlockedOn(e) : thr[u].want > v}
        /\ \A u \in Threads \ {t} : thr'[u] = thr[u] \/ thr'[u].pc = "ready"
    <3>1. /\ \A u \in Threads \ {t} : thr'[u] = Woken(e, v)[u]
          /\ thr[t].pc # "blocked" /\ thr'[t].pc # "blocked"
          /\ count'[e].queue = Rest(e, v)
          /\ \A f \in Counts \ {e} : count'[f].queue = count[f].queue
      BY <1>3, <1>7, <2>2, <2>4, <2>6
    <3> QED
      BY <3>1, WakeQueues
  <2> QED
    BY ZenonT(60), <1>3, <1>5, <1>7, <2>2, <2>4, <2>5, <2>6, <2>7, ReturnStep
<1>8. CASE Stop("notify")
  BY <1>8, StopKeeps DEF Stop
<1> HIDE DEF c
<1>9. CASE Refused(p, type)
  <2>1. count' = c /\ UNCHANGED <<thr, cs, timeq, ep, status>>
    BY <1>1, <1>9 DEF attach, c
  <2> QED
    BY <1>6, <2>1
<1>10. CASE ~Refused(p, type) /\ ~Stop("notify")
  <2>1. /\ IF type = "rx" /\ x.state = "connected"
           THEN /\ count' = [c EXCEPT ![e] = [Updated(e, v)[e] EXCEPT !.ep = p, !.type = type]]
                /\ thr' = Woken(e, v)
           ELSE count' = c /\ UNCHANGED thr
        /\ ep' = IF type = "rx" THEN [ep EXCEPT ![p].notify = e] ELSE ep
        /\ UNCHANGED <<cs, timeq, status>>
    BY <1>1, <1>2, <1>10 DEF attach, c
  <2> QED
    BY <1>6, <1>7, <2>1
<1> QED
  BY <1>8, <1>9, <1>10

LEMMA AttachPairStep ==
    ASSUME HalfRange, Inv, NEW t \in Threads, NEW er \in Counts, NEW et \in Counts,
           NEW pr \in Endpoints, NEW pt \in Endpoints, attach_pair(t, er, et, pr, pt)
    PROVE  Inv'
<1>1. /\ Runs(t) /\ thr[t].pc = "idle" /\ Live(er) /\ Live(et) /\ er # et
      /\ count[er].type = "none" /\ count[et].type = "none"
  BY DEF attach_pair, Calls
<1>2. PICK v \in Bounded : v = ep[pr].val
  BY ShapeFacts DEF Inv
<1> DEFINE a == Attached(er, pr, "rx")
           r == [a[et] EXCEPT !.ep = pt, !.type = "tx"]
           c == [a EXCEPT ![et] = r]
<1>3. /\ a \in [Counts -> CountType] /\ a[er].ep = pr /\ a[er].type = "rx"
      /\ \A f \in Counts : /\ a[f].life = count[f].life /\ a[f].value = count[f].value
                           /\ a[f].queue = count[f].queue
                           /\ f # er => a[f] = count[f]
  BY AttachedFacts
<1>4. [Attached(er, pr, "rx") EXCEPT ![et].ep = pt, ![et].type = "tx"] = c
  BY <1>3
<1> HIDE DEF a
<1>5. /\ r \in CountType /\ r.ep = pt /\ r.type = "tx"
      /\ r.life = count[et].life /\ r.value = count[et].value /\ r.queue = count[et].queue
  <2>1. a[et] \in CountType /\ a[et] = count[et]
    BY <1>1, <1>3
  <2> QED
    BY <2>1 DEF CountType, AllEndpoints, Types
<1> HIDE DEF r
<1>6. /\ c \in [Counts -> CountType] /\ c[er].ep = pr /\ c[er].type = "rx"
      /\ c[et].ep = pt /\ c[et].type = "tx"
      /\ \A f \in Counts : /\ c[f].life = count[f].life /\ c[f].value = count[f].value
                           /\ c[f].queue = count[f].queue
                           /\ f \notin {er, et} => c[f] = count[f]
  BY <1>1, <1>3, <1>5
<1> HIDE DEF c
<1>7. ASSUME ep' = [ep EXCEPT ![pr].notify = er]
      PROVE  /\ ep' \in [Endpoints -> EndpointType]
             /\ \A o \in Endpoints :
                   /\ ep'[o].val = ep[o].val /\ ep'[o].ack = ep[o].ack
                   /\ ep'[o].listed = ep[o].listed
                   /\ ep'[o].notify = ep[o].notify \/ count[ep'[o].notify].type = "none"
  BY ZenonT(60), <1>1, <1>7, NotifyFacts
<1>8. ASSUME count' = c, UNCHANGED <<thr, cs, timeq, status>>,
             ep' = [ep EXCEPT ![pr].notify = er]
      PROVE  Inv'
  <2>1. Shape'
    BY <1>6, <1>7, <1>8, ShapeFacts DEF Inv, Shape, CountType, EndpointType
  <2>2. Queued' /\ \A f : BlockedOn(f)' = BlockedOn(f)
    BY <1>6, <1>8, SameQueues DEF Inv
  <2> QED
    BY <1>1, <1>6, <1>7, <1>8, <2>1, <2>2, ReturnStep
<1>9. /\ \A u \in Threads : Woken(er, v)[u] = IF u \in BlockedOn(er) /\ thr[u].want <= v
                                              THEN WokenUp(er) ELSE thr[u]
      /\ Woken(er, v) \in [Threads -> ThreadType]
      /\ Updated(er, v)[er] \in CountType
      /\ Updated(er, v)[er].queue = Rest(er, v)
  <2>1. \A u \in Threads : Woken(er, v)[u] = IF u \in BlockedOn(er) /\ thr[u].want <= v
                                             THEN WokenUp(er) ELSE thr[u]
    BY WakeUps
  <2>2. /\ Woken(er, v) \in [Threads -> ThreadType]
        /\ Updated(er, v) \in [Counts -> CountType]
        /\ Updated(er, v)[er].queue = Rest(er, v)
    BY WakeUps
  <2> QED
    BY <2>1, <2>2
<1>10. ASSUME count' = [c EXCEPT ![er].value = v, ![er].queue = Updated(er, v)[er].queue],
             thr' = Woken(er, v), UNCHANGED <<cs, timeq, status>>,
             ep' = [ep EXCEPT ![pr].notify = er]
      PROVE  Inv'
  <2> DEFINE s == [c[er] EXCEPT !.value = v, !.queue = Rest(er, v)]
  <2>2. /\ s \in CountType /\ s.ep = pr /\ s.type = "rx"
        /\ s.life = count[er].life /\ s.value = v /\ s.queue = Rest(er, v)
    <3>1. c[er] \in CountType /\ Rest(er, v) \in Seq(Threads)
      BY <1>6, <1>9 DEF CountType
    <3> QED
      BY <1>6, <3>1 DEF CountType
  <2>3. count' = [c EXCEPT ![er] = s]
    BY <1>6, <1>9, <1>10
  <2> HIDE DEF s
  <2>4. /\ count' \in [Counts -> CountType] /\ count'[er] = s
        /\ \A f \in Counts \ {er} : count'[f] = c[f]
    BY <1>6, <2>2, <2>3
  <2>5. Shape'
    BY <1>7, <1>9, <1>10, <2>4, ShapeFacts DEF Inv, Shape, CountType, ThreadType, EndpointType
  <2>6. thr'[t] = thr[t]
    BY <1>1, <1>9, <1>10 DEF BlockedOn
  <2>7. /\ Queued' /\ BlockedOn(er)' = {u \in BlockedOn(er) : thr[u].want > v}
        /\ \A u \in Threads \ {t} : thr'[u] = thr[u] \/ thr'[u].pc = "ready"
    <3>1. /\ \A u \in Threads \ {t} : thr'[u] = Woken(er, v)[u]
          /\ thr[t].pc # "blocked" /\ thr'[t].pc # "blocked"
          /\ count'[er].queue = Rest(er, v)
          /\ \A f \in Counts \ {er} : count'[f].queue = count[f].queue
      BY <1>1, <1>6, <1>10, <2>2, <2>4, <2>6
    <3> QED
      BY <3>1, WakeQueues
  <2>8. \A f \in Counts :
           /\ count'[f].life = count[f].life
           /\ ~Live(f) => count'[f] = count[f]
           /\ \/ count'[f].type = count[f].type /\ count'[f].ep = count[f].ep
              \/ count[f].type = "none" /\ count'[f].ep \in Endpoints
           /\ \/ count'[f].value = count[f].value
              \/ \A u \in BlockedOn(f)' : thr[u].want > count'[f].value
    BY <1>1, <1>6, <2>2, <2>4, <2>7
  <2>9. \A o \in Endpoints :
           /\ ep'[o].val = ep[o].val /\ ep'[o].ack = ep[o].ack
           /\ ep'[o].listed = ep[o].listed
           /\ ep'[o].notify = ep[o].notify \/ count[ep'[o].notify].type = "none"
    BY <1>7, <1>10
  <2> QED
    BY <1>1, <2>5, <2>6, <2>7, <2>8, <2>9, ReturnStep
<1>11. CASE Stop("notify")
  BY <1>11, StopKeeps DEF Stop
<1>12. CASE ~Stop("notify")
  <2>1. /\ IF ep[pr].state = "connected"
           THEN /\ count' = [c EXCEPT ![er].value = v, ![er].queue = Updated(er, v)[er].queue]
                /\ thr' = Woken(er, v)
           ELSE count' = c /\ UNCHANGED thr
        /\ ep' = [ep EXCEPT ![pr].notify = er]
        /\ UNCHANGED <<cs, timeq, status>>
    BY <1>2, <1>4, <1>12 DEF attach_pair
  <2> QED
    BY <1>8, <1>10, <2>1
<1> QED
  BY <1>11, <1>12

-----------------------------------------------------------------------------
(* Counts are destroyed.                                                   *)

LEMMA WaitingBlocked ==
    ASSUME Inv, NEW e \in Counts
    PROVE  /\ Waiting(e) = BlockedOn(e)
           /\ SubSeq(count[e].queue, 1, Len(count[e].queue)) = count[e].queue
<1>1. Queue(count[e].queue, thr, BlockedOn(e))
  BY DEF Inv, Queued
<1>2. count[e].queue \in Seq(Threads) /\ ToSet(count[e].queue) = BlockedOn(e)
  BY <1>1 DEF Queue
<1>3. SubSeq(count[e].queue, 1, Len(count[e].queue)) = count[e].queue
  BY <1>2, SubSeqFull
<1> QED
  BY <1>2, <1>3 DEF Waiting

(* A step of thread t that empties the queue of count e.                   *)
LEMMA TeardownStep ==
    ASSUME Inv, Shape', NEW t \in Threads, NEW e \in Counts, Runs(t),
           thr[t].pc # "blocked",
           \/ thr'[t].pc = "idle"
           \/ /\ thr'[t].pc = "closing" /\ thr'[t].ec = e
              /\ count'[e].life = "closing" /\ count'[e].type = "rx",
           \A u \in Threads \ {t} :
              IF u \in BlockedOn(e) THEN thr'[u].pc \in {"ready", "stranded"}
              ELSE thr'[u] = thr[u],
           \A u \in Threads \ {t} : thr[u].pc = "closing" => thr[u].ec # e,
           count'[e].queue = <<>>,
           \/ count'[e] = NoCount
           \/ count'[e].life # "free" /\ count'[e].ep \in Endpoints,
           \A f \in Counts \ {e} : count'[f] = count[f],
           \A p \in Endpoints : ep'[p] = ep[p] \/ ep'[p].notify = None
    PROVE  Inv'
<1>1. /\ BlockedOn(e)' = {}
      /\ \A f \in Counts \ {e} : BlockedOn(f)' = BlockedOn(f)
      /\ \A f \in Counts \ {e} : \A u \in BlockedOn(f) : thr'[u] = thr[u]
  <2>1. ASSUME NEW u, u \in BlockedOn(e)'
        PROVE  FALSE
    BY <2>1 DEF BlockedOn
  <2>2. ASSUME NEW f \in Counts \ {e}, NEW u
        PROVE  /\ u \in BlockedOn(f)' <=> u \in BlockedOn(f)
               /\ u \in BlockedOn(f) => thr'[u] = thr[u]
    BY DEF BlockedOn
  <2> QED
    BY <2>1, <2>2
<1>2. Queued'
  <2>1. Queue(count'[e].queue, thr', BlockedOn(e)')
    BY <1>1, EmptyQueue
  <2>2. ASSUME NEW f \in Counts \ {e}
        PROVE  Queue(count'[f].queue, thr', BlockedOn(f)')
    <3>1. Queue(count[f].queue, thr, BlockedOn(f))
      BY DEF Inv, Queued
    <3>2. \A u \in BlockedOn(f) : thr'[u].want = thr[u].want
      BY <1>1
    <3>3. Queue(count[f].queue, thr', BlockedOn(f))
      BY <3>1, <3>2, QueueKept
    <3> QED
      BY <1>1, <3>3
  <2> QED
    BY <2>1, <2>2 DEF Queued
<1>3. CountsFit'
  BY Records DEF Inv, CountsFit, Live
<1>4. \A u \in Threads \ {t} : thr[u].pc \notin {"syncing", "acking"}
  BY Constants DEF Inv, ThreadsFit, InLoop, Runs
<1>5. \A u \in Threads : thr'[u].pc \notin {"syncing", "acking"}
  BY <1>4
<1>6. ASSUME NEW u \in Threads
      PROVE  Entering(u)' /\ InLoop(u)' /\ Closes(u)'
  <2>1. Entering(u) /\ Closes(u)
    BY DEF Inv, ThreadsFit
  <2>2. Entering(u)'
    BY <2>1 DEF Entering
  <2>3. ASSUME thr'[u].pc = "closing"
        PROVE  Closes(u)'
    <3>1. CASE u = t
      <4>1. \A w \in Threads \ {t} : thr'[w].pc = "closing" => thr'[w].ec # e
        OBVIOUS
      <4> QED
        BY <2>3, <3>1, <4>1 DEF Closes
    <3>2. CASE u # t
      <4>1. thr'[u] = thr[u] /\ thr[u].ec # e /\ thr[u].ec \in Counts
        BY <2>1, <2>3, <3>2 DEF Closes
      <4>2. \A w \in Threads : thr'[w].pc = "closing" /\ thr'[w].ec # e => thr'[w] = thr[w]
        OBVIOUS
      <4> QED
        BY <2>1, <2>3, <4>1, <4>2 DEF Closes
    <3> QED
      BY <3>1, <3>2
  <2> QED
    BY <1>5, <2>2, <2>3 DEF InLoop, Closes
<1>7. ASSUME NEW f \in Counts, NEW u \in BlockedOn(f)'
      PROVE  Waits(f, u)'
  <2>1. f # e /\ u \in BlockedOn(f) /\ count'[f] = count[f] /\ thr'[u] = thr[u]
    BY <1>1, <1>7
  <2>2. Waits(f, u)
    BY <2>1 DEF Inv, WaitsRight
  <2>3. count[f].type = "rx" => count[f].ep \in Endpoints
    BY DEF Inv, CountsFit
  <2> QED
    BY <2>1, <2>2, <2>3, Constants DEF Waits, Tied, Quiet
<1>8. WaitsRight' /\ ThreadsFit'
  BY <1>6, <1>7 DEF WaitsRight, ThreadsFit
<1>9. Acknowledges'
  BY <1>5 DEF Acknowledges
<1> QED
  BY <1>2, <1>3, <1>8, <1>9 DEF Inv

LEMMA DestroyStep ==
    ASSUME Inv, NEW t \in Threads, NEW e \in Counts, destroy(t, e)
    PROVE  Inv'
<1>1. Runs(t) /\ thr[t].pc = "idle" /\ count[e].life = "live"
  BY DEF destroy, Calls
<1> DEFINE a == [Idle EXCEPT !.pc = "ready", !.ec = e, !.alerted = TRUE]
           th == AlertAll(e)
<1>2. a \in ThreadType /\ a.pc = "ready"
  BY Records DEF Idle, ThreadType
<1>3. /\ th \in [Threads -> ThreadType]
      /\ \A u \in Threads : th[u] = IF u \in BlockedOn(e) THEN a ELSE thr[u]
  <2>1. th = [u \in Threads |->
                IF u \in BlockedOn(e)
                THEN [Idle EXCEPT !.pc = "ready", !.ec = thr[u].ec, !.alerted = TRUE]
                ELSE thr[u]]
    BY WaitingBlocked DEF AlertAll, Unblocked, Waiting
  <2>2. \A u \in BlockedOn(e) : thr[u].ec = e
    BY DEF BlockedOn
  <2>3. thr \in [Threads -> ThreadType]
    BY ShapeFacts DEF Inv
  <2>4. \A u \in Threads : th[u] = IF u \in BlockedOn(e) THEN a ELSE thr[u]
    BY <2>1, <2>2
  <2>5. th = [u \in Threads |-> th[u]]
    BY <2>1
  <2> HIDE DEF th, a
  <2> QED
    BY <1>2, <2>3, <2>4, <2>5
<1> HIDE DEF a, th
<1>4. t \notin BlockedOn(e) /\ th[t] = thr[t] /\ th[t] \in ThreadType
  BY <1>1, <1>3 DEF BlockedOn
<1>5. \A u \in Threads : thr[u].pc = "closing" => thr[u].ec # e
  BY <1>1 DEF Inv, ThreadsFit, Closes
<1>6. count \in [Counts -> CountType] /\ count[e] \in CountType
  BY ShapeFacts DEF Inv
<1>7. CASE count[e].type = "none"
  <2>1. /\ count' = [count EXCEPT ![e] = NoCount] /\ thr' = th
        /\ UNCHANGED <<cs, timeq, ep, status>>
    <3>1. ~Undetachable(e)
      BY <1>7 DEF Undetachable
    <3> QED
      BY <1>7, <3>1 DEF destroy, th
  <2>2. /\ count' \in [Counts -> CountType] /\ count'[e] = NoCount
        /\ \A f \in Counts \ {e} : count'[f] = count[f]
    BY <1>6, <2>1, Records
  <2>3. Shape'
    BY <1>3, <2>1, <2>2, ShapeFacts DEF Inv, Shape, CountType, ThreadType
  <2> QED
    BY <1>1, <1>2, <1>3, <1>4, <1>5, <2>1, <2>2, <2>3, Records, TeardownStep
<1>8. CASE count[e].type # "none" /\ Undetachable(e)
  <2>1. Stop("masked")
    BY <1>8 DEF destroy
  <2> QED
    BY <2>1, StopKeeps DEF Stop
<1>9. CASE count[e].type # "none" /\ ~Undetachable(e)
  <2>1. /\ count' = [count EXCEPT ![e].life = "closing", ![e].queue = <<>>]
        /\ thr' = [th EXCEPT ![t].pc = "closing", ![t].ec = e]
        /\ ep' = [ep EXCEPT ![count[e].ep].notify = None]
        /\ UNCHANGED <<cs, timeq, status>>
    BY <1>9 DEF destroy, th, Detached
  <2>2. PICK p \in Endpoints : p = count[e].ep
    BY <1>9 DEF Inv, CountsFit
  <2>3. count[e].type = "rx"
    BY <1>9, ShapeFacts DEF Inv, Undetachable, Types
  <2> DEFINE r == [count[e] EXCEPT !.life = "closing", !.queue = <<>>]
             s == [th[t] EXCEPT !.pc = "closing", !.ec = e]
  <2>4. /\ r \in CountType /\ r.life = "closing" /\ r.queue = <<>>
        /\ r.type = "rx" /\ r.ep = p
    <3>1. <<>> \in Seq(Threads)
      OBVIOUS
    <3> QED
      BY <1>6, <2>2, <2>3, <3>1 DEF CountType
  <2>5. s \in ThreadType /\ s.pc = "closing" /\ s.ec = e
    BY <1>4 DEF ThreadType
  <2>6. count' = [count EXCEPT ![e] = r] /\ thr' = [th EXCEPT ![t] = s]
    BY <1>3, <1>6, <2>1
  <2> HIDE DEF r, s
  <2>7. /\ count' \in [Counts -> CountType] /\ count'[e] = r
        /\ \A f \in Counts \ {e} : count'[f] = count[f]
    BY <1>6, <2>4, <2>6
  <2>8. /\ thr' \in [Threads -> ThreadType] /\ thr'[t] = s
        /\ \A u \in Threads \ {t} : thr'[u] = th[u]
    BY <1>3, <2>5, <2>6
  <2>9. /\ ep' \in [Endpoints -> EndpointType]
        /\ \A o \in Endpoints : ep'[o] = ep[o] \/ ep'[o].notify = None
    BY ZenonT(60), <2>1, <2>2, NotifyFacts
  <2>10. Shape'
    BY <2>1, <2>7, <2>8, <2>9, ShapeFacts DEF Inv, Shape, CountType, ThreadType, EndpointType
  <2> QED
    BY <1>1, <1>2, <1>3, <1>4, <1>5, <2>4, <2>5, <2>7, <2>8, <2>9, <2>10, TeardownStep
<1> QED
  BY <1>7, <1>8, <1>9

LEMMA CloseStep ==
    ASSUME Inv, NEW t \in Threads, close(t)
    PROVE  Inv'
<1>1. Runs(t) /\ thr[t].pc = "closing"
  BY DEF close
<1>2. PICK e \in Counts : e = thr[t].ec
  BY <1>1 DEF Inv, ThreadsFit, Closes
<1>3. /\ count[e].life = "closing" /\ count[e].type = "rx"
      /\ \A u \in Threads \ {t} : thr[u].pc = "closing" => thr[u].ec # e
  BY <1>1, <1>2 DEF Inv, ThreadsFit, Closes
<1>4. PICK p \in Endpoints : p = count[e].ep
  BY <1>3 DEF Inv, CountsFit
<1>5. CASE ep[p].notify # None
  <2>1. Stop("panic")
    BY <1>2, <1>4, <1>5 DEF close
  <2> QED
    BY <2>1, StopKeeps DEF Stop
<1>6. CASE ep[p].notify = None
  <2> DEFINE s == [Idle EXCEPT !.pc = "stranded"]
  <2>1. /\ ep' = [ep EXCEPT ![p] = Endpoint("free")]
        /\ count' = [count EXCEPT ![e] = NoCount]
        /\ thr' = [u \in Threads |-> CASE u = t -> Idle
                                       [] u \in Waiting(e) -> s
                                       [] OTHER -> thr[u]]
        /\ UNCHANGED <<cs, timeq, status>>
    BY <1>2, <1>4, <1>6 DEF close
  <2>2. s \in ThreadType /\ s.pc = "stranded"
    BY Records DEF Idle, ThreadType
  <2> HIDE DEF s
  <2>3. t \notin BlockedOn(e) /\ Waiting(e) = BlockedOn(e)
    BY <1>1, WaitingBlocked DEF BlockedOn
  <2>4. /\ thr'[t] = Idle
        /\ \A u \in Threads \ {t} : thr'[u] = IF u \in BlockedOn(e) THEN s ELSE thr[u]
    BY <2>1, <2>3
  <2>5. thr' \in [Threads -> ThreadType]
    <3>1. thr' = [u \in Threads |-> thr'[u]]
      BY <2>1
    <3>2. thr \in [Threads -> ThreadType]
      BY ShapeFacts DEF Inv
    <3> QED
      BY <2>2, <2>4, <3>1, <3>2, Records
  <2>6. /\ count' \in [Counts -> CountType] /\ count'[e] = NoCount
        /\ \A f \in Counts \ {e} : count'[f] = count[f]
    BY <2>1, ShapeFacts, Records DEF Inv
  <2>7. /\ ep' \in [Endpoints -> EndpointType]
        /\ \A o \in Endpoints : ep'[o] = ep[o] \/ ep'[o].notify = None
    BY <2>1, ShapeFacts, Records DEF Inv
  <2>8. Shape'
    BY <2>1, <2>5, <2>6, <2>7, ShapeFacts DEF Inv, Shape, CountType, ThreadType, EndpointType
  <2> QED
    BY <1>1, <1>3, <2>2, <2>3, <2>4, <2>6, <2>7, <2>8, Records, TeardownStep
<1> QED
  BY <1>5, <1>6

-----------------------------------------------------------------------------
(* await.                                                                  *)

(* Thread t joins the queue q of those who still wait on count e.          *)
LEMMA BlockStep ==
    ASSUME Inv, Shape', NEW t \in Threads, NEW e \in Counts, Runs(t), Live(e),
           thr[t].pc # "blocked",
           NEW q, NEW S \in SUBSET BlockedOn(e), Queue(q, thr, S),
           count'[e].queue = InsertAt(q, PlaceOf(q, thr[t].want), t),
           count'[e].life = count[e].life, count'[e].type = count[e].type,
           count'[e].ep = count[e].ep,
           count'[e].value = count[e].value
               \/ \A u \in S : thr[u].want > count'[e].value,
           \A f \in Counts \ {e} : count'[f] = count[f],
           thr'[t].pc = "blocked", thr'[t].ec = e, thr'[t].want = thr[t].want,
           Waits(e, t)',
           \A u \in Threads \ {t} :
              IF u \in BlockedOn(e) \ S THEN thr'[u].pc = "ready" ELSE thr'[u] = thr[u],
           UNCHANGED ep
    PROVE  Inv'
<1>1. /\ BlockedOn(e)' = S \cup {t}
      /\ \A f \in Counts \ {e} : BlockedOn(f)' = BlockedOn(f)
      /\ \A f \in Counts \ {e} : \A u \in BlockedOn(f) : u # t /\ thr'[u] = thr[u]
      /\ \A u \in S : u # t /\ thr'[u] = thr[u]
  <2>1. ASSUME NEW u
        PROVE  u \in BlockedOn(e)' <=> u \in S \cup {t}
    BY DEF BlockedOn
  <2>2. ASSUME NEW f \in Counts \ {e}, NEW u
        PROVE  /\ u \in BlockedOn(f)' <=> u \in BlockedOn(f)
               /\ u \in BlockedOn(f) => u # t /\ thr'[u] = thr[u]
    BY DEF BlockedOn
  <2>3. \A u \in S : u # t /\ thr'[u] = thr[u]
    BY DEF BlockedOn
  <2> QED
    BY <2>1, <2>2, <2>3
<1>2. Queued'
  <2>1. Queue(count'[e].queue, thr', BlockedOn(e)')
    <3>1. \A u \in Threads : thr[u].want \in Nat
      BY ShapeFacts, Records DEF Inv
    <3>2. t \notin S /\ S \subseteq Threads
      BY <1>1, QueueFacts
    <3>3. Queue(InsertAt(q, PlaceOf(q, thr[t].want), t), thr, S \cup {t})
      BY <3>1, <3>2, InsertedIsQueue
    <3>4. \A u \in S \cup {t} : thr'[u].want = thr[u].want
      BY <1>1
    <3>5. Queue(InsertAt(q, PlaceOf(q, thr[t].want), t), thr', S \cup {t})
      BY <3>3, <3>4, QueueKept
    <3> QED
      BY <1>1, <3>5
  <2>2. ASSUME NEW f \in Counts \ {e}
        PROVE  Queue(count'[f].queue, thr', BlockedOn(f)')
    <3>1. Queue(count[f].queue, thr, BlockedOn(f))
      BY DEF Inv, Queued
    <3>2. \A u \in BlockedOn(f) : thr'[u].want = thr[u].want
      BY <1>1
    <3>3. Queue(count[f].queue, thr', BlockedOn(f))
      BY <3>1, <3>2, QueueKept
    <3> QED
      BY <1>1, <3>3
  <2> QED
    BY <2>1, <2>2 DEF Queued
<1>3. CountsFit'
  BY DEF Inv, CountsFit, Live
<1>4. \A u \in Threads \ {t} : thr[u].pc \notin {"syncing", "acking"}
  BY Constants DEF Inv, ThreadsFit, InLoop, Runs
<1>5. \A u \in Threads : thr'[u].pc \notin {"syncing", "acking"}
  BY <1>4
<1>6. ASSUME NEW u \in Threads
      PROVE  Entering(u)' /\ InLoop(u)' /\ Closes(u)'
  <2>1. Entering(u) /\ Closes(u)
    BY DEF Inv, ThreadsFit
  <2>2. Entering(u)'
    BY <2>1 DEF Entering
  <2>3. ASSUME thr'[u].pc = "closing"
        PROVE  Closes(u)'
    <3>1. thr'[u] = thr[u]
      BY <2>3
    <3>2. /\ thr[u].ec \in Counts /\ count[thr[u].ec].life = "closing"
          /\ count[thr[u].ec].type = "rx"
          /\ \A w \in Threads : thr[w].pc = "closing" /\ thr[w].ec = thr[u].ec => w = u
      BY <2>1, <2>3, <3>1 DEF Closes
    <3>3. \A w \in Threads : thr'[w].pc = "closing" => thr'[w] = thr[w]
      OBVIOUS
    <3>4. count'[thr[u].ec].life = "closing" /\ count'[thr[u].ec].type = "rx"
      BY <3>2
    <3> QED
      BY <3>1, <3>2, <3>3, <3>4 DEF Closes
  <2> QED
    BY <1>5, <2>2, <2>3 DEF InLoop, Closes
<1>7. ASSUME NEW f \in Counts, NEW u \in BlockedOn(f)'
      PROVE  Waits(f, u)'
  <2>1. CASE u = t
    <3>1. f = e
      BY <1>7, <2>1 DEF BlockedOn
    <3> QED
      BY <2>1, <3>1
  <2>2. CASE u # t
    <3>1. u \in BlockedOn(f) /\ thr'[u] = thr[u] /\ (f = e => u \in S)
      BY <1>1, <1>7, <2>2
    <3>2. Waits(f, u)
      BY <3>1 DEF Inv, WaitsRight
    <3>3. /\ count'[f].type = count[f].type /\ count'[f].ep = count[f].ep
          /\ count'[f].value = count[f].value \/ thr[u].want > count'[f].value
      BY <3>1
    <3> QED
      BY <3>1, <3>2, <3>3 DEF Waits, Tied, Quiet
  <2> QED
    BY <2>1, <2>2
<1>8. WaitsRight' /\ ThreadsFit'
  BY <1>6, <1>7 DEF WaitsRight, ThreadsFit
<1>9. Acknowledges'
  BY <1>5 DEF Acknowledges
<1> QED
  BY <1>2, <1>3, <1>8, <1>9 DEF Inv

LEMMA EnterStep ==
    ASSUME HalfRange, Inv, NEW t \in Threads, enter(t)
    PROVE  Inv'
<1>1. Runs(t) /\ thr[t].pc = "entering"
  BY DEF enter
<1>2. PICK e \in Counts : e = thr[t].ec /\ thr[t].rx = None
  BY <1>1 DEF Inv, ThreadsFit, Entering
<1>3. /\ count \in [Counts -> CountType] /\ count[e] \in CountType
      /\ thr \in [Threads -> ThreadType] /\ thr[t] \in ThreadType
      /\ thr[t].want \in Bounded /\ count[e].value \in Bounded
      /\ ~thr[t].timed
  BY ShapeFacts DEF Inv
<1>4. CASE ~Live(e)
  <2>1. Stop("dangling")
    BY <1>2, <1>4 DEF enter
  <2> QED
    BY <2>1, StopKeeps DEF Stop
<1>5. CASE Live(e) /\ count[e].type = "rx"
  <2>1. /\ thr' = [thr EXCEPT ![t].pc = "syncing"] /\ cs' = t
        /\ UNCHANGED <<count, timeq, ep, status>>
    BY <1>2, <1>5 DEF enter
  <2> DEFINE r == [thr[t] EXCEPT !.pc = "syncing"]
  <2>2. r \in ThreadType /\ r.pc = "syncing" /\ r.ec = e
    BY <1>2, <1>3 DEF ThreadType
  <2>3. thr' = [thr EXCEPT ![t] = r]
    BY <1>3, <2>1
  <2> HIDE DEF r
  <2>4. /\ thr' \in [Threads -> ThreadType] /\ thr'[t] = r
        /\ \A u \in Threads \ {t} : thr'[u] = thr[u]
    BY <1>3, <2>2, <2>3
  <2>5. Shape'
    BY <2>1, <2>4, ShapeFacts DEF Inv, Shape, ThreadType
  <2>6. Queued' /\ \A f : BlockedOn(f)' = BlockedOn(f)
    BY <1>1, <2>1, <2>2, <2>4, SameQueues DEF Inv
  <2>7. CountsFit'
    BY <2>1 DEF Inv, CountsFit, Live
  <2>8. \A u \in Threads \ {t} : thr[u].pc \notin {"syncing", "acking"}
    BY <1>1, Constants DEF Inv, ThreadsFit, InLoop, Runs
  <2>9. ThreadsFit'
    BY ZenonT(60), <1>5, <2>1, <2>2, <2>4, <2>8 DEF Inv, ThreadsFit, Entering, InLoop, Closes, Live
  <2>10. \A f : \A u \in BlockedOn(f) : u # t /\ thr'[u] = thr[u]
    BY <1>1, <2>4 DEF BlockedOn
  <2>11. WaitsRight'
    BY <2>1, <2>6, <2>10 DEF Inv, WaitsRight, Waits, Quiet, Tied
  <2>12. Acknowledges'
    BY <2>2, <2>4, <2>8 DEF Acknowledges
  <2> QED
    BY <2>5, <2>6, <2>7, <2>9, <2>11, <2>12 DEF Inv
<1>6. CASE Live(e) /\ count[e].type # "rx"
  <2>1. Finish(t, count[e].value, count, thr) /\ UNCHANGED ep
    BY <1>2, <1>6 DEF enter
  <2>2. EC_GT(thr[t].want, count[e].value) <=> thr[t].want > count[e].value
    BY <1>3, Comparisons DEF Bounded
  <2>3. cs' = None
    BY <2>1 DEF Finish
  <2>4. CASE Return(t, count, thr)
    <3>1. count' = count /\ thr' = [thr EXCEPT ![t] = Idle] /\ UNCHANGED <<timeq, status>>
      BY <2>4 DEF Return
    <3>2. /\ thr' \in [Threads -> ThreadType] /\ thr'[t] = Idle
          /\ \A u \in Threads \ {t} : thr'[u] = thr[u]
      BY <1>3, <3>1, Records
    <3>3. Shape'
      BY <2>1, <2>3, <3>1, <3>2, ShapeFacts DEF Inv, Shape, ThreadType
    <3>4. Queued'
      BY <1>1, <3>1, <3>2, Records, SameQueues DEF Inv
    <3> QED
      BY <1>1, <2>1, <3>1, <3>2, <3>3, <3>4, Records, ReturnStep
  <2>5. CASE ~Return(t, count, thr)
    <3>1. block_event(t, count, thr, e) /\ thr[t].want > count[e].value
      BY <1>2, <1>3, <2>1, <2>2, <2>5 DEF Finish
    <3>2. CASE NullNext(t, count, e)
      <4>1. status' = "null" /\ UNCHANGED <<count, thr, timeq>>
        BY <3>1, <3>2 DEF block_event
      <4> QED
        BY <2>1, <2>3, <4>1, StopKeeps
    <3>3. CASE ~NullNext(t, count, e)
      <4>1. t \notin timeq
        BY ShapeFacts DEF Inv
      <4>2. /\ count' = Blocked(t, count, e) /\ thr' = [thr EXCEPT ![t].pc = "blocked"]
            /\ timeq' = timeq /\ UNCHANGED status
        BY <1>3, <3>1, <3>3, <4>1 DEF block_event
      <4> DEFINE q == count[e].queue
                 n == InsertAt(q, PlaceOf(q, thr[t].want), t)
                 r == [thr[t] EXCEPT !.pc = "blocked"]
                 s == [count[e] EXCEPT !.queue = n]
      <4>3. Queue(q, thr, BlockedOn(e)) /\ n \in Seq(Threads)
        <5>1. Queue(q, thr, BlockedOn(e))
          BY DEF Inv, Queued
        <5>2. t \notin BlockedOn(e) /\ \A u \in Threads : thr[u].want \in Nat
          BY <1>1, ShapeFacts, Records DEF Inv, BlockedOn
        <5>3. Queue(n, thr, BlockedOn(e) \cup {t})
          <6>1. \A u \in BlockedOn(e) : thr[u].want \in Nat
            BY <5>2 DEF BlockedOn
          <6> QED
            BY <5>1, <5>2, <6>1, InsertedIsQueue
        <5> QED
          BY <5>1, <5>3 DEF Queue
      <4>4. /\ r \in ThreadType /\ r.pc = "blocked" /\ r.ec = e /\ r.want = thr[t].want
            /\ r.rx = None
        BY <1>2, <1>3 DEF ThreadType
      <4>5. count' = [count EXCEPT ![e].queue = n]
        BY <4>2 DEF Blocked
      <4> HIDE DEF n
      <4>6. /\ s \in CountType /\ s.queue = n /\ s.life = count[e].life
            /\ s.type = count[e].type /\ s.ep = count[e].ep /\ s.value = count[e].value
        BY <1>3, <4>3 DEF CountType
      <4>7. thr' = [thr EXCEPT ![t] = r] /\ count' = [count EXCEPT ![e] = s]
        BY <1>3, <4>2, <4>5
      <4> HIDE DEF r, s
      <4>8. /\ thr' \in [Threads -> ThreadType] /\ thr'[t] = r
            /\ \A u \in Threads \ {t} : thr'[u] = thr[u]
            /\ count' \in [Counts -> CountType] /\ count'[e] = s
            /\ \A f \in Counts \ {e} : count'[f] = count[f]
        BY <1>3, <4>4, <4>6, <4>7
      <4>9. Shape'
        BY <2>1, <2>3, <4>2, <4>8, ShapeFacts DEF Inv, Shape, ThreadType, CountType
      <4>10. Waits(e, t)'
        BY <1>6, <3>1, <4>4, <4>6, <4>8 DEF Waits, Tied
      <4>11. count'[e].queue = InsertAt(q, PlaceOf(q, thr[t].want), t)
        BY <4>6, <4>8 DEF n
      <4> QED
        BY <1>1, <1>6, <2>1, <4>3, <4>4, <4>6, <4>8, <4>9, <4>10, <4>11, BlockStep
    <3> QED
      BY <3>2, <3>3
  <2> QED
    BY <2>4, <2>5
<1> QED
  BY <1>4, <1>5, <1>6

LEMMA SyncStep ==
    ASSUME HalfRange, Inv, NEW t \in Threads, sync(t)
    PROVE  Inv'
<1>1. Runs(t) /\ thr[t].pc = "syncing"
  BY DEF sync
<1>2. PICK e \in Counts : e = thr[t].ec /\ Live(e) /\ count[e].type = "rx"
  BY <1>1 DEF Inv, ThreadsFit, InLoop
<1>3. PICK p \in Endpoints : p = count[e].ep
  BY <1>2 DEF Inv, CountsFit
<1>4. PICK v \in Bounded : v = ep[p].val
  BY ShapeFacts DEF Inv
<1>5. /\ thr \in [Threads -> ThreadType] /\ thr[t] \in ThreadType
      /\ thr[t].want \in Bounded /\ ~thr[t].timed /\ timeq = {}
      /\ ep[p].ack \in Bounded
  BY ShapeFacts DEF Inv
<1>6. \A u \in Threads \ {t} : thr[u].pc \notin {"syncing", "acking"}
  BY <1>1, Constants DEF Inv, ThreadsFit, InLoop, Runs
<1> DEFINE w == Woken(e, v)
           c == Updated(e, v)
<1>7. /\ \A u \in Threads : w[u] = IF u \in BlockedOn(e) /\ thr[u].want <= v
                                   THEN WokenUp(e) ELSE thr[u]
      /\ w \in [Threads -> ThreadType]
  <2>1. \A u \in Threads : w[u] = IF u \in BlockedOn(e) /\ thr[u].want <= v
                                  THEN WokenUp(e) ELSE thr[u]
    BY WakeUps
  <2> QED
    BY <2>1, WakeUps
<1>8. /\ c \in [Counts -> CountType] /\ c[e].value = v /\ c[e].queue = Rest(e, v)
      /\ \A f \in Counts : /\ c[f].life = count[f].life /\ c[f].type = count[f].type
                           /\ c[f].ep = count[f].ep /\ (f # e => c[f] = count[f])
  <2>1. c \in [Counts -> CountType]
    BY WakeUps
  <2>2. c[e].value = v /\ c[e].queue = Rest(e, v)
    BY WakeUps
  <2>3. \A f \in Counts : /\ c[f].life = count[f].life /\ c[f].type = count[f].type
                          /\ c[f].ep = count[f].ep /\ (f # e => c[f] = count[f])
    <3>1. \A f \in Counts : /\ Updated(e, v)[f].life = count[f].life
                            /\ Updated(e, v)[f].type = count[f].type
                            /\ Updated(e, v)[f].ep = count[f].ep
                            /\ f # e => Updated(e, v)[f] = count[f]
      BY WakeUps
    <3> QED
      BY <3>1
  <2> QED
    BY <2>1, <2>2, <2>3
<1>9. /\ w[t] = thr[t] /\ t \notin BlockedOn(e)
      /\ \A u \in Threads \ {t} : thr[u].want \in Nat
  BY <1>1, <1>7, ShapeFacts, Records DEF BlockedOn, Inv
<1>10. ASSUME ~UpToDate(ep[p], thr[t].want),
              thr' = [thr EXCEPT ![t].pc = "acking", ![t].rx = v],
              cs' = t, UNCHANGED <<count, timeq, ep, status>>
       PROVE  Inv'
  <2> DEFINE r == [thr[t] EXCEPT !.pc = "acking", !.rx = v]
  <2>1. r \in ThreadType /\ r.pc = "acking" /\ r.ec = e /\ r.rx = v
    BY <1>2, <1>5 DEF ThreadType
  <2>2. thr' = [thr EXCEPT ![t] = r]
    BY <1>5, <1>10
  <2> HIDE DEF r, w, c
  <2>3. /\ thr' \in [Threads -> ThreadType] /\ thr'[t] = r
        /\ \A u \in Threads \ {t} : thr'[u] = thr[u]
    BY <1>5, <2>1, <2>2
  <2>4. Shape'
    BY <1>10, <2>3, ShapeFacts DEF Inv, Shape, ThreadType
  <2>5. Queued' /\ \A f : BlockedOn(f)' = BlockedOn(f)
    BY <1>1, <1>10, <2>1, <2>3, SameQueues DEF Inv
  <2>6. CountsFit'
    BY <1>10 DEF Inv, CountsFit, Live
  <2>7. ThreadsFit'
    BY <1>2, <1>6, <1>10, <2>1, <2>3 DEF Inv, ThreadsFit, Entering, InLoop, Closes, Live
  <2>8. \A f : \A u \in BlockedOn(f) : u # t /\ thr'[u] = thr[u]
    BY <1>1, <2>3 DEF BlockedOn
  <2>9. WaitsRight'
    BY ZenonT(60), <1>10, <2>5, <2>8 DEF Inv, WaitsRight, Waits, Quiet, Tied
  <2>10. ep[p].val # ep[p].ack
    BY <1>10 DEF UpToDate
  <2>11. ASSUME NEW f \in Counts, NEW u \in BlockedOn(f), Tied(f, u), count[f].ep = p
         PROVE  ep[p].listed
    BY <2>10, <2>11 DEF Inv, WaitsRight, Waits, Quiet
  <2>12. ASSUME NEW o \in Threads, thr'[o].pc = "acking", NEW f \in Counts,
                NEW u \in BlockedOn(f)', Tied(f, u)', count'[f].ep = count'[thr'[o].ec].ep
         PROVE  ep'[count'[f].ep].listed
    <3>1. o = t /\ thr'[o].ec = e
      BY <1>6, <2>1, <2>3, <2>12
    <3>2. u \in BlockedOn(f) /\ thr'[u] = thr[u]
      BY <2>5, <2>8, <2>12
    <3>3. Tied(f, u) /\ count[f].ep = p
      BY <1>3, <1>10, <2>12, <3>1, <3>2 DEF Tied
    <3> QED
      BY <1>10, <2>11, <3>2, <3>3
  <2>13. Acknowledges'
    BY <2>12 DEF Acknowledges
  <2> QED
    BY <2>4, <2>5, <2>6, <2>7, <2>9, <2>13 DEF Inv
<1>11. ASSUME count' = c, thr'[t] = Idle, thr' \in [Threads -> ThreadType],
              \A u \in Threads \ {t} : thr'[u] = w[u],
              cs' = None, UNCHANGED <<timeq, ep, status>>
       PROVE  Inv'
  <2>1. Shape'
    BY <1>8, <1>11, ShapeFacts DEF Inv, Shape, CountType, ThreadType
  <2>2. /\ Queued' /\ BlockedOn(e)' = {u \in BlockedOn(e) : thr[u].want > v}
        /\ \A u \in Threads \ {t} : thr'[u] = thr[u] \/ thr'[u].pc = "ready"
    <3>1. /\ thr[t].pc # "blocked" /\ thr'[t].pc # "blocked"
          /\ count'[e].queue = Rest(e, v)
          /\ \A f \in Counts \ {e} : count'[f].queue = count[f].queue
      BY <1>1, <1>8, <1>11, Records
    <3>2. \A u \in Threads \ {t} : thr'[u] = Woken(e, v)[u]
      BY <1>11
    <3> HIDE DEF w, c
    <3> QED
      BY <3>1, <3>2, WakeQueues
  <2> HIDE DEF w, c
  <2> QED
    BY <1>1, <1>2, <1>8, <1>11, <2>1, <2>2, Records, ReturnStep
<1>12. ASSUME ep[p].val = ep[p].ack, thr[t].want > v,
              count' = Blocked(t, c, e),
              thr' = [[w EXCEPT ![t].rx = v] EXCEPT ![t].pc = "blocked"],
              cs' = None, UNCHANGED <<timeq, ep, status>>
       PROVE  Inv'
  <2> DEFINE q == Rest(e, v)
             S == {u \in BlockedOn(e) : thr[u].want > v}
             n == InsertAt(q, PlaceOf(q, thr[t].want), t)
             r == [thr[t] EXCEPT !.rx = v, !.pc = "blocked"]
             s == [c[e] EXCEPT !.queue = n]
  <2>1. Queue(q, thr, S)
    BY WakeUps
  <2>2. n \in Seq(Threads)
    <3>1. t \notin S /\ \A u \in Threads : thr[u].want \in Nat
      BY <1>9, ShapeFacts, Records DEF Inv
    <3>2. \A u \in S : thr[u].want \in Nat
      BY <3>1 DEF BlockedOn
    <3> HIDE DEF S, q
    <3>3. Queue(n, thr, S \cup {t})
      BY <2>1, <3>1, <3>2, InsertedIsQueue
    <3> QED
      BY <3>3 DEF Queue
  <2>3. count' = [c EXCEPT ![e].queue = n]
    BY <1>8, <1>12 DEF Blocked
  <2>4. /\ r \in ThreadType /\ r.pc = "blocked" /\ r.ec = e /\ r.want = thr[t].want
    BY <1>2, <1>5 DEF ThreadType
  <2>5. thr' = [w EXCEPT ![t] = r]
    BY <1>5, <1>7, <1>9, <1>12
  <2> HIDE DEF r, n, w, c
  <2>6. /\ s \in CountType /\ s.queue = n /\ s.life = count[e].life
        /\ s.type = count[e].type /\ s.ep = count[e].ep /\ s.value = v
    <3>1. c[e] \in CountType
      BY <1>8
    <3> QED
      BY <1>8, <2>2, <3>1 DEF CountType
  <2>7. count' = [c EXCEPT ![e] = s]
    BY <1>8, <2>3
  <2> HIDE DEF s
  <2>8. /\ thr' \in [Threads -> ThreadType] /\ thr'[t] = r
        /\ \A u \in Threads \ {t} : thr'[u] = w[u]
        /\ count' \in [Counts -> CountType] /\ count'[e] = s
        /\ \A f \in Counts \ {e} : count'[f] = count[f]
    BY <1>7, <1>8, <2>4, <2>5, <2>6, <2>7
  <2>9. Shape'
    BY <1>12, <2>8, ShapeFacts DEF Inv, Shape, ThreadType, CountType
  <2>10. Waits(e, t)'
    BY <1>2, <1>3, <1>4, <1>12, <2>4, <2>6, <2>8 DEF Waits, Tied, Quiet
  <2>11. count'[e].queue = InsertAt(q, PlaceOf(q, thr[t].want), t)
    BY <2>6, <2>8 DEF n
  <2>12. \A u \in Threads \ {t} :
            IF u \in BlockedOn(e) \ S THEN thr'[u].pc = "ready" ELSE thr'[u] = thr[u]
    <3>1. WokenUp(e).pc = "ready" /\ v \in Nat
      BY Records DEF WokenUp
    <3> QED
      BY <1>7, <1>9, <2>8, <3>1
  <2>13. \A u \in S : thr[u].want > count'[e].value
    BY <2>6, <2>8
  <2>14. S \in SUBSET BlockedOn(e) /\ thr[t].pc # "blocked" /\ ep' = ep
    BY <1>1, <1>12
  <2>15. /\ count'[e].life = count[e].life /\ count'[e].type = count[e].type
         /\ count'[e].ep = count[e].ep
         /\ thr'[t].pc = "blocked" /\ thr'[t].ec = e /\ thr'[t].want = thr[t].want
    BY <2>4, <2>6, <2>8
  <2> HIDE DEF S, q
  <2> QED
    BY <1>1, <1>2, <2>1, <2>8, <2>9, <2>10, <2>11, <2>12, <2>13, <2>14, <2>15, BlockStep
<1>13. EC_GT(thr[t].want, v) <=> thr[t].want > v
  BY <1>5, Comparisons DEF Bounded
<1>14. UpToDate(ep[p], thr[t].want) => ep[p].val = ep[p].ack \/ ~(thr[t].want > v)
  <2>1. EC_GT(v, thr[t].want) <=> v > thr[t].want
    BY <1>5, Comparisons DEF Bounded
  <2>2. thr[t].want \in Nat /\ v \in Nat
    BY <1>5, Records
  <2> QED
    BY <1>4, <2>1, <2>2 DEF UpToDate
<1> DEFINE th == [w EXCEPT ![t].rx = v]
<1>15. CASE ~UpToDate(ep[p], thr[t].want)
  <2>1. /\ thr' = [thr EXCEPT ![t].pc = "acking", ![t].rx = v]
        /\ cs' = t /\ UNCHANGED <<count, timeq, ep, status>>
    BY <1>2, <1>3, <1>4, <1>5, <1>15 DEF sync, Yields
  <2> QED
    BY <1>10, <1>15, <2>1
<1>16. CASE UpToDate(ep[p], thr[t].want)
  <2>1. Finish(t, v, c, th) /\ UNCHANGED ep
    BY <1>2, <1>3, <1>4, <1>5, <1>16 DEF sync
  <2>2. cs' = None
    BY <2>1 DEF Finish
  <2>3. CASE Return(t, c, th)
    <3>1. count' = c /\ thr' = [th EXCEPT ![t] = Idle] /\ UNCHANGED <<timeq, status>>
      BY <2>3 DEF Return
    <3>2. thr' = [w EXCEPT ![t] = Idle]
      BY <1>7, <3>1
    <3>3. /\ thr'[t] = Idle /\ thr' \in [Threads -> ThreadType]
          /\ \A u \in Threads \ {t} : thr'[u] = w[u]
      <4> HIDE DEF w
      <4> QED
        BY <1>7, <3>2, Records
    <3> QED
      BY <1>11, <2>1, <2>2, <3>1, <3>3
  <2>4. CASE ~Return(t, c, th)
    <3>1. block_event(t, c, th, e) /\ thr[t].want > v
      BY <1>2, <1>5, <1>13, <2>1, <2>4 DEF Finish
    <3>2. CASE NullNext(t, c, e)
      <4>1. status' = "null" /\ UNCHANGED <<count, thr, timeq>>
        BY <3>1, <3>2 DEF block_event
      <4> QED
        BY <2>1, <2>2, <4>1, StopKeeps
    <3>3. CASE ~NullNext(t, c, e)
      <4>1. /\ count' = Blocked(t, c, e) /\ thr' = [th EXCEPT ![t].pc = "blocked"]
            /\ timeq' = timeq /\ UNCHANGED status
        BY <1>5, <3>1, <3>3 DEF block_event
      <4> QED
        BY <1>12, <1>14, <1>16, <2>1, <2>2, <3>1, <4>1
    <3> QED
      BY <3>2, <3>3
  <2> QED
    BY <2>3, <2>4
<1> QED
  BY <1>15, <1>16

LEMMA AckStep ==
    ASSUME Inv, NEW t \in Threads, ack(t)
    PROVE  Inv'
<1>1. Runs(t) /\ thr[t].pc = "acking"
  BY DEF ack
<1>2. PICK e \in Counts : e = thr[t].ec /\ Live(e) /\ count[e].type = "rx"
  BY <1>1 DEF Inv, ThreadsFit, InLoop
<1>3. PICK p \in Endpoints : p = count[e].ep
  BY <1>2 DEF Inv, CountsFit
<1>4. PICK v \in Bounded : v = thr[t].rx
  BY <1>1 DEF Inv, ThreadsFit, InLoop
<1>5. /\ ep' = [ep EXCEPT ![p].ack = v]
      /\ thr' = [thr EXCEPT ![t].pc = "syncing", ![t].rx = None]
      /\ cs' = t /\ UNCHANGED <<count, timeq, status>>
  BY <1>2, <1>3, <1>4 DEF ack
<1>6. /\ thr \in [Threads -> ThreadType] /\ thr[t] \in ThreadType
      /\ ep \in [Endpoints -> EndpointType] /\ ep[p] \in EndpointType
  BY ShapeFacts DEF Inv
<1> DEFINE r == [thr[t] EXCEPT !.pc = "syncing", !.rx = None]
           x == [ep[p] EXCEPT !.ack = v]
<1>7. r \in ThreadType /\ r.pc = "syncing" /\ r.ec = e
  BY <1>2, <1>6 DEF ThreadType
<1>8. x \in EndpointType /\ x.listed = ep[p].listed /\ x.notify = ep[p].notify
  BY <1>6 DEF EndpointType
<1>9. thr' = [thr EXCEPT ![t] = r] /\ ep' = [ep EXCEPT ![p] = x]
  BY <1>5, <1>6
<1> HIDE DEF r, x
<1>10. /\ thr' \in [Threads -> ThreadType] /\ thr'[t] = r
       /\ \A u \in Threads \ {t} : thr'[u] = thr[u]
       /\ ep' \in [Endpoints -> EndpointType] /\ ep'[p] = x
       /\ \A o \in Endpoints \ {p} : ep'[o] = ep[o]
  BY <1>6, <1>7, <1>8, <1>9
<1>11. Shape'
  BY <1>5, <1>10, ShapeFacts DEF Inv, Shape, ThreadType, EndpointType
<1>12. Queued' /\ \A f : BlockedOn(f)' = BlockedOn(f)
  BY <1>1, <1>5, <1>7, <1>10, SameQueues DEF Inv
<1>13. CountsFit'
  BY <1>5 DEF Inv, CountsFit, Live
<1>14. \A u \in Threads \ {t} : thr[u].pc \notin {"syncing", "acking"}
  BY <1>1, Constants DEF Inv, ThreadsFit, InLoop, Runs
<1>15. ThreadsFit'
  BY <1>2, <1>5, <1>7, <1>10, <1>14 DEF Inv, ThreadsFit, Entering, InLoop, Closes, Live
<1>16. ASSUME NEW f \in Counts, NEW u \in BlockedOn(f)
       PROVE  Waits(f, u)'
  <2>1. Waits(f, u) /\ thr'[u] = thr[u]
    BY <1>1, <1>10 DEF Inv, WaitsRight, BlockedOn
  <2>2. count[f].type = "rx" => count[f].ep \in Endpoints
    BY DEF Inv, CountsFit
  <2>3. CASE count[f].ep = p
    <3>1. Tied(f, u) => ep[p].listed
      BY <1>1, <1>2, <1>3, <2>3 DEF Inv, Acknowledges
    <3> QED
      BY <1>5, <1>8, <1>10, <2>1, <2>3, <3>1 DEF Waits, Tied, Quiet
  <2>4. CASE count[f].ep # p
    BY <1>5, <1>10, <2>1, <2>2, <2>4 DEF Waits, Tied, Quiet
  <2> QED
    BY <2>3, <2>4
<1>17. WaitsRight'
  BY <1>12, <1>16 DEF WaitsRight
<1>18. Acknowledges'
  BY <1>7, <1>10, <1>14 DEF Acknowledges
<1> QED
  BY <1>11, <1>12, <1>13, <1>15, <1>17, <1>18 DEF Inv

-----------------------------------------------------------------------------
(* The invariant holds, and what follows from it.                          *)

LEMMA InitInv == Init => Inv
<1> SUFFICES ASSUME Init
             PROVE  Inv
  OBVIOUS
<1>1. /\ count = [e \in Counts |-> NoCount] /\ thr = [t \in Threads |-> Idle]
      /\ cs = None /\ timeq = {} /\ ep = [p \in Endpoints |-> Endpoint("local")]
      /\ status = "up"
  BY DEF Init
<1>2. Shape
  <2>1. /\ count \in [Counts -> CountType] /\ thr \in [Threads -> ThreadType]
        /\ ep \in [Endpoints -> EndpointType]
    BY <1>1, Records
  <2> QED
    BY <1>1, <2>1, ShapeFacts
<1>3. \A e : BlockedOn(e) = {}
  BY <1>1, Records DEF BlockedOn
<1>4. Queued
  <2>1. \A e \in Counts : count[e].queue = <<>>
    BY <1>1, Records
  <2> QED
    BY <1>3, <2>1, EmptyQueue DEF Queued
<1>5. CountsFit /\ ThreadsFit
  BY <1>1, Records DEF CountsFit, ThreadsFit, Entering, InLoop, Closes
<1>6. WaitsRight /\ Acknowledges
  BY <1>3 DEF WaitsRight, Acknowledges
<1> QED
  BY <1>2, <1>4, <1>5, <1>6 DEF Inv

LEMMA StutterKeeps ==
    ASSUME Inv, UNCHANGED vars
    PROVE  Inv'
<1>1. UNCHANGED <<count, thr, cs, timeq, ep, status>>
  BY DEF vars
<1>2. \A e : BlockedOn(e)' = BlockedOn(e)
  BY <1>1 DEF BlockedOn
<1>3. Shape' /\ Queued'
  BY <1>1, <1>2 DEF Inv, Shape, Queued
<1>4. CountsFit' /\ ThreadsFit'
  BY <1>1 DEF Inv, CountsFit, ThreadsFit, Entering, InLoop, Closes, Live
<1>5. WaitsRight' /\ Acknowledges'
  BY <1>1, <1>2 DEF Inv, WaitsRight, Acknowledges, Waits, Quiet, Tied
<1> QED
  BY <1>3, <1>4, <1>5 DEF Inv

LEMMA NextKeeps ==
    ASSUME HalfRange, Inv, NextAwait
    PROVE  Inv'
<1>1. ASSUME NEW t \in Threads, Operation(t)
      PROVE  Inv'
  <2>1. ASSUME NEW e \in Counts, create(t, e) \/ read(t, e)
        PROVE  Inv'
    BY <2>1, CreateStep, ReadStep
  <2>2. ASSUME NEW e \in Counts, NEW n \in Increments, advance(t, e, n)
        PROVE  Inv'
    <3>1. n \in Nat
      BY Constants
    <3> QED
      BY <2>2, <3>1, AdvanceStep
  <2>3. ASSUME NEW e \in Counts, NEW v \in 0 .. MaxValue, await(t, e, v, FALSE)
        PROVE  Inv'
    BY <2>3, AwaitStep DEF Bounded
  <2>4. ASSUME no_resources(t)
        PROVE  Inv'
    BY <2>4, StopKeeps DEF no_resources, Stop
  <2>5. ASSUME NEW e \in Counts, NEW p \in Endpoints, NEW x \in EndpointZero,
               attach(t, e, p, x.type, x)
        PROVE  Inv'
    BY <2>5, AttachStep
  <2>6. ASSUME NEW er \in Counts, NEW et \in Counts, NEW pr \in Endpoints,
               NEW pt \in Endpoints, attach_pair(t, er, et, pr, pt)
        PROVE  Inv'
    BY <2>6, AttachPairStep
  <2>7. ASSUME NEW p \in Endpoints, create_channel(t, p)
        PROVE  Inv'
    BY <2>7, ChannelSteps
  <2> QED
    BY <1>1, <2>1, <2>2, <2>3, <2>4, <2>5, <2>6, <2>7 DEF Operation
<1>2. ASSUME NEW t \in Threads, Teardown(t)
      PROVE  Inv'
  BY <1>2, DestroyStep, CloseStep, ChannelSteps DEF Teardown
<1>3. ASSUME NEW t \in Threads, InAwait(t)
      PROVE  Inv'
  BY <1>3, EnterStep, SyncStep, AckStep DEF InAwait
<1>4. ASSUME Outside
      PROVE  Inv'
  BY <1>4, ChannelSteps DEF Outside
<1> QED
  BY <1>1, <1>2, <1>3, <1>4, ResumeStep DEF NextAwait, NextNoWake

LEMMA InvHolds ==
    ASSUME HalfRange
    PROVE  SpecAwait => []Inv
<1>1. Inv /\ [NextAwait]_vars => Inv'
  BY NextKeeps, StutterKeeps
<1> QED
  BY <1>1, InitInv, PTL DEF SpecAwait

LEMMA TypesFit ==
    ASSUME Inv
    PROVE  TypeOK
<1>1. Bounded \subseteq Value
  BY Constants DEF Bounded, Value
<1>2. /\ count \in [Counts -> CountType] /\ thr \in [Threads -> ThreadType]
      /\ ep \in [Endpoints -> EndpointType]
      /\ cs \in Threads \cup {None} /\ timeq = {}
      /\ status \in {"up", "null", "relinked", "dangling", "stale",
                     "notify", "panic", "masked"}
  BY ShapeFacts DEF Inv
<1>3. count \in [Counts -> [life : {"free", "live", "closing"}, value : Value,
                            type : Types, ep : AllEndpoints, queue : Seq(Threads)]]
  BY <1>1, <1>2 DEF CountType
<1>4. thr \in [Threads -> [pc : {"idle", "entering", "syncing", "acking", "blocked",
                                 "ready", "closing", "stranded"},
                           ec : Counts \cup {None}, want : Value, timed : BOOLEAN,
                           rx : Value \cup {None}, alerted : BOOLEAN]]
  BY <1>1, <1>2 DEF ThreadType
<1>5. ep \in [Endpoints ->
                 [state : {"free", "local", "connected"}, type : Types, val : Value,
                  ack : Value, listed : BOOLEAN, notify : Counts \cup {None}]]
  BY <1>1, <1>2 DEF EndpointType
<1> QED
  BY <1>2, <1>3, <1>4, <1>5 DEF TypeOK

(* A blocked thread is on exactly one wait queue, once, and a thread that  *)
(* runs is on none: block_event, unblock_event, destroy and attach keep    *)
(* the lists of the counts exact, for any number of threads, counts and    *)
(* channels.                                                               *)
THEOREM WaitQueuesExact ==
    ASSUME HalfRange
    PROVE  SpecAwait => []QueuesExact
<1>1. Inv => QueuesExact
  <2> SUFFICES ASSUME Inv
               PROVE  QueuesExact
    OBVIOUS
  <2>1. TypeOK
    BY TypesFit
  <2>2. ASSUME NEW t \in Threads, NEW e \in Counts
        PROVE  Cardinality({i \in DOMAIN count[e].queue : count[e].queue[i] = t})
                   = IF thr[t].pc = "blocked" /\ thr[t].ec = e THEN 1 ELSE 0
    <3> DEFINE q == count[e].queue
               I == {i \in DOMAIN q : q[i] = t}
    <3>1. Queue(q, thr, BlockedOn(e))
      BY DEF Inv, Queued
    <3>2. /\ DOMAIN q = 1 .. Len(q)
          /\ \A i \in 1 .. Len(q) : q[i] \in BlockedOn(e)
          /\ \A u \in BlockedOn(e) : \E i \in 1 .. Len(q) : q[i] = u
          /\ \A i, j \in 1 .. Len(q) : q[i] = q[j] => i = j
      BY <3>1, QueueFacts
    <3>3. CASE t \in BlockedOn(e)
      <4>1. PICK i \in 1 .. Len(q) : q[i] = t
        BY <3>2, <3>3
      <4>2. I = {i}
        BY <3>2, <4>1
      <4>3. Cardinality(I) = 1
        BY <4>2, FS_Singleton
      <4> QED
        BY <3>3, <4>3 DEF BlockedOn
    <3>4. CASE t \notin BlockedOn(e)
      <4>1. I = {}
        BY <3>2, <3>4
      <4>2. Cardinality(I) = 0
        BY <4>1, FS_EmptySet
      <4> QED
        BY <3>4, <4>2 DEF BlockedOn
    <3> QED
      BY <3>3, <3>4
  <2> QED
    BY <2>1, <2>2 DEF QueuesExact
<1> QED
  BY <1>1, InvHolds, PTL

(* Every thread in a wait queue of await waits for a value its count has   *)
(* not reached, or its endpoint asks for attention: no advance, attach or  *)
(* event is missed, although await looks at the count before it turns      *)
(* activations off.                                                        *)
THEOREM WakeupsAreNotLost ==
    ASSUME HalfRange
    PROVE  SpecAwait => []NoLostWakeup
<1>1. Inv => NoLostWakeup
  <2> SUFFICES ASSUME Inv, NEW e \in Counts, NEW t \in Waiting(e)
               PROVE  \/ EC_GT(thr[t].want, count[e].value)
                      \/ count[e].type = "rx" /\ (Tied(e, t) => ep[count[e].ep].listed)
    BY DEF NoLostWakeup
  <2>1. t \in BlockedOn(e) /\ t \in Threads
    BY WaitingBlocked DEF BlockedOn
  <2>2. Waits(e, t)
    BY <2>1 DEF Inv, WaitsRight
  <2>3. EC_GT(thr[t].want, count[e].value) <=> thr[t].want > count[e].value
    <3>1. thr[t].want \in 0 .. MaxValue /\ count[e].value \in 0 .. MaxValue
      BY <2>1, ShapeFacts DEF Inv, Bounded
    <3> QED
      BY <3>1, Comparisons
  <2> QED
    BY <2>2, <2>3 DEF Waits, Quiet
<1> QED
  BY <1>1, InvHolds, PTL

(* While nobody is in the loop of await, an endpoint that somebody waits   *)
(* for has acknowledged what it received, or asks for attention: the       *)
(* acknowledgement in the loop never hides an event.                       *)
THEOREM EventsAreNoticed ==
    ASSUME HalfRange
    PROVE  SpecAwait => []EventsNoticed
<1>1. Inv => EventsNoticed
  <2> SUFFICES ASSUME Inv, NEW e \in Counts, NEW t \in Waiting(e), Tied(e, t)
               PROVE  ep[count[e].ep].listed \/ ep[count[e].ep].val = ep[count[e].ep].ack
    BY DEF EventsNoticed
  <2>1. t \in BlockedOn(e)
    BY WaitingBlocked
  <2>2. Waits(e, t)
    BY <2>1 DEF Inv, WaitsRight
  <2> QED
    BY <2>2 DEF Waits, Quiet
<1> QED
  BY <1>1, InvHolds, PTL

-----------------------------------------------------------------------------
(* Who leaves a wait queue has a reason.                                   *)

Cause(e, t) ==
    \/ thr'[t].pc = "stranded"
    \/ thr'[t].pc = "ready" /\ thr'[t].alerted /\ count'[e].life # "live"
    \/ thr'[t].pc = "ready" /\ ~thr'[t].alerted /\ EC_LE(thr[t].want, count'[e].value)

(* Where thread t may get by a step of its own.                            *)
SomebodyWaits == \E e \in Counts : BlockedOn(e) # {}

Went(t) ==
    \/ thr'[t] = thr[t]
    \/ thr'[t].pc \in {"idle", "entering", "syncing", "closing"}
    \/ thr'[t].pc = "acking" /\ sync(t)
    \/ thr'[t].pc = "blocked" /\ (CyclicNext \/ SomebodyWaits)

(* A step of thread t moves t and waiting threads that have a cause.       *)
Caused(t) ==
    /\ \A e \in Counts : \A u \in BlockedOn(e) : thr'[u] = thr[u] \/ Cause(e, u)
    /\ \A u \in Threads \ {t} : thr'[u] = thr[u] \/ \E e \in Counts : u \in BlockedOn(e)
    /\ Went(t)

LEMMA OneMoves ==
    ASSUME NEW t \in Threads, thr[t].pc # "blocked", Went(t),
           \A u \in Threads \ {t} : thr'[u] = thr[u]
    PROVE  Caused(t)
BY DEF Caused, BlockedOn

LEMMA NoneMoves ==
    ASSUME NEW t \in Threads, UNCHANGED thr
    PROVE  Caused(t)
BY DEF Caused, Went

(* A thread that finds a queue with somebody in it finds somebody waiting. *)
LEMMA SomebodyFound ==
    ASSUME NEW e \in Counts, NEW q, NEW S \in SUBSET BlockedOn(e), Queue(q, thr, S), q # <<>>
    PROVE  SomebodyWaits
<1>1. q \in Seq(Threads) /\ Len(q) \in Nat /\ \A i \in 1 .. Len(q) : q[i] \in S
  BY QueueFacts
<1>2. Len(q) # 0
  BY <1>1, EmptySeq
<1>3. 1 \in 1 .. Len(q)
  BY <1>1, <1>2
<1> QED
  BY <1>1, <1>3 DEF SomebodyWaits

LEMMA WakesCaused ==
    ASSUME HalfRange, Inv, NEW e \in Counts, NEW v \in Bounded, NEW t \in Threads,
           thr[t].pc # "blocked", Went(t), count'[e].value = v,
           \A u \in Threads \ {t} : thr'[u] = Woken(e, v)[u]
    PROVE  Caused(t)
<1>1. \A u \in Threads \ {t} : thr'[u] = IF u \in BlockedOn(e) /\ thr[u].want <= v
                                         THEN WokenUp(e) ELSE thr[u]
  <2>1. \A u \in Threads : Woken(e, v)[u] = IF u \in BlockedOn(e) /\ thr[u].want <= v
                                            THEN WokenUp(e) ELSE thr[u]
    BY WakeUps
  <2> QED
    BY <2>1
<1>2. WokenUp(e).pc = "ready" /\ ~WokenUp(e).alerted
  BY DEF WokenUp
<1>3. ASSUME NEW f \in Counts, NEW u \in BlockedOn(f), thr'[u] # thr[u]
      PROVE  Cause(f, u)
  <2>1. u \in Threads \ {t} /\ thr[u].ec = f
    BY <1>3 DEF BlockedOn
  <2>2. u \in BlockedOn(e) /\ thr[u].want <= v /\ thr'[u] = WokenUp(e)
    BY <1>1, <1>3, <2>1
  <2>3. f = e
    BY <2>1, <2>2 DEF BlockedOn
  <2>4. thr[u].want \in 0 .. MaxValue /\ v \in 0 .. MaxValue
    BY <2>1, ShapeFacts DEF Inv, Bounded
  <2>5. EC_LE(thr[u].want, v)
    BY <2>2, <2>4, Comparisons
  <2> QED
    BY <1>2, <2>2, <2>3, <2>5 DEF Cause
<1>4. ASSUME NEW u \in Threads \ {t}, ~\E f \in Counts : u \in BlockedOn(f)
      PROVE  thr'[u] = thr[u]
  BY <1>1, <1>4 DEF BlockedOn
<1> QED
  BY <1>3, <1>4 DEF Caused

LEMMA AllWakesCaused ==
    ASSUME HalfRange, Inv, NEW e \in Counts, NEW v \in Bounded, NEW t \in Threads,
           thr[t].pc # "blocked", count'[e].value = v, thr' = Woken(e, v)
    PROVE  Caused(t)
<1>1. \A u \in Threads : Woken(e, v)[u] = IF u \in BlockedOn(e) /\ thr[u].want <= v
                                          THEN WokenUp(e) ELSE thr[u]
  BY WakeUps
<1>2. thr'[t] = thr[t]
  BY <1>1 DEF BlockedOn
<1>3. Went(t)
  BY <1>2 DEF Went
<1> QED
  BY <1>3, WakesCaused

LEMMA SyncCaused ==
    ASSUME HalfRange, Inv, NEW t \in Threads, sync(t)
    PROVE  Caused(t)
<1>1. thr[t].pc = "syncing"
  BY DEF sync
<1>2. PICK e \in Counts : e = thr[t].ec /\ count[e].type = "rx"
  BY <1>1 DEF Inv, ThreadsFit, InLoop
<1>3. PICK p \in Endpoints : p = count[e].ep
  BY <1>2 DEF Inv, CountsFit
<1>4. PICK v \in Bounded : v = ep[p].val
  BY ShapeFacts DEF Inv
<1>5. thr \in [Threads -> ThreadType] /\ ~thr[t].timed /\ timeq = {}
  BY ShapeFacts DEF Inv
<1> DEFINE w == Woken(e, v)
           c == Updated(e, v)
           th == [w EXCEPT ![t].rx = v]
<1>6. w \in [Threads -> ThreadType]
  BY WakeUps
<1>7. c \in [Counts -> CountType] /\ c[e].value = v
  <2>1. c \in [Counts -> CountType]
    BY WakeUps
  <2>2. c[e].value = v
    BY WakeUps
  <2> QED
    BY <2>1, <2>2
<1>8. CASE ~UpToDate(ep[p], thr[t].want)
  <2>1. thr' = [thr EXCEPT ![t].pc = "acking", ![t].rx = v]
    BY <1>2, <1>3, <1>4, <1>5, <1>8 DEF sync
  <2>2. /\ \A u \in Threads \ {t} : thr'[u] = thr[u]
        /\ thr'[t].pc = "acking"
    BY <1>5, <2>1 DEF ThreadType
  <2> QED
    BY <1>1, <2>2, OneMoves DEF Went
<1>9. CASE UpToDate(ep[p], thr[t].want)
  <2>1. Finish(t, v, c, th)
    BY <1>2, <1>3, <1>4, <1>5, <1>9 DEF sync
  <2>2. \/ Return(t, c, th)
        \/ block_event(t, c, th, e)
    BY <1>2, <2>1 DEF Finish
  <2> HIDE DEF w, c
  <2>3. CASE Return(t, c, th)
    <3>1. count' = c /\ thr' = [th EXCEPT ![t] = Idle]
      BY <2>3 DEF Return
    <3>2. (\A u \in Threads \ {t} : thr'[u] = w[u]) /\ thr'[t] = Idle
      BY <1>6, <3>1
    <3>3. Went(t)
      BY <3>2, Records DEF Went
    <3> QED
      BY ZenonT(60), <1>1, <1>7, <3>1, <3>2, <3>3, WakesCaused DEF w
  <2>4. CASE block_event(t, c, th, e)
    <3>1. CASE UNCHANGED thr
      BY <3>1, NoneMoves
    <3>2. CASE ~UNCHANGED thr
      <4>1. count' = Blocked(t, c, e) /\ thr' = [th EXCEPT ![t].pc = "blocked"]
        BY <1>5, <2>4, <3>2 DEF block_event
      <4>2. (\A u \in Threads \ {t} : thr'[u] = w[u]) /\ thr'[t].pc = "blocked"
        <5> DEFINE a == [w[t] EXCEPT !.rx = v]
        <5>1. a \in ThreadType
          BY <1>6 DEF ThreadType
        <5>2. th = [w EXCEPT ![t] = a]
          BY <1>6
        <5> HIDE DEF a
        <5>3. DOMAIN th = Threads /\ th[t] = a /\ \A u \in Threads \ {t} : th[u] = w[u]
          BY <1>6, <5>2
        <5> HIDE DEF th
        <5> QED
          BY <4>1, <5>1, <5>3 DEF ThreadType
      <4>4. CyclicNext \/ SomebodyWaits
        <5>1. CyclicNext \/ c[e].queue # <<>>
          BY <1>5, <2>4, <3>2 DEF block_event, NullNext
        <5>2. c[e].queue = Rest(e, v)
          BY WakeUps DEF c
        <5>3. Queue(Rest(e, v), thr, {u \in BlockedOn(e) : thr[u].want > v})
          BY WakeUps
        <5>4. {u \in BlockedOn(e) : thr[u].want > v} \in SUBSET BlockedOn(e)
          OBVIOUS
        <5> QED
          BY <5>1, <5>2, <5>3, <5>4, SomebodyFound
      <4>5. Went(t)
        BY <4>2, <4>4 DEF Went
      <4>3. count'[e].value = v
        <5>1. PICK n : count' = [c EXCEPT ![e].queue = n]
          BY <4>1 DEF Blocked
        <5>2. c[e] \in CountType
          BY <1>7
        <5> QED
          BY <1>7, <5>1, <5>2 DEF CountType
      <4> QED
        BY <1>1, <4>2, <4>3, <4>5, WakesCaused DEF w
    <3> QED
      BY <3>1, <3>2
  <2> QED
    BY <2>2, <2>3, <2>4
<1> QED
  BY <1>8, <1>9

LEMMA AttachCaused ==
    ASSUME HalfRange, Inv, NEW t \in Threads, NEW e \in Counts, NEW p \in Endpoints,
           NEW x \in EndpointZero, attach(t, e, p, x.type, x)
    PROVE  Caused(t)
<1>1. thr[t].pc = "idle"
  BY DEF attach, Calls
<1>2. CASE UNCHANGED thr
  BY <1>2, NoneMoves
<1>3. CASE ~UNCHANGED thr
  <2>1. PICK type \in {"rx", "tx"} : type = x.type
    BY DEF EndpointZero
  <2>2. PICK v \in Bounded : v = x.val
    BY DEF EndpointZero, Bounded
  <2> DEFINE c == Attached(e, p, type)
             r == [Updated(e, v)[e] EXCEPT !.ep = p, !.type = type]
  <2>3. count' = [c EXCEPT ![e] = r] /\ thr' = Woken(e, v)
    BY <1>3, <2>1, <2>2 DEF attach, Stop
  <2>4. r.value = v
    <3>1. Updated(e, v) \in [Counts -> CountType]
      BY WakeUps
    <3>2. Updated(e, v)[e].value = v
      BY WakeUps
    <3>3. Updated(e, v)[e] \in CountType
      BY <3>1
    <3> QED
      BY <3>2, <3>3 DEF CountType
  <2>5. c \in [Counts -> CountType]
    BY AttachedFacts
  <2> HIDE DEF c, r
  <2>6. count'[e].value = v
    BY <2>3, <2>4, <2>5
  <2> QED
    BY <1>1, <2>3, <2>6, AllWakesCaused
<1> QED
  BY <1>2, <1>3

LEMMA AttachPairCaused ==
    ASSUME HalfRange, Inv, NEW t \in Threads, NEW er \in Counts, NEW et \in Counts,
           NEW pr \in Endpoints, NEW pt \in Endpoints, attach_pair(t, er, et, pr, pt)
    PROVE  Caused(t)
<1>1. thr[t].pc = "idle" /\ er # et
  BY DEF attach_pair, Calls
<1>2. CASE UNCHANGED thr
  BY <1>2, NoneMoves
<1>3. CASE ~UNCHANGED thr
  <2>1. PICK v \in Bounded : v = ep[pr].val
    BY ShapeFacts DEF Inv
  <2> DEFINE a == Attached(er, pr, "rx")
             c == [a EXCEPT ![et].ep = pt, ![et].type = "tx"]
  <2>2. /\ count' = [c EXCEPT ![er].value = v, ![er].queue = Updated(er, v)[er].queue]
        /\ thr' = Woken(er, v)
    BY <1>3, <2>1 DEF attach_pair, Stop
  <2>3. a \in [Counts -> CountType]
    BY AttachedFacts
  <2> HIDE DEF a
  <2>4. c \in [Counts -> [life : {"free", "live", "closing"}, value : Bounded, type : Types,
                          ep : AllEndpoints, queue : Seq(Threads)]]
    <3>1. a[et] \in CountType
      BY <2>3
    <3> DEFINE r == [a[et] EXCEPT !.ep = pt, !.type = "tx"]
    <3>2. r \in CountType
      BY <3>1 DEF CountType, AllEndpoints, Types
    <3>3. c = [a EXCEPT ![et] = r]
      BY <2>3
    <3> HIDE DEF r, c
    <3> QED
      BY <2>3, <3>2, <3>3 DEF CountType
  <2> HIDE DEF c
  <2>5. count'[er].value = v
    <3>1. PICK q : q = Updated(er, v)[er].queue
      OBVIOUS
    <3>2. count' = [c EXCEPT ![er].value = v, ![er].queue = q]
      BY <2>2, <3>1
    <3> QED
      BY <2>4, <3>2
  <2>6. thr' = Woken(er, v)
    BY <2>2
  <2> QED
    BY <1>1, <2>5, <2>6, AllWakesCaused
<1> QED
  BY <1>2, <1>3

LEMMA TeardownCaused ==
    ASSUME Inv, NEW t \in Threads, Teardown(t)
    PROVE  Caused(t)
<1>1. ASSUME NEW e \in Counts, destroy(t, e)
      PROVE  Caused(t)
  <2>1. thr[t].pc = "idle"
    BY <1>1 DEF destroy, Calls
  <2>2. CASE UNCHANGED thr
    BY <2>2, NoneMoves
  <2>3. CASE ~UNCHANGED thr
    <3> DEFINE th == AlertAll(e)
    <3>1. th = [u \in Threads |->
                  IF u \in BlockedOn(e)
                  THEN [Idle EXCEPT !.pc = "ready", !.ec = thr[u].ec, !.alerted = TRUE]
                  ELSE thr[u]]
      BY WaitingBlocked DEF AlertAll, Unblocked, Waiting
    <3>2. \A u \in Threads : IF u \in BlockedOn(e) THEN th[u].pc = "ready" /\ th[u].alerted
                             ELSE th[u] = thr[u]
      BY <3>1 DEF Idle
    <3>3. count \in [Counts -> CountType] /\ count[e] \in CountType
      BY ShapeFacts DEF Inv
    <3>4. /\ \/ thr' = th
             \/ thr' = [th EXCEPT ![t].pc = "closing", ![t].ec = e]
          /\ \/ count' = [count EXCEPT ![e] = NoCount]
             \/ count' = [count EXCEPT ![e].life = "closing", ![e].queue = <<>>]
      BY <1>1, <2>3 DEF destroy, Stop
    <3>5. count'[e].life # "live"
      BY <3>3, <3>4, Records DEF CountType
    <3>6. \A u \in Threads \ {t} : thr'[u] = th[u]
      BY <3>1, <3>4
    <3>8. Went(t)
      <4>1. th[t] = thr[t] /\ thr[t] \in ThreadType
        BY <2>1, <3>2, ShapeFacts DEF Inv, BlockedOn
      <4>2. DOMAIN th = Threads
        BY <3>1
      <4> HIDE DEF th
      <4>3. thr'[t] = thr[t] \/ thr'[t].pc = "closing"
        BY <3>4, <4>1, <4>2 DEF ThreadType
      <4> QED
        BY <4>3 DEF Went
    <3> HIDE DEF th
    <3>7. ASSUME NEW f \in Counts, NEW u \in BlockedOn(f), thr'[u] # thr[u]
          PROVE  Cause(f, u)
      <4>1. u \in Threads \ {t} /\ thr[u].ec = f
        BY <2>1, <3>7 DEF BlockedOn
      <4>2. u \in BlockedOn(e)
        BY <3>2, <3>6, <3>7, <4>1
      <4>3. f = e
        BY <4>1, <4>2 DEF BlockedOn
      <4> QED
        BY <3>2, <3>5, <3>6, <4>1, <4>2, <4>3 DEF Cause
    <3>9. ASSUME NEW u \in Threads \ {t}, ~\E f \in Counts : u \in BlockedOn(f)
          PROVE  thr'[u] = thr[u]
      BY <3>2, <3>6, <3>9 DEF BlockedOn
    <3> QED
      BY <3>7, <3>8, <3>9 DEF Caused
  <2> QED
    BY <2>2, <2>3
<1>2. ASSUME close(t)
      PROVE  Caused(t)
  <2>1. thr[t].pc = "closing"
    BY <1>2 DEF close
  <2>2. CASE UNCHANGED thr
    BY <2>2, NoneMoves
  <2>3. CASE ~UNCHANGED thr
    <3>1. PICK e \in Counts : e = thr[t].ec
      BY <2>1 DEF Inv, ThreadsFit, Closes
    <3>2. thr' = [u \in Threads |-> CASE u = t -> Idle
                                      [] u \in Waiting(e) -> [Idle EXCEPT !.pc = "stranded"]
                                      [] OTHER -> thr[u]]
      BY <1>2, <2>3, <3>1 DEF close, Stop
    <3>3. t \notin BlockedOn(e) /\ Waiting(e) = BlockedOn(e)
      BY <2>1, WaitingBlocked DEF BlockedOn
    <3>4. \A u \in Threads \ {t} : IF u \in BlockedOn(e) THEN thr'[u].pc = "stranded"
                                   ELSE thr'[u] = thr[u]
      BY <3>2, <3>3 DEF Idle
    <3>5. thr'[t] = Idle
      BY <3>2, <3>3
    <3>6. Went(t)
      BY <3>5, Records DEF Went
    <3>7. ASSUME NEW f \in Counts, NEW u \in BlockedOn(f)
          PROVE  thr'[u] = thr[u] \/ Cause(f, u)
      BY <2>1, <3>4 DEF Cause, BlockedOn
    <3>8. ASSUME NEW u \in Threads \ {t}, ~\E f \in Counts : u \in BlockedOn(f)
          PROVE  thr'[u] = thr[u]
      BY <3>4, <3>8 DEF BlockedOn
    <3> QED
      BY <3>6, <3>7, <3>8 DEF Caused
  <2> QED
    BY <2>2, <2>3
<1>3. ASSUME NEW p \in Endpoints, destroy_channel(t, p)
      PROVE  Caused(t)
  BY <1>3, NoneMoves DEF destroy_channel, Stop
<1> QED
  BY <1>1, <1>2, <1>3 DEF Teardown

StepsOf(t) == Operation(t) \/ Teardown(t) \/ InAwait(t) \/ resume(t)

LEMMA NextCaused ==
    ASSUME HalfRange, Inv, NextAwait, ~UNCHANGED thr
    PROVE  \E t \in Threads : Caused(t) /\ StepsOf(t)
<1>0. thr \in [Threads -> ThreadType]
  BY ShapeFacts DEF Inv
<1>2. ASSUME NEW t \in Threads, Operation(t)
      PROVE  Caused(t)
  <2>1. ASSUME NEW e \in Counts, NEW n \in Increments, advance(t, e, n)
        PROVE  Caused(t)
    <3> DEFINE m == count[e].value
               v == (m + n) % Word
    <3>1. v \in Bounded
      <4>1. PICK s \in Nat : s = m + n
        <5>1. m \in Nat /\ n \in Nat
          BY ShapeFacts, Records, Constants DEF Inv
        <5> QED
          BY <5>1
      <4>2. s % Word \in Nat /\ s % Word <= MaxValue
        BY <2>1, <4>1, Constants DEF advance
      <4> QED
        BY <4>1, <4>2, Constants DEF Bounded
    <3>2. count' = Updated(e, v) /\ thr' = Woken(e, v) /\ thr[t].pc = "idle"
      BY <2>1 DEF advance, Calls
    <3> HIDE DEF v
    <3>3. Updated(e, v)[e].value = v
      BY <3>1, WakeUps
    <3> QED
      BY <3>1, <3>2, <3>3, AllWakesCaused
  <2>2. ASSUME NEW e \in Counts, NEW v \in 0 .. MaxValue, await(t, e, v, FALSE)
        PROVE  Caused(t)
    <3>1. thr[t].pc = "idle" /\ \A u \in Threads \ {t} : thr'[u] = thr[u]
      BY <1>0, <2>2 DEF await, Calls
    <3>2. thr'[t].pc = "entering"
      BY <1>0, <2>2 DEF await, Idle
    <3> QED
      BY <3>1, <3>2, OneMoves DEF Went
  <2>3. \/ \E e \in Counts, n \in Increments : advance(t, e, n)
        \/ \E e \in Counts, v \in 0 .. MaxValue : await(t, e, v, FALSE)
        \/ \E e \in Counts, p \in Endpoints, x \in EndpointZero : attach(t, e, p, x.type, x)
        \/ \E er, et \in Counts, pr, pt \in Endpoints : attach_pair(t, er, et, pr, pt)
    BY <1>2 DEF Operation, create, read, no_resources, create_channel, Stop
  <2> QED
    BY <2>1, <2>2, <2>3, AttachCaused, AttachPairCaused
<1>3. ASSUME NEW t \in Threads, InAwait(t) \/ resume(t)
      PROVE  Caused(t)
  <2>1. ASSUME enter(t)
        PROVE  Caused(t)
    <3>1. thr[t].pc = "entering"
      BY <2>1 DEF enter
    <3>2. PICK e \in Counts : e = thr[t].ec
      BY <3>1 DEF Inv, ThreadsFit, Entering
    <3>3. Live(e)
      BY <2>1, <3>2 DEF enter, Stop
    <3>4. \/ thr' = [thr EXCEPT ![t].pc = "syncing"]
          \/ Finish(t, count[e].value, count, thr)
      BY <2>1, <3>2, <3>3 DEF enter
    <3>5. \/ thr' = [thr EXCEPT ![t].pc = "syncing"]
          \/ thr' = [thr EXCEPT ![t] = Idle]
          \/ thr' = [thr EXCEPT ![t].pc = "blocked"]
      <4>1. CASE Finish(t, count[e].value, count, thr)
        <5>1. \/ Return(t, count, thr)
              \/ block_event(t, count, thr, e)
          BY <3>2, <4>1 DEF Finish
        <5> QED
          BY <5>1 DEF Return, block_event
      <4> QED
        BY <3>4, <4>1
    <3>6. \A u \in Threads \ {t} : thr'[u] = thr[u]
      BY <1>0, <3>5
    <3>7. ASSUME thr' = [thr EXCEPT ![t].pc = "blocked"]
          PROVE  Went(t)
      <4>1. thr'[t].pc = "blocked"
        BY <1>0, <3>7 DEF ThreadType
      <4>2. Finish(t, count[e].value, count, thr)
        <5>1. thr' # [thr EXCEPT ![t].pc = "syncing"]
          <6>1. [thr EXCEPT ![t].pc = "syncing"][t].pc = "syncing"
            BY <1>0 DEF ThreadType
          <6> QED
            BY <4>1, <6>1
        <5> QED
          BY <3>4, <5>1
      <4>3. block_event(t, count, thr, e)
        <5>1. Return(t, count, thr) \/ block_event(t, count, thr, e)
          BY <3>2, <4>2 DEF Finish
        <5>2. CASE Return(t, count, thr)
          <6>1. thr'[t] = Idle
            BY <1>0, <5>2 DEF Return
          <6> QED
            BY <4>1, <6>1, Records
        <5> QED
          BY <5>1, <5>2
      <4>4. ~thr[t].timed /\ Queue(count[e].queue, thr, BlockedOn(e))
        BY ShapeFacts DEF Inv, Queued
      <4>5. CyclicNext \/ count[e].queue # <<>>
        BY <4>3, <4>4 DEF block_event, NullNext
      <4>6. CyclicNext \/ SomebodyWaits
        BY <4>4, <4>5, SomebodyFound
      <4> QED
        BY <4>1, <4>6 DEF Went
    <3>8. ASSUME thr' # [thr EXCEPT ![t].pc = "blocked"]
          PROVE  Went(t)
      <4>1. [thr EXCEPT ![t].pc = "syncing"][t].pc = "syncing"
        BY <1>0 DEF ThreadType
      <4>2. [thr EXCEPT ![t] = Idle][t] = Idle
        BY <1>0
      <4>3. thr'[t].pc \in {"syncing", "idle"}
        BY <3>5, <3>8, <4>1, <4>2, Records
      <4> QED
        BY <4>3 DEF Went
    <3>9. Went(t)
      BY <3>7, <3>8
    <3> QED
      BY <3>1, <3>6, <3>9, OneMoves
  <2>2. ASSUME ack(t) \/ resume(t)
        PROVE  Caused(t)
    <3>1. /\ thr[t].pc # "blocked"
          /\ \/ thr' = [thr EXCEPT ![t].pc = "syncing", ![t].rx = None]
             \/ thr' = [thr EXCEPT ![t] = Idle]
      BY <2>2 DEF ack, resume, Stop
    <3>2. \A u \in Threads \ {t} : thr'[u] = thr[u]
      BY <1>0, <3>1
    <3>3. thr'[t].pc \in {"syncing", "idle"}
      <4>1. CASE thr' = [thr EXCEPT ![t].pc = "syncing", ![t].rx = None]
        BY <1>0, <4>1 DEF ThreadType
      <4>2. CASE thr' = [thr EXCEPT ![t] = Idle]
        <5>1. thr'[t] = Idle
          BY <1>0, <4>2
        <5> QED
          BY <5>1, Records
      <4> QED
        BY <3>1, <4>1, <4>2
    <3> QED
      BY <3>1, <3>2, <3>3, OneMoves DEF Went
  <2> QED
    BY <1>3, <2>1, <2>2, SyncCaused DEF InAwait
<1>4. ASSUME Outside
      PROVE  UNCHANGED thr
  BY <1>4 DEF Outside, connect, arrive, activation, Stop
<1> QED
  BY <1>2, <1>3, <1>4, TeardownCaused DEF NextAwait, NextNoWake, StepsOf

(* A thread leaves a wait queue when its value is reached, or when its     *)
(* count is destroyed, and then it is alerted (or stranded, when it came   *)
(* between the two steps of destroy): no advance, attach or event wakes a  *)
(* thread before its time.                                                 *)
THEOREM WakeupsHaveCause ==
    ASSUME HalfRange
    PROVE  SpecAwait => WokenForCause
<1>1. ASSUME Inv, Inv', [NextAwait]_vars
      PROVE  [\A e \in Counts : \A t \in Waiting(e) \ ToSet(count'[e].queue) :
                 \/ thr'[t].pc = "stranded"
                 \/ thr'[t].pc = "ready" /\ thr'[t].alerted /\ count'[e].life # "live"
                 \/ /\ thr'[t].pc = "ready" /\ ~thr'[t].alerted
                    /\ EC_LE(thr[t].want, count'[e].value)]_vars
  <2>1. CASE NextAwait
    <3> SUFFICES ASSUME NEW e \in Counts, NEW t \in Waiting(e) \ ToSet(count'[e].queue)
                 PROVE  Cause(e, t)
      BY DEF Cause
    <3>1. t \in BlockedOn(e)
      BY <1>1, WaitingBlocked
    <3>2. t \notin BlockedOn(e)'
      <4>1. Queue(count'[e].queue, thr', BlockedOn(e)')
        BY <1>1 DEF Inv, Queued
      <4> QED
        BY <4>1 DEF Queue
    <3>3. thr'[t] # thr[t]
      BY <3>1, <3>2 DEF BlockedOn
    <3> QED
      BY <1>1, <2>1, <3>1, <3>3, NextCaused DEF Caused, BlockedOn
  <2>2. CASE UNCHANGED vars
    BY <2>2
  <2> QED
    BY <1>1, <2>1, <2>2
<1> QED
  BY <1>1, InvHolds, PTL DEF SpecAwait, WokenForCause
-----------------------------------------------------------------------------
(* await.                                                                  *)

(* The state of a thread that may begin an operation, or go on with one.   *)
LEMMA WhoCalls ==
    ASSUME NEW t \in Threads
    PROVE  /\ Operation(t) => Runs(t) /\ thr[t].pc = "idle"
           /\ Teardown(t) => Runs(t) /\ thr[t].pc \in {"idle", "closing"}
<1>1. Operation(t) => Calls(t)
  <2>1. \A e \in Counts : (create(t, e) => Calls(t)) /\ (read(t, e) => Calls(t))
    BY DEF create, read
  <2>2. \A e \in Counts, n \in Increments : advance(t, e, n) => Calls(t)
    BY DEF advance
  <2>3. \A e \in Counts, v \in 0 .. MaxValue : await(t, e, v, FALSE) => Calls(t)
    BY DEF await
  <2>4. (no_resources(t) => Calls(t)) /\ \A p \in Endpoints : create_channel(t, p) => Calls(t)
    BY DEF no_resources, create_channel
  <2>5. \A e \in Counts, p \in Endpoints, x \in EndpointZero :
           attach(t, e, p, x.type, x) => Calls(t)
    BY DEF attach
  <2>6. \A er, et \in Counts, pr, pt \in Endpoints : attach_pair(t, er, et, pr, pt) => Calls(t)
    BY DEF attach_pair
  <2> QED
    BY <2>1, <2>2, <2>3, <2>4, <2>5, <2>6, Zenon DEF Operation
<1>2. Teardown(t) => Calls(t) \/ (Runs(t) /\ thr[t].pc = "closing")
  <2>1. \A e \in Counts : destroy(t, e) => Calls(t)
    BY DEF destroy
  <2>2. close(t) => Runs(t) /\ thr[t].pc = "closing"
    BY DEF close
  <2>3. \A p \in Endpoints : destroy_channel(t, p) => Calls(t)
    BY DEF destroy_channel
  <2> QED
    BY <2>1, <2>2, <2>3, Zenon DEF Teardown
<1> QED
  BY <1>1, <1>2 DEF Calls

(* A thread inside of await moves by its own steps alone.                  *)
LEMMA OwnSteps ==
    ASSUME HalfRange, Inv, NextAwait, NEW t \in Threads,
           thr[t].pc \in {"entering", "syncing", "acking"}, thr'[t] # thr[t]
    PROVE  InAwait(t)
<1>1. PICK u \in Threads : Caused(u) /\ StepsOf(u)
  BY NextCaused
<1>2. u = t
  BY <1>1 DEF Caused, BlockedOn
<1>3. ~Operation(t) /\ ~Teardown(t)
  BY WhoCalls
<1>4. ~resume(t)
  BY DEF resume
<1> QED
  BY <1>1, <1>2, <1>3, <1>4 DEF StepsOf

(* While nobody waits nobody is woken, and with a null next() nobody comes *)
(* to wait.                                                                *)
Awake == \A t \in Threads : thr[t].pc \notin {"blocked", "ready"}

LEMMA AwakeKept ==
    ASSUME HalfRange, ~CyclicNext, Inv, Awake, NextAwait
    PROVE  Awake'
<1>1. SUFFICES ASSUME ~UNCHANGED thr
               PROVE  Awake'
  BY DEF Awake
<1>2. PICK t \in Threads : Caused(t)
  BY <1>1, NextCaused
<1>3. ~SomebodyWaits
  BY DEF Awake, SomebodyWaits, BlockedOn
<1>4. thr'[t].pc \notin {"blocked", "ready"}
  BY <1>2, <1>3 DEF Caused, Went, Awake
<1> QED
  BY <1>2, <1>4 DEF Caused, Awake, BlockedOn

(* With the list as it is, whose next() is null when it is empty, no       *)
(* thread ever waits or is woken: the first that would have to follows the *)
(* null pointer.  What holds of SpecNoWake holds of all operations.        *)
THEOREM NobodyIsWoken ==
    ASSUME HalfRange, ~CyclicNext
    PROVE  SpecAwait => SpecNoWake
<1>1. Init => Awake
  BY DEF Init, Awake, Idle
<1>2. Inv /\ Awake /\ [NextAwait]_vars => Awake'
  <2>1. Awake /\ UNCHANGED vars => Awake'
    BY DEF Awake, vars
  <2> QED
    BY <2>1, AwakeKept
<1>3. Awake /\ [NextAwait]_vars => [NextNoWake]_vars
  BY DEF Awake, NextAwait, resume
<1> QED
  BY <1>1, <1>2, <1>3, InvHolds, PTL DEF SpecAwait, SpecNoWake

LEMMA FinishReturns ==
    ASSUME HalfRange, Inv, NEW t \in Threads, NEW e \in Counts, NEW v \in Bounded, NEW c, NEW th,
           e = thr[t].ec, c[e].value = v, Finish(t, v, c, th),
           th \in [Threads -> [pc : {"idle", "entering", "syncing", "acking", "blocked",
                                     "ready", "closing", "stranded"},
                               ec : Counts \cup {None}, want : Bounded, timed : {FALSE},
                               rx : Bounded \cup {None}, alerted : BOOLEAN]],
           thr[t].pc # "idle", thr'[t].pc = "idle"
    PROVE  EC_LE(thr[t].want, count'[e].value)
<1>1. thr[t].want \in Bounded /\ ~thr[t].timed
  BY ShapeFacts DEF Inv
<1>2. \/ ~EC_GT(thr[t].want, v) /\ Return(t, c, th)
      \/ block_event(t, c, th, e)
  BY <1>1 DEF Finish
<1>3. ~block_event(t, c, th, e)
  <2>1. SUFFICES ASSUME block_event(t, c, th, e)
                 PROVE  FALSE
    OBVIOUS
  <2>2. thr' = [th EXCEPT ![t].pc = "blocked"]
    BY <2>1 DEF block_event
  <2> QED
    BY <2>2
<1>4. ~EC_GT(thr[t].want, v) /\ count' = c
  BY <1>2, <1>3 DEF Return
<1>5. thr[t].want \in 0 .. MaxValue /\ v \in 0 .. MaxValue
  BY <1>1 DEF Bounded
<1>6. thr[t].want <= v
  BY <1>4, <1>5, Comparisons, Constants
<1> QED
  BY <1>4, <1>5, <1>6, Comparisons

LEMMA AwaitReturns ==
    ASSUME HalfRange, Inv, NextAwait, NEW t \in Threads,
           thr[t].pc \in {"entering", "syncing"}, thr'[t].pc = "idle"
    PROVE  EC_LE(thr[t].want, count'[thr[t].ec].value)
<1>1. InAwait(t)
  BY OwnSteps
<1>2. /\ thr \in [Threads -> ThreadType] /\ thr[t] \in ThreadType /\ ~thr[t].timed
  BY ShapeFacts DEF Inv
<1>3. CASE enter(t)
  <2>1. thr[t].pc = "entering"
    BY <1>3 DEF enter
  <2>2. PICK e \in Counts : e = thr[t].ec
    BY <2>1 DEF Inv, ThreadsFit, Entering
  <2>3. Live(e)
    BY <1>3, <2>1, <2>2 DEF enter, Stop
  <2>4. count[e].type # "rx"
    <3>1. SUFFICES ASSUME count[e].type = "rx"
                   PROVE  FALSE
      OBVIOUS
    <3>2. thr' = [thr EXCEPT ![t].pc = "syncing"]
      BY <1>3, <2>2, <2>3, <3>1 DEF enter
    <3> QED
      BY <1>2, <3>2 DEF ThreadType
  <2>5. Finish(t, count[e].value, count, thr)
    BY <1>3, <2>2, <2>3, <2>4 DEF enter
  <2>6. count[e].value \in Bounded
    BY ShapeFacts DEF Inv
  <2> QED
    BY <1>2, <2>1, <2>2, <2>5, <2>6, FinishReturns DEF ThreadType
<1>4. CASE sync(t)
  <2>1. thr[t].pc = "syncing"
    BY <1>4 DEF sync
  <2>2. PICK e \in Counts : e = thr[t].ec /\ count[e].type = "rx"
    BY <2>1 DEF Inv, ThreadsFit, InLoop
  <2>3. PICK p \in Endpoints : p = count[e].ep
    BY <2>2 DEF Inv, CountsFit
  <2>4. PICK v \in Bounded : v = ep[p].val
    BY ShapeFacts DEF Inv
  <2> DEFINE w == Woken(e, v)
             c == Updated(e, v)
             th == [w EXCEPT ![t].rx = v]
  <2>5. w \in [Threads -> ThreadType]
    BY WakeUps
  <2>6. c[e].value = v
    BY WakeUps
  <2>7. UpToDate(ep[p], thr[t].want)
    <3>1. SUFFICES ASSUME ~UpToDate(ep[p], thr[t].want)
                   PROVE  FALSE
      OBVIOUS
    <3>2. thr' = [thr EXCEPT ![t].pc = "acking", ![t].rx = v]
      BY <1>2, <1>4, <2>2, <2>3, <2>4, <3>1 DEF sync
    <3> QED
      BY <1>2, <3>2 DEF ThreadType
  <2>8. Finish(t, v, c, th)
    BY <1>2, <1>4, <2>2, <2>3, <2>4, <2>7 DEF sync
  <2>9. th \in [Threads -> ThreadType]
    <3> DEFINE a == [w[t] EXCEPT !.rx = v]
    <3>1. a \in ThreadType
      BY <2>5 DEF ThreadType
    <3>2. th = [w EXCEPT ![t] = a]
      BY <2>5
    <3> HIDE DEF a, w
    <3> QED
      BY <2>5, <3>1, <3>2
  <2> HIDE DEF w, c, th
  <2> QED
    BY <2>1, <2>2, <2>6, <2>8, <2>9, FinishReturns DEF ThreadType
<1>5. CASE ack(t)
  BY <1>5 DEF ack
<1> QED
  BY <1>1, <1>3, <1>4, <1>5 DEF InAwait

(* await keeps its word for any number of threads, counts and channels: it *)
(* returns when the value it was called with is reached, whatever other    *)
(* threads and the kernel do between its two tests.                        *)
THEOREM AwaitIsKept ==
    ASSUME HalfRange
    PROVE  SpecAwait => AwaitKeepsWord
<1>1. Inv /\ [NextAwait]_vars =>
        [\A t \in Threads :
           thr[t].pc \in {"entering", "syncing"} /\ ~thr[t].timed /\ thr'[t].pc = "idle"
               => EC_LE(thr[t].want, count'[thr[t].ec].value)]_vars
  BY AwaitReturns
<1> QED
  BY <1>1, InvHolds, PTL DEF SpecAwait, AwaitKeepsWord

-----------------------------------------------------------------------------
(* Endpoints: what a step does to the values of endpoint p.                *)

Stays(p)   == ep'[p].val = ep[p].val /\ ep'[p].ack = ep[p].ack
Renewed(p) == ep'[p].val = 0 /\ ep'[p].ack = 0
Arrived(p) == /\ ep'[p].val = ep[p].val + 1 /\ ep'[p].ack = ep[p].ack
              /\ ep[p].val = ep[p].ack => ep'[p].listed
Acked(p)   == \E t \in Threads : /\ thr[t].pc = "acking" /\ p = count[thr[t].ec].ep
                                 /\ ep'[p].val = ep[p].val /\ ep'[p].ack = thr[t].rx

Moves(p) == Stays(p) \/ Renewed(p) \/ Arrived(p) \/ Acked(p)

LEMMA OperationMoves ==
    ASSUME Inv, NEW t \in Threads, Operation(t), NEW p \in Endpoints
    PROVE  Stays(p) \/ Renewed(p)
<1>0. ep \in [Endpoints -> EndpointType]
  BY ShapeFacts DEF Inv
<1>1. ASSUME UNCHANGED ep
      PROVE  Stays(p)
  BY <1>1 DEF Stays
<1>2. ASSUME NEW q \in Endpoints, NEW e, ep' = [ep EXCEPT ![q].notify = e]
      PROVE  Stays(p)
  BY <1>0, <1>2 DEF EndpointType, Stays
<1>3. ASSUME NEW e \in Counts, create(t, e) \/ read(t, e)
      PROVE  Stays(p)
  BY <1>1, <1>3 DEF create, read
<1>4. ASSUME NEW e \in Counts, NEW n \in Increments, advance(t, e, n)
      PROVE  Stays(p)
  BY <1>1, <1>4 DEF advance
<1>5. ASSUME NEW e \in Counts, NEW v \in 0 .. MaxValue, await(t, e, v, FALSE)
      PROVE  Stays(p)
  BY <1>1, <1>5 DEF await
<1>6. ASSUME no_resources(t)
      PROVE  Stays(p)
  BY <1>1, <1>6 DEF no_resources, Stop
<1>7. ASSUME NEW e \in Counts, NEW q \in Endpoints, NEW x \in EndpointZero,
             attach(t, e, q, x.type, x)
      PROVE  Stays(p)
  <2>1. ep' = ep \/ ep' = [ep EXCEPT ![q].notify = e]
    BY <1>7 DEF attach, Stop
  <2> QED
    BY <1>1, <1>2, <2>1
<1>8. ASSUME NEW er \in Counts, NEW et \in Counts, NEW pr \in Endpoints, NEW pt \in Endpoints,
             attach_pair(t, er, et, pr, pt)
      PROVE  Stays(p)
  <2>1. ep' = ep \/ ep' = [ep EXCEPT ![pr].notify = er]
    BY <1>8 DEF attach_pair, Stop
  <2> QED
    BY <1>1, <1>2, <2>1
<1>9. ASSUME NEW q \in Endpoints, create_channel(t, q)
      PROVE  Stays(p) \/ Renewed(p)
  <2>1. ep' = [ep EXCEPT ![q] = Endpoint("local")]
    BY <1>9 DEF create_channel
  <2>2. Endpoint("local").val = 0 /\ Endpoint("local").ack = 0
    BY DEF Endpoint
  <2>3. IF p = q THEN ep'[p] = Endpoint("local") ELSE ep'[p] = ep[p]
    BY <1>0, <2>1
  <2> QED
    BY <2>2, <2>3 DEF Stays, Renewed
<1> QED
  BY <1>3, <1>4, <1>5, <1>6, <1>7, <1>8, <1>9, Zenon DEF Operation

LEMMA TeardownMoves ==
    ASSUME Inv, NEW t \in Threads, Teardown(t), NEW p \in Endpoints
    PROVE  Stays(p) \/ Renewed(p)
<1>0. ep \in [Endpoints -> EndpointType]
  BY ShapeFacts DEF Inv
<1>1. ASSUME UNCHANGED ep
      PROVE  Stays(p)
  BY <1>1 DEF Stays
<1>2. ASSUME NEW q, ep' = [ep EXCEPT ![q] = Endpoint("free")]
      PROVE  Stays(p) \/ Renewed(p)
  <2>1. Endpoint("free").val = 0 /\ Endpoint("free").ack = 0
    BY DEF Endpoint
  <2>2. IF p = q THEN ep'[p] = Endpoint("free") ELSE ep'[p] = ep[p]
    BY <1>0, <1>2
  <2> QED
    BY <2>1, <2>2 DEF Stays, Renewed
<1>3. ASSUME NEW e \in Counts, destroy(t, e)
      PROVE  Stays(p)
  <2>1. ep' = ep \/ ep' = [ep EXCEPT ![count[e].ep].notify = None]
    BY <1>3 DEF destroy, Detached, Stop
  <2> QED
    BY <1>0, <1>1, <2>1 DEF EndpointType, Stays
<1>4. ASSUME close(t)
      PROVE  Stays(p) \/ Renewed(p)
  <2>1. ep' = ep \/ ep' = [ep EXCEPT ![count[thr[t].ec].ep] = Endpoint("free")]
    BY <1>4 DEF close, Stop
  <2> QED
    BY <1>1, <1>2, <2>1
<1>5. ASSUME NEW q \in Endpoints, destroy_channel(t, q)
      PROVE  Stays(p) \/ Renewed(p)
  <2>1. ep' = ep \/ ep' = [ep EXCEPT ![q] = Endpoint("free")]
    BY <1>5 DEF destroy_channel, Stop
  <2> QED
    BY <1>1, <1>2, <2>1
<1> QED
  BY <1>3, <1>4, <1>5, Zenon DEF Teardown

LEMMA OutsideMoves ==
    ASSUME Inv, Outside, NEW p \in Endpoints
    PROVE  Stays(p) \/ Arrived(p)
<1>0. ep \in [Endpoints -> EndpointType]
  BY ShapeFacts DEF Inv
<1>1. ASSUME NEW q \in Endpoints, NEW y \in {"rx", "tx"}, connect(q, y)
      PROVE  Stays(p)
  <2>1. ep' = [ep EXCEPT ![q].state = "connected", ![q].type = y]
    BY <1>1 DEF connect
  <2> QED
    BY <1>0, <2>1 DEF EndpointType, Stays
<1>2. ASSUME NEW q \in Endpoints, arrive(q)
      PROVE  Stays(p) \/ Arrived(p)
  <2> DEFINE r == [ep[q] EXCEPT !.val = @ + 1, !.listed = @ \/ ep[q].val = ep[q].ack]
  <2>1. ep' = [ep EXCEPT ![q] = r]
    BY <1>0, <1>2 DEF arrive
  <2>2. /\ r.val = ep[q].val + 1 /\ r.ack = ep[q].ack
        /\ r.listed = (ep[q].listed \/ ep[q].val = ep[q].ack)
    BY <1>0 DEF EndpointType
  <2> HIDE DEF r
  <2>3. IF p = q THEN ep'[p] = r ELSE ep'[p] = ep[p]
    BY <1>0, <2>1
  <2> QED
    BY <2>2, <2>3 DEF Stays, Arrived
<1>3. ASSUME NEW q \in Endpoints, activation(q)
      PROVE  Stays(p)
  <2>1. ep' = ep \/ ep' = [ep EXCEPT ![q].listed = FALSE]
    BY <1>3 DEF activation, Stop
  <2> QED
    BY <1>0, <2>1 DEF EndpointType, Stays
<1> QED
  BY <1>1, <1>2, <1>3, Zenon DEF Outside

LEMMA AwaitMoves ==
    ASSUME Inv, NEW t \in Threads, InAwait(t) \/ resume(t), NEW p \in Endpoints
    PROVE  Stays(p) \/ Acked(p)
<1>0. ep \in [Endpoints -> EndpointType]
  BY ShapeFacts DEF Inv
<1>1. ASSUME enter(t) \/ sync(t) \/ resume(t)
      PROVE  Stays(p)
  <2>1. UNCHANGED ep
    BY <1>1 DEF enter, sync, resume, Stop
  <2> QED
    BY <2>1 DEF Stays
<1>2. ASSUME ack(t)
      PROVE  Stays(p) \/ Acked(p)
  <2>1. PICK q : q = count[thr[t].ec].ep
    OBVIOUS
  <2>2. thr[t].pc = "acking" /\ (ep' = ep \/ ep' = [ep EXCEPT ![q].ack = thr[t].rx])
    BY <1>2, <2>1 DEF ack, Stop
  <2>3. CASE ep' = [ep EXCEPT ![q].ack = thr[t].rx]
    <3> DEFINE r == [ep[q] EXCEPT !.ack = thr[t].rx]
    <3>1. q \in Endpoints => r.val = ep[q].val /\ r.ack = thr[t].rx
      BY <1>0 DEF EndpointType
    <3>2. IF p = q THEN ep'[p] = r ELSE ep'[p] = ep[p]
      BY <1>0, <2>3
    <3> HIDE DEF r
    <3> QED
      BY <2>1, <2>2, <3>1, <3>2 DEF Stays, Acked
  <2> QED
    BY <2>2, <2>3 DEF Stays
<1> QED
  BY <1>1, <1>2 DEF InAwait

LEMMA EndpointMoves ==
    ASSUME Inv, NextAwait, NEW p \in Endpoints
    PROVE  Moves(p)
BY OperationMoves, TeardownMoves, OutsideMoves, AwaitMoves DEF NextAwait, NextNoWake, Moves

(* Nobody acknowledges what has not come, and while a thread is about to   *)
(* acknowledge its endpoint has more than was acknowledged before.         *)
AckBound == \A p \in Endpoints : ep[p].ack <= ep[p].val
Late == \A t \in Threads : thr[t].pc = "acking" =>
            LET x == ep[count[thr[t].ec].ep] IN thr[t].rx <= x.val /\ x.ack < x.val

(* Nobody else runs while a thread is between its look at the endpoint and *)
(* the acknowledgement: await does not yield there.                        *)
LEMMA AckAlone ==
    ASSUME Inv, NextAwait, NEW u \in Threads, thr[u].pc = "acking"
    PROVE  ack(u) \/ Outside
<1>1. status = "up" => cs = u
  BY DEF Inv, ThreadsFit, InLoop
<1>2. ASSUME NEW t \in Threads, StepsOf(t)
      PROVE  ack(u)
  <2>1. Runs(t)
    BY <1>2, WhoCalls DEF StepsOf, InAwait, enter, sync, ack, resume
  <2>2. u # None
    BY EventsAssumption
  <2>3. t = u
    BY <1>1, <2>1, <2>2 DEF Runs
  <2> QED
    BY <1>2, <2>3, WhoCalls DEF StepsOf, InAwait, enter, sync, resume
<1> QED
  BY <1>2 DEF NextAwait, NextNoWake, StepsOf

(* A thread comes to acknowledge by its own look at the endpoint.          *)
LEMMA LooksFirst ==
    ASSUME HalfRange, Inv, NextAwait, NEW u \in Threads,
           thr[u].pc # "acking", thr'[u].pc = "acking"
    PROVE  sync(u)
<1>1. PICK t \in Threads : Caused(t)
  BY NextCaused
<1>2. CASE t # u
  <2>1. PICK e \in Counts : u \in BlockedOn(e)
    BY <1>1, <1>2 DEF Caused
  <2>2. Cause(e, u)
    BY <1>1, <2>1 DEF Caused
  <2> QED
    BY <2>2 DEF Cause
<1>3. CASE t = u
  BY <1>1, <1>3 DEF Caused, Went
<1> QED
  BY <1>2, <1>3

LEMMA LateKept ==
    ASSUME HalfRange, Inv, AckBound, Late, NextAwait
    PROVE  AckBound' /\ Late'
<1>0. /\ thr \in [Threads -> ThreadType]
      /\ \A p \in Endpoints : ep[p].val \in Nat /\ ep[p].ack \in Nat
      /\ \A t \in Threads : thr[t].pc = "acking" => thr[t].rx \in Nat
  BY ShapeFacts, Constants DEF Inv, Bounded, ThreadsFit, InLoop
<1>1. ASSUME NEW p \in Endpoints
      PROVE  ep'[p].ack <= ep'[p].val
  <2>1. Moves(p)
    BY EndpointMoves
  <2>2. ep[p].ack <= ep[p].val
    BY DEF AckBound
  <2>3. CASE Acked(p)
    BY <1>0, <2>3 DEF Acked, Late
  <2> QED
    BY <1>0, <2>1, <2>2, <2>3 DEF Moves, Stays, Renewed, Arrived
<1>2. ASSUME NEW u \in Threads, thr[u].pc = "acking", thr'[u].pc = "acking"
      PROVE  /\ thr'[u].rx <= ep'[count'[thr'[u].ec].ep].val
             /\ ep'[count'[thr'[u].ec].ep].ack < ep'[count'[thr'[u].ec].ep].val
  <2>1. PICK e \in Counts : e = thr[u].ec /\ count[e].type = "rx"
    BY <1>2 DEF Inv, ThreadsFit, InLoop
  <2>2. PICK p \in Endpoints : p = count[e].ep
    BY <2>1 DEF Inv, CountsFit
  <2>3. thr[u].rx <= ep[p].val /\ ep[p].ack < ep[p].val
    BY <1>2, <2>1, <2>2 DEF Late
  <2>4. CASE ack(u)
    <3>1. UNCHANGED <<thr, count, ep>>
      <4>1. \/ UNCHANGED <<thr, count, ep>>
            \/ thr' = [thr EXCEPT ![u].pc = "syncing", ![u].rx = None]
        BY <2>4 DEF ack, Stop
      <4> QED
        BY <1>0, <1>2, <4>1 DEF ThreadType
    <3> QED
      BY <2>1, <2>2, <2>3, <3>1
  <2>5. CASE Outside
    <3>1. UNCHANGED <<thr, count>>
      BY <2>5 DEF Outside, connect, arrive, activation, Stop
    <3>2. Stays(p) \/ Arrived(p)
      BY <2>5, OutsideMoves
    <3>3. thr[u].rx <= ep'[p].val /\ ep'[p].ack < ep'[p].val
      BY <1>0, <1>2, <2>3, <3>2 DEF Stays, Arrived
    <3> QED
      BY <2>1, <2>2, <3>1, <3>3
  <2> QED
    BY <1>2, <2>4, <2>5, AckAlone
<1>3. ASSUME NEW u \in Threads, thr[u].pc # "acking", thr'[u].pc = "acking"
      PROVE  /\ thr'[u].rx <= ep'[count'[thr'[u].ec].ep].val
             /\ ep'[count'[thr'[u].ec].ep].ack < ep'[count'[thr'[u].ec].ep].val
  <2>1. sync(u) /\ thr[u].pc = "syncing"
    BY <1>3, LooksFirst DEF sync
  <2>2. PICK e \in Counts : e = thr[u].ec /\ count[e].type = "rx"
    BY <2>1 DEF Inv, ThreadsFit, InLoop
  <2>3. PICK p \in Endpoints : p = count[e].ep
    BY <2>2 DEF Inv, CountsFit
  <2>4. PICK v \in Bounded : v = ep[p].val
    BY ShapeFacts DEF Inv
  <2>5. ~thr[u].timed
    BY ShapeFacts DEF Inv
  <2> DEFINE w == Woken(e, v)
             c == Updated(e, v)
             th == [w EXCEPT ![u].rx = v]
  <2>6. w \in [Threads -> ThreadType]
    BY WakeUps
  <2>7. th \in [Threads -> ThreadType]
    <3> DEFINE a == [w[u] EXCEPT !.rx = v]
    <3>1. a \in ThreadType
      BY <2>6 DEF ThreadType
    <3>2. th = [w EXCEPT ![u] = a]
      BY <2>6
    <3> HIDE DEF a, w
    <3> QED
      BY <2>6, <3>1, <3>2
  <2>8. ~Finish(u, v, c, th)
    <3> HIDE DEF th, c
    <3>1. SUFFICES ASSUME Finish(u, v, c, th)
                   PROVE  FALSE
      OBVIOUS
    <3>2. Return(u, c, th) \/ block_event(u, c, th, e)
      BY <2>2, <3>1 DEF Finish
    <3>3. CASE Return(u, c, th)
      <4>1. thr'[u] = Idle
        BY <2>7, <3>3 DEF Return
      <4> QED
        BY <1>3, <4>1, Records
    <3>4. CASE block_event(u, c, th, e)
      <4>1. thr' = thr \/ thr' = [th EXCEPT ![u].pc = "blocked"]
        BY <3>4 DEF block_event
      <4> QED
        BY <1>3, <2>7, <4>1 DEF ThreadType
    <3> QED
      BY <3>2, <3>3, <3>4
  <2>9. /\ ~UpToDate(ep[p], thr[u].want)
        /\ thr' = [thr EXCEPT ![u].pc = "acking", ![u].rx = v]
        /\ UNCHANGED <<count, ep>>
    BY <2>1, <2>2, <2>3, <2>4, <2>5, <2>8 DEF sync
  <2>10. ep[p].val # ep[p].ack /\ ep[p].ack <= ep[p].val
    BY <2>9 DEF UpToDate, AckBound
  <2>11. thr'[u].rx = v /\ thr'[u].ec = e
    BY <1>0, <2>2, <2>9 DEF ThreadType
  <2> QED
    BY <1>0, <2>3, <2>4, <2>9, <2>10, <2>11
<1> QED
  BY <1>1, <1>2, <1>3 DEF AckBound, Late

(* In await an endpoint becomes pending only by an event that comes in,    *)
(* and then it asks for attention: for any number of threads, counts and   *)
(* channels no acknowledgement is late, because await, unlike await_until, *)
(* lets nobody run between its look at the endpoint and the                *)
(* acknowledgement.                                                        *)
THEOREM PendingIsListed ==
    ASSUME HalfRange
    PROVE  SpecAwait => PendingListed
<1>1. Init => AckBound /\ Late
  BY DEF Init, AckBound, Late, Endpoint, Idle
<1>2. Inv /\ AckBound /\ Late /\ [NextAwait]_vars => AckBound' /\ Late'
  <2>1. AckBound /\ Late /\ UNCHANGED vars => AckBound' /\ Late'
    BY DEF AckBound, Late, vars
  <2> QED
    BY <2>1, LateKept
<1>3. Inv /\ AckBound /\ Late /\ [NextAwait]_vars =>
        [\A p \in Endpoints :
           ep[p].val = ep[p].ack /\ ep'[p].val # ep'[p].ack => ep'[p].listed]_vars
  <2>1. ASSUME Inv, AckBound, Late, NextAwait, NEW p \in Endpoints,
               ep[p].val = ep[p].ack, ep'[p].val # ep'[p].ack
        PROVE  ep'[p].listed
    <3>1. Moves(p)
      BY <2>1, EndpointMoves
    <3>2. ~Acked(p)
      <4>1. ep[p].val \in Nat
        BY <2>1, ShapeFacts, Constants DEF Inv, Bounded
      <4>2. ~(ep[p].ack < ep[p].val)
        BY <2>1, <4>1
      <4> QED
        BY <2>1, <4>2 DEF Acked, Late
    <3> QED
      BY <2>1, <3>1, <3>2 DEF Moves, Stays, Renewed, Arrived
  <2> QED
    BY <2>1
<1> QED
  BY <1>1, <1>2, <1>3, InvHolds, PTL DEF SpecAwait, PendingListed

-----------------------------------------------------------------------------
(* Handlers.  A count that is being closed keeps the type it had, so that  *)
(* nobody attaches it again.                                               *)

Handles(p, e) == count[e].life = "live" /\ count[e].type = "rx" /\ count[e].ep = p
WillHandle(p, e) == count'[e].life = "live" /\ count'[e].type = "rx" /\ count'[e].ep = p
Handled == \A p \in Endpoints : ep[p].notify # None => Handles(p, ep[p].notify)
Typed(e) == count[e].life = "closing" => count[e].type # "none"
ClosingTyped == \A e \in Counts : Typed(e)

Same(e) == /\ count'[e].life = count[e].life /\ count'[e].type = count[e].type
           /\ count'[e].ep = count[e].ep
Answered(p) == \/ ep'[p].notify = None
               \/ ep'[p].notify = ep[p].notify /\ Same(ep[p].notify)
               \/ WillHandle(p, ep'[p].notify)

LEMMA HandlersKept ==
    ASSUME Handled, ClosingTyped, \A f \in Counts : Same(f) \/ Typed(f)',
           \A p \in Endpoints : Answered(p)
    PROVE  Handled' /\ ClosingTyped'
<1>1. ASSUME NEW p \in Endpoints, ep'[p].notify # None
      PROVE  WillHandle(p, ep'[p].notify)
  <2>1. CASE ep'[p].notify = ep[p].notify /\ Same(ep[p].notify)
    <3>1. Handles(p, ep[p].notify)
      BY <1>1, <2>1 DEF Handled
    <3> QED
      BY <2>1, <3>1 DEF Handles, WillHandle, Same
  <2> QED
    BY <1>1, <2>1 DEF Answered
<1>2. ASSUME NEW f \in Counts
      PROVE  Typed(f)'
  BY DEF ClosingTyped, Typed, Same
<1> QED
  BY <1>1, <1>2 DEF Handled, Handles, WillHandle, ClosingTyped

LEMMA SameHandlers ==
    ASSUME Inv, Handled, ClosingTyped, \A f \in Counts : Same(f),
           \A p \in Endpoints : ep'[p].notify \in {None, ep[p].notify}
    PROVE  Handled' /\ ClosingTyped'
<1>1. \A p \in Endpoints : ep[p].notify \in Counts \cup {None}
  BY ShapeFacts DEF Inv, EndpointType
<1>2. \A p \in Endpoints : Answered(p)
  BY <1>1 DEF Answered
<1> QED
  BY <1>2, HandlersKept

(* The handlers of endpoints other than p are not of count e, whose        *)
(* channel was another one, or none.                                       *)
LEMMA OthersHandled ==
    ASSUME Inv, Handled, ClosingTyped, NEW e \in Counts, NEW p,
           \A f \in Counts \ {e} : count'[f] = count[f], Typed(e)',
           \A o \in Endpoints : Handles(o, e) => o = p,
           \A o \in Endpoints \ {p} : ep'[o].notify = ep[o].notify,
           p \in Endpoints => Answered(p)
    PROVE  Handled' /\ ClosingTyped'
<1>1. \A o \in Endpoints : ep[o].notify \in Counts \cup {None}
  BY ShapeFacts DEF Inv, EndpointType
<1>2. ASSUME NEW o \in Endpoints
      PROVE  Answered(o)
  <2>1. CASE o # p /\ ep[o].notify # None
    <3>1. ep[o].notify # e
      BY <2>1 DEF Handled
    <3> QED
      BY <1>1, <2>1, <3>1 DEF Answered, Same
  <2> QED
    BY <2>1 DEF Answered
<1>3. \A f \in Counts : Same(f) \/ Typed(f)'
  BY DEF Same
<1> QED
  BY <1>2, <1>3, HandlersKept

LEMMA OperationHandled ==
    ASSUME HalfRange, Inv, Handled, ClosingTyped, NEW t \in Threads, Operation(t)
    PROVE  Handled' /\ ClosingTyped'
<1>0. /\ count \in [Counts -> CountType] /\ ep \in [Endpoints -> EndpointType]
  BY ShapeFacts DEF Inv
<1>1. ASSUME UNCHANGED <<count, ep>>
      PROVE  Handled' /\ ClosingTyped'
  BY <1>1, SameHandlers DEF Same
<1>2. ASSUME NEW e \in Counts, create(t, e)
      PROVE  Handled' /\ ClosingTyped'
  <2>1. count' = [count EXCEPT ![e] = NewCount] /\ UNCHANGED ep /\ ~Live(e)
    BY <1>2 DEF create
  <2>2. NewCount.life = "live"
    BY DEF NewCount
  <2>3. (\A f \in Counts \ {e} : count'[f] = count[f]) /\ count'[e] = NewCount
    BY <1>0, <2>1
  <2>4. Typed(e)' /\ \A o : ~Handles(o, e)
    BY <2>1, <2>2, <2>3 DEF Typed, Handles, Live
  <2>5. PICK p : p \notin Endpoints
    BY EventsAssumption
  <2> QED
    BY <2>1, <2>3, <2>4, <2>5, OthersHandled
<1>3. ASSUME NEW e \in Counts, read(t, e)
      PROVE  Handled' /\ ClosingTyped'
  <2>1. PICK v : count' = [count EXCEPT ![e].value = v] /\ UNCHANGED ep
    BY <1>3 DEF read
  <2>2. \A f \in Counts : Same(f)
    BY <1>0, <2>1 DEF Same, CountType
  <2> QED
    BY <2>1, <2>2, SameHandlers
<1>4. ASSUME NEW e \in Counts, NEW n \in Increments, advance(t, e, n)
      PROVE  Handled' /\ ClosingTyped'
  <2>1. PICK v, q : count' = [count EXCEPT ![e].value = v, ![e].queue = q] /\ UNCHANGED ep
    BY <1>4 DEF advance, Updated
  <2>2. \A f \in Counts : Same(f)
    BY <1>0, <2>1 DEF Same, CountType
  <2> QED
    BY <2>1, <2>2, SameHandlers
<1>5. ASSUME NEW e \in Counts, NEW p \in Endpoints, NEW x \in EndpointZero,
             attach(t, e, p, x.type, x)
      PROVE  Handled' /\ ClosingTyped'
  <2>1. PICK type \in {"rx", "tx"} : type = x.type
    BY DEF EndpointZero
  <2>2. PICK v \in Bounded : v = x.val
    BY DEF EndpointZero, Bounded
  <2>3. count[e].life = "live" /\ count[e].type = "none"
    <3>1. count[e].type = "none" /\ count[e].life # "free" /\ count[e] \in CountType
      BY <1>0, <1>5 DEF attach, Live
    <3> QED
      BY <3>1 DEF ClosingTyped, Typed, CountType
  <2> DEFINE c == Attached(e, p, type)
  <2>4. /\ c \in [Counts -> CountType] /\ c[e].ep = p /\ c[e].type = type
        /\ c[e].life = count[e].life /\ \A f \in Counts \ {e} : c[f] = count[f]
    BY AttachedFacts
  <2>5. CASE Stop("notify")
    BY <1>1, <2>5 DEF Stop
  <2>6. CASE ~Stop("notify")
    <3>1. /\ \/ count' = c
             \/ count' = [c EXCEPT ![e] = [Updated(e, v)[e] EXCEPT !.ep = p, !.type = type]]
          /\ \/ UNCHANGED ep
             \/ type = "rx" /\ ep' = [ep EXCEPT ![p].notify = e]
      BY <1>5, <2>1, <2>2, <2>6 DEF attach
    <3> HIDE DEF c
    <3>2. /\ count'[e].ep = p /\ count'[e].type = type /\ count'[e].life = "live"
          /\ \A f \in Counts \ {e} : count'[f] = count[f]
      <4>1. CASE count' = c
        BY <2>3, <2>4, <4>1
      <4>2. CASE count' = [c EXCEPT ![e] = [Updated(e, v)[e] EXCEPT !.ep = p, !.type = type]]
        <5> DEFINE r == [Updated(e, v)[e] EXCEPT !.ep = p, !.type = type]
        <5>1. Updated(e, v)[e] \in CountType /\ Updated(e, v)[e].life = count[e].life
          BY UpdatedRecords
        <5>2. r.ep = p /\ r.type = type /\ r.life = count[e].life
          BY <5>1 DEF CountType
        <5>3. count' = [c EXCEPT ![e] = r]
          BY <4>2
        <5> HIDE DEF r
        <5> QED
          BY <2>3, <2>4, <5>2, <5>3
      <4> QED
        BY <3>1, <4>1, <4>2
    <3>3. Typed(e)' /\ \A o : ~Handles(o, e)
      BY <2>3, <3>2 DEF Typed, Handles
    <3>4. CASE UNCHANGED ep
      <4>1. PICK o : o \notin Endpoints
        BY EventsAssumption
      <4> QED
        BY <3>2, <3>3, <3>4, <4>1, OthersHandled
    <3>5. CASE type = "rx" /\ ep' = [ep EXCEPT ![p].notify = e]
      <4>1. ep'[p].notify = e /\ \A o \in Endpoints \ {p} : ep'[o].notify = ep[o].notify
        BY <1>0, <3>5 DEF EndpointType
      <4>2. Answered(p)
        BY <3>2, <3>5, <4>1 DEF Answered, WillHandle
      <4> QED
        BY <3>2, <3>3, <4>1, <4>2, OthersHandled
    <3> QED
      BY <3>1, <3>4, <3>5
  <2> QED
    BY <2>5, <2>6
<1>6. ASSUME NEW er \in Counts, NEW et \in Counts, NEW pr \in Endpoints, NEW pt \in Endpoints,
             attach_pair(t, er, et, pr, pt)
      PROVE  Handled' /\ ClosingTyped'
  <2>1. \A f \in {er, et} : count[f].life = "live" /\ count[f].type = "none"
    <3>1. \A f \in {er, et} :
             count[f].type = "none" /\ count[f].life # "free" /\ count[f] \in CountType
      BY <1>0, <1>6 DEF attach_pair, Live
    <3> QED
      BY <3>1 DEF ClosingTyped, Typed, CountType
  <2>2. PICK v \in Bounded : v = ep[pr].val
    BY ShapeFacts DEF Inv
  <2> DEFINE a == Attached(er, pr, "rx")
             r == [a[et] EXCEPT !.ep = pt, !.type = "tx"]
             c == [a EXCEPT ![et] = r]
  <2>3. /\ a \in [Counts -> CountType] /\ a[er].ep = pr /\ a[er].type = "rx"
        /\ a[er].life = count[er].life /\ \A f \in Counts \ {er} : a[f] = count[f]
    BY AttachedFacts
  <2>4. [Attached(er, pr, "rx") EXCEPT ![et].ep = pt, ![et].type = "tx"] = c
    BY <2>3
  <2>5. CASE Stop("notify")
    BY <1>1, <2>5 DEF Stop
  <2>6. CASE ~Stop("notify")
    <3>1. /\ \/ count' = c
             \/ count' = [c EXCEPT ![er].value = v, ![er].queue = Updated(er, v)[er].queue]
          /\ ep' = [ep EXCEPT ![pr].notify = er]
          /\ er # et
      BY <1>6, <2>2, <2>4, <2>6 DEF attach_pair
    <3> HIDE DEF a
    <3>2. r \in CountType /\ r.type = "tx" /\ r.life = "live"
      <4>1. a[et] \in CountType /\ a[et].life = "live"
        BY <2>1, <2>3, <3>1
      <4> QED
        BY <4>1 DEF CountType, AllEndpoints, Types
    <3> HIDE DEF r
    <3>3. /\ c \in [Counts -> CountType] /\ c[er].ep = pr /\ c[er].type = "rx"
          /\ c[er].life = "live" /\ c[et] = r
          /\ \A f \in Counts \ {er, et} : c[f] = count[f]
      BY <2>1, <2>3, <3>1, <3>2
    <3> HIDE DEF c
    <3>4. /\ count'[er].ep = pr /\ count'[er].type = "rx" /\ count'[er].life = "live"
          /\ \A f \in Counts \ {er} : count'[f] = c[f]
      <4>1. CASE count' = c
        BY <3>3, <4>1
      <4>2. CASE count' = [c EXCEPT ![er].value = v, ![er].queue = Updated(er, v)[er].queue]
        BY <3>3, <4>2 DEF CountType
      <4> QED
        BY <3>1, <4>1, <4>2
    <3>5. \A f \in Counts : Same(f) \/ Typed(f)'
      BY <3>1, <3>2, <3>3, <3>4 DEF Same, Typed
    <3>6. ep'[pr].notify = er /\ \A o \in Endpoints \ {pr} : ep'[o].notify = ep[o].notify
      BY <1>0, <3>1 DEF EndpointType
    <3>7. ASSUME NEW o \in Endpoints
          PROVE  Answered(o)
      <4>1. CASE o = pr
        BY <3>4, <3>6, <4>1 DEF Answered, WillHandle
      <4>2. CASE o # pr /\ ep[o].notify # None
        <5>1. ep[o].notify \in Counts
          BY <1>0, <4>2 DEF EndpointType
        <5>2. ep[o].notify \notin {er, et}
          BY <2>1, <4>2 DEF Handled, Handles
        <5> QED
          BY <3>3, <3>4, <3>6, <4>2, <5>1, <5>2 DEF Answered, Same
      <4>3. CASE o # pr /\ ep[o].notify = None
        BY <3>6, <4>3 DEF Answered
      <4> QED
        BY <4>1, <4>2, <4>3
    <3> QED
      BY <3>5, <3>7, HandlersKept
  <2> QED
    BY <2>5, <2>6
<1>7. ASSUME NEW p \in Endpoints, create_channel(t, p)
      PROVE  Handled' /\ ClosingTyped'
  <2>1. ep' = [ep EXCEPT ![p] = Endpoint("local")] /\ UNCHANGED count
    BY <1>7 DEF create_channel
  <2>2. Endpoint("local").notify = None
    BY DEF Endpoint
  <2> QED
    BY <1>0, <2>1, <2>2, SameHandlers DEF Same
<1>8. ASSUME no_resources(t) \/ \E e \in Counts, v \in 0 .. MaxValue : await(t, e, v, FALSE)
      PROVE  Handled' /\ ClosingTyped'
  <2>1. UNCHANGED <<count, ep>>
    BY <1>8 DEF no_resources, await, Stop
  <2> QED
    BY <1>1, <2>1
<1> QED
  BY <1>2, <1>3, <1>4, <1>5, <1>6, <1>7, <1>8, Zenon DEF Operation

LEMMA TeardownHandled ==
    ASSUME HalfRange, Inv, Handled, ClosingTyped, NEW t \in Threads, Teardown(t)
    PROVE  Handled' /\ ClosingTyped'
<1>0. /\ count \in [Counts -> CountType] /\ ep \in [Endpoints -> EndpointType]
  BY ShapeFacts DEF Inv
<1>1. ASSUME UNCHANGED <<count, ep>>
      PROVE  Handled' /\ ClosingTyped'
  BY <1>1, SameHandlers DEF Same
<1>2. NoCount.life = "free" /\ Endpoint("free").notify = None
  BY DEF NoCount, NewCount, Endpoint
<1>3. ASSUME NEW e \in Counts, destroy(t, e)
      PROVE  Handled' /\ ClosingTyped'
  <2>1. CASE count[e].type = "none"
    <3>1. count' = [count EXCEPT ![e] = NoCount] /\ UNCHANGED ep
      BY <1>3, <2>1 DEF destroy, Undetachable
    <3>2. (\A f \in Counts \ {e} : count'[f] = count[f]) /\ count'[e] = NoCount
      BY <1>0, <3>1
    <3>3. Typed(e)' /\ \A o : ~Handles(o, e)
      BY <1>2, <2>1, <3>2 DEF Typed, Handles
    <3>4. PICK p : p \notin Endpoints
      BY EventsAssumption
    <3> QED
      BY <3>1, <3>2, <3>3, <3>4, OthersHandled
  <2>2. CASE count[e].type # "none" /\ Undetachable(e)
    <3>1. UNCHANGED <<count, ep>>
      BY <1>3, <2>2 DEF destroy, Stop
    <3> QED
      BY <1>1, <3>1
  <2>3. CASE count[e].type # "none" /\ ~Undetachable(e)
    <3>1. /\ count' = [count EXCEPT ![e].life = "closing", ![e].queue = <<>>]
          /\ ep' = [ep EXCEPT ![count[e].ep].notify = None]
      BY <1>3, <2>3 DEF destroy, Detached
    <3>2. count'[e].type # "none" /\ \A f \in Counts \ {e} : count'[f] = count[f]
      BY <1>0, <2>3, <3>1 DEF CountType
    <3>3. PICK p \in Endpoints : p = count[e].ep
      BY <2>3 DEF Inv, CountsFit
    <3>4. ep'[p].notify = None /\ \A o \in Endpoints \ {p} : ep'[o].notify = ep[o].notify
      BY <1>0, <3>1, <3>3 DEF EndpointType
    <3>5. Typed(e)' /\ Answered(p) /\ \A o \in Endpoints : Handles(o, e) => o = p
      BY <3>2, <3>3, <3>4 DEF Typed, Answered, Handles
    <3> QED
      BY <3>2, <3>4, <3>5, OthersHandled
  <2> QED
    BY <2>1, <2>2, <2>3
<1>4. ASSUME close(t)
      PROVE  Handled' /\ ClosingTyped'
  <2>1. PICK e \in Counts : e = thr[t].ec /\ count[e].life = "closing" /\ count[e].type = "rx"
    BY <1>4 DEF close, Inv, ThreadsFit, Closes
  <2>2. PICK p \in Endpoints : p = count[e].ep
    BY <2>1 DEF Inv, CountsFit
  <2>3. CASE Stop("panic")
    BY <1>1, <2>3 DEF Stop
  <2>4. CASE ~Stop("panic")
    <3>1. /\ count' = [count EXCEPT ![e] = NoCount]
          /\ ep' = [ep EXCEPT ![p] = Endpoint("free")]
      BY <1>4, <2>1, <2>2, <2>4 DEF close
    <3>2. (\A f \in Counts \ {e} : count'[f] = count[f]) /\ count'[e] = NoCount
      BY <1>0, <3>1
    <3>3. ep'[p].notify = None /\ \A o \in Endpoints \ {p} : ep'[o].notify = ep[o].notify
      BY <1>0, <1>2, <3>1
    <3>4. Typed(e)' /\ Answered(p) /\ \A o : ~Handles(o, e)
      BY <1>2, <2>1, <3>2, <3>3 DEF Typed, Answered, Handles
    <3> QED
      BY <3>2, <3>3, <3>4, OthersHandled
  <2> QED
    BY <2>3, <2>4
<1>5. ASSUME NEW p \in Endpoints, destroy_channel(t, p)
      PROVE  Handled' /\ ClosingTyped'
  <2>1. UNCHANGED count /\ (UNCHANGED ep \/ ep' = [ep EXCEPT ![p] = Endpoint("free")])
    BY <1>5 DEF destroy_channel, Stop
  <2> QED
    BY <1>0, <1>2, <2>1, SameHandlers DEF Same
<1> QED
  BY <1>3, <1>4, <1>5, Zenon DEF Teardown

LEMMA FinishSame ==
    ASSUME NEW t \in Threads, NEW v, NEW c, NEW th, c \in [Counts -> CountType],
           \A f \in Counts : /\ c[f].life = count[f].life /\ c[f].type = count[f].type
                             /\ c[f].ep = count[f].ep,
           Finish(t, v, c, th)
    PROVE  \A f \in Counts : Same(f)
<1>1. Return(t, c, th) \/ block_event(t, c, th, thr[t].ec)
  BY DEF Finish
<1>2. \/ count' = c \/ count' = count
      \/ \E q : count' = [c EXCEPT ![thr[t].ec].queue = q]
  BY <1>1 DEF Return, block_event, Blocked
<1>3. CASE \E q : count' = [c EXCEPT ![thr[t].ec].queue = q]
  BY <1>3 DEF Same, CountType
<1> QED
  BY <1>2, <1>3 DEF Same

LEMMA AwaitHandled ==
    ASSUME HalfRange, Inv, Handled, ClosingTyped, NEW t \in Threads, InAwait(t) \/ resume(t)
    PROVE  Handled' /\ ClosingTyped'
<1>0. /\ count \in [Counts -> CountType] /\ ep \in [Endpoints -> EndpointType]
  BY ShapeFacts DEF Inv
<1>1. ASSUME \A f \in Counts : Same(f), UNCHANGED ep
      PROVE  Handled' /\ ClosingTyped'
  BY <1>1, SameHandlers
<1>2. CASE enter(t)
  <2>1. UNCHANGED ep /\ (UNCHANGED count \/ Finish(t, count[thr[t].ec].value, count, thr))
    BY <1>2 DEF enter, Stop
  <2>2. \A f \in Counts : Same(f)
    BY <1>0, <2>1, FinishSame DEF Same
  <2> QED
    BY <1>1, <2>1, <2>2
<1>3. CASE sync(t)
  <2>1. PICK e \in Counts : e = thr[t].ec /\ count[e].type = "rx"
    BY <1>3 DEF sync, Inv, ThreadsFit, InLoop
  <2>2. PICK p \in Endpoints : p = count[e].ep
    BY <2>1 DEF Inv, CountsFit
  <2>3. PICK v \in Bounded : v = ep[p].val
    BY ShapeFacts DEF Inv
  <2>4. ~thr[t].timed
    BY ShapeFacts DEF Inv
  <2>5. PICK c : c = Updated(e, v)
    OBVIOUS
  <2>6. /\ c \in [Counts -> CountType]
        /\ \A f \in Counts : /\ c[f].life = count[f].life /\ c[f].type = count[f].type
                             /\ c[f].ep = count[f].ep
    <3>1. c \in [Counts -> CountType]
      BY <2>5, WakeUps
    <3>2. PICK q : c = [count EXCEPT ![e].value = v, ![e].queue = q]
      BY <2>5 DEF Updated
    <3> QED
      BY <1>0, <3>1, <3>2 DEF CountType
  <2>7. UNCHANGED ep /\ (UNCHANGED count \/ \E th : Finish(t, v, c, th))
    BY <1>3, <2>1, <2>2, <2>3, <2>4, <2>5 DEF sync
  <2>8. \A f \in Counts : Same(f)
    BY <2>6, <2>7, FinishSame DEF Same
  <2> QED
    BY <1>1, <2>7, <2>8
<1>4. CASE ack(t)
  <2>1. PICK q : UNCHANGED count /\ (UNCHANGED ep \/ ep' = [ep EXCEPT ![q].ack = thr[t].rx])
    BY <1>4 DEF ack, Stop
  <2>2. \A p \in Endpoints : ep'[p].notify = ep[p].notify
    BY <1>0, <2>1 DEF EndpointType
  <2> QED
    BY <2>1, <2>2, SameHandlers DEF Same
<1>5. CASE resume(t)
  BY <1>1, <1>5 DEF resume, Stop, Same
<1> QED
  BY <1>2, <1>3, <1>4, <1>5 DEF InAwait

LEMMA OutsideHandled ==
    ASSUME HalfRange, Inv, Handled, ClosingTyped, Outside
    PROVE  Handled' /\ ClosingTyped'
<1>0. ep \in [Endpoints -> EndpointType]
  BY ShapeFacts DEF Inv
<1>1. UNCHANGED count
  BY DEF Outside, connect, arrive, activation, Stop
<1>2. ASSUME NEW q \in Endpoints,
             \/ \E y \in {"rx", "tx"} : connect(q, y)
             \/ arrive(q) \/ activation(q)
      PROVE  \A p \in Endpoints : ep'[p].notify = ep[p].notify
  <2>1. CASE \E y \in {"rx", "tx"} : connect(q, y)
    BY <1>0, <2>1 DEF connect, EndpointType
  <2>2. CASE arrive(q)
    <3> DEFINE r == [ep[q] EXCEPT !.val = @ + 1, !.listed = @ \/ ep[q].val = ep[q].ack]
    <3>1. ep' = [ep EXCEPT ![q] = r] /\ r.notify = ep[q].notify
      BY <1>0, <2>2 DEF arrive, EndpointType
    <3> HIDE DEF r
    <3> QED
      BY <1>0, <3>1
  <2>3. CASE activation(q)
    BY <1>0, <2>3 DEF activation, Stop, EndpointType
  <2> QED
    BY <1>2, <2>1, <2>2, <2>3
<1>3. \A p \in Endpoints : ep'[p].notify = ep[p].notify
  BY <1>2 DEF Outside
<1> QED
  BY <1>1, <1>3, SameHandlers DEF Same

(* The handler of an endpoint belongs to a live count that receives on it, *)
(* for any number of threads, counts and channels: destroy takes it off    *)
(* before the count goes, a closing count cannot be attached again, and no *)
(* channel goes with a handler.                                            *)
THEOREM HandlersStayLive ==
    ASSUME HalfRange
    PROVE  SpecAwait => []HandlersLive
<1>1. Init => Handled /\ ClosingTyped
  BY DEF Init, Handled, ClosingTyped, Typed, Endpoint, NoCount, NewCount
<1>2. Inv /\ Handled /\ ClosingTyped /\ [NextAwait]_vars => Handled' /\ ClosingTyped'
  <2>1. ASSUME Inv, Handled, ClosingTyped, NextAwait
        PROVE  Handled' /\ ClosingTyped'
    BY <2>1, OperationHandled, TeardownHandled, AwaitHandled, OutsideHandled
       DEF NextAwait, NextNoWake
  <2>2. ASSUME Inv, Handled, ClosingTyped, UNCHANGED vars
        PROVE  Handled' /\ ClosingTyped'
    BY <2>2, SameHandlers DEF vars, Same
  <2> QED
    BY <2>1, <2>2
<1>3. Inv /\ Handled => HandlersLive
  BY TypesFit DEF Handled, Handles, HandlersLive
<1> QED
  BY <1>1, <1>2, <1>3, InvHolds, PTL DEF SpecAwait

-----------------------------------------------------------------------------
(* The inductive invariant of SpecMutex.                                   *)

Places == {"out", "locking", "in", "leaving", "waiting", "woken", "read_seq", "read_count"}

ClientShape ==
    /\ at \in [Threads -> Places]
    /\ tick \in [Threads -> Nat]
    /\ peeked \in [Threads -> [t : Nat, f : Nat]]
    /\ seq \in [{M, C} -> Nat] /\ seq[M] <= MaxLocks /\ seq[C] <= MaxWaits

(* The counts stay, and have no channel.                                   *)
Plain == \A e \in Counts : count[e].type = "none" /\ count[e].life = "live"

(* A thread in await waits for its ticket, and is let go when its ticket   *)
(* has come.                                                               *)
Calling(t) ==
    /\ thr[t].pc \in {"idle", "entering", "blocked", "ready"} /\ ~thr[t].alerted
    /\ thr[t].pc # "idle" => at[t] \in {"locking", "waiting"} /\ thr[t].ec = AwaitsOn(t)
    /\ thr[t].pc \in {"entering", "blocked"} => thr[t].want = tick[t]
    /\ thr[t].pc = "ready" /\ at[t] = "locking" => tick[t] <= count[M].value
    /\ at[t] = "locking" => tick[t] < seq[M]
    /\ at[t] \in {"waiting", "leaving"} => tick[t] < seq[C]

(* What a broadcast has read.                                              *)
Peeks(t) ==
    /\ peeked[t].t <= MaxWaits
    /\ at[t] = "read_count" => peeked[t].f <= count[C].value

ClientsFit == \A t \in Threads : Calling(t) /\ Peeks(t)

(* Every ticket that is given out and has not come belongs to somebody who *)
(* is still waiting for it ...                                             *)
Held == \A k \in Nat : count[M].value < k /\ k < seq[M]
            => \E t \in Threads : at[t] = "locking" /\ tick[t] = k

(* ... and each unlock returns one ticket.                                 *)
Holding == {t \in Threads : at[t] \in {"locking", "in", "leaving", "read_seq", "read_count"}}
Returned == Cardinality(Holding) + count[M].value = seq[M] + 1

MutexInv == Inv /\ ClientShape /\ Plain /\ ClientsFit /\ Held /\ Returned

LEMMA MutexConstants ==
    /\ M \in Counts /\ C \in Counts /\ M # C
    /\ MaxLocks \in Nat /\ MaxWaits \in Nat
    /\ MaxLocks < MaxValue /\ 4 * MaxWaits <= MaxValue
    /\ IsFiniteSet(Threads)
BY MutexAssumption

LEMMA ClientFacts ==
    ASSUME MutexInv
    PROVE  /\ Inv
           /\ \A t \in Threads : /\ at[t] \in Places /\ tick[t] \in Nat
                                 /\ peeked[t].t \in Nat /\ peeked[t].f \in Nat
                                 /\ peeked[t] \in [t : Nat, f : Nat]
                                 /\ thr[t].want \in Nat
           /\ seq[M] \in Nat /\ seq[C] \in Nat /\ seq[M] <= MaxLocks /\ seq[C] <= MaxWaits
           /\ \A e \in Counts : count[e].value \in Nat /\ count[e].value <= MaxValue
           /\ IsFiniteSet(Holding) /\ Cardinality(Holding) \in Nat
           /\ count[M].value <= seq[M] + 1
<1>1. Inv /\ ClientShape /\ Returned
  BY DEF MutexInv
<1>2. \A t \in Threads : /\ at[t] \in Places /\ tick[t] \in Nat
                         /\ peeked[t].t \in Nat /\ peeked[t].f \in Nat
                         /\ peeked[t] \in [t : Nat, f : Nat]
  BY <1>1 DEF ClientShape
<1>3. seq[M] \in Nat /\ seq[C] \in Nat /\ seq[M] <= MaxLocks /\ seq[C] <= MaxWaits
  BY <1>1 DEF ClientShape
<1>4. \A e \in Counts : count[e].value \in Nat /\ count[e].value <= MaxValue
  BY <1>1, ShapeFacts, Constants DEF Inv, Bounded
<1>5. \A t \in Threads : thr[t].want \in Nat
  BY <1>1, ShapeFacts, Records DEF Inv
<1>6. IsFiniteSet(Holding) /\ Cardinality(Holding) \in Nat
  <2>1. Holding \in SUBSET Threads
    BY DEF Holding
  <2> QED
    BY <2>1, MutexConstants, FS_Subset, FS_CardinalityType
<1>7. count[M].value <= seq[M] + 1
  BY <1>1, <1>3, <1>4, <1>6, MutexConstants DEF Returned
<1> QED
  BY <1>1, <1>2, <1>3, <1>4, <1>5, <1>6, <1>7

(* What advance does without a channel: it lets go the threads whose       *)
(* values are reached.                                                     *)
LEMMA AdvanceFacts ==
    ASSUME HalfRange, Inv, NEW t \in Threads, NEW e \in Counts, NEW n \in Nat,
           count[e].value + n < Word, advance(t, e, n)
    PROVE  /\ Inv' /\ Runs(t) /\ thr[t].pc = "idle" /\ UNCHANGED <<cs, timeq, ep, status>>
           /\ count'[e].value = count[e].value + n
           /\ \A f \in Counts : /\ count'[f].life = count[f].life
                                /\ count'[f].type = count[f].type
                                /\ f # e => count'[f] = count[f]
           /\ \A u \in Threads :
                 \/ thr'[u] = thr[u]
                 \/ /\ u \in BlockedOn(e) /\ thr[u].want <= count'[e].value
                    /\ thr'[u].pc = "ready" /\ thr'[u].ec = e /\ ~thr'[u].alerted
           /\ \A u \in BlockedOn(e)' : thr[u].want > count'[e].value /\ thr'[u] = thr[u]
<1>1. Inv'
  BY AdvanceStep
<1> DEFINE m == count[e].value
<1>2. m \in Nat
  BY ShapeFacts, Records DEF Inv
<1>3. PICK v \in Nat : v = m + n
  BY <1>2
<1>4. v % Word = v
  <2>1. 0 <= v /\ v < Word
    BY <1>2, <1>3, Constants
  <2> QED
    BY <1>3, <2>1, Constants
<1>5. /\ count' = Updated(e, v) /\ thr' = Woken(e, v) /\ Runs(t) /\ thr[t].pc = "idle"
      /\ v <= MaxValue /\ UNCHANGED <<cs, timeq, ep, status>>
  BY <1>3, <1>4 DEF advance, Calls
<1>6. v \in Bounded
  BY <1>5, Constants DEF Bounded
<1>7. \A u \in Threads : thr'[u] = IF u \in BlockedOn(e) /\ thr[u].want <= v
                                   THEN WokenUp(e) ELSE thr[u]
  <2>1. \A u \in Threads : Woken(e, v)[u] = IF u \in BlockedOn(e) /\ thr[u].want <= v
                                            THEN WokenUp(e) ELSE thr[u]
    BY <1>6, WakeUps
  <2> QED
    BY <1>5, <2>1
<1>8. /\ count'[e].value = v
      /\ \A f \in Counts : /\ count'[f].life = count[f].life
                           /\ count'[f].type = count[f].type
                           /\ f # e => count'[f] = count[f]
  <2>1. Updated(e, v)[e].value = v
    BY <1>6, WakeUps
  <2>2. \A f \in Counts : /\ Updated(e, v)[f].life = count[f].life
                          /\ Updated(e, v)[f].type = count[f].type
                          /\ Updated(e, v)[f].ep = count[f].ep
                          /\ f # e => Updated(e, v)[f] = count[f]
    BY <1>6, WakeUps
  <2> QED
    BY <1>5, <2>1, <2>2
<1>9. WokenUp(e).pc = "ready" /\ WokenUp(e).ec = e /\ ~WokenUp(e).alerted
  BY DEF WokenUp
<1>10. \A u \in Threads : thr[u].want \in Nat
  BY ShapeFacts, Records DEF Inv
<1>11. \A u \in BlockedOn(e)' : thr[u].want > v /\ thr'[u] = thr[u]
  BY <1>7, <1>9, <1>10 DEF BlockedOn
<1> QED
  BY <1>1, <1>3, <1>5, <1>7, <1>8, <1>9, <1>11

(* What the end of await does without a channel.                           *)
LEMMA EnterFacts ==
    ASSUME HalfRange, MutexInv, NEW t \in Threads, enter(t)
    PROVE  /\ Inv' /\ thr[t].pc = "entering"
           /\ \A f \in Counts : /\ count'[f].life = count[f].life
                                /\ count'[f].type = count[f].type
                                /\ count'[f].value = count[f].value
           /\ \A u \in Threads \ {t} : thr'[u] = thr[u]
           /\ \/ /\ status' = status /\ thr'[t] = Idle
                 /\ tick[t] <= count[AwaitsOn(t)].value
              \/ /\ status' = status /\ thr'[t].pc = "blocked" /\ thr'[t].ec = thr[t].ec
                 /\ thr'[t].want = thr[t].want /\ thr'[t].alerted = thr[t].alerted
              \/ status' # "up" /\ thr'[t] = thr[t]
<1>1. Inv'
  BY EnterStep DEF MutexInv
<1>2. thr[t].pc = "entering" /\ Runs(t)
  BY DEF enter
<1>3. PICK e \in Counts : e = thr[t].ec
  BY <1>2 DEF MutexInv, Inv, ThreadsFit, Entering
<1>4. /\ Live(e) /\ count[e].type = "none" /\ thr[t].want = tick[t] /\ e = AwaitsOn(t)
      /\ thr \in [Threads -> ThreadType] /\ thr[t] \in ThreadType
      /\ count \in [Counts -> CountType] /\ count[e] \in CountType
      /\ ~thr[t].timed /\ timeq = {}
  BY <1>2, <1>3, ShapeFacts DEF MutexInv, Plain, ClientsFit, Calling, Live, Inv
<1>5. Finish(t, count[e].value, count, thr)
  BY <1>3, <1>4 DEF enter
<1>6. CASE ~EC_GT(thr[t].want, count[e].value) /\ Return(t, count, thr)
  <2>1. thr[t].want \in 0 .. MaxValue /\ count[e].value \in 0 .. MaxValue
    BY ShapeFacts DEF MutexInv, Inv, Bounded
  <2>2. thr[t].want <= count[e].value
    BY <1>6, <2>1, Comparisons
  <2>3. count' = count /\ thr' = [thr EXCEPT ![t] = Idle] /\ status' = status
    BY <1>6 DEF Return
  <2>4. thr'[t] = Idle /\ \A u \in Threads \ {t} : thr'[u] = thr[u]
    BY <1>4, <2>3
  <2> QED
    BY <1>1, <1>2, <1>4, <2>2, <2>3, <2>4
<1>7. CASE block_event(t, count, thr, e)
  <2>1. CASE NullNext(t, count, e)
    <3>1. status' = "null" /\ UNCHANGED <<count, thr>>
      BY <1>7, <2>1 DEF block_event
    <3> QED
      BY <1>1, <1>2, <3>1
  <2>2. CASE ~NullNext(t, count, e)
    <3>1. /\ count' = Blocked(t, count, e) /\ thr' = [thr EXCEPT ![t].pc = "blocked"]
          /\ status' = status
      BY <1>4, <1>7, <2>2 DEF block_event
    <3>2. PICK n : count' = [count EXCEPT ![e].queue = n]
      BY <3>1 DEF Blocked
    <3>3. \A f \in Counts : /\ count'[f].life = count[f].life
                            /\ count'[f].type = count[f].type
                            /\ count'[f].value = count[f].value
      BY <1>4, <3>2 DEF CountType
    <3>4. /\ thr'[t].pc = "blocked" /\ thr'[t].ec = thr[t].ec /\ thr'[t].want = thr[t].want
          /\ thr'[t].alerted = thr[t].alerted
          /\ \A u \in Threads \ {t} : thr'[u] = thr[u]
      BY <1>4, <3>1 DEF ThreadType
    <3> QED
      BY <1>1, <1>2, <3>1, <3>3, <3>4
  <2> QED
    BY <2>1, <2>2
<1> QED
  BY <1>3, <1>4, <1>5, <1>6, <1>7 DEF Finish

-----------------------------------------------------------------------------
(* A step of thread t, seen by the other threads.                          *)

LetGo(u) ==
    /\ thr[u].pc = "blocked" /\ thr'[u].pc = "ready" /\ thr'[u].ec = thr[u].ec
    /\ ~thr'[u].alerted /\ (thr[u].ec = M => thr[u].want <= count'[M].value)

LEMMA OthersFit ==
    ASSUME MutexInv, Inv', ClientShape', NEW t \in Threads,
           \A e \in Counts : count'[e].life = count[e].life /\ count'[e].type = count[e].type,
           count[M].value <= count'[M].value, count[C].value <= count'[C].value,
           seq[M] <= seq'[M], seq[C] <= seq'[C],
           \A u \in Threads \ {t} : /\ at'[u] = at[u] /\ tick'[u] = tick[u]
                                    /\ peeked'[u] = peeked[u]
                                    /\ thr'[u] = thr[u] \/ LetGo(u),
           Calling(t)', Peeks(t)'
    PROVE  Plain' /\ ClientsFit'
<1>1. Plain'
  BY DEF MutexInv, Plain
<1>2. /\ seq[M] \in Nat /\ seq[C] \in Nat /\ seq'[M] \in Nat /\ seq'[C] \in Nat
      /\ count[M].value \in Nat /\ count[C].value \in Nat
      /\ count'[M].value \in Nat /\ count'[C].value \in Nat
  <2>1. seq'[M] \in Nat /\ seq'[C] \in Nat
    BY DEF ClientShape
  <2>2. \A e \in Counts : count'[e].value \in Nat
    BY Records DEF Inv, Shape
  <2> QED
    BY <2>1, <2>2, ClientFacts, MutexConstants
<1>3. ASSUME NEW u \in Threads \ {t}
      PROVE  Calling(u)' /\ Peeks(u)'
  <2>1. /\ Calling(u) /\ Peeks(u) /\ tick[u] \in Nat /\ peeked[u].f \in Nat
        /\ thr[u].want \in Nat
    BY ClientFacts DEF MutexInv, ClientsFit
  <2>2. AwaitsOn(u)' = AwaitsOn(u)
    BY DEF AwaitsOn
  <2>3. Peeks(u)'
    BY <1>2, <2>1 DEF Peeks
  <2>4. CASE thr'[u] = thr[u]
    <3>1. /\ thr[u].pc = "ready" /\ at[u] = "locking" => tick[u] <= count'[M].value
          /\ at[u] = "locking" => tick[u] < seq'[M]
          /\ at[u] \in {"waiting", "leaving"} => tick[u] < seq'[C]
      BY <1>2, <2>1 DEF Calling
    <3> QED
      BY <2>1, <2>2, <2>3, <2>4, <3>1 DEF Calling
  <2>5. CASE LetGo(u)
    <3>1. /\ at[u] \in {"locking", "waiting"} /\ thr[u].ec = AwaitsOn(u)
          /\ thr[u].want = tick[u]
      BY <2>1, <2>5 DEF Calling, LetGo
    <3>2. at[u] = "locking" => tick[u] <= count'[M].value
      BY <2>5, <3>1 DEF LetGo, AwaitsOn
    <3>3. /\ at[u] = "locking" => tick[u] < seq'[M]
          /\ at[u] \in {"waiting", "leaving"} => tick[u] < seq'[C]
      BY <1>2, <2>1 DEF Calling
    <3> QED
      BY <2>2, <2>3, <2>5, <3>1, <3>2, <3>3 DEF Calling, LetGo
  <2> QED
    BY <2>3, <2>4, <2>5
<1>4. ClientsFit'
  BY <1>3 DEF ClientsFit
<1> QED
  BY <1>1, <1>4

(* The tickets and the count of the mutex stay as they are while nobody    *)
(* starts to hold one or returns it, and nobody enters too early.          *)
LEMMA HeldKept ==
    ASSUME MutexInv, NEW t \in Threads,
           count'[M].value = count[M].value, seq'[M] = seq[M],
           \A u \in Threads \ {t} : at'[u] = at[u] /\ tick'[u] = tick[u],
           (t \in Holding)' <=> t \in Holding,
           at[t] = "locking" => \/ at'[t] = "locking" /\ tick'[t] = tick[t]
                                \/ tick[t] <= count[M].value
    PROVE  Held' /\ Returned'
<1>1. Holding' = Holding
  BY DEF Holding
<1>2. Returned'
  BY <1>1 DEF MutexInv, Returned
<1>3. ASSUME NEW k \in Nat, count'[M].value < k, k < seq'[M]
      PROVE  \E u \in Threads : at'[u] = "locking" /\ tick'[u] = k
  <2>1. PICK u \in Threads : at[u] = "locking" /\ tick[u] = k
    BY <1>3 DEF MutexInv, Held
  <2>2. count[M].value \in Nat
    BY ClientFacts, MutexConstants
  <2>3. at'[u] = "locking" /\ tick'[u] = tick[u]
    BY <1>3, <2>1, <2>2
  <2> QED
    BY <2>1, <2>3
<1> QED
  BY <1>2, <1>3 DEF Held

(* A ticket is returned.                                                   *)
LEMMA HeldReturned ==
    ASSUME MutexInv, NEW t \in Threads,
           count'[M].value = count[M].value + 1, seq'[M] = seq[M],
           \A u \in Threads \ {t} : at'[u] = at[u] /\ tick'[u] = tick[u],
           at[t] \in {"in", "leaving"}, at'[t] \in {"out", "waiting"}
    PROVE  Held' /\ Returned'
<1>1. /\ count[M].value \in Nat /\ seq[M] \in Nat
      /\ IsFiniteSet(Holding) /\ Cardinality(Holding) \in Nat
  BY ClientFacts, MutexConstants
<1>2. Holding' = Holding \ {t} /\ t \in Holding
  BY DEF Holding
<1>3. Cardinality(Holding \ {t}) = Cardinality(Holding) - 1
  BY <1>1, <1>2, FS_RemoveElement
<1>4. Returned'
  <2>1. Cardinality(Holding) + count[M].value = seq[M] + 1
    BY DEF MutexInv, Returned
  <2>2. Cardinality(Holding)' = Cardinality(Holding) - 1
    BY <1>2, <1>3
  <2> QED
    BY <1>1, <2>1, <2>2 DEF Returned
<1>5. ASSUME NEW k \in Nat, count'[M].value < k, k < seq'[M]
      PROVE  \E u \in Threads : at'[u] = "locking" /\ tick'[u] = k
  <2>1. count[M].value < k /\ k < seq[M]
    BY <1>1, <1>5
  <2>2. PICK u \in Threads : at[u] = "locking" /\ tick[u] = k
    BY <2>1 DEF MutexInv, Held
  <2> QED
    BY <2>2
<1> QED
  BY <1>4, <1>5 DEF Held

-----------------------------------------------------------------------------
(* The steps of the mutex and the condition.                               *)

LEMMA LockStep ==
    ASSUME MutexInv, NEW t \in Threads, lock(t)
    PROVE  MutexInv'
<1>1. /\ at[t] \in {"out", "woken"} /\ at' = [at EXCEPT ![t] = "locking"]
      /\ Calls(t) /\ seq[M] < MaxLocks
      /\ seq' = [seq EXCEPT ![M] = @ + 1] /\ tick' = [tick EXCEPT ![t] = seq[M]]
      /\ UNCHANGED <<vars, peeked>>
  BY DEF lock, ticket, Goto
<1>2. UNCHANGED <<count, thr, cs, timeq, ep, status>>
  BY <1>1 DEF vars
<1>3. Inv'
  BY <1>1, StutterKeeps DEF MutexInv
<1>4. /\ seq[M] \in Nat /\ seq[C] \in Nat /\ seq[C] <= MaxWaits /\ M # C /\ MaxLocks \in Nat
      /\ count[M].value \in Nat /\ count[C].value \in Nat
      /\ IsFiniteSet(Holding) /\ Cardinality(Holding) \in Nat
  BY ClientFacts, MutexConstants
<1>5. /\ at \in [Threads -> Places] /\ tick \in [Threads -> Nat] /\ seq \in [{M, C} -> Nat]
      /\ peeked \in [Threads -> [t : Nat, f : Nat]]
  BY DEF MutexInv, ClientShape
<1>6. /\ at' \in [Threads -> Places] /\ tick' \in [Threads -> Nat] /\ seq' \in [{M, C} -> Nat]
      /\ at'[t] = "locking" /\ tick'[t] = seq[M] /\ seq'[M] = seq[M] + 1 /\ seq'[C] = seq[C]
      /\ \A u \in Threads \ {t} : at'[u] = at[u] /\ tick'[u] = tick[u]
  BY <1>1, <1>4, <1>5 DEF Places
<1>7. ClientShape'
  BY <1>1, <1>4, <1>5, <1>6 DEF ClientShape
<1>8. Calling(t)' /\ Peeks(t)'
  <2>1. Calling(t) /\ Peeks(t) /\ thr[t].pc = "idle"
    BY <1>1 DEF MutexInv, ClientsFit, Calls
  <2> QED
    BY <1>1, <1>2, <1>4, <1>6, <2>1 DEF Calling, Peeks
<1>9. Plain' /\ ClientsFit'
  BY <1>1, <1>2, <1>3, <1>4, <1>6, <1>7, <1>8, OthersFit
<1>10. ASSUME NEW k \in Nat, count'[M].value < k, k < seq'[M]
       PROVE  \E u \in Threads : at'[u] = "locking" /\ tick'[u] = k
  <2>1. CASE k = seq[M]
    BY <1>6, <2>1
  <2>2. CASE k # seq[M]
    <3>1. count[M].value < k /\ k < seq[M]
      BY <1>2, <1>4, <1>6, <1>10, <2>2
    <3>2. PICK u \in Threads : at[u] = "locking" /\ tick[u] = k
      BY <3>1 DEF MutexInv, Held
    <3> QED
      BY <1>1, <1>6, <3>2
  <2> QED
    BY <2>1, <2>2
<1>11. Returned'
  <2>1. Holding' = Holding \cup {t} /\ t \notin Holding
    BY <1>1, <1>6 DEF Holding
  <2>2. Cardinality(Holding \cup {t}) = Cardinality(Holding) + 1
    BY <1>4, <2>1, FS_AddElement
  <2>3. Cardinality(Holding) + count[M].value = seq[M] + 1
    BY DEF MutexInv, Returned
  <2>4. Cardinality(Holding)' = Cardinality(Holding) + 1
    BY <2>1, <2>2
  <2> QED
    BY <1>2, <1>4, <1>6, <2>3, <2>4 DEF Returned
<1> QED
  BY <1>3, <1>7, <1>9, <1>10, <1>11 DEF MutexInv, Held

(* The first step of wait takes a ticket of the condition.                 *)
LEMMA WaitTicketStep ==
    ASSUME MutexInv, NEW t \in Threads, at[t] = "in", ticket(t, C), Goto(t, "leaving")
    PROVE  MutexInv'
<1>1. /\ at' = [at EXCEPT ![t] = "leaving"] /\ Calls(t) /\ seq[C] < MaxWaits
      /\ seq' = [seq EXCEPT ![C] = @ + 1] /\ tick' = [tick EXCEPT ![t] = seq[C]]
      /\ UNCHANGED <<vars, peeked>>
  BY MutexConstants DEF ticket, Goto
<1>2. UNCHANGED <<count, thr, cs, timeq, ep, status>>
  BY <1>1 DEF vars
<1>3. Inv'
  BY <1>1, StutterKeeps DEF MutexInv
<1>4. /\ seq[M] \in Nat /\ seq[C] \in Nat /\ seq[M] <= MaxLocks /\ M # C /\ MaxWaits \in Nat
      /\ count[M].value \in Nat /\ count[C].value \in Nat
  BY ClientFacts, MutexConstants
<1>5. /\ at \in [Threads -> Places] /\ tick \in [Threads -> Nat] /\ seq \in [{M, C} -> Nat]
      /\ peeked \in [Threads -> [t : Nat, f : Nat]]
  BY DEF MutexInv, ClientShape
<1>6. /\ at' \in [Threads -> Places] /\ tick' \in [Threads -> Nat] /\ seq' \in [{M, C} -> Nat]
      /\ at'[t] = "leaving" /\ tick'[t] = seq[C] /\ seq'[C] = seq[C] + 1 /\ seq'[M] = seq[M]
      /\ \A u \in Threads \ {t} : at'[u] = at[u] /\ tick'[u] = tick[u]
  BY <1>1, <1>4, <1>5 DEF Places
<1>7. ClientShape'
  BY <1>1, <1>4, <1>5, <1>6 DEF ClientShape
<1>8. Calling(t)' /\ Peeks(t)'
  <2>1. Calling(t) /\ Peeks(t) /\ thr[t].pc = "idle"
    BY <1>1 DEF MutexInv, ClientsFit, Calls
  <2> QED
    BY <1>1, <1>2, <1>4, <1>6, <2>1 DEF Calling, Peeks
<1>9. Plain' /\ ClientsFit'
  BY <1>1, <1>2, <1>3, <1>4, <1>6, <1>7, <1>8, OthersFit
<1>10. Held' /\ Returned'
  BY <1>2, <1>6, HeldKept DEF Holding
<1> QED
  BY <1>3, <1>7, <1>9, <1>10 DEF MutexInv

(* A step that moves thread t and changes neither counts nor tickets.      *)
LEMMA MoveStep ==
    ASSUME MutexInv, Inv', NEW t \in Threads, NEW place \in Places, NEW p \in [t : Nat, f : Nat],
           at' = [at EXCEPT ![t] = place], peeked' = [peeked EXCEPT ![t] = p],
           UNCHANGED <<tick, seq>>,
           \A e \in Counts : /\ count'[e].life = count[e].life /\ count'[e].type = count[e].type
                             /\ count'[e].value = count[e].value,
           \A u \in Threads \ {t} : thr'[u] = thr[u],
           (place \in {"locking", "in", "leaving", "read_seq", "read_count"}) <=> t \in Holding,
           at[t] = "locking" => place = "locking" \/ tick[t] <= count[M].value,
           Calling(t)', Peeks(t)'
    PROVE  MutexInv'
<1>1. /\ at \in [Threads -> Places] /\ tick \in [Threads -> Nat] /\ seq \in [{M, C} -> Nat]
      /\ peeked \in [Threads -> [t : Nat, f : Nat]]
      /\ seq[M] <= MaxLocks /\ seq[C] <= MaxWaits
  BY DEF MutexInv, ClientShape
<1>2. /\ at' \in [Threads -> Places] /\ at'[t] = place
      /\ peeked' \in [Threads -> [t : Nat, f : Nat]]
      /\ \A u \in Threads \ {t} : at'[u] = at[u] /\ peeked'[u] = peeked[u]
  BY <1>1
<1>3. ClientShape'
  BY <1>1, <1>2 DEF ClientShape
<1>4. /\ seq[M] \in Nat /\ seq[C] \in Nat /\ count[M].value \in Nat /\ count[C].value \in Nat
      /\ M \in Counts /\ C \in Counts
  BY ClientFacts, MutexConstants
<1>5. /\ count[M].value <= count'[M].value /\ count[C].value <= count'[C].value
      /\ seq[M] <= seq'[M] /\ seq[C] <= seq'[C]
  BY <1>4
<1>6. Plain' /\ ClientsFit'
  BY <1>2, <1>3, <1>5, OthersFit
<1>7. Held' /\ Returned'
  <2>1. (t \in Holding)' <=> t \in Holding
    BY <1>2 DEF Holding
  <2> QED
    BY <1>2, <1>4, <2>1, HeldKept
<1> QED
  BY <1>3, <1>6, <1>7 DEF MutexInv

LEMMA StartAwaitStep ==
    ASSUME HalfRange, MutexInv, NEW t \in Threads, start_await(t)
    PROVE  MutexInv'
<1>1. at[t] \in {"locking", "waiting"} /\ UNCHANGED <<tick, peeked, seq>>
  BY DEF start_await
<1>2. /\ tick[t] \in Nat /\ peeked[t] \in [t : Nat, f : Nat] /\ at[t] \in Places
      /\ AwaitsOn(t) \in Counts /\ Calling(t) /\ Peeks(t)
  BY ClientFacts, MutexConstants DEF AwaitsOn, MutexInv, ClientsFit
<1>3. tick[t] \in 0 .. MaxValue /\ count[AwaitsOn(t)].value \in 0 .. MaxValue
  <2>1. tick[t] <= MaxValue
    BY <1>1, <1>2, ClientFacts, MutexConstants, Constants DEF Calling
  <2> QED
    BY <1>2, <2>1, ClientFacts, Constants
<1>4. peeked' = [peeked EXCEPT ![t] = peeked[t]] /\ at = [at EXCEPT ![t] = at[t]]
  BY <1>1 DEF MutexInv, ClientShape
<1>5. ASSUME Calls(t), EC_LE(tick[t], count[AwaitsOn(t)].value), Goto(t, Awaited(t)),
             UNCHANGED vars
      PROVE  MutexInv'
  <2>1. tick[t] <= count[AwaitsOn(t)].value
    BY <1>3, <1>5, Comparisons
  <2>2. UNCHANGED <<count, thr, cs, timeq, ep, status>> /\ thr[t].pc = "idle"
    BY <1>5 DEF vars, Calls
  <2>3. Inv'
    BY <1>5, StutterKeeps DEF MutexInv
  <2>4. PICK place \in {"in", "woken"} : place = Awaited(t) /\ (place = "in" <=> at[t] = "locking")
    BY <1>1 DEF Awaited
  <2>5. at' = [at EXCEPT ![t] = place] /\ at'[t] = place
    <3>1. at \in [Threads -> Places]
      BY DEF MutexInv, ClientShape
    <3> QED
      BY <1>5, <2>4, <3>1 DEF Goto
  <2>6. Calling(t)' /\ Peeks(t)'
    BY <1>1, <1>2, <2>2, <2>4, <2>5 DEF Calling, Peeks
  <2>7. at[t] = "locking" => tick[t] <= count[M].value
    BY <2>1 DEF AwaitsOn
  <2>8. /\ place \in Places
        /\ (place \in {"locking", "in", "leaving", "read_seq", "read_count"}) <=> t \in Holding
    BY <1>1, <2>4 DEF Places, Holding
  <2> QED
    BY <1>1, <1>2, <1>4, <2>2, <2>3, <2>5, <2>6, <2>7, <2>8, MoveStep
<1>6. ASSUME await(t, AwaitsOn(t), tick[t], FALSE), UNCHANGED at
      PROVE  MutexInv'
  <2>1. Inv'
    BY <1>2, <1>3, <1>6, AwaitStep DEF MutexInv, Bounded
  <2> DEFINE r == [Idle EXCEPT !.pc = "entering", !.ec = AwaitsOn(t), !.want = tick[t],
                               !.timed = FALSE]
  <2>2. thr' = [thr EXCEPT ![t] = r] /\ count' = count
    BY <1>6 DEF await
  <2>3. r.pc = "entering" /\ r.ec = AwaitsOn(t) /\ r.want = tick[t] /\ ~r.alerted
    BY DEF Idle
  <2> HIDE DEF r
  <2>4. thr'[t] = r /\ \A u \in Threads \ {t} : thr'[u] = thr[u]
    <3>1. thr \in [Threads -> ThreadType]
      BY ShapeFacts DEF MutexInv, Inv
    <3> QED
      BY <2>2, <3>1
  <2>5. AwaitsOn(t)' = AwaitsOn(t)
    BY <1>6 DEF AwaitsOn
  <2>6. Calling(t)' /\ Peeks(t)'
    BY <1>1, <1>2, <1>6, <2>2, <2>3, <2>4, <2>5 DEF Calling, Peeks
  <2>7. (at[t] \in {"locking", "in", "leaving", "read_seq", "read_count"}) <=> t \in Holding
    BY DEF Holding
  <2>8. at' = [at EXCEPT ![t] = at[t]]
    BY <1>4, <1>6
  <2> QED
    BY <1>1, <1>2, <1>4, <2>1, <2>2, <2>4, <2>6, <2>7, <2>8, MoveStep
<1> QED
  BY <1>1, <1>5, <1>6 DEF start_await

LEMMA GoOnStep ==
    ASSUME HalfRange, MutexInv, NEW t \in Threads, go_on(t) \/ wake(t)
    PROVE  MutexInv'
<1>1. /\ enter(t) \/ resume(t)
      /\ IF status' = "up" /\ thr'[t].pc = "idle" THEN Goto(t, Awaited(t)) ELSE UNCHANGED at
      /\ UNCHANGED <<tick, peeked, seq>>
  BY DEF go_on, wake, Returns
<1>2. /\ tick[t] \in Nat /\ peeked[t] \in [t : Nat, f : Nat] /\ at[t] \in Places
      /\ Calling(t) /\ Peeks(t)
  BY ClientFacts DEF MutexInv, ClientsFit
<1>3. peeked' = [peeked EXCEPT ![t] = peeked[t]] /\ at = [at EXCEPT ![t] = at[t]]
  BY <1>1 DEF MutexInv, ClientShape
<1>4. status = "up" /\ thr[t].pc \in {"entering", "ready"}
  BY <1>1 DEF enter, resume, Runs
<1>5. at[t] \in {"locking", "waiting"} /\ thr[t].ec = AwaitsOn(t) /\ AwaitsOn(t) \in Counts
  BY <1>2, <1>4, MutexConstants DEF Calling, AwaitsOn
<1>6. ASSUME Inv', status' = "up", thr'[t] = Idle, tick[t] <= count[M].value \/ at[t] # "locking",
             \A f \in Counts : /\ count'[f].life = count[f].life
                               /\ count'[f].type = count[f].type
                               /\ count'[f].value = count[f].value,
             \A u \in Threads \ {t} : thr'[u] = thr[u]
      PROVE  MutexInv'
  <2>1. PICK place \in {"in", "woken"} : place = Awaited(t) /\ (place = "in" <=> at[t] = "locking")
    BY <1>5 DEF Awaited
  <2>2. at' = [at EXCEPT ![t] = place] /\ at'[t] = place
    <3>1. at \in [Threads -> Places]
      BY DEF MutexInv, ClientShape
    <3> QED
      BY <1>1, <1>6, <2>1, <3>1, Records DEF Goto
  <2>3. Calling(t)' /\ Peeks(t)'
    BY <1>1, <1>2, <1>6, <2>1, <2>2 DEF Calling, Peeks, Idle
  <2>4. /\ place \in Places
        /\ (place \in {"locking", "in", "leaving", "read_seq", "read_count"}) <=> t \in Holding
    BY <1>5, <2>1 DEF Places, Holding
  <2> QED
    BY <1>1, <1>2, <1>3, <1>6, <2>2, <2>3, <2>4, MoveStep
<1>7. ASSUME Inv', UNCHANGED at, Calling(t)',
             \A f \in Counts : /\ count'[f].life = count[f].life
                               /\ count'[f].type = count[f].type
                               /\ count'[f].value = count[f].value,
             \A u \in Threads \ {t} : thr'[u] = thr[u]
      PROVE  MutexInv'
  <2>1. Peeks(t)'
    BY <1>1, <1>2, <1>5, <1>7 DEF Peeks
  <2>2. (at[t] \in {"locking", "in", "leaving", "read_seq", "read_count"}) <=> t \in Holding
    BY DEF Holding
  <2>3. at' = [at EXCEPT ![t] = at[t]]
    BY <1>3, <1>7
  <2> QED
    BY ZenonT(60), <1>1, <1>2, <1>3, <1>7, <2>1, <2>2, <2>3, MoveStep
<1>8. CASE enter(t)
  <2>1. /\ Inv' /\ thr[t].pc = "entering"
        /\ \A f \in Counts : /\ count'[f].life = count[f].life
                             /\ count'[f].type = count[f].type
                             /\ count'[f].value = count[f].value
        /\ \A u \in Threads \ {t} : thr'[u] = thr[u]
    BY <1>8, EnterFacts
  <2>2. \/ /\ status' = status /\ thr'[t] = Idle
           /\ tick[t] <= count[AwaitsOn(t)].value
        \/ /\ status' = status /\ thr'[t].pc = "blocked" /\ thr'[t].ec = thr[t].ec
           /\ thr'[t].want = thr[t].want /\ thr'[t].alerted = thr[t].alerted
        \/ status' # "up" /\ thr'[t] = thr[t]
    BY <1>8, EnterFacts
  <2>3. CASE status' = status /\ thr'[t] = Idle /\ tick[t] <= count[AwaitsOn(t)].value
    <3>1. tick[t] <= count[M].value \/ at[t] # "locking"
      BY <2>3 DEF AwaitsOn
    <3> QED
      BY <1>4, <1>6, <2>1, <2>3, <3>1
  <2>4. CASE /\ thr'[t].pc = "blocked" /\ thr'[t].ec = thr[t].ec
             /\ thr'[t].want = thr[t].want /\ thr'[t].alerted = thr[t].alerted
    <3>1. UNCHANGED at
      BY <1>1, <2>4
    <3>2. AwaitsOn(t)' = AwaitsOn(t)
      BY <3>1 DEF AwaitsOn
    <3>3. Calling(t)'
      BY <1>1, <1>2, <2>1, <2>4, <3>1, <3>2, MutexConstants DEF Calling
    <3> QED
      BY <1>7, <2>1, <3>1, <3>3
  <2>5. CASE status' # "up" /\ thr'[t] = thr[t]
    <3>1. UNCHANGED at
      BY <1>1, <2>5
    <3>2. AwaitsOn(t)' = AwaitsOn(t)
      BY <3>1 DEF AwaitsOn
    <3>3. Calling(t)'
      BY <1>1, <1>2, <2>1, <2>5, <3>1, <3>2, MutexConstants DEF Calling
    <3> QED
      BY <1>7, <2>1, <3>1, <3>3
  <2> QED
    BY <2>2, <2>3, <2>4, <2>5
<1>9. CASE resume(t)
  <2>1. Live(thr[t].ec)
    BY <1>5 DEF MutexInv, Plain, Live
  <2>2. /\ thr[t].pc = "ready" /\ thr' = [thr EXCEPT ![t] = Idle]
        /\ UNCHANGED <<count, cs, timeq, ep, status>>
    BY <1>9, <2>1 DEF resume
  <2>3. Inv'
    BY <1>9, ResumeStep DEF MutexInv
  <2>4. thr'[t] = Idle /\ \A u \in Threads \ {t} : thr'[u] = thr[u]
    <3>1. thr \in [Threads -> ThreadType]
      BY ShapeFacts DEF MutexInv, Inv
    <3> QED
      BY <2>2, <3>1
  <2>5. tick[t] <= count[M].value \/ at[t] # "locking"
    BY <1>2, <2>2 DEF Calling
  <2> QED
    BY <1>4, <1>6, <2>2, <2>3, <2>4, <2>5
<1> QED
  BY <1>1, <1>8, <1>9

(* advance, as the other threads see it.                                   *)
LEMMA AdvanceSeen ==
    ASSUME HalfRange, MutexInv, NEW t \in Threads, NEW e \in {M, C}, NEW n \in Nat,
           n <= MaxValue, advance(t, e, n)
    PROVE  /\ Inv' /\ thr[t].pc = "idle" /\ thr'[t] = thr[t]
           /\ count'[e].value = count[e].value + n
           /\ \A f \in Counts : /\ count'[f].life = count[f].life
                                /\ count'[f].type = count[f].type
                                /\ f # e => count'[f].value = count[f].value
           /\ \A u \in Threads \ {t} : thr'[u] = thr[u] \/ LetGo(u)
           /\ \A u \in BlockedOn(e)' : thr[u].want > count'[e].value /\ thr'[u] = thr[u]
<1>1. e \in Counts /\ count[e].value \in Nat /\ count[e].value <= MaxValue
  BY MutexConstants, ClientFacts
<1>2. count[e].value + n < Word
  <2>1. \A x, y, z, w \in Nat : x <= z /\ y <= z /\ 2 * z < w => x + y < w
    OBVIOUS
  <2>2. Word \in Nat /\ MaxValue \in Nat /\ 2 * MaxValue < Word
    BY Constants DEF HalfRange
  <2> DEFINE c == count[e].value
  <2>3. c \in Nat /\ c <= MaxValue
    BY <1>1
  <2> HIDE DEF c
  <2>4. c + n < Word
    BY <2>1, <2>2, <2>3
  <2> QED
    BY <2>4 DEF c
<1>3. /\ Inv' /\ thr[t].pc = "idle"
      /\ count'[e].value = count[e].value + n
      /\ \A f \in Counts : /\ count'[f].life = count[f].life
                           /\ count'[f].type = count[f].type
                           /\ f # e => count'[f] = count[f]
      /\ \A u \in Threads :
            \/ thr'[u] = thr[u]
            \/ /\ u \in BlockedOn(e) /\ thr[u].want <= count'[e].value
               /\ thr'[u].pc = "ready" /\ thr'[u].ec = e /\ ~thr'[u].alerted
      /\ \A u \in BlockedOn(e)' : thr[u].want > count'[e].value /\ thr'[u] = thr[u]
  <2>1. Inv
    BY DEF MutexInv
  <2> QED
    BY <1>1, <1>2, <2>1, AdvanceFacts
<1>4. thr'[t] = thr[t]
  BY <1>3 DEF BlockedOn
<1>5. \A u \in Threads \ {t} : thr'[u] = thr[u] \/ LetGo(u)
  <2>1. e = C => e # M
    BY MutexConstants
  <2> QED
    BY <1>3, <2>1 DEF LetGo, BlockedOn
<1> QED
  BY <1>3, <1>4, <1>5

(* unlock, and the second step of wait.                                    *)
LEMMA UnlockStep ==
    ASSUME HalfRange, MutexInv, NEW t \in Threads, unlock(t) \/ (at[t] = "leaving" /\ wait(t))
    PROVE  MutexInv'
<1>1. PICK place \in {"out", "waiting"} :
         /\ advance(t, M, 1) /\ at' = [at EXCEPT ![t] = place]
         /\ at[t] = IF place = "out" THEN "in" ELSE "leaving"
         /\ tick' = IF place = "out" THEN [tick EXCEPT ![t] = 0] ELSE tick
         /\ UNCHANGED <<peeked, seq>>
  BY DEF unlock, wait, Goto
<1>2. M \in {M, C} /\ 1 \in Nat /\ 1 <= MaxValue
  BY MutexConstants, Constants
<1>3. /\ Inv' /\ thr[t].pc = "idle" /\ thr'[t] = thr[t]
      /\ count'[M].value = count[M].value + 1
      /\ \A f \in Counts : /\ count'[f].life = count[f].life
                           /\ count'[f].type = count[f].type
                           /\ f # M => count'[f].value = count[f].value
      /\ \A u \in Threads \ {t} : thr'[u] = thr[u] \/ LetGo(u)
  BY <1>1, <1>2, AdvanceSeen
<1>4. /\ at \in [Threads -> Places] /\ tick \in [Threads -> Nat] /\ seq \in [{M, C} -> Nat]
      /\ peeked \in [Threads -> [t : Nat, f : Nat]]
      /\ seq[M] <= MaxLocks /\ seq[C] <= MaxWaits
  BY DEF MutexInv, ClientShape
<1>5. /\ at' \in [Threads -> Places] /\ at'[t] = place /\ tick' \in [Threads -> Nat]
      /\ \A u \in Threads \ {t} : at'[u] = at[u] /\ tick'[u] = tick[u]
      /\ place = "waiting" => tick'[t] = tick[t]
  BY <1>1, <1>4 DEF Places
<1>6. ClientShape'
  BY <1>1, <1>4, <1>5 DEF ClientShape
<1>7. /\ count[M].value \in Nat /\ count[C].value \in Nat /\ C \in Counts /\ M # C
      /\ seq[M] \in Nat /\ seq[C] \in Nat
  BY ClientFacts, MutexConstants
<1>8. /\ count[M].value <= count'[M].value /\ count[C].value <= count'[C].value
      /\ seq[M] <= seq'[M] /\ seq[C] <= seq'[C]
  BY <1>1, <1>3, <1>7
<1>9. Calling(t)' /\ Peeks(t)'
  <2>1. Calling(t) /\ Peeks(t)
    BY DEF MutexInv, ClientsFit
  <2> QED
    BY <1>1, <1>3, <1>5, <2>1 DEF Calling, Peeks
<1>10. Plain' /\ ClientsFit'
  BY <1>1, <1>3, <1>5, <1>6, <1>8, <1>9, OthersFit
<1>11. Held' /\ Returned'
  BY <1>1, <1>3, <1>5, HeldReturned
<1> QED
  BY <1>3, <1>6, <1>10, <1>11 DEF MutexInv

LEMMA BroadcastNumbers ==
    ASSUME NEW a \in Nat, NEW f \in Nat
    PROVE  BroadcastBy(a, f) \in Nat /\ BroadcastBy(a, f) <= a /\ BroadcastBy(a, f) + f + 1 >= a
BY DEF BroadcastBy

(* signal, and the last step of broadcast.                                 *)
LEMMA AdvanceConditionStep ==
    ASSUME HalfRange, MutexInv, NEW t \in Threads, NEW n \in Nat, n <= MaxValue,
           NEW p \in [t : Nat, f : Nat], p.t <= MaxWaits,
           at[t] \in {"in", "read_count"}, advance(t, C, n),
           at' = [at EXCEPT ![t] = "in"], peeked' = [peeked EXCEPT ![t] = p],
           UNCHANGED <<tick, seq>>
    PROVE  MutexInv'
<1>1. C \in {M, C}
  OBVIOUS
<1>2. /\ Inv' /\ thr[t].pc = "idle" /\ thr'[t] = thr[t]
      /\ count'[C].value = count[C].value + n
      /\ \A f \in Counts : /\ count'[f].life = count[f].life
                           /\ count'[f].type = count[f].type
                           /\ f # C => count'[f].value = count[f].value
      /\ \A u \in Threads \ {t} : thr'[u] = thr[u] \/ LetGo(u)
  BY <1>1, AdvanceSeen
<1>3. /\ at \in [Threads -> Places] /\ tick \in [Threads -> Nat] /\ seq \in [{M, C} -> Nat]
      /\ peeked \in [Threads -> [t : Nat, f : Nat]]
      /\ seq[M] <= MaxLocks /\ seq[C] <= MaxWaits
  BY DEF MutexInv, ClientShape
<1>4. /\ at' \in [Threads -> Places] /\ at'[t] = "in"
      /\ peeked' \in [Threads -> [t : Nat, f : Nat]] /\ peeked'[t] = p
      /\ \A u \in Threads \ {t} : at'[u] = at[u] /\ peeked'[u] = peeked[u]
  BY <1>3 DEF Places
<1>5. ClientShape'
  BY <1>3, <1>4 DEF ClientShape
<1>6. /\ count[M].value \in Nat /\ count[C].value \in Nat /\ M \in Counts /\ M # C
      /\ seq[M] \in Nat /\ seq[C] \in Nat
  BY ClientFacts, MutexConstants
<1>7. /\ count[M].value <= count'[M].value /\ count[C].value <= count'[C].value
      /\ seq[M] <= seq'[M] /\ seq[C] <= seq'[C]
  BY <1>2, <1>6
<1>8. Calling(t)' /\ Peeks(t)'
  <2>1. Calling(t)
    BY DEF MutexInv, ClientsFit
  <2> QED
    BY <1>2, <1>4, <2>1 DEF Calling, Peeks
<1>9. Plain' /\ ClientsFit'
  BY <1>2, <1>4, <1>5, <1>7, <1>8, OthersFit
<1>10. Held' /\ Returned'
  <2>1. (t \in Holding)' <=> t \in Holding
    BY <1>4 DEF Holding
  <2> QED
    BY <1>2, <1>4, <1>6, <2>1, HeldKept
<1> QED
  BY <1>2, <1>5, <1>9, <1>10 DEF MutexInv

LEMMA SignalStep ==
    ASSUME HalfRange, MutexInv, NEW t \in Threads, signal(t)
    PROVE  MutexInv'
<1>1. at[t] = "in" /\ advance(t, C, 1) /\ UNCHANGED clientVars
  BY DEF signal
<1>2. /\ UNCHANGED <<at, peeked, tick, seq>>
      /\ at' = [at EXCEPT ![t] = "in"] /\ peeked' = [peeked EXCEPT ![t] = peeked[t]]
  BY <1>1 DEF clientVars, MutexInv, ClientShape
<1>3. peeked[t] \in [t : Nat, f : Nat] /\ peeked[t].t <= MaxWaits
  BY ClientFacts DEF MutexInv, ClientsFit, Peeks
<1>4. 1 \in Nat /\ 1 <= MaxValue
  BY MutexConstants, Constants
<1> QED
  BY <1>1, <1>2, <1>3, <1>4, AdvanceConditionStep

LEMMA BroadcastStep ==
    ASSUME HalfRange, MutexInv, NEW t \in Threads, broadcast(t)
    PROVE  MutexInv'
<1>1. /\ peeked \in [Threads -> [t : Nat, f : Nat]] /\ at \in [Threads -> Places]
      /\ peeked[t] \in [t : Nat, f : Nat] /\ Calling(t) /\ Peeks(t)
      /\ seq[C] \in Nat /\ seq[C] <= MaxWaits /\ MaxWaits \in Nat /\ 4 * MaxWaits <= MaxValue
      /\ count[C].value \in Nat /\ MaxValue \in Nat
  BY ClientFacts, MutexConstants, Constants DEF MutexInv, ClientShape, ClientsFit
<1>2. ASSUME at[t] = "in", Calls(t), peeked' = [peeked EXCEPT ![t].t = seq[C]],
             Goto(t, "read_seq"), UNCHANGED <<vars, tick, seq>>
      PROVE  MutexInv'
  <2> DEFINE p == [peeked[t] EXCEPT !.t = seq[C]]
  <2>1. p \in [t : Nat, f : Nat] /\ p.t = seq[C] /\ peeked' = [peeked EXCEPT ![t] = p]
    BY <1>1, <1>2
  <2> HIDE DEF p
  <2>2. UNCHANGED <<count, thr, cs, timeq, ep, status>> /\ thr[t].pc = "idle"
    BY <1>2 DEF vars, Calls
  <2>3. Inv'
    BY <1>2, StutterKeeps DEF MutexInv
  <2>4. /\ at' = [at EXCEPT ![t] = "read_seq"] /\ at'[t] = "read_seq" /\ peeked'[t] = p
    BY <1>1, <1>2, <2>1 DEF Goto
  <2>5. Calling(t)' /\ Peeks(t)'
    BY <1>1, <1>2, <2>1, <2>2, <2>4 DEF Calling, Peeks
  <2>6. "read_seq" \in Places /\ t \in Holding
    BY <1>2 DEF Places, Holding
  <2> QED
    BY <1>2, <2>1, <2>2, <2>3, <2>4, <2>5, <2>6, MoveStep
<1>3. ASSUME at[t] = "read_seq", Calls(t), peeked' = [peeked EXCEPT ![t].f = count[C].value],
             Goto(t, "read_count"), UNCHANGED <<vars, tick, seq>>
      PROVE  MutexInv'
  <2> DEFINE p == [peeked[t] EXCEPT !.f = count[C].value]
  <2>1. /\ p \in [t : Nat, f : Nat] /\ p.f = count[C].value /\ p.t = peeked[t].t
        /\ peeked' = [peeked EXCEPT ![t] = p]
    BY <1>1, <1>3
  <2> HIDE DEF p
  <2>2. UNCHANGED <<count, thr, cs, timeq, ep, status>> /\ thr[t].pc = "idle"
    BY <1>3 DEF vars, Calls
  <2>3. Inv'
    BY <1>3, StutterKeeps DEF MutexInv
  <2>4. /\ at' = [at EXCEPT ![t] = "read_count"] /\ at'[t] = "read_count" /\ peeked'[t] = p
    BY <1>1, <1>3, <2>1 DEF Goto
  <2>5. Calling(t)' /\ Peeks(t)'
    BY <1>1, <1>3, <2>1, <2>2, <2>4 DEF Calling, Peeks
  <2>6. "read_count" \in Places /\ t \in Holding
    BY <1>3 DEF Places, Holding
  <2> QED
    BY <1>3, <2>1, <2>2, <2>3, <2>4, <2>5, <2>6, MoveStep
<1>4. ASSUME at[t] = "read_count", advance(t, C, BroadcastBy(peeked[t].t, peeked[t].f)),
             Goto(t, "in"), peeked' = [peeked EXCEPT ![t] = [t |-> 0, f |-> 0]],
             UNCHANGED <<tick, seq>>
      PROVE  MutexInv'
  <2>1. PICK n \in Nat : n = BroadcastBy(peeked[t].t, peeked[t].f) /\ n <= peeked[t].t
    BY <1>1, BroadcastNumbers
  <2>2. n <= MaxValue
    BY <1>1, <2>1 DEF Peeks
  <2> DEFINE p == [t |-> 0, f |-> 0]
  <2>3a. p \in [t : Nat, f : Nat] /\ p.t = 0
    OBVIOUS
  <2>3b. peeked' = [peeked EXCEPT ![t] = p]
    BY <1>4
  <2> HIDE DEF p
  <2>3. p \in [t : Nat, f : Nat] /\ p.t <= MaxWaits
    BY <1>1, <2>3a, MutexConstants, Constants
  <2>4. peeked' = [peeked EXCEPT ![t] = p] /\ at' = [at EXCEPT ![t] = "in"]
    BY <1>4, <2>3b DEF Goto
  <2> QED
    BY <1>4, <2>1, <2>2, <2>3, <2>4, AdvanceConditionStep
<1> QED
  BY <1>2, <1>3, <1>4 DEF broadcast

LEMMA ConstructedInv == Constructed => MutexInv
<1> SUFFICES ASSUME Constructed
             PROVE  MutexInv
  OBVIOUS
<1>1. /\ count = [e \in Counts |-> [NewCount EXCEPT !.value = StartValue(e)]]
      /\ thr = [t \in Threads |-> Idle] /\ cs = None /\ timeq = {}
      /\ ep = [p \in Endpoints |-> Endpoint("local")] /\ status = "up"
      /\ at = [t \in Threads |-> "out"] /\ tick = [t \in Threads |-> 0]
      /\ peeked = [t \in Threads |-> [t |-> 0, f |-> 0]] /\ seq = [e \in {M, C} |-> 0]
  BY DEF Constructed
<1>2. \A e \in Counts : /\ count[e] \in CountType /\ count[e].value = StartValue(e)
                        /\ count[e].queue = <<>> /\ count[e].life = "live"
                        /\ count[e].type = "none"
  <2>1. \A e \in Counts : StartValue(e) \in Bounded
    BY MutexConstants, Constants DEF StartValue, Bounded
  <2>2. \A e \in Counts : count[e] = [NewCount EXCEPT !.value = StartValue(e)]
    BY <1>1
  <2>3. <<>> \in Seq(Threads)
    OBVIOUS
  <2> QED
    BY <2>1, <2>2, <2>3 DEF NewCount, CountType, AllEndpoints, Types
<1>3. Shape
  <2>1. /\ count \in [Counts -> CountType] /\ thr \in [Threads -> ThreadType]
        /\ ep \in [Endpoints -> EndpointType]
    BY <1>1, <1>2, Records
  <2> QED
    BY <1>1, <2>1, ShapeFacts
<1>4. \A e : BlockedOn(e) = {}
  BY <1>1, Records DEF BlockedOn
<1>5. Queued
  BY <1>2, <1>4, EmptyQueue DEF Queued
<1>6. CountsFit /\ ThreadsFit
  BY <1>1, <1>2, Records DEF CountsFit, ThreadsFit, Entering, InLoop, Closes, Live
<1>7. WaitsRight /\ Acknowledges
  BY <1>4 DEF WaitsRight, Acknowledges
<1>8. Inv
  BY <1>3, <1>5, <1>6, <1>7 DEF Inv
<1>9. ClientShape
  BY <1>1, MutexConstants DEF ClientShape, Places
<1>10. /\ seq[M] = 0 /\ seq[C] = 0 /\ count[M].value = 1 /\ count[C].value = 0
  BY <1>1, <1>2, MutexConstants DEF StartValue
<1>11. Plain
  BY <1>2 DEF Plain
<1>12. ClientsFit
  BY <1>1, MutexConstants DEF ClientsFit, Calling, Peeks, Idle
<1>13. Held
  BY <1>10 DEF Held
<1>14. Returned
  <2>1. Holding = {}
    BY <1>1 DEF Holding
  <2>2. Cardinality(Holding) = 0
    BY <2>1, FS_EmptySet
  <2> QED
    BY <1>10, <2>2 DEF Returned
<1> QED
  BY <1>8, <1>9, <1>11, <1>12, <1>13, <1>14 DEF MutexInv

LEMMA MutexStutters ==
    ASSUME MutexInv, UNCHANGED allVars
    PROVE  MutexInv'
<1>1. UNCHANGED <<count, thr, cs, timeq, ep, status, at, tick, peeked, seq>> /\ UNCHANGED vars
  BY DEF allVars, vars, clientVars
<1>2. Inv'
  BY <1>1, StutterKeeps DEF MutexInv
<1>3. ClientShape' /\ Plain' /\ ClientsFit'
  BY <1>1 DEF MutexInv, ClientShape, Plain, ClientsFit, Calling, Peeks, AwaitsOn
<1>4. Holding' = Holding
  BY <1>1 DEF Holding
<1>5. Held' /\ Returned'
  BY <1>1, <1>4 DEF MutexInv, Held, Returned
<1> QED
  BY <1>2, <1>3, <1>5 DEF MutexInv

LEMMA MutexInvHolds ==
    ASSUME HalfRange
    PROVE  SpecMutex => []MutexInv
<1>1. ASSUME MutexInv, NextMutex
      PROVE  MutexInv'
  <2>1. ASSUME NEW t \in Threads, wait(t)
        PROVE  MutexInv'
    <3>1. CASE at[t] = "leaving"
      BY <1>1, <2>1, <3>1, UnlockStep
    <3>2. CASE at[t] # "leaving"
      BY <1>1, <2>1, <3>2, WaitTicketStep DEF wait
    <3> QED
      BY <3>1, <3>2
  <2> QED
    BY <1>1, <2>1, StartAwaitStep, GoOnStep, LockStep, UnlockStep, SignalStep, BroadcastStep
       DEF NextMutex, NextMutexNoWake
<1>2. MutexInv /\ [NextMutex]_allVars => MutexInv'
  BY <1>1, MutexStutters
<1> QED
  BY <1>2, ConstructedInv, PTL DEF SpecMutex

(* However lock, unlock, wait and the operations of the condition          *)
(* interleave, at most two threads are between lock and unlock (the        *)
(* constructor lets two in), and never more than tickets are out.          *)
THEOREM MutexAdmitsTwo ==
    ASSUME HalfRange
    PROVE  SpecMutex => []AtMostTwoInside
<1>1. MutexInv => AtMostTwoInside
  <2> SUFFICES ASSUME MutexInv
               PROVE  AtMostTwoInside
    OBVIOUS
  <2> DEFINE L == {t \in Threads : at[t] = "locking"}
             v == count[M].value
             s == seq[M]
             h == Cardinality(Holding)
             i == Cardinality(Inside)
             l == Cardinality(L)
  <2>1. v \in Nat /\ s \in Nat /\ h \in Nat /\ IsFiniteSet(Holding) /\ h + v = s + 1
    BY ClientFacts, MutexConstants DEF MutexInv, Returned
  <2>2. IsFiniteSet(L) /\ l \in Nat /\ IsFiniteSet(Inside) /\ i \in Nat
    <3>1. L \in SUBSET Threads /\ Inside \in SUBSET Threads
      BY DEF Inside
    <3> QED
      BY <3>1, MutexConstants, FS_Subset, FS_CardinalityType
  <2>3. h = i + l
    <3>1. Holding = Inside \cup L /\ Inside \cap L = {}
      BY DEF Holding, Inside
    <3>2. Cardinality(Inside \cup L) = i + l - Cardinality(Inside \cap L)
      BY <2>2, FS_Union
    <3>3. Cardinality(Inside \cap L) = 0
      BY <3>1, FS_EmptySet
    <3>4. Cardinality(Inside \cup L) = i + l - 0
      BY <3>2, <3>3
    <3>5. h = Cardinality(Inside \cup L)
      BY <3>1
    <3> HIDE DEF h, i, l, L
    <3> QED
      BY <2>2, <3>4, <3>5
  <2>4. s <= v + 1 \/ l >= s - 1 - v
    <3>1. SUFFICES ASSUME s > v + 1
                   PROVE  l >= s - 1 - v
      BY <2>1
    <3> DEFINE K == (v + 1) .. (s - 1)
               T == {tick[t] : t \in L}
    <3>2. K \subseteq T
      <4>1. \A k \in K : k \in Nat /\ v < k /\ k < s
        BY <2>1
      <4> QED
        BY <4>1 DEF MutexInv, Held
    <3>3. IsFiniteSet(T) /\ Cardinality(T) <= l
      <4> DEFINE g == [t \in L |-> tick[t]]
      <4>1. g \in Surjection(L, T)
        BY DEF Surjection
      <4> HIDE DEF g, T, L
      <4> QED
        BY <2>2, <4>1, FS_Surjection DEF l
    <3>4. IsFiniteSet(K) /\ Cardinality(K) = s - 1 - v
      <4>1. v + 1 \in Int /\ s - 1 \in Int
        BY <2>1
      <4>2. IsFiniteSet(K) /\ Cardinality(K) = IF v + 1 > s - 1 THEN 0 ELSE (s - 1) - (v + 1) + 1
        BY <4>1, FS_Interval
      <4> HIDE DEF v, s
      <4> QED
        BY <2>1, <3>1, <4>2
    <3>5. Cardinality(K) <= Cardinality(T)
      <4> HIDE DEF K, T
      <4> QED
        BY <3>2, <3>3, FS_Subset
    <3>6. Cardinality(T) \in Nat
      BY <3>3, FS_CardinalityType
    <3> HIDE DEF K, T, v, s, l
    <3> QED
      BY <2>1, <2>2, <3>3, <3>4, <3>5, <3>6
  <2>5. i <= 2 /\ i <= (s + 1) - v
    <3> HIDE DEF v, s, h, i, l
    <3> QED
      BY <2>1, <2>2, <2>3, <2>4
  <2> QED
    BY <2>5 DEF AtMostTwoInside
<1> QED
  BY <1>1, MutexInvHolds, PTL

(* Who ends a broadcast has done its last step.                            *)
LEMMA Broadcasts ==
    ASSUME MutexInv, NextMutex, NEW t \in Threads, at[t] = "read_count", at'[t] = "in"
    PROVE  broadcast(t)
<1>1. thr[t].pc = "idle"
  BY DEF MutexInv, ClientsFit, Calling
<1>2. PICK w \in Threads : \/ start_await(w) \/ go_on(w) \/ wake(w)
                           \/ lock(w) \/ unlock(w)
                           \/ wait(w) \/ signal(w) \/ broadcast(w)
  BY DEF NextMutex, NextMutexNoWake
<1>3. w = t
  <2>1. at \in [Threads -> Places]
    BY DEF MutexInv, ClientShape
  <2> SUFFICES ASSUME w # t
               PROVE  at'[t] = at[t]
    OBVIOUS
  <2> QED
    BY <1>2, <2>1 DEF start_await, go_on, wake, Returns, lock, unlock, wait, signal, broadcast,
       Goto, clientVars
<1> QED
  BY <1>1, <1>2, <1>3 DEF start_await, go_on, wake, enter, resume, lock, unlock, wait, signal

(* A broadcast leaves nobody in the queue of the condition who had a       *)
(* ticket when it read the sequencer, although it reads sequencer and      *)
(* count at different times and others signal, broadcast and wait in       *)
(* between.                                                                *)
THEOREM BroadcastsWakeAll ==
    ASSUME HalfRange
    PROVE  SpecMutex => BroadcastWakesAll
<1>1. ASSUME MutexInv, NextMutex, NEW t \in Threads, at[t] = "read_count", at'[t] = "in",
             NEW u \in Threads, at[u] = "waiting", tick[u] < peeked[t].t, MutexInv'
      PROVE  u \notin ToSet(count'[C].queue)
  <2>1. broadcast(t)
    BY <1>1, Broadcasts
  <2>2. advance(t, C, BroadcastBy(peeked[t].t, peeked[t].f))
    BY <1>1, <2>1 DEF broadcast
  <2>3. /\ peeked[t].t \in Nat /\ peeked[t].f \in Nat /\ tick[u] \in Nat
        /\ count[C].value \in Nat /\ peeked[t].f <= count[C].value /\ peeked[t].t <= MaxWaits
        /\ MaxWaits \in Nat /\ MaxValue \in Nat /\ 4 * MaxWaits <= MaxValue
    BY <1>1, ClientFacts, MutexConstants, Constants DEF MutexInv, ClientsFit, Peeks
  <2>4. PICK n \in Nat : /\ n = BroadcastBy(peeked[t].t, peeked[t].f)
                         /\ n <= peeked[t].t /\ n + peeked[t].f + 1 >= peeked[t].t
    BY <2>3, BroadcastNumbers
  <2>5. n <= MaxValue /\ advance(t, C, n) /\ C \in {M, C}
    BY <2>2, <2>3, <2>4
  <2>6. /\ count'[C].value = count[C].value + n
        /\ \A o \in BlockedOn(C)' : thr[o].want > count'[C].value /\ thr'[o] = thr[o]
    BY <1>1, <2>4, <2>5, AdvanceSeen
  <2>7. SUFFICES ASSUME u \in ToSet(count'[C].queue)
                  PROVE  FALSE
    OBVIOUS
  <2>8. u \in BlockedOn(C)'
    <3>1. Queue(count'[C].queue, thr', BlockedOn(C)')
      BY <1>1, MutexConstants DEF MutexInv, Inv, Queued
    <3> QED
      BY <2>7, <3>1 DEF Queue
  <2>9. thr[u].pc = "blocked" /\ thr[u].want > count[C].value + n
    BY <2>6, <2>8 DEF BlockedOn
  <2>10. thr[u].want = tick[u]
    BY <1>1, <2>9 DEF MutexInv, ClientsFit, Calling
  <2> DEFINE a == peeked[t].t
             f == peeked[t].f
             c == count[C].value
             k == tick[u]
  <2>11. a \in Nat /\ f \in Nat /\ c \in Nat /\ k \in Nat /\ f <= c /\ n + f + 1 >= a
         /\ k < a /\ k > c + n
    BY <1>1, <2>3, <2>4, <2>9, <2>10
  <2> HIDE DEF a, f, c, k
  <2> QED
    BY <2>11
<1>2. MutexInv /\ MutexInv' /\ [NextMutex]_allVars =>
        [\A t \in Threads :
           at[t] = "read_count" /\ at'[t] = "in" =>
               \A u \in Threads : at[u] = "waiting" /\ tick[u] < peeked[t].t
                                      => u \notin ToSet(count'[C].queue)]_allVars
  BY <1>1
<1> QED
  BY <1>2, MutexInvHolds, PTL DEF SpecMutex, BroadcastWakesAll

(* A broadcast reaches everybody who had a ticket when it read the         *)
(* sequencer, also who has not begun to wait yet.                          *)
THEOREM BroadcastsReachAll ==
    ASSUME HalfRange
    PROVE  SpecMutex => BroadcastReachesAll
<1>1. ASSUME MutexInv, NextMutex, NEW t \in Threads, at[t] = "read_count", at'[t] = "in",
             NEW u \in Threads, tick[u] < peeked[t].t, MutexInv'
      PROVE  EC_LE(tick[u], count'[C].value)
  <2>1. broadcast(t)
    BY <1>1, Broadcasts
  <2>2. advance(t, C, BroadcastBy(peeked[t].t, peeked[t].f))
    BY <1>1, <2>1 DEF broadcast
  <2>3. /\ peeked[t].t \in Nat /\ peeked[t].f \in Nat /\ tick[u] \in Nat
        /\ count[C].value \in Nat /\ peeked[t].f <= count[C].value /\ peeked[t].t <= MaxWaits
        /\ MaxWaits \in Nat /\ MaxValue \in Nat /\ 4 * MaxWaits <= MaxValue
    BY <1>1, ClientFacts, MutexConstants, Constants DEF MutexInv, ClientsFit, Peeks
  <2>4. PICK n \in Nat : /\ n = BroadcastBy(peeked[t].t, peeked[t].f)
                         /\ n <= peeked[t].t /\ n + peeked[t].f + 1 >= peeked[t].t
    BY <2>3, BroadcastNumbers
  <2>5. n <= MaxValue /\ advance(t, C, n) /\ C \in {M, C}
    BY <2>2, <2>3, <2>4
  <2>6. count'[C].value = count[C].value + n
    BY <1>1, <2>4, <2>5, AdvanceSeen
  <2>7. \A a, f, c, k \in Nat : f <= c /\ n + f + 1 >= a /\ k < a => k <= c + n
    BY <2>4
  <2>8. tick[u] <= count'[C].value
    BY <1>1, <2>3, <2>4, <2>6, <2>7
  <2>9. tick[u] \in 0 .. MaxValue /\ count'[C].value \in 0 .. MaxValue
    <3>1. count'[C].value \in 0 .. MaxValue
      BY <1>1, MutexConstants DEF MutexInv, Inv, Shape, Bounded
    <3> QED
      BY <1>1, <2>3, <3>1
  <2> QED
    BY <2>8, <2>9, Comparisons
<1>2. MutexInv /\ MutexInv' /\ [NextMutex]_allVars =>
        [\A t \in Threads :
           at[t] = "read_count" /\ at'[t] = "in" =>
               \A u \in Threads :
                   at[u] \in {"leaving", "waiting"} /\ tick[u] < peeked[t].t
                       => EC_LE(tick[u], count'[C].value)]_allVars
  BY <1>1
<1> QED
  BY <1>2, MutexInvHolds, PTL DEF SpecMutex, BroadcastReachesAll

-----------------------------------------------------------------------------
(* No two lockers have the same ticket.                                    *)
OneTicketEach ==
    \A t, u \in Threads : at[t] = "locking" /\ at[u] = "locking" /\ tick[t] = tick[u] => t = u

(* Thread t comes to lock by the next ticket, or has not moved.            *)
Locks(t) ==
    at'[t] = "locking" => \/ at[t] = "locking" /\ tick'[t] = tick[t]
                          \/ tick'[t] = seq[M]

LEMMA TicketsTaken ==
    ASSUME MutexInv, NextMutex
    PROVE  \E t \in Threads : /\ Locks(t)
                             /\ \A u \in Threads \ {t} : at'[u] = at[u] /\ tick'[u] = tick[u]
<1>1. at \in [Threads -> Places] /\ tick \in [Threads -> Nat]
  BY DEF MutexInv, ClientShape
<1>2. PICK t \in Threads : \/ start_await(t) \/ go_on(t) \/ wake(t)
                           \/ lock(t) \/ unlock(t)
                           \/ wait(t) \/ signal(t) \/ broadcast(t)
  BY DEF NextMutex, NextMutexNoWake
<1>3. CASE start_await(t) \/ go_on(t) \/ wake(t)
  <2>1. UNCHANGED tick /\ (UNCHANGED at \/ at' = [at EXCEPT ![t] = Awaited(t)])
    BY <1>3 DEF start_await, go_on, wake, Returns, Goto
  <2>2. Awaited(t) # "locking"
    BY DEF Awaited
  <2> QED
    BY <1>1, <2>1, <2>2 DEF Locks
<1>4. CASE lock(t)
  BY <1>1, <1>4 DEF lock, ticket, Goto, Locks
<1>5. CASE unlock(t)
  BY <1>1, <1>5 DEF unlock, Goto, Locks
<1>6. CASE wait(t)
  BY <1>1, <1>6 DEF wait, ticket, Goto, Locks
<1>7. CASE signal(t)
  BY <1>1, <1>7 DEF signal, clientVars, Locks
<1>8. CASE broadcast(t)
  BY <1>1, <1>8 DEF broadcast, Goto, Locks
<1> QED
  BY <1>2, <1>3, <1>4, <1>5, <1>6, <1>7, <1>8

LEMMA TicketsApart ==
    ASSUME MutexInv, OneTicketEach, NextMutex
    PROVE  OneTicketEach'
<1>1. PICK t \in Threads : /\ Locks(t)
                           /\ \A u \in Threads \ {t} : at'[u] = at[u] /\ tick'[u] = tick[u]
  BY TicketsTaken
<1>2. \A u \in Threads : at[u] = "locking" => tick[u] # seq[M]
  <2>1. \A u \in Threads : at[u] = "locking" => tick[u] < seq[M]
    BY DEF MutexInv, ClientsFit, Calling
  <2>2. seq[M] \in Nat /\ \A u \in Threads : tick[u] \in Nat
    BY ClientFacts
  <2> QED
    BY <2>1, <2>2
<1> QED
  BY <1>1, <1>2 DEF OneTicketEach, Locks

(* While a locker's turn has not come somebody before it holds the mutex   *)
(* or may take it, for any number of threads.  The lockers whose turn has  *)
(* not come have different tickets above the count and below the           *)
(* sequencer; there are two more tickets to return than that.              *)
THEOREM TurnsAlwaysCome ==
    ASSUME HalfRange
    PROVE  SpecMutex => []TurnsCome
<1>1. Constructed => OneTicketEach
  BY DEF Constructed, OneTicketEach
<1>2. MutexInv /\ OneTicketEach /\ [NextMutex]_allVars => OneTicketEach'
  <2>1. OneTicketEach /\ UNCHANGED allVars => OneTicketEach'
    BY DEF OneTicketEach, allVars, clientVars
  <2> QED
    BY <2>1, TicketsApart
<1>3. MutexInv /\ OneTicketEach => TurnsCome
  <2> SUFFICES ASSUME MutexInv, OneTicketEach, NEW t \in Threads, at[t] = "locking",
                      EC_GT(tick[t], count[M].value),
                      \A u \in Threads : /\ u \notin Inside
                                         /\ at[u] = "locking"
                                                => ~EC_LE(tick[u], count[M].value)
               PROVE  FALSE
    BY DEF TurnsCome
  <2> DEFINE v == count[M].value
             s == seq[M]
             K == (v + 1) .. (s - 1)
  <2>1. v \in Nat /\ s \in Nat /\ v <= MaxValue /\ s <= MaxValue /\ MaxValue \in Nat
        /\ IsFiniteSet(Holding) /\ Cardinality(Holding) \in Nat
        /\ Cardinality(Holding) + v = s + 1
    BY ClientFacts, MutexConstants, Constants DEF MutexInv, Returned
  <2>2. \A u \in Holding : u \in Threads /\ at[u] = "locking"
    BY DEF Holding, Inside
  <2>3. \A u \in Holding : tick[u] \in Nat /\ tick[u] < s
    BY <2>2, ClientFacts DEF MutexInv, ClientsFit, Calling
  <2>4. \A u \in Holding : tick[u] > v
    <3>1. TAKE u \in Holding
    <3>2. tick[u] \in 0 .. MaxValue /\ v \in 0 .. MaxValue
      <4> HIDE DEF v, s
      <4> QED
        BY <2>1, <2>3
    <3>3. ~EC_LE(tick[u], v)
      BY <2>2
    <3> HIDE DEF v
    <3> QED
      BY <3>2, <3>3, Comparisons
  <2>5. \A u \in Holding : tick[u] \in K
    <3> HIDE DEF v, s
    <3> QED
      BY <2>1, <2>3, <2>4
  <2>6. IsFiniteSet(K) /\ Cardinality(K) = IF v + 1 > s - 1 THEN 0 ELSE (s - 1) - (v + 1) + 1
    <3>1. v + 1 \in Int /\ s - 1 \in Int
      BY <2>1
    <3> QED
      BY <3>1, FS_Interval
  <2>7. Cardinality(Holding) <= Cardinality(K)
    <3> DEFINE g == [u \in Holding |-> tick[u]]
    <3>1. g \in Injection(Holding, K)
      <4>1. \A u, w \in Holding : tick[u] = tick[w] => u = w
        BY <2>2 DEF OneTicketEach
      <4> HIDE DEF K, Holding
      <4> QED
        BY <2>5, <4>1 DEF Injection, IsInjective
    <3> HIDE DEF g, K
    <3> QED
      BY <2>6, <3>1, FS_Injection
  <2>8. t \in Holding
    BY DEF Holding
  <2>9. tick[t] \in Nat /\ v < tick[t] /\ tick[t] < s
    BY <2>3, <2>4, <2>8
  <2> HIDE DEF v, s, K
  <2>10. Cardinality(K) = (s - 1) - (v + 1) + 1
    BY <2>1, <2>6, <2>9
  <2> QED
    BY <2>1, <2>7, <2>10
<1> QED
  BY <1>1, <1>2, <1>3, MutexInvHolds, PTL DEF SpecMutex

(* With the list as it is no locker and no waiter is ever woken: what      *)
(* holds of SpecMutexNoWake holds of the mutex and the condition.          *)
THEOREM NoLockerIsWoken ==
    ASSUME HalfRange, ~CyclicNext
    PROVE  SpecMutex => SpecMutexNoWake
<1>1. Constructed => Awake
  BY DEF Constructed, Awake, Idle
<1>2. ASSUME MutexInv, Awake, NextMutexNoWake
      PROVE  Awake'
  <2>0. Inv /\ thr \in [Threads -> ThreadType]
    BY <1>2, ShapeFacts DEF MutexInv, Inv
  <2>1. ASSUME UNCHANGED vars
        PROVE  Awake'
    BY <1>2, <2>1 DEF Awake, vars
  <2>2. ASSUME NEW t \in Threads, NEW e \in Counts, NEW n \in Nat, advance(t, e, n)
        PROVE  Awake'
    <3> DEFINE v == (count[e].value + n) % Word
    <3>1. v \in Bounded
      <4>1. PICK k \in Nat : k = count[e].value + n
        BY <1>2, ClientFacts
      <4>2. k % Word \in Nat /\ k % Word <= MaxValue
        BY <2>2, <4>1, Constants DEF advance
      <4> QED
        BY <4>1, <4>2, Constants DEF Bounded
    <3>2. thr' = Woken(e, v)
      BY <2>2 DEF advance
    <3> HIDE DEF v
    <3>3. \A u \in Threads : thr'[u] = IF u \in BlockedOn(e) /\ thr[u].want <= v
                                       THEN WokenUp(e) ELSE thr[u]
      <4>1. \A u \in Threads : Woken(e, v)[u] = IF u \in BlockedOn(e) /\ thr[u].want <= v
                                                THEN WokenUp(e) ELSE thr[u]
        BY <2>0, <3>1, WakeUps
      <4> QED
        BY <3>2, <4>1
    <3>4. BlockedOn(e) = {}
      BY <1>2 DEF Awake, BlockedOn
    <3> QED
      BY <1>2, <3>3, <3>4 DEF Awake
  <2>3. ASSUME NEW t \in Threads, NEW e \in Counts, NEW v, await(t, e, v, FALSE)
        PROVE  Awake'
    <3>1. (\A u \in Threads \ {t} : thr'[u] = thr[u]) /\ thr'[t].pc = "entering"
      BY <2>0, <2>3 DEF await, Idle
    <3> QED
      BY <1>2, <3>1 DEF Awake
  <2>4. ASSUME NEW t \in Threads, enter(t)
        PROVE  Awake'
    <3>1. NextAwait
      BY <2>4 DEF NextAwait, NextNoWake, InAwait
    <3> QED
      BY <1>2, <2>0, <3>1, AwakeKept
  <2>5. PICK t \in Threads : \/ start_await(t) \/ go_on(t)
                             \/ lock(t) \/ unlock(t)
                             \/ wait(t) \/ signal(t) \/ broadcast(t)
    BY <1>2 DEF NextMutexNoWake
  <2>6. M \in Counts /\ C \in Counts /\ AwaitsOn(t) \in Counts
    BY MutexConstants DEF AwaitsOn
  <2>7. CASE start_await(t)
    BY <2>1, <2>3, <2>6, <2>7 DEF start_await
  <2>8. CASE go_on(t)
    BY <2>4, <2>8 DEF go_on
  <2>9. CASE lock(t) \/ unlock(t) \/ wait(t)
    BY <2>1, <2>2, <2>6, <2>9 DEF lock, unlock, wait, ticket
  <2>10. CASE signal(t) \/ broadcast(t)
    <3>1. BroadcastBy(peeked[t].t, peeked[t].f) \in Nat
      BY <1>2, ClientFacts, BroadcastNumbers
    <3> QED
      BY <2>1, <2>2, <2>6, <2>10, <3>1 DEF signal, broadcast
  <2> QED
    BY <2>5, <2>7, <2>8, <2>9, <2>10
<1>3. Awake /\ [NextMutex]_allVars => [NextMutexNoWake]_allVars
  BY DEF Awake, NextMutex, wake, resume
<1>4. MutexInv /\ Awake /\ [NextMutexNoWake]_allVars => Awake'
  <2>1. Awake /\ UNCHANGED allVars => Awake'
    BY DEF Awake, allVars, vars
  <2> QED
    BY <1>2, <2>1
<1> QED
  BY <1>1, <1>3, <1>4, MutexInvHolds, PTL DEF SpecMutex, SpecMutexNoWake
=============================================================================
