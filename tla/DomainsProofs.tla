---------------------------- MODULE DomainsProofs ----------------------------
(***************************************************************************)
(* Theorems about ProtectionDomains: a retained domain stays, and rights   *)
(* are exact, for tables and identifiers of every size.                    *)
(***************************************************************************)
EXTENDS ProtectionDomains, FiniteSetTheorems, TLAPS

(* References to an index, as a set.                                       *)
RefsTo(i) == {r \in holds : r.id.idx = i}

(* An index at which all releases were of held references.                 *)
Matched(i) == \A d \in unmatched : d.idx # i

(* The count of a domain is at most the number of references to its index, *)
(* and fits into a word.  At a matched index it is that number, there are  *)
(* no references without a domain, so that the next domain there begins    *)
(* with the right count, and the domain of a fresh reference is the one    *)
(* its identifier names.                                                   *)
Counted ==
    /\ IsFiniteSet(holds)
    /\ \A i \in Idx : ~tbl[i] /\ Matched(i) => RefsTo(i) = {}
    /\ \A i \in Idx : tbl[i] /\ Matched(i) => info[i].refcnt = References(i)
    /\ \A i \in Idx : tbl[i] => info[i].refcnt <= References(i)
    /\ \A i \in Idx : References(i) <= MaxHolds
    /\ \A r \in holds : r.fresh /\ Matched(r.id.idx) => Names(r.id)

(* An index without a domain has no rights and no history of them.         *)
Cleared ==
    \A i \in Idx : ~tbl[i] => granted[i] = NoRights /\ ever[i] = {}

Inv == TypeOK /\ Counted /\ Cleared /\ RightsExact

-----------------------------------------------------------------------------
(* Facts about the constants and the number of references.                 *)

LEMMA Constants ==
    /\ PDIDX_MAX \in Nat /\ PDIDX_MAX > 0
    /\ Word \in Nat /\ Word > 0
    /\ SidMax \in Nat /\ MaxCreates \in Nat /\ MaxHolds \in Nat
    /\ MaxHolds < Word
    /\ RightsArgs \subseteq SUBSET Rights
BY DomainsAssumption

(* Adding or taking away one reference changes the count of its own index  *)
(* by one, and no other.                                                   *)
LEMMA CountAdded ==
    ASSUME IsFiniteSet(holds), NEW r, r \notin holds, holds' = holds \cup {r}
    PROVE  /\ IsFiniteSet(holds')
           /\ References(r.id.idx)' = References(r.id.idx) + 1
           /\ \A i : i # r.id.idx => RefsTo(i)' = RefsTo(i)
           /\ \A i : i # r.id.idx => References(i)' = References(i)
<1> DEFINE k == r.id.idx
<1>1. IsFiniteSet(holds')
  BY FS_AddElement
<1>2. IsFiniteSet(RefsTo(k))
  BY FS_Subset DEF RefsTo
<1>3. RefsTo(k)' = RefsTo(k) \cup {r} /\ r \notin RefsTo(k)
  BY DEF RefsTo
<1>4. Cardinality(RefsTo(k) \cup {r}) = Cardinality(RefsTo(k)) + 1
  BY <1>2, <1>3, FS_AddElement
<1>5. References(k)' = References(k) + 1
  <2>1. References(k) = Cardinality(RefsTo(k)) /\ References(k)' = Cardinality(RefsTo(k)')
    BY DEF References, RefsTo
  <2> QED
    BY <1>3, <1>4, <2>1
<1>6. \A i : i # k => RefsTo(i)' = RefsTo(i)
  BY DEF RefsTo
<1>7. \A i : i # k => References(i)' = References(i)
  BY <1>6 DEF RefsTo, References
<1> QED
  BY <1>1, <1>5, <1>6, <1>7

LEMMA CountRemoved ==
    ASSUME IsFiniteSet(holds), NEW r \in holds, holds' = holds \ {r}
    PROVE  /\ IsFiniteSet(holds')
           /\ References(r.id.idx)' = References(r.id.idx) - 1
           /\ \A i : i # r.id.idx => RefsTo(i)' = RefsTo(i)
           /\ \A i : i # r.id.idx => References(i)' = References(i)
<1> DEFINE k == r.id.idx
<1>1. IsFiniteSet(holds')
  BY FS_RemoveElement
<1>2. IsFiniteSet(RefsTo(k))
  BY FS_Subset DEF RefsTo
<1>3. RefsTo(k)' = RefsTo(k) \ {r} /\ r \in RefsTo(k)
  BY DEF RefsTo
<1>4. Cardinality(RefsTo(k) \ {r}) = Cardinality(RefsTo(k)) - 1
  BY <1>2, <1>3, FS_RemoveElement
<1>5. References(k)' = References(k) - 1
  <2>1. References(k) = Cardinality(RefsTo(k)) /\ References(k)' = Cardinality(RefsTo(k)')
    BY DEF References, RefsTo
  <2> QED
    BY <1>3, <1>4, <2>1
<1>6. \A i : i # k => RefsTo(i)' = RefsTo(i)
  BY DEF RefsTo
<1>7. \A i : i # k => References(i)' = References(i)
  BY <1>6 DEF RefsTo, References
<1> QED
  BY <1>1, <1>5, <1>6, <1>7

(* No references is the same as a count of zero.                           *)
LEMMA CountZero ==
    ASSUME IsFiniteSet(holds), NEW i
    PROVE  References(i) \in Nat /\ (References(i) = 0 <=> RefsTo(i) = {})
<1>1. IsFiniteSet(RefsTo(i))
  BY FS_Subset DEF RefsTo
<1>2. References(i) = Cardinality(RefsTo(i))
  BY DEF References, RefsTo
<1> QED
  BY <1>1, <1>2, FS_CardinalityType, FS_EmptySet

-----------------------------------------------------------------------------
(* The steps, one conjunct of the invariant at a time.                     *)

LEMMA InitInv ==
    ASSUME Init
    PROVE  Inv
<1>1. TypeOK
  BY Constants DEF Init, TypeOK, Idx, Count, NoRights
<1>2. Counted
  <2>1. IsFiniteSet(holds) /\ \A i \in Idx : References(i) = 0
    <3>1. \A i \in Idx : {r \in holds : r.id.idx = i} = {}
      BY DEF Init
    <3> QED
      BY <3>1, FS_EmptySet DEF Init, References
  <2> QED
    BY <2>1, Constants DEF Init, Counted, RefsTo, Matched
<1>3. Cleared /\ RightsExact
  BY DEF Init, Cleared, RightsExact
<1> QED
  BY <1>1, <1>2, <1>3 DEF Inv

LEMMA StopKeepsInv ==
    ASSUME Inv, NEW why \in {"debug_stop", "wild"}, Stop(why)
    PROVE  Inv'
<1>1. UNCHANGED <<tbl, info, hint, rights, taken, holds, unmatched, granted, ever>>
  BY DEF Stop, tables, history
<1>2. status' \in {"up", "debug_stop", "wild"}
  BY DEF Stop
<1>3. TypeOK'
  BY <1>1, <1>2 DEF Inv, TypeOK
<1>4. Counted'
  BY <1>1 DEF Inv, Counted, Matched, References, RefsTo, Names
<1>5. Cleared' /\ RightsExact'
  BY <1>1 DEF Inv, Cleared, RightsExact
<1> QED
  BY <1>3, <1>4, <1>5 DEF Inv

LEMMA CreateKeepsInv ==
    ASSUME Inv, create_domain
    PROVE  Inv'
<1>1. CASE \E why \in {"debug_stop", "wild"} : Stop(why)
  BY <1>1, StopKeepsInv
<1>2. ASSUME NEW i \in alloc_pdidx, taken < MaxCreates,
             tbl' = [tbl EXCEPT ![i] = TRUE],
             info' = [info EXCEPT ![i] = [refcnt |-> 0, gen |-> (@.gen + 1) % Word]],
             hint' = (i + 1) % PDIDX_MAX,
             rights' = [rights EXCEPT ![i] = NoRights],
             taken' = taken + 1,
             UNCHANGED <<status, history>>
      PROVE  Inv'
  <2>1. i \in Idx /\ ~tbl[i] /\ UNCHANGED <<status, holds, unmatched, granted, ever>>
    BY <1>2 DEF alloc_pdidx, history
  <2>2. TypeOK /\ Counted /\ Cleared /\ RightsExact
    BY DEF Inv
  <2> DEFINE new == [refcnt |-> 0, gen |-> (info[i].gen + 1) % Word]
  <2>3. new \in [refcnt : Count, gen : Count] /\ new.refcnt = 0
    BY <2>1, <2>2, Constants DEF TypeOK, Count
  <2>4. info' = [info EXCEPT ![i] = new]
    BY <1>2
  <2> HIDE DEF new
  <2>5. /\ info' \in [Idx -> [refcnt : Count, gen : Count]]
        /\ info'[i].refcnt = 0
        /\ \A j \in Idx \ {i} : info'[j] = info[j]
    BY <2>1, <2>2, <2>3, <2>4 DEF TypeOK
  <2>6. TypeOK'
    <3>1. tbl' \in [Idx -> BOOLEAN]
      BY <1>2, <2>1, <2>2 DEF TypeOK
    <3>2. hint' \in Idx
      BY <1>2, <2>1, Constants DEF Idx
    <3>3. rights' \in [Idx -> [Sid -> SUBSET Kept]]
      <4>1. NoRights \in [Sid -> SUBSET Kept]
        BY DEF NoRights
      <4> QED
        BY <1>2, <2>1, <2>2, <4>1 DEF TypeOK
    <3>4. taken' \in 0 .. MaxCreates
      BY <1>2, <2>2, Constants DEF TypeOK
    <3> QED
      BY <2>1, <2>2, <2>5, <3>1, <3>2, <3>3, <3>4 DEF TypeOK
  <2>7. Counted'
    <3>1. References(i) \in Nat /\ (Matched(i) => RefsTo(i) = {} /\ References(i) = 0)
      BY <2>1, <2>2, CountZero DEF Counted
    <3>2. \A j \in Idx : /\ RefsTo(j)' = RefsTo(j) /\ References(j)' = References(j)
                         /\ Matched(j)' = Matched(j)
      BY <2>1 DEF RefsTo, References, Matched
    <3>3. tbl'[i] /\ \A j \in Idx \ {i} : tbl'[j] = tbl[j]
      BY <1>2, <2>1, <2>2 DEF TypeOK
    <3>4. ASSUME NEW r \in holds, r.fresh, Matched(r.id.idx)'
          PROVE  Names(r.id)'
      <4>1. r.id.idx \in Idx
        BY <2>2 DEF TypeOK, Ref, Id
      <4>2. r.id.idx # i
        BY <3>1, <3>2, <3>4, <4>1 DEF RefsTo
      <4> QED
        BY <2>2, <2>5, <3>2, <3>3, <3>4, <4>1, <4>2 DEF Counted, Names
    <3>5. \A j \in Idx : tbl'[j] /\ Matched(j)' => info'[j].refcnt = References(j)'
      BY <2>2, <2>5, <3>1, <3>2, <3>3 DEF Counted
    <3>6. \A j \in Idx : ~tbl'[j] /\ Matched(j)' => RefsTo(j)' = {}
      BY <2>2, <3>2, <3>3 DEF Counted
    <3>7. \A j \in Idx : tbl'[j] => info'[j].refcnt <= References(j)'
      BY <2>2, <2>5, <3>1, <3>2, <3>3 DEF Counted
    <3> QED
      BY <2>1, <2>2, <3>2, <3>4, <3>5, <3>6, <3>7 DEF Counted
  <2>8. Cleared'
    BY <1>2, <2>1, <2>2 DEF Cleared, TypeOK
  <2>9. RightsExact'
    <3>1. /\ rights'[i] = NoRights /\ granted'[i] = NoRights
          /\ \A j \in Idx \ {i} : rights'[j] = rights[j] /\ tbl'[j] = tbl[j]
      BY <1>2, <2>1, <2>2 DEF TypeOK, Cleared
    <3> QED
      BY <2>1, <2>2, <3>1 DEF RightsExact, NoRights
  <2> QED
    BY <2>6, <2>7, <2>8, <2>9 DEF Inv
<1> QED
  BY <1>1, <1>2 DEF create_domain

LEMMA BogusKeepsInv ==
    ASSUME Inv, NEW d \in Id, Bogus(d)
    PROVE  Inv'
BY StopKeepsInv DEF Bogus

LEMMA RetainKeepsInv ==
    ASSUME Inv, NEW d \in Id, retain_domain(d)
    PROVE  Inv'
<1>1. CASE Bogus(d)
  BY <1>1, BogusKeepsInv
<1>2. CASE ~Bogus(d)
  <2>1. /\ tbl[d.idx] /\ References(d.idx) < MaxHolds
        /\ info' = [info EXCEPT ![d.idx].refcnt = (@ + 1) % Word]
        /\ UNCHANGED <<tbl, hint, rights, taken, status, unmatched, granted, ever>>
    BY <1>2 DEF retain_domain
  <2>2. PICK r \in Ref : /\ r.id = d /\ r.fresh = Names(d) /\ r \notin holds
                         /\ holds' = holds \cup {r}
    BY <1>2 DEF retain_domain, FirstFree
  <2>3. TypeOK /\ Counted /\ Cleared /\ RightsExact
    BY DEF Inv
  <2>4. d.idx \in Idx
    BY DEF Id
  <2>5. /\ IsFiniteSet(holds')
        /\ References(d.idx)' = References(d.idx) + 1
        /\ \A j : j # d.idx => RefsTo(j)' = RefsTo(j)
        /\ \A j : j # d.idx => References(j)' = References(j)
    BY <2>2, <2>3, CountAdded DEF Counted
  <2>6. PICK n \in Nat : n = info[d.idx].refcnt
    BY <2>3, <2>4, Constants DEF TypeOK, Count
  <2>7. References(d.idx) \in Nat /\ n <= References(d.idx)
    BY <2>1, <2>3, <2>4, <2>6, CountZero DEF Counted
  <2>8. (n + 1) % Word = n + 1 /\ n + 1 \in Count
    BY <2>1, <2>6, <2>7, Constants DEF Count
  <2> DEFINE new == [info[d.idx] EXCEPT !.refcnt = n + 1]
  <2>9. info[d.idx] \in [refcnt : Count, gen : Count]
    BY <2>3, <2>4 DEF TypeOK
  <2>10. /\ new \in [refcnt : Count, gen : Count]
         /\ new.refcnt = n + 1 /\ new.gen = info[d.idx].gen
    BY <2>8, <2>9
  <2>11. info' = [info EXCEPT ![d.idx] = new]
    BY <2>1, <2>6, <2>8, <2>9
  <2> HIDE DEF new
  <2>12. /\ info' \in [Idx -> [refcnt : Count, gen : Count]]
         /\ info'[d.idx].refcnt = n + 1
         /\ \A j \in Idx : info'[j].gen = info[j].gen
         /\ \A j \in Idx \ {d.idx} : info'[j] = info[j]
    BY <2>3, <2>4, <2>10, <2>11 DEF TypeOK
  <2>13. TypeOK'
    <3>1. holds' \subseteq Ref
      BY <2>2, <2>3 DEF TypeOK
    <3> QED
      BY <2>1, <2>3, <2>12, <3>1 DEF TypeOK
  <2>14. Counted'
    <3>0. \A j \in Idx : Matched(j)' = Matched(j)
      BY <2>1 DEF Matched
    <3>1. \A j \in Idx : ~tbl'[j] /\ Matched(j)' => RefsTo(j)' = {}
      BY <2>1, <2>3, <2>5, <3>0 DEF Counted
    <3>2. \A j \in Idx : tbl'[j] /\ Matched(j)' => info'[j].refcnt = References(j)'
      BY <2>1, <2>3, <2>4, <2>5, <2>6, <2>12, <3>0 DEF Counted
    <3>3. \A j \in Idx : References(j)' <= MaxHolds
      BY <2>1, <2>3, <2>4, <2>5, <2>7, Constants DEF Counted
    <3>4. ASSUME NEW q \in holds', q.fresh, Matched(q.id.idx)'
          PROVE  Names(q.id)'
      <4>1. Names(q.id) /\ q.id.idx \in Idx
        BY <2>2, <2>3, <2>4, <3>0, <3>4 DEF Counted, TypeOK, Ref, Id
      <4> QED
        BY <2>1, <2>12, <4>1 DEF Names
    <3>5. \A j \in Idx : tbl'[j] => info'[j].refcnt <= References(j)'
      BY <2>1, <2>3, <2>4, <2>5, <2>7, <2>12 DEF Counted
    <3> QED
      BY <2>5, <3>1, <3>2, <3>3, <3>4, <3>5 DEF Counted
  <2>15. Cleared' /\ RightsExact'
    BY <2>1, <2>3 DEF Cleared, RightsExact
  <2> QED
    BY <2>13, <2>14, <2>15 DEF Inv
<1> QED
  BY <1>1, <1>2

(* A domain that loses its last reference is deleted, and no reference to  *)
(* its index remains.                                                      *)
LEMMA ReleaseKeepsInv ==
    ASSUME Inv, NEW d \in Id, release_domain(d)
    PROVE  Inv'
<1> DEFINE left == IF info[d.idx].refcnt = 0 THEN 0 ELSE info[d.idx].refcnt - 1
<1>1. CASE Bogus(d)
  BY <1>1, BogusKeepsInv
<1>2. CASE ~Bogus(d)
  <2>1. /\ tbl[d.idx]
        /\ \/ UNCHANGED unmatched /\ \E r \in holds : r.id = d /\ holds' = holds \ {r}
           \/ UNCHANGED <<holds, unmatched>> /\ References(d.idx) = 0
           \/ UNCHANGED holds /\ unmatched' = unmatched \cup {d}
        /\ info' = [info EXCEPT ![d.idx].refcnt = left]
        /\ IF left = 0
           THEN /\ tbl' = [tbl EXCEPT ![d.idx] = FALSE]
                /\ rights' = [rights EXCEPT ![d.idx] = NoRights]
                /\ granted' = [granted EXCEPT ![d.idx] = NoRights]
                /\ ever' = [ever EXCEPT ![d.idx] = {}]
           ELSE UNCHANGED <<tbl, rights, granted, ever>>
        /\ UNCHANGED <<hint, taken, status>>
    BY <1>2 DEF release_domain
  <2>2. TypeOK /\ Counted /\ Cleared /\ RightsExact
    BY DEF Inv
  <2>3. d.idx \in Idx /\ info[d.idx] \in [refcnt : Count, gen : Count]
    BY <2>2 DEF Id, TypeOK
  <2>4. /\ References(d.idx) \in Nat /\ References(d.idx) <= MaxHolds
        /\ info[d.idx].refcnt \in Nat /\ info[d.idx].refcnt <= References(d.idx)
        /\ Matched(d.idx) => info[d.idx].refcnt = References(d.idx)
    BY <2>1, <2>2, <2>3, CountZero, Constants DEF Counted, Count
  <2>5. /\ IsFiniteSet(holds') /\ holds' \subseteq holds
        /\ References(d.idx)' \in Nat /\ References(d.idx)' <= MaxHolds
        /\ left <= References(d.idx)'
        /\ Matched(d.idx)' => References(d.idx)' = left
        /\ \A j : j # d.idx => RefsTo(j)' = RefsTo(j)
        /\ \A j : j # d.idx => References(j)' = References(j)
    <3>1. CASE UNCHANGED unmatched /\ \E r \in holds : r.id = d /\ holds' = holds \ {r}
      <4>1. PICK r \in holds : r.id = d /\ holds' = holds \ {r}
        BY <3>1
      <4>2. References(d.idx) # 0
        <5>1. r \in RefsTo(d.idx)
          BY <4>1 DEF RefsTo
        <5> QED
          BY <2>2, <5>1, CountZero DEF Counted
      <4>3. /\ IsFiniteSet(holds')
            /\ References(d.idx)' = References(d.idx) - 1
            /\ \A j : j # d.idx => RefsTo(j)' = RefsTo(j)
            /\ \A j : j # d.idx => References(j)' = References(j)
        BY <2>2, <4>1, CountRemoved DEF Counted
      <4>4. Matched(d.idx)' = Matched(d.idx)
        BY <3>1 DEF Matched
      <4>5. MaxHolds \in Nat
        BY Constants
      <4> QED
        BY <2>4, <4>1, <4>2, <4>3, <4>4, <4>5
    <3>2. CASE UNCHANGED <<holds, unmatched>> /\ References(d.idx) = 0
      <4>1. /\ \A j : RefsTo(j)' = RefsTo(j) /\ References(j)' = References(j)
            /\ Matched(d.idx)' = Matched(d.idx)
        BY <3>2 DEF RefsTo, References, Matched
      <4> QED
        BY <2>2, <2>4, <3>2, <4>1 DEF Counted
    <3>3. CASE UNCHANGED holds /\ unmatched' = unmatched \cup {d}
      <4>1. \A j : RefsTo(j)' = RefsTo(j) /\ References(j)' = References(j)
        BY <3>3 DEF RefsTo, References
      <4>2. ~Matched(d.idx)'
        BY <3>3 DEF Matched
      <4> QED
        BY <2>2, <2>4, <3>3, <4>1, <4>2 DEF Counted
    <3> QED
      BY <2>1, <3>1, <3>2, <3>3
  <2>6. left \in Count /\ left \in Nat /\ left <= MaxHolds
    BY <2>4, Constants DEF Count
  <2>7. /\ info' \in [Idx -> [refcnt : Count, gen : Count]]
        /\ info'[d.idx].refcnt = left
        /\ \A j \in Idx : info'[j].gen = info[j].gen
        /\ \A j \in Idx \ {d.idx} : info'[j] = info[j]
    <3> DEFINE new == [info[d.idx] EXCEPT !.refcnt = left]
    <3>1. info' = [info EXCEPT ![d.idx] = new]
      BY <2>1
    <3> HIDE DEF left
    <3>2. /\ new \in [refcnt : Count, gen : Count]
          /\ new.refcnt = left /\ new.gen = info[d.idx].gen
      BY <2>3, <2>6
    <3> HIDE DEF new
    <3> QED
      BY <2>2, <2>3, <3>1, <3>2 DEF TypeOK
  <2> HIDE DEF left
  <2>8. /\ tbl' \in [Idx -> BOOLEAN]
        /\ \A j \in Idx \ {d.idx} : tbl'[j] = tbl[j]
        /\ tbl'[d.idx] = (left # 0)
    BY <2>1, <2>2, <2>3 DEF TypeOK
  <2>9. /\ rights' \in [Idx -> [Sid -> SUBSET Kept]]
        /\ granted' \in [Idx -> [Sid -> SUBSET Rights]]
        /\ ever' \in [Idx -> SUBSET Sid]
        /\ \A j \in Idx \ {d.idx} : /\ rights'[j] = rights[j]
                                    /\ granted'[j] = granted[j] /\ ever'[j] = ever[j]
        /\ IF left = 0
           THEN granted'[d.idx] = NoRights /\ ever'[d.idx] = {}
           ELSE UNCHANGED <<rights, granted, ever>>
    <3>1. NoRights \in [Sid -> SUBSET Kept] /\ NoRights \in [Sid -> SUBSET Rights]
      BY DEF NoRights
    <3>2. CASE left = 0
      <4>1. /\ rights' = [rights EXCEPT ![d.idx] = NoRights]
            /\ granted' = [granted EXCEPT ![d.idx] = NoRights]
            /\ ever' = [ever EXCEPT ![d.idx] = {}]
        BY <2>1, <3>2
      <4>2. rights' \in [Idx -> [Sid -> SUBSET Kept]]
        BY <2>2, <3>1, <4>1 DEF TypeOK
      <4>3. granted' \in [Idx -> [Sid -> SUBSET Rights]] /\ granted'[d.idx] = NoRights
        BY <2>2, <2>3, <3>1, <4>1 DEF TypeOK
      <4>4. ever' \in [Idx -> SUBSET Sid] /\ ever'[d.idx] = {}
        BY <2>2, <2>3, <4>1 DEF TypeOK
      <4>5. \A j \in Idx \ {d.idx} : /\ rights'[j] = rights[j]
                                    /\ granted'[j] = granted[j] /\ ever'[j] = ever[j]
        BY <2>2, <4>1 DEF TypeOK
      <4> QED
        BY <3>2, <4>2, <4>3, <4>4, <4>5
    <3>3. CASE left # 0
      BY <2>1, <2>2, <3>3 DEF TypeOK
    <3> QED
      BY <3>2, <3>3
  <2>10. TypeOK'
    <3>1. holds' \subseteq Ref /\ unmatched' \subseteq Id
      BY <2>1, <2>2, <2>5 DEF TypeOK
    <3> QED
      BY <2>1, <2>2, <2>7, <2>8, <2>9, <3>1 DEF TypeOK
  <2>11. Matched(d.idx)' /\ left = 0 => RefsTo(d.idx)' = {}
    <3>1. IsFiniteSet(RefsTo(d.idx)')
      BY <2>5, FS_Subset DEF RefsTo
    <3>2. References(d.idx)' = Cardinality(RefsTo(d.idx)')
      BY DEF References, RefsTo
    <3>3. References(d.idx)' = 0 <=> RefsTo(d.idx)' = {}
      BY <3>1, <3>2, FS_EmptySet
    <3> QED
      BY <2>5, <3>3
  <2>12. Counted'
    <3>0. \A j : Matched(j)' => Matched(j)
      BY <2>1 DEF Matched
    <3>1. \A j \in Idx : ~tbl'[j] /\ Matched(j)' => RefsTo(j)' = {}
      BY <2>2, <2>5, <2>8, <2>11, <3>0 DEF Counted
    <3>2. \A j \in Idx : tbl'[j] /\ Matched(j)' => info'[j].refcnt = References(j)'
      BY <2>2, <2>3, <2>5, <2>7, <2>8, <3>0 DEF Counted
    <3>3. \A j \in Idx : References(j)' <= MaxHolds
      BY <2>2, <2>5 DEF Counted
    <3>4. ASSUME NEW q \in holds', q.fresh, Matched(q.id.idx)'
          PROVE  Names(q.id)'
      <4>1. Names(q.id) /\ q.id.idx \in Idx
        BY <2>2, <2>5, <3>0, <3>4 DEF Counted, TypeOK, Ref, Id
      <4>2. CASE q.id.idx # d.idx
        BY <2>7, <2>8, <4>1, <4>2 DEF Names
      <4>3. CASE q.id.idx = d.idx
        <5>1. q \in RefsTo(d.idx)'
          BY <3>4, <4>3 DEF RefsTo
        <5>2. left # 0
          BY <2>11, <3>4, <4>3, <5>1
        <5> QED
          BY <2>3, <2>7, <2>8, <4>1, <4>3, <5>2 DEF Names
      <4> QED
        BY <4>2, <4>3
    <3>5. \A j \in Idx : tbl'[j] => info'[j].refcnt <= References(j)'
      BY <2>2, <2>3, <2>5, <2>7, <2>8 DEF Counted
    <3> QED
      BY <2>5, <3>1, <3>2, <3>3, <3>4, <3>5 DEF Counted
  <2>13. Cleared'
    BY <2>2, <2>8, <2>9 DEF Cleared
  <2>14. RightsExact'
    <3>1. ASSUME NEW j \in Idx, tbl'[j]
          PROVE  /\ tbl[j] /\ rights'[j] = rights[j]
                 /\ granted'[j] = granted[j] /\ ever'[j] = ever[j]
      <4>1. CASE j = d.idx
        BY <2>1, <2>8, <2>9, <3>1, <4>1
      <4>2. CASE j # d.idx
        BY <2>8, <2>9, <3>1, <4>2
      <4> QED
        BY <4>1, <4>2
    <3> QED
      BY <2>2, <3>1 DEF RightsExact
  <2> QED
    BY <2>10, <2>12, <2>13, <2>14 DEF Inv
<1> QED
  BY <1>1, <1>2

(* set_rights: the half of the byte of stretch s is written, and the half  *)
(* of the odd stretch behind it may gain the right to read.                *)
LEMMA SetRightsKeepsInv ==
    ASSUME Inv, NEW d \in Id, NEW s \in Sid, NEW access \in RightsArgs,
           set_rights(d, s, access)
    PROVE  Inv'
<1>1. CASE Bogus(d)
  BY <1>1, BogusKeepsInv
<1>2. CASE ~Bogus(d)
  <2> DEFINE c    == d.idx
             more == IF "global" \in access THEN {s} ELSE {}
             r    == Entered(rights[c], s, access)
             g    == [granted[c] EXCEPT ![s] = access]
  <2>1. /\ tbl[c]
        /\ rights' = [rights EXCEPT ![c] = r]
        /\ granted' = [granted EXCEPT ![c] = g]
        /\ ever' = [ever EXCEPT ![c] = ever[c] \cup more]
        /\ UNCHANGED <<tbl, info, hint, taken, status, holds, unmatched>>
    BY <1>2 DEF set_rights
  <2>2. TypeOK /\ Counted /\ Cleared /\ RightsExact
    BY DEF Inv
  <2>3. /\ c \in Idx /\ rights[c] \in [Sid -> SUBSET Kept]
        /\ granted[c] \in [Sid -> SUBSET Rights] /\ ever[c] \in SUBSET Sid
        /\ access \in SUBSET Rights
    BY <2>2, Constants DEF Id, TypeOK
  <2>4. "read" \in Kept /\ SidMax \in Nat
    BY Constants DEF Kept
  <2>5. /\ r \in [Sid -> SUBSET Kept]
        /\ r[s] = access \cap Kept
        /\ \A u \in Sid \ {s} : r[u] = IF u \in Spill(s, access)
                                     THEN rights[c][u] \cup {"read"} ELSE rights[c][u]
    <3> DEFINE half(u) == IF u = s THEN access \cap Kept
                          ELSE IF u \in Spill(s, access) THEN rights[c][u] \cup {"read"}
                          ELSE rights[c][u]
    <3>0. s \notin Spill(s, access)
      BY <2>4 DEF Spill, Sid
    <3>1. r = [u \in Sid |-> half(u)]
      <4>1. r = [u \in Sid |-> CASE u = s -> access \cap Kept
                              [] u \in Spill(s, access) -> rights[c][u] \cup {"read"}
                              [] OTHER -> rights[c][u]]
        BY DEF Entered
      <4>2. ASSUME NEW u \in Sid
            PROVE  half(u) = CASE u = s -> access \cap Kept
                               [] u \in Spill(s, access) -> rights[c][u] \cup {"read"}
                               [] OTHER -> rights[c][u]
        <5>1. CASE u = s
          BY <3>0, <5>1
        <5>2. CASE u # s
          BY <5>2
        <5> QED
          BY <5>1, <5>2
      <4> HIDE DEF half, r
      <4> QED
        BY <4>1, <4>2
    <3>2. \A u \in Sid : half(u) \in SUBSET Kept
      BY <2>3, <2>4
    <3>3. /\ half(s) = access \cap Kept
          /\ \A u \in Sid \ {s} : half(u) = IF u \in Spill(s, access)
                                     THEN rights[c][u] \cup {"read"} ELSE rights[c][u]
      OBVIOUS
    <3> HIDE DEF half, r
    <3> QED
      BY <3>1, <3>2, <3>3
  <2>6. /\ g \in [Sid -> SUBSET Rights]
        /\ g[s] = access /\ \A u \in Sid \ {s} : g[u] = granted[c][u]
    BY <2>3
  <2>7. more \subseteq Sid
    OBVIOUS
  <2>8. \A u \in Spill(s, access) : ~Even(u) /\ u - 1 \in more /\ u \in Sid /\ u # s
    BY <2>4 DEF Spill, Even, Sid
  <2> HIDE DEF r, g, c, more
  <2>9. /\ rights' \in [Idx -> [Sid -> SUBSET Kept]] /\ rights'[c] = r
        /\ granted' \in [Idx -> [Sid -> SUBSET Rights]] /\ granted'[c] = g
        /\ ever' \in [Idx -> SUBSET Sid] /\ ever'[c] = ever[c] \cup more
        /\ \A j \in Idx \ {c} : /\ rights'[j] = rights[j]
                                /\ granted'[j] = granted[j] /\ ever'[j] = ever[j]
    BY <2>1, <2>2, <2>3, <2>5, <2>6, <2>7 DEF TypeOK
  <2>10. TypeOK'
    BY <2>1, <2>2, <2>9 DEF TypeOK
  <2>11. Counted'
    BY <2>1, <2>2 DEF Counted, References, RefsTo, Names, Matched
  <2>12. Cleared'
    BY <2>1, <2>2, <2>9 DEF Cleared
  <2>13. ASSUME NEW j \in Idx, tbl'[j], NEW u \in Sid
         PROVE  /\ granted'[j][u] \cap Kept \subseteq rights'[j][u]
                /\ rights'[j][u] \ granted'[j][u] \subseteq
                      IF ~Even(u) /\ u - 1 \in ever'[j] THEN {"read"} ELSE {}
    <3>1. tbl[j]
      BY <2>1, <2>13
    <3>2. /\ granted[j][u] \cap Kept \subseteq rights[j][u]
          /\ rights[j][u] \ granted[j][u] \subseteq
                      IF ~Even(u) /\ u - 1 \in ever[j] THEN {"read"} ELSE {}
      BY <2>2, <3>1 DEF RightsExact
    <3>3. CASE j # c
      BY <2>9, <3>2, <3>3
    <3>4. CASE j = c /\ u = s
      BY <2>5, <2>6, <2>9, <3>4
    <3>5. CASE j = c /\ u # s
      <4>1. g[u] = granted[c][u]
        BY <2>6, <3>5
      <4>2. CASE u \in Spill(s, access)
        <5>1. r[u] = rights[c][u] \cup {"read"} /\ ~Even(u) /\ u - 1 \in ever'[c]
          BY <2>5, <2>8, <2>9, <3>5, <4>2
        <5> QED
          BY <2>9, <3>2, <3>5, <4>1, <5>1
      <4>3. CASE u \notin Spill(s, access)
        <5>1. r[u] = rights[c][u] /\ ever[c] \subseteq ever'[c]
          BY <2>5, <2>9, <3>5, <4>3
        <5> QED
          BY <2>9, <3>2, <3>5, <4>1, <5>1
      <4> QED
        BY <4>2, <4>3
    <3> QED
      BY <3>3, <3>4, <3>5
  <2>14. RightsExact'
    BY <2>13 DEF RightsExact
  <2> QED
    BY <2>10, <2>11, <2>12, <2>14 DEF Inv
<1> QED
  BY <1>1, <1>2

LEMMA NextInv ==
    ASSUME Inv, [Next]_vars
    PROVE  Inv'
<1>1. CASE UNCHANGED vars
  <2>1. UNCHANGED <<tbl, info, hint, rights, taken, status, holds, unmatched, granted, ever>>
    BY <1>1 DEF vars, tables, history
  <2>2. TypeOK'
    BY <2>1 DEF Inv, TypeOK
  <2>3. Counted'
    BY <2>1 DEF Inv, Counted, Matched, References, RefsTo, Names
  <2>4. Cleared' /\ RightsExact'
    BY <2>1 DEF Inv, Cleared, RightsExact
  <2> QED
    BY <2>2, <2>3, <2>4 DEF Inv
<1>2. CASE create_domain
  BY <1>2, CreateKeepsInv
<1>3. ASSUME NEW d \in Id, retain_domain(d) \/ release_domain(d)
      PROVE  Inv'
  BY <1>3, RetainKeepsInv, ReleaseKeepsInv
<1>4. ASSUME NEW d \in Id, NEW s \in Sid, NEW access \in RightsArgs,
             set_rights(d, s, access)
      PROVE  Inv'
  BY <1>4, SetRightsKeepsInv
<1> QED
  BY <1>1, <1>2, <1>3, <1>4 DEF Next

LEMMA SpecInv == Spec => []Inv
<1>1. Init => Inv
  BY InitInv
<1>2. Inv /\ [Next]_vars => Inv'
  BY NextInv
<1> QED
  BY <1>1, <1>2, PTL DEF Spec

-----------------------------------------------------------------------------
(* The theorems.                                                           *)

(* retain_domain and release_domain count references by index and never    *)
(* look at the generation.  A domain never outlives its references; and a  *)
(* client that retained a domain keeps it until it releases it, whatever   *)
(* identifiers others retain and release, unless somebody releases at that *)
(* index what it did not retain.                                           *)
THEOREM RetainedDomainsStay == Spec => []RetainedStays
<1>1. Inv => RetainedStays
  BY DEF Inv, Counted, Matched, RetainedStays
<1> QED
  BY <1>1, SpecInv, PTL

(* Two stretches share a byte of a domain's memory, and set_rights spoils  *)
(* the other one only by letting it be read, when "global" spills over.    *)
THEOREM RightsAreExact == Spec => []RightsExact
<1>1. Inv => RightsExact
  BY DEF Inv
<1> QED
  BY <1>1, SpecInv, PTL
=============================================================================
