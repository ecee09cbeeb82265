------------------------- MODULE ProtectionDomains --------------------------
(***************************************************************************)
(* Protection domains of the MMU module                                    *)
(* (src/modules/tcb/platform/pc99/mmu_mod/mmu_mod.cpp): the table of       *)
(* domains with its reference counts and generations, and the access       *)
(* rights of stretches, two stretches to a byte.                           *)
(*                                                                         *)
(* An identifier is an index into the table and a generation.  Every call  *)
(* takes the index and leaves the generation alone.                        *)
(***************************************************************************)
EXTENDS Integers, FiniteSets

CONSTANTS
    PDIDX_MAX,    \* size of the table
    SidMax,       \* stretch identifiers are 0 .. SidMax - 1
    Word,         \* 2^16: reference counts and generations
    RightsArgs,   \* the rights set_rights is called with
    MaxCreates,   \* bound on the domains created
    MaxHolds      \* bound on the references to one index

Idx   == 0 .. PDIDX_MAX - 1
Sid   == 0 .. SidMax - 1
Count == 0 .. Word - 1
Id    == [idx : Idx, gen : Count]
Ref   == [id : Id, fresh : BOOLEAN, no : 1 .. MaxHolds]

Kept   == {"read", "write", "execute", "meta"}    \* fit into half a byte
Rights == Kept \cup {"global"}

ASSUME DomainsAssumption ==
    /\ {PDIDX_MAX, Word} \subseteq Nat \ {0}
    /\ {SidMax, MaxCreates, MaxHolds} \subseteq Nat
    /\ MaxHolds < Word
    /\ RightsArgs \subseteq SUBSET Rights

VARIABLES
    tbl,        \* is there a domain at this index? (pdom_tbl)
    info,       \* its reference count and its generation (pdominfo)
    hint,       \* next_pdidx
    rights,     \* what its memory says
    taken,      \* stretches created for domains; none is ever given back
    status,
    \* History variables:
    holds,      \* references clients have; fresh ones were taken while the
                \* identifier named its own domain
    unmatched,  \* identifiers released by somebody who did not retain them
                \* while others had references to that index
    granted,    \* the last rights asked for, since the domain was created
    ever        \* stretches that were given the right "global" since then

tables  == <<tbl, info, hint, rights, taken>>
history == <<holds, unmatched, granted, ever>>
vars    == <<tables, status, history>>

NoRights == [s \in Sid |-> {}]

Init ==
    /\ tbl = [i \in Idx |-> FALSE]
    /\ info = [i \in Idx |-> [refcnt |-> 0, gen |-> 0]]
    /\ hint = 0
    /\ rights = [i \in Idx |-> NoRights]
    /\ taken = 0
    /\ status = "up"
    /\ holds = {}
    /\ unmatched = {}
    /\ granted = [i \in Idx |-> NoRights]
    /\ ever = [i \in Idx |-> {}]

Stop(why) == status' = why /\ UNCHANGED <<tables, history>>

-----------------------------------------------------------------------------
(* The first free index from the hint on, round the table.                 *)
\* Faulty: trusts the hint.
AtHint == {hint}

alloc_pdidx ==
    {i \in Idx : /\ ~tbl[i]
                 /\ \A j \in Idx : ~tbl[j] =>
                       (i - hint) % PDIDX_MAX <= (j - hint) % PDIDX_MAX}

(* A domain begins with no references and a new generation, in memory of   *)
(* its own that is cleared.                                                *)
create_domain ==
    /\ status = "up" /\ taken < MaxCreates
    /\ \/ \E i \in alloc_pdidx :
            /\ tbl' = [tbl EXCEPT ![i] = TRUE]
            /\ info' = [info EXCEPT ![i] = [refcnt |-> 0, gen |-> (@.gen + 1) % Word]]
            /\ hint' = (i + 1) % PDIDX_MAX
            /\ rights' = [rights EXCEPT ![i] = NoRights]
            /\ taken' = taken + 1
            /\ UNCHANGED <<status, history>>
       \/ alloc_pdidx = {} /\ Stop("debug_stop")
       \/ alloc_pdidx # {} /\ Stop("wild")      \* no stretch for it

(* All calls stop the machine when there is no domain at the index.        *)
Bogus(d) == status = "up" /\ ~tbl[d.idx] /\ Stop("debug_stop")

(* References to an index, and whether d names the domain that is there.   *)
References(i) == Cardinality({r \in holds : r.id.idx = i})
Names(d) == tbl[d.idx] /\ info[d.idx].gen = d.gen

(* Equal references are numbered from 1 on; the last is released first.    *)
Alike(r)     == {q \in holds : q.id = r.id /\ q.fresh = r.fresh}
FirstFree(r) == r \notin holds /\ \A n \in 1 .. r.no - 1 : \E q \in Alike(r) : q.no = n
Last(r)      == r \in holds /\ \A q \in Alike(r) : q.no <= r.no

(* An identifier that create_domain has returned: generations go up.       *)
Returned(d) == d.gen \in 1 .. info[d.idx].gen

retain_domain(d) ==
    \/ /\ status = "up" /\ tbl[d.idx] /\ Returned(d)
       /\ References(d.idx) < MaxHolds
       /\ info' = [info EXCEPT ![d.idx].refcnt = (@ + 1) % Word]
       /\ \E r \in Ref : /\ r.id = d /\ r.fresh = Names(d) /\ FirstFree(r)
                         /\ holds' = holds \cup {r}
       /\ UNCHANGED <<tbl, hint, rights, taken, status, unmatched, granted, ever>>
    \/ Returned(d) /\ Bogus(d)

(* A client releases what it has retained, or calls without a reference:   *)
(* to delete a domain that nobody has retained, a second time, or with the *)
(* identifier of an earlier domain.  The memory of a deleted domain is not *)
(* looked at again; destroy_stretch of the nailed allocator does nothing.  *)
release_domain(d) ==
    LET left == IF info[d.idx].refcnt = 0 THEN 0 ELSE info[d.idx].refcnt - 1 IN
    \/ /\ status = "up" /\ tbl[d.idx] /\ Returned(d)
       /\ \/ /\ \E r \in holds : r.id = d /\ Last(r) /\ holds' = holds \ {r}
             /\ UNCHANGED unmatched
          \/ /\ unmatched' = IF References(d.idx) = 0 THEN unmatched ELSE unmatched \cup {d}
             /\ UNCHANGED holds
       /\ info' = [info EXCEPT ![d.idx].refcnt = left]
       /\ IF left = 0
          THEN /\ tbl' = [tbl EXCEPT ![d.idx] = FALSE]
               /\ rights' = [rights EXCEPT ![d.idx] = NoRights]
               /\ granted' = [granted EXCEPT ![d.idx] = NoRights]
               /\ ever' = [ever EXCEPT ![d.idx] = {}]
          ELSE UNCHANGED <<tbl, rights, granted, ever>>
       /\ UNCHANGED <<hint, taken, status>>
    \/ Returned(d) /\ Bogus(d)

(* The rights of stretches s and s + 1 share a byte, if s is even.  The    *)
(* fifth right, global, is out of its half: for an even stretch it is the  *)
(* bit for reading of the odd one; for an odd stretch it falls out.        *)
Even(s) == s % 2 = 0

Spill(s, access) ==
    IF Even(s) /\ "global" \in access /\ s + 1 \in Sid THEN {s + 1} ELSE {}

\* Faulty: clears the other half of the byte.
WrongHalf(r, s, access) ==
    [u \in Sid |-> CASE u = s -> r[u] \cup (access \cap Kept)
                     [] u # s /\ u \div 2 = s \div 2 -> {}
                     [] OTHER -> r[u]]

Entered(r, s, access) ==
    [u \in Sid |-> CASE u = s -> access \cap Kept
                     [] u \in Spill(s, access) -> r[u] \cup {"read"}
                     [] OTHER -> r[u]]

set_rights(d, s, access) ==
    \/ /\ status = "up" /\ tbl[d.idx] /\ Returned(d)
       /\ rights' = [rights EXCEPT ![d.idx] = Entered(@, s, access)]
       /\ granted' = [granted EXCEPT ![d.idx][s] = access]
       /\ ever' = [ever EXCEPT ![d.idx] = @ \cup IF "global" \in access THEN {s} ELSE {}]
       /\ UNCHANGED <<tbl, info, hint, taken, status, holds, unmatched>>
    \/ Returned(d) /\ Bogus(d)

Next ==
    \/ create_domain
    \/ \E d \in Id : retain_domain(d) \/ release_domain(d)
    \/ \E d \in Id, s \in Sid, access \in RightsArgs : set_rights(d, s, access)

Spec == Init /\ [][Next]_vars

-----------------------------------------------------------------------------
TypeOK ==
    /\ tbl \in [Idx -> BOOLEAN]
    /\ info \in [Idx -> [refcnt : Count, gen : Count]]
    /\ hint \in Idx
    /\ rights \in [Idx -> [Sid -> SUBSET Kept]]
    /\ taken \in 0 .. MaxCreates
    /\ status \in {"up", "debug_stop", "wild"}
    /\ holds \subseteq Ref /\ unmatched \subseteq Id
    /\ granted \in [Idx -> [Sid -> SUBSET Rights]]
    /\ ever \in [Idx -> SUBSET Sid]

(* Where nobody has released what it did not retain, a client that has     *)
(* retained a domain through its own identifier has that domain until it   *)
(* releases it, although others retain and release with identifiers of     *)
(* earlier domains at the same index and no call looks at the generation:  *)
(* the count of the domain is the number of references to its index.       *)
(* Anywhere, a domain does not outlive its references.                     *)
RetainedStays ==
    /\ TypeOK
    /\ \A i \in Idx : tbl[i] => info[i].refcnt <= References(i)
    /\ \A i \in Idx : tbl[i] /\ (\A d \in unmatched : d.idx # i)
                         => info[i].refcnt = References(i)
    /\ \A r \in holds : r.fresh /\ (\A d \in unmatched : d.idx # r.id.idx) => Names(r.id)

(* What mmu_v1 says of release_domain, which is on the domain identified   *)
(* by its argument: a client keeps a domain it has retained as long as     *)
(* nobody releases that very identifier without a reference.  What others  *)
(* do with the identifier of an earlier domain is not on its domain.       *)
ReleaseByIdentifier ==
    \A r \in holds : r.fresh /\ r.id \notin unmatched => Names(r.id)

(* The rights of a stretch in a domain are those asked for last since the  *)
(* domain was created, without the right "global"; but an odd stretch may  *)
(* have become readable when the stretch before it was made global.        *)
RightsExact ==
    \A i \in Idx : tbl[i] =>
        \A s \in Sid :
            /\ granted[i][s] \cap Kept \subseteq rights[i][s]
            /\ rights[i][s] \ granted[i][s] \subseteq
                  IF ~Even(s) /\ s - 1 \in ever[i] THEN {"read"} ELSE {}
=============================================================================
