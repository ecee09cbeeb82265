-------------------------- MODULE ExceptionsProofs --------------------------
(***************************************************************************)
(* Theorems about ExceptionContexts: the stack of handlers is exact,       *)
(* OS_FINALLY clauses run, and the walk for the backtrace is safe outside  *)
(* of them, for every set of exceptions and every depth of nesting.        *)
(***************************************************************************)
EXTENDS ExceptionContexts, SequenceTheorems, TLAPS

(* x is the largest element of S, or NULL if there is none.  Unlike        *)
(* Innermost this says what x is without a choice, so no proof has to show *)
(* that a set of addresses has a largest element.                          *)
IsInner(x, S) == IF S = {} THEN x = NULL ELSE x \in S /\ \A i \in S : i <= x

(* handlers, and the up pointer of every statement, name the innermost     *)
(* body around; a context tells in which clause its statement is.          *)
Stacked ==
    /\ IsInner(handlers, Bodies(MaxDepth + 1))
    /\ \A k \in 1 .. Top :
          /\ IsInner(mem[k].up, Bodies(k))
          /\ blocks[k].phase = "body" => mem[k].state = "none"
          /\ blocks[k].phase = "handler" => mem[k].state = "handled"
          /\ blocks[k].phase = "unmatched" => k = Top
          /\ mem[k].state # "junk"

(* The down pointer of the body around a statement names that statement,   *)
(* unless it is cauterised: until the body of the statement has been left, *)
(* and, after OS_FINALLY has cauterised it, as long as that clause runs.   *)
Linked ==
    \A k \in 1 .. Top : mem[k].up # NULL =>
        /\ blocks[k].phase \in {"body", "unmatched"}
              => mem[mem[k].up].down \in {k, NULL}
        /\ blocks[k].phase = "finally" /\ mem[k].state = "active"
              => mem[mem[k].up].down = NULL

(* An exception that no clause has caught can be traced.                   *)
Traceable == blocks # <<>> /\ blocks[Top].phase = "unmatched" => TraceSafe

Inv == TypeOK /\ Stacked /\ Linked /\ Traceable /\ WalksSafe

(* What FinallyRuns says of a step.                                        *)
Followed(k) == \/ status' # "up"
               \/ k <= Len(blocks') /\ blocks'[k].phase \in {"body", "finally"}
BodiesFollowed ==
    \A k \in 1 .. Top :
        blocks[k].phase = "body" /\ blocks[k].fin /\ blocks[k].catches = {}
            => Followed(k)

-----------------------------------------------------------------------------
(* Facts about the operators.                                              *)

LEMMA InnerIsInnermost ==
    ASSUME NEW S \in SUBSET Nat, NEW x, IsInner(x, S)
    PROVE  x = Innermost(S)
<1>1. CASE S = {}
  BY <1>1 DEF IsInner, Innermost
<1>2. CASE S # {}
  <2> DEFINE Largest(j) == \A i \in S : i <= j
  <2>1. x \in S /\ Largest(x)
    BY <1>2 DEF IsInner
  <2>2. \A j \in S : Largest(j) => j = x
    BY <2>1
  <2> QED
    BY <1>2, <2>1, <2>2 DEF Innermost
<1> QED
  BY <1>1, <1>2

(* The memory, the statements and the addresses, from the type invariant.  *)
LEMMA Typed ==
    ASSUME TypeOK
    PROVE  /\ mem \in [Addr -> Context]
           /\ blocks \in Seq(Block)
           /\ Top \in 0 .. MaxDepth /\ MaxDepth \in Nat
           /\ 1 .. Top \subseteq Addr
           /\ handlers \in Addr \cup {NULL}
           /\ \A k : Bodies(k) \in SUBSET (1 .. Top)
BY ExceptionsAssumption DEF TypeOK, Top, Addr, Bodies

(* A pointer to the innermost body ends the search of internal_raise at    *)
(* once: nothing has been raised in a context whose body runs.             *)
LEMMA WalkEnds ==
    ASSUME Inv, NEW m \in [Addr -> Context],
           \A k \in 1 .. Top : m[k].up = mem[k].up,
           \A k \in Bodies(MaxDepth + 1) : m[k].state = "none",
           NEW h \in Bodies(MaxDepth + 1) \cup {NULL}
    PROVE  Target(m, h) = h
<1> DEFINE Step(T, k) == IF k = NULL \/ m[k].state = "none" THEN k ELSE T[m[k].up]
           IsWalk(T)  == T = [k \in 0 .. Top |-> Step(T, k)]
           Walked     == [k \in 0 .. Top |-> IF k = NULL \/ m[k].state = "none"
                                              THEN k ELSE m[k].up]
           Found      == CHOOSE T : IsWalk(T)
<1>1. TypeOK /\ Stacked
  BY DEF Inv
<1>2. Top \in 0 .. MaxDepth /\ MaxDepth \in Nat /\ 1 .. Top \subseteq Addr
  BY <1>1, Typed
<1>3. \A k \in 1 .. Top : m[k].up \in Bodies(MaxDepth + 1) \cup {NULL}
  <2>1. \A k \in 1 .. Top : mem[k].up \in Bodies(k) \cup {NULL}
    BY <1>1 DEF Stacked, IsInner
  <2>2. \A k \in 1 .. Top : Bodies(k) \subseteq Bodies(MaxDepth + 1)
    BY <1>2 DEF Bodies
  <2> QED
    BY <2>1, <2>2
<1>4. \A k \in Bodies(MaxDepth + 1) \cup {NULL} : k \in 0 .. Top /\ Walked[k] = k
  BY <1>2 DEF Bodies, NULL
<1>5. IsWalk(Walked)
  <2>1. ASSUME NEW k \in 0 .. Top
        PROVE  Walked[k] = Step(Walked, k)
    <3>1. CASE k = NULL \/ m[k].state = "none"
      BY <3>1
    <3>2. CASE ~(k = NULL \/ m[k].state = "none")
      <4>1. Walked[m[k].up] = m[k].up
        BY <3>2, <1>2, <1>3, <1>4 DEF NULL
      <4> QED
        BY <3>2, <4>1
    <3> QED
      BY <3>1, <3>2
  <2> QED
    BY <2>1
<1>6. IsWalk(Found)
  BY <1>5
<1>7. Found[h] = h
  <2>1. h \in 0 .. Top /\ (h = NULL \/ m[h].state = "none")
    BY <1>4
  <2> HIDE DEF Found
  <2>2. Found[h] = Step(Found, h)
    BY <1>6, <2>1
  <2> QED
    BY <2>1, <2>2
<1>8. Target(m, h) = Found[h]
  BY DEF Target
<1> QED
  BY <1>7, <1>8

-----------------------------------------------------------------------------
(* Statements that are left, and statements whose clause changes.          *)

Phases == {"body", "handler", "finally", "unmatched"}

(* The statements from the c-th one on are left, which goes on in phase.   *)
CutAt(s, c, phase) == [SubSeq(s, 1, c) EXCEPT ![c].phase = phase]

LEMMA CutFacts ==
    ASSUME NEW s \in Seq(Block), NEW c \in 1 .. Len(s), NEW phase \in Phases
    PROVE  /\ CutAt(s, c, phase) \in Seq(Block)
           /\ Len(CutAt(s, c, phase)) = c
           /\ \A k \in 1 .. c - 1 : CutAt(s, c, phase)[k] = s[k]
           /\ CutAt(s, c, phase)[c].phase = phase
           /\ CutAt(s, c, phase)[c].catches = s[c].catches
           /\ CutAt(s, c, phase)[c].fin = s[c].fin
<1> DEFINE u == SubSeq(s, 1, c)
           b == [s[c] EXCEPT !.phase = phase]
<1>1. Len(s) \in Nat /\ \A k \in 1 .. Len(s) : s[k] \in Block
  BY ElementOfSeq, LenProperties
<1>2. u \in Seq(Block) /\ Len(u) = c /\ \A k \in 1 .. c : u[k] = s[k]
  <2>1. 1 \in Int /\ c \in Int /\ \A k \in 1 .. c : s[k] \in Block
    BY <1>1
  <2> QED
    BY <2>1, SubSeqProperties
<1>3. b \in Block /\ b.phase = phase /\ b.catches = s[c].catches /\ b.fin = s[c].fin
  BY <1>1 DEF Block, Phases
<1>4. CutAt(s, c, phase) = [u EXCEPT ![c] = b]
  <2>1. u[c] = s[c]
    BY <1>1, <1>2
  <2> QED
    BY <2>1 DEF CutAt
<1> HIDE DEF u, b
<1>5. /\ [u EXCEPT ![c] = b] \in Seq(Block)
      /\ Len([u EXCEPT ![c] = b]) = Len(u)
      /\ \A j \in 1 .. Len(u) : [u EXCEPT ![c] = b][j] = IF j = c THEN b ELSE u[j]
  BY <1>2, <1>3, ExceptSeq
<1> QED
  BY <1>1, <1>2, <1>3, <1>4, <1>5

(* Enter and Leave of ExceptionContexts.                                   *)
LEMMA EnterFacts ==
    ASSUME TypeOK, blocks # <<>>, NEW phase \in Phases, Enter(phase)
    PROVE  /\ blocks' \in Seq(Block) /\ Top' = Top /\ Top \in 1 .. MaxDepth
           /\ \A k \in 1 .. Top - 1 : blocks'[k] = blocks[k]
           /\ blocks'[Top].phase = phase
<1>1. blocks \in Seq(Block) /\ Top \in 0 .. MaxDepth /\ MaxDepth \in Nat
  BY Typed
<1>2. Len(blocks) \in 1 .. Len(blocks)
  BY <1>1, EmptySeq
<1>3. SubSeq(blocks, 1, Len(blocks)) = blocks
  BY <1>1, SubSeqFull
<1>4. blocks' = CutAt(blocks, Top, phase)
  BY <1>3 DEF Enter, CutAt, Top
<1> QED
  BY <1>1, <1>2, <1>4, CutFacts DEF Top

LEMMA LeaveFacts ==
    ASSUME TypeOK, blocks # <<>>, Leave
    PROVE  /\ blocks' \in Seq(Block) /\ Top' = Top - 1 /\ Top \in 1 .. MaxDepth
           /\ \A k \in 1 .. Top - 1 : blocks'[k] = blocks[k]
<1>1. blocks \in Seq(Block) /\ Top \in 0 .. MaxDepth /\ MaxDepth \in Nat
  BY Typed
<1>2. Top \in Nat \ {0} /\ \A k \in 1 .. Top : blocks[k] \in Block
  BY <1>1, EmptySeq, ElementOfSeq DEF Top
<1>3. 1 \in Int /\ Top - 1 \in Int /\ \A k \in 1 .. Top - 1 : blocks[k] \in Block
  BY <1>2
<1> DEFINE t == SubSeq(blocks, 1, Top - 1)
<1>4. /\ t \in Seq(Block)
      /\ Len(t) = IF 1 <= Top - 1 THEN (Top - 1) - 1 + 1 ELSE 0
      /\ \A i \in 1 .. (Top - 1) - 1 + 1 : t[i] = blocks[1 + i - 1]
  BY <1>3, SubSeqProperties
<1>5. blocks' = t
  BY DEF Leave
<1> HIDE DEF t
<1> QED
  BY <1>1, <1>2, <1>4, <1>5 DEF Top

-----------------------------------------------------------------------------
(* How internal_raise is called: the search starts at the innermost body,  *)
(* at handlers itself or, in OS_ENDTRY, at the body around the statement   *)
(* that is left, whose context is popped.  The down pointer is then the    *)
(* one that Linked describes.                                              *)
FromBody(initial, h, m) ==
    /\ h \in 0 .. Top /\ IsInner(h, Bodies(MaxDepth + 1))
    /\ \A k \in Addr : m[k].up = mem[k].up /\ m[k].down = mem[k].down
    /\ \A k \in Addr : m[k].state = mem[k].state \/ m[k].state = "popped"
    /\ \A k \in 1 .. Top : m[k].state # mem[k].state => k = Top /\ h < Top
    /\ ~initial => /\ h < Top /\ TraceSafe
                   /\ h # NULL => mem[h].down \in {Top, NULL}

LEMMA RaiseKeepsInv ==
    ASSUME Inv, status = "up",
           NEW initial \in BOOLEAN, NEW h \in Nat, NEW m \in [Addr -> Context],
           FromBody(initial, h, m), NEW e \in Exceptions \cup {NoName},
           internal_raise(initial, e, h, m)
    PROVE  Inv' /\ BodiesFollowed
<1>1. /\ TypeOK /\ Stacked /\ Linked /\ Traceable
  BY DEF Inv
<1>2. /\ blocks \in Seq(Block) /\ Top \in 0 .. MaxDepth /\ MaxDepth \in Nat
      /\ 1 .. Top \subseteq Addr /\ handlers \in Addr \cup {NULL}
      /\ mem \in [Addr -> Context]
  BY <1>1, Typed
<1>3. h \in Bodies(MaxDepth + 1) \cup {NULL} /\ h \in 0 .. Top
  BY DEF IsInner, FromBody
<1>4. Target(m, h) = h
  <2>1. ASSUME NEW k \in Bodies(MaxDepth + 1)
        PROVE  m[k].state = "none"
    <3>1. k \in 1 .. Top /\ k \in Addr /\ mem[k].state = "none" /\ k <= h
      BY <1>1, <1>2 DEF Bodies, Stacked, FromBody, IsInner
    <3> QED
      BY <1>2, <1>3, <3>1 DEF FromBody
  <2> QED
    BY <1>2, <1>3, <2>1, WalkEnds DEF FromBody
<1>5. CASE h = NULL
  <2>1. status' = "panic" /\ UNCHANGED <<handlers, mem, blocks>>
    BY <1>4, <1>5 DEF internal_raise
  <2>2. TypeOK'
    BY <1>1, <2>1 DEF TypeOK, Top
  <2>3. Stacked' /\ Linked' /\ Traceable' /\ WalksSafe'
    BY <1>1, <2>1 DEF Stacked, Linked, Traceable, TraceSafe, WalksSafe, Bodies, Top
  <2>4. BodiesFollowed
    BY <2>1 DEF BodiesFollowed, Followed
  <2> QED
    BY <2>2, <2>3, <2>4 DEF Inv
<1>6. CASE h # NULL
  <2> DEFINE phase == Clause(blocks[h], e)
             a     == Activated(m, h, e, initial)
  <2>0. /\ \A k \in Addr : m[k].up = mem[k].up /\ m[k].down = mem[k].down
        /\ \A k \in 1 .. Top : m[k].state # mem[k].state => k = Top /\ h < Top
        /\ \A k \in Addr : m[k].state = mem[k].state \/ m[k].state = "popped"
    BY DEF FromBody
  <2>1. /\ mem' = Begun(a, h, phase)
        /\ handlers' = m[h].up
        /\ blocks' = [SubSeq(blocks, 1, h) EXCEPT ![h].phase = phase]
        /\ status' = status
    BY <1>4, <1>6 DEF internal_raise, AfterRaise
  <2>2. h \in 1 .. Top /\ h \in Addr /\ blocks[h].phase = "body"
        /\ mem[h].state = "none" /\ mem[h].state # "popped"
    BY <1>1, <1>2, <1>3, <1>6 DEF Bodies, Stacked
  <2>3. /\ phase \in {"handler", "finally", "unmatched"}
        /\ blocks[h].fin /\ blocks[h].catches = {} => phase = "finally"
    BY DEF Clause
  <2> HIDE DEF phase
  <2>4. /\ blocks' \in Seq(Block) /\ Top' = h
        /\ \A k \in 1 .. h - 1 : blocks'[k] = blocks[k]
        /\ blocks'[h].phase = phase
    <3>1. phase \in Phases /\ h \in 1 .. Len(blocks)
      BY <2>2, <2>3 DEF Phases, Top
    <3>2. /\ blocks' \in Seq(Block) /\ Len(blocks') = h
          /\ \A k \in 1 .. h - 1 : blocks'[k] = blocks[k]
          /\ blocks'[h].phase = phase
      <4>1. blocks' = CutAt(blocks, h, phase)
        BY <2>1 DEF CutAt
      <4>2. blocks \in Seq(Block)
        BY <1>2
      <4>3. /\ CutAt(blocks, h, phase) \in Seq(Block)
            /\ Len(CutAt(blocks, h, phase)) = h
            /\ \A k \in 1 .. h - 1 : CutAt(blocks, h, phase)[k] = blocks[k]
            /\ CutAt(blocks, h, phase)[h].phase = phase
        BY <3>1, <4>2, CutFacts
      <4> QED
        BY <4>1, <4>3
    <3> QED
      BY <3>2 DEF Top
  <2>5. IsInner(mem[h].up, Bodies(h)) /\ Bodies(h) \subseteq 1 .. h - 1
    <3>1. IsInner(mem[h].up, Bodies(h))
      BY <1>1, <2>2 DEF Stacked
    <3>2. Bodies(h) \subseteq 1 .. h - 1
      BY <1>2, <2>2 DEF Bodies
    <3> QED
      BY <3>1, <3>2
  <2>6. mem[h].up \in 0 .. h - 1 /\ mem[h].up # h
    BY <1>2, <2>2, <2>5 DEF IsInner, NULL
  <2>7. /\ a \in [Addr -> Context]
        /\ \A k \in Addr \ {h} : a[k] = m[k]
        /\ a[h].up = mem[h].up /\ a[h].state = "active"
        /\ a[h].down = IF initial THEN NULL ELSE mem[h].down
    <3>1. m[h] \in Context /\ m \in [Addr -> Context] /\ initial \in BOOLEAN
          /\ m[h].up = mem[h].up /\ m[h].down = mem[h].down
      BY <2>2 DEF FromBody
    <3> DEFINE new == [m[h] EXCEPT !.state = "active", !.name = e,
                                   !.down = IF initial THEN NULL ELSE @]
    <3>2. /\ new \in Context
          /\ new.up = m[h].up /\ new.state = "active"
          /\ new.down = IF initial THEN NULL ELSE m[h].down
      BY <3>1 DEF Context, NULL
    <3>3. a = [m EXCEPT ![h] = new]
      BY <2>2, <3>1 DEF Activated, Context
    <3> HIDE DEF new, a
    <3> QED
      BY <2>2, <3>1, <3>2, <3>3
  <2> HIDE DEF a
  <2>8. /\ mem' \in [Addr -> Context]
        /\ \A k \in Addr : mem'[k].up = mem[k].up
        /\ \A k \in Addr \ {h} : mem'[k].state = m[k].state
        /\ mem'[h].state = IF phase = "handler" THEN "handled" ELSE "active"
        /\ mem'[h].down = IF initial THEN NULL ELSE mem[h].down
        /\ \A k \in Addr \ {h} : mem'[k].down \in {mem[k].down, NULL}
        /\ phase = "finally" /\ mem[h].up # NULL => mem'[mem[h].up].down = NULL
    <3>1. CASE phase = "handler"
      <4>1. mem' = [a EXCEPT ![h].state = "handled"]
        BY <2>1, <3>1 DEF Begun
      <4> QED
        BY <2>0, <2>2, <2>7, <3>1, <4>1 DEF Context
    <3>2. CASE phase = "finally" /\ mem[h].up # NULL
      <4>1. mem' = [a EXCEPT ![mem[h].up].down = NULL]
        BY <2>1, <2>7, <3>2 DEF Begun
      <4>2. mem[h].up \in Addr
        BY <1>2, <2>2, <2>6, <3>2 DEF NULL, Addr
      <4> DEFINE u   == mem[h].up
                 new == [a[u] EXCEPT !.down = NULL]
      <4>3. a[u] \in Context /\ u \in Addr \ {h}
        BY <2>6, <2>7, <4>2
      <4>4. /\ new \in Context /\ new.down = NULL
            /\ new.up = a[u].up /\ new.state = a[u].state
        BY <4>3 DEF Context, NULL
      <4>5. mem' = [a EXCEPT ![u] = new]
        BY <4>1
      <4> HIDE DEF new, u
      <4>6. mem' \in [Addr -> Context] /\ mem'[u] = new /\ \A k \in Addr \ {u} : mem'[k] = a[k]
        BY <2>7, <4>3, <4>4, <4>5
      <4>7. \A k \in Addr : m[k].up = mem[k].up /\ m[k].down = mem[k].down
        BY <2>0, <2>2 DEF FromBody
      <4>8. mem'[h] = a[h] /\ phase # "handler"
        BY <2>2, <3>2, <4>3, <4>6
      <4>9. \A k \in Addr : mem'[k].up = a[k].up
        BY <4>4, <4>6
      <4>10. \A k \in Addr : a[k].up = mem[k].up
        BY <2>2, <2>7, <4>7
      <4>11. \A k \in Addr \ {h} : mem'[k].state = m[k].state
        BY <2>7, <4>3, <4>4, <4>6
      <4>12. \A k \in Addr \ {h} : mem'[k].down \in {mem[k].down, NULL}
        BY <2>7, <4>3, <4>4, <4>6, <4>7
      <4>13. mem'[mem[h].up].down = NULL
        BY <4>4, <4>6 DEF u
      <4> QED
        BY <2>7, <4>6, <4>8, <4>9, <4>10, <4>11, <4>12, <4>13
    <3>3. CASE ~(phase = "handler") /\ ~(phase = "finally" /\ mem[h].up # NULL)
      <4>1. mem' = a
        BY <2>1, <2>7, <3>3 DEF Begun
      <4> QED
        BY <2>0, <2>2, <2>7, <3>3, <4>1
    <3> QED
      BY <3>1, <3>2, <3>3
  <2>9. TypeOK'
    <3>1. m[h].up \in Addr \cup {NULL}
      BY <2>0, <2>2 DEF Context
    <3> QED
      <4>1. handlers' \in Addr \cup {NULL} /\ status' \in {"up", "panic", "wild"}
        BY <1>1, <2>1, <3>1 DEF TypeOK
      <4>2. Top' <= MaxDepth
        BY <1>2, <2>2, <2>4
      <4> QED
        BY <2>4, <2>8, <4>1, <4>2 DEF TypeOK
  <2>10. /\ \A k \in 1 .. h : Bodies(k)' = Bodies(k)
         /\ Bodies(MaxDepth + 1)' = Bodies(h)
    <3>1. ASSUME NEW k \in 1 .. h
          PROVE  Bodies(k)' = Bodies(k)
      BY SMTT(30), <1>2, <2>2, <2>4 DEF Bodies
    <3>2. Bodies(MaxDepth + 1)' = Bodies(h)
      BY <1>2, <2>2, <2>3, <2>4 DEF Bodies
    <3> QED
      BY <3>1, <3>2
  <2>11. Stacked'
    <3>1. IsInner(handlers', Bodies(MaxDepth + 1)')
      BY <2>0, <2>1, <2>2, <2>5, <2>10
    <3>2. ASSUME NEW k \in 1 .. h
          PROVE  /\ IsInner(mem'[k].up, Bodies(k)')
                 /\ blocks'[k].phase = "body" => mem'[k].state = "none"
                 /\ blocks'[k].phase = "handler" => mem'[k].state = "handled"
                 /\ blocks'[k].phase = "unmatched" => k = h
                 /\ mem'[k].state # "junk"
      <4>1. k \in 1 .. Top /\ k \in Addr /\ (k # h => k < Top)
        BY <1>2, <2>2
      <4>2. IsInner(mem'[k].up, Bodies(k)')
        BY <1>1, <2>8, <2>10, <4>1 DEF Stacked
      <4>3. CASE k = h
        BY <2>3, <2>4, <2>8, <4>2, <4>3
      <4>4. CASE k # h
        <5>1. mem'[k].state = mem[k].state /\ blocks'[k] = blocks[k]
          BY <2>2, <2>4, <2>8, <4>1, <4>4, <2>0
        <5> QED
          BY <1>1, <1>2, <2>2, <4>1, <4>2, <4>4, <5>1 DEF Stacked
      <4> QED
        BY <4>3, <4>4
    <3> QED
      BY <2>4, <3>1, <3>2 DEF Stacked, IsInner
  <2>12. Linked'
    <3>1. ASSUME NEW k \in 1 .. h, mem'[k].up # NULL
          PROVE  /\ blocks'[k].phase \in {"body", "unmatched"}
                       => mem'[mem'[k].up].down \in {k, NULL}
                 /\ blocks'[k].phase = "finally" /\ mem'[k].state = "active"
                       => mem'[mem'[k].up].down = NULL
      <4>1. k \in 1 .. Top /\ k \in Addr /\ mem'[k].up = mem[k].up
        BY <1>2, <2>2, <2>8
      <4>2. IsInner(mem[k].up, Bodies(k)) /\ Bodies(k) \subseteq 1 .. k - 1
        <5>1. IsInner(mem[k].up, Bodies(k))
          BY <1>1, <4>1 DEF Stacked
        <5>2. Bodies(k) \subseteq 1 .. k - 1
          BY <1>2, <4>1 DEF Bodies
        <5> QED
          BY <5>1, <5>2
      <4>3. mem[k].up \in 1 .. k - 1 /\ mem[k].up \in Addr /\ mem[k].up # h
        BY <1>2, <2>2, <3>1, <4>1, <4>2 DEF IsInner, NULL
      <4>4. mem'[mem[k].up].down \in {mem[mem[k].up].down, NULL}
        BY <2>8, <4>3
      <4>5. CASE k = h
        BY <1>1, <2>2, <2>3, <2>4, <2>8, <3>1, <4>1, <4>4, <4>5 DEF Linked
      <4>6. CASE k # h
        <5>1. mem'[k].state = mem[k].state /\ blocks'[k] = blocks[k]
          BY <2>2, <2>4, <2>8, <4>1, <4>6, <2>0
        <5> QED
          BY <1>1, <3>1, <4>1, <4>4, <5>1 DEF Linked
      <4> QED
        BY <4>5, <4>6
    <3> QED
      BY <2>4, <3>1 DEF Linked
  <2>13. Traceable'
    <3>1. SUFFICES ASSUME phase = "unmatched"
                   PROVE  TraceSafe'
      BY <2>4 DEF Traceable
    <3>2. mem'[h].state # "junk"
      BY <2>8, <3>1
    <3>3. ASSUME mem'[h].down = NULL
          PROVE  TraceSafe'
      <4> DEFINE trace == {h, NULL}
      <4>1. trace \in SUBSET (0 .. MaxDepth) /\ h \in trace /\ NULL \in trace
        BY <1>2, <2>2 DEF NULL
      <4>2. \A k \in trace \ {NULL} : k = h
        OBVIOUS
      <4> QED
        BY <2>4, <3>2, <3>3, <4>1, <4>2 DEF TraceSafe
    <3>4. ASSUME mem'[h].down # NULL
          PROVE  TraceSafe'
      <4>1. ~initial /\ mem[h].down = Top /\ mem'[h].down = Top /\ TraceSafe /\ h < Top
        BY <1>6, <2>8, <3>4 DEF FromBody
      <4>2. PICK old \in SUBSET (0 .. MaxDepth) :
               /\ Top \in old
               /\ \A k \in old \ {NULL} :
                     /\ mem[k].state # "junk"
                     /\ mem[k].down \in old
                     /\ mem[k].down = NULL \/ mem[k].down > k
        BY <4>1 DEF TraceSafe
      <4> DEFINE below == {k \in old : k = NULL \/ k > h}
                 trace == below \cup {h, NULL}
      <4>3. trace \in SUBSET (0 .. MaxDepth) /\ h \in trace /\ Top \in trace
        <5>1. h \in 0 .. MaxDepth /\ NULL \in 0 .. MaxDepth
          BY <1>2, <2>2 DEF NULL
        <5>2. Top \in below /\ below \subseteq 0 .. MaxDepth
          BY <4>1, <4>2
        <5> QED
          BY <5>1, <5>2
      <4>4. ASSUME NEW k \in trace \ {NULL}
            PROVE  /\ mem'[k].state # "junk"
                   /\ mem'[k].down \in trace
                   /\ mem'[k].down = NULL \/ mem'[k].down > k
        <5>1. CASE k = h
          BY <3>2, <4>1, <4>3, <5>1
        <5>2. CASE k # h
          <6>1. k \in old \ {NULL} /\ k > h /\ k \in Addr \ {h}
            <7>1. k \in below /\ k # NULL
              BY <5>2
            <7>2. k \in old /\ k > h /\ k \in 0 .. MaxDepth
              BY <4>2, <7>1
            <7>3. h \in 1 .. MaxDepth /\ MaxDepth \in Nat
              BY <1>2, <2>2
            <7>4. k \in 1 .. MaxDepth /\ k # h
              BY <7>2, <7>3
            <7> QED
              BY <7>1, <7>2, <7>4 DEF Addr
          <6>2. mem'[k].state # "junk" /\ mem'[k].down \in {mem[k].down, NULL}
            BY <2>0, <2>8, <4>2, <6>1
          <6>3. mem[k].down = NULL \/ mem[k].down \in below
            <7>1. mem[k].down \in old /\ (mem[k].down = NULL \/ mem[k].down > k)
              BY <4>2, <6>1
            <7>2. h \in Int /\ k \in Int /\ mem[k].down \in Int
              <8>1. old \subseteq 0 .. MaxDepth
                BY <4>2
              <8>2. mem[k].down \in 0 .. MaxDepth /\ k \in 1 .. MaxDepth /\ MaxDepth \in Nat
                BY <1>2, <6>1, <7>1, <8>1 DEF Addr
              <8> QED
                BY <8>2
            <7> QED
              BY <6>1, <7>1, <7>2
          <6> QED
            BY <4>2, <6>1, <6>2, <6>3
        <5> QED
          BY <5>1, <5>2
      <4> HIDE DEF trace
      <4> QED
        BY <2>4, <4>3, <4>4 DEF TraceSafe
    <3> QED
      BY <3>3, <3>4
  <2>14. WalksSafe'
    BY <2>1 DEF WalksSafe
  <2>15. BodiesFollowed
    <3> SUFFICES ASSUME NEW k \in 1 .. Top, blocks[k].phase = "body",
                        blocks[k].fin, blocks[k].catches = {}
                 PROVE  Followed(k)
      BY DEF BodiesFollowed
    <3>1. k \in Bodies(MaxDepth + 1)
      BY <1>2 DEF Bodies
    <3>2. k <= h
      BY <3>1 DEF FromBody, IsInner
    <3>3. Len(blocks') = h
      BY <2>4 DEF Top
    <3>4. CASE k = h
      BY <2>3, <2>4, <3>2, <3>3, <3>4 DEF Followed
    <3>5. CASE k # h
      <4>1. blocks'[k] = blocks[k]
        BY <1>2, <2>2, <2>4, <3>2, <3>5
      <4> QED
        BY <3>2, <3>3, <4>1 DEF Followed
    <3> QED
      BY <3>4, <3>5
  <2> QED
    BY <2>9, <2>11, <2>12, <2>13, <2>14, <2>15 DEF Inv
<1> QED
  BY <1>5, <1>6

-----------------------------------------------------------------------------
(* The calls of internal_raise.                                            *)

LEMMA InPhase ==
    ASSUME Inv, NEW phase, In(phase)
    PROVE  /\ status = "up" /\ blocks # <<>> /\ Top \in 1 .. MaxDepth
           /\ Top \in Addr /\ blocks[Top].phase = phase
           /\ phase # "body" => Bodies(MaxDepth + 1) = Bodies(Top)
<1>1. status = "up" /\ blocks # <<>> /\ blocks[Top].phase = phase
  BY DEF In
<1>2. TypeOK
  BY DEF Inv
<1>3. blocks \in Seq(Block) /\ Top \in 0 .. MaxDepth /\ MaxDepth \in Nat
      /\ 1 .. Top \subseteq Addr
  BY <1>2, Typed
<1>4. Top \in 1 .. MaxDepth
  BY <1>1, <1>3, EmptySeq DEF Top
<1>5. phase # "body" => Bodies(MaxDepth + 1) = Bodies(Top)
  BY <1>1, <1>3, <1>4 DEF Bodies
<1> QED
  BY <1>1, <1>3, <1>4, <1>5

LEMMA RaiseFromHandlers ==
    ASSUME Inv, status = "up", NEW e \in Exceptions \cup {NoName},
           internal_raise(TRUE, e, handlers, mem)
    PROVE  Inv' /\ BodiesFollowed
<1>1. TypeOK /\ Stacked
  BY DEF Inv
<1>2. handlers \in Nat /\ mem \in [Addr -> Context] /\ handlers \in 0 .. Top
  <2>1. handlers \in Addr \cup {NULL} /\ mem \in [Addr -> Context] /\ MaxDepth \in Nat
        /\ Top \in 0 .. MaxDepth
    BY <1>1, Typed
  <2>2. handlers \in Bodies(MaxDepth + 1) \cup {NULL}
    BY <1>1 DEF Stacked, IsInner
  <2> QED
    BY <2>1, <2>2 DEF Addr, NULL, Bodies
<1>3. FromBody(TRUE, handlers, mem)
  BY <1>1, <1>2 DEF FromBody, Stacked
<1> QED
  BY <1>2, <1>3, RaiseKeepsInv

(* propagate, in the two clauses that end in OS_ENDTRY with an exception.  *)
LEMMA PropagateKeepsInv ==
    ASSUME Inv, NEW phase \in {"finally", "unmatched"}, In(phase),
           phase = "finally" => mem[Top].state = "active",
           propagate
    PROVE  Inv' /\ BodiesFollowed
<1>1. TypeOK /\ Stacked /\ Linked /\ Traceable /\ WalksSafe
  BY DEF Inv
<1>2. /\ status = "up" /\ blocks # <<>> /\ Top \in 1 .. MaxDepth
      /\ Top \in Addr /\ blocks[Top].phase = phase
      /\ Bodies(MaxDepth + 1) = Bodies(Top)
  BY InPhase
<1>3. mem \in [Addr -> Context] /\ MaxDepth \in Nat
  BY <1>1, Typed
<1>4. CASE ~TraceSafe
  <2>1. status' = "wild" /\ UNCHANGED <<handlers, mem, blocks>>
    BY <1>4 DEF propagate
  <2>2. phase = "finally"
    BY <1>1, <1>2, <1>4 DEF Traceable
  <2>3. TypeOK'
    BY <1>1, <2>1 DEF TypeOK, Top
  <2>4. Stacked' /\ Linked' /\ Traceable'
    BY <1>1, <2>1 DEF Stacked, Linked, Traceable, TraceSafe, Bodies, Top
  <2>5. WalksSafe'
    BY <1>2, <2>1, <2>2 DEF WalksSafe, Top
  <2>6. BodiesFollowed
    BY <2>1 DEF BodiesFollowed, Followed
  <2> QED
    BY <2>3, <2>4, <2>5, <2>6 DEF Inv
<1>5. CASE TraceSafe
  <2> DEFINE h == mem[Top].up
             m == [mem EXCEPT ![Top].state = "popped"]
  <2>1. internal_raise(FALSE, mem[Top].name, h, m)
    BY <1>5 DEF propagate
  <2>2. mem[Top] \in Context
    BY <1>2, <1>3
  <2>3. /\ m \in [Addr -> Context]
        /\ \A k \in Addr \ {Top} : m[k] = mem[k]
        /\ m[Top].up = mem[Top].up /\ m[Top].down = mem[Top].down
        /\ m[Top].state = "popped"
    <3> DEFINE new == [mem[Top] EXCEPT !.state = "popped"]
    <3>1. /\ new \in Context /\ new.up = mem[Top].up /\ new.down = mem[Top].down
          /\ new.state = "popped"
      BY <2>2 DEF Context
    <3>2. m = [mem EXCEPT ![Top] = new]
      OBVIOUS
    <3> HIDE DEF new, m
    <3> QED
      BY <1>2, <1>3, <3>1, <3>2
  <2> HIDE DEF m
  <2>4. IsInner(h, Bodies(MaxDepth + 1))
    <3>1. IsInner(h, Bodies(Top))
      BY <1>1, <1>2 DEF Stacked
    <3> QED
      BY <1>2, <3>1
  <2>5. h \in Nat /\ h \in 0 .. Top /\ h < Top
    <3>1. h \in Bodies(Top) \cup {NULL}
      BY <1>2, <2>4 DEF IsInner
    <3> QED
      BY <1>2, <1>3, <3>1 DEF Bodies, NULL
  <2>6. h # NULL => mem[h].down \in {Top, NULL}
    BY <1>1, <1>2 DEF Linked
  <2>7. mem[Top].name \in Exceptions \cup {NoName}
    BY <2>2 DEF Context
  <2>8. FromBody(FALSE, h, m)
    <3>1. /\ \A k \in Addr : m[k].up = mem[k].up /\ m[k].down = mem[k].down
          /\ \A k \in Addr : m[k].state = mem[k].state \/ m[k].state = "popped"
          /\ \A k \in 1 .. Top : m[k].state # mem[k].state => k = Top
      <4>1. 1 .. Top \subseteq Addr
        BY <1>1, Typed
      <4> QED
        BY <2>3, <4>1
    <3> HIDE DEF h
    <3> QED
      BY <1>5, <2>4, <2>5, <2>6, <3>1 DEF FromBody
  <2> HIDE DEF h
  <2> QED
    BY <1>2, <2>1, <2>3, <2>5, <2>7, <2>8, RaiseKeepsInv
<1> QED
  BY <1>4, <1>5

-----------------------------------------------------------------------------
(* The other steps.                                                        *)

LEMMA TryKeepsInv ==
    ASSUME Inv, NEW catches \in SUBSET Exceptions, NEW fin \in BOOLEAN,
           OS_TRY(catches, fin)
    PROVE  Inv'
<1> DEFINE b == [catches |-> catches, fin |-> fin, phase |-> "body"]
<1>1. TypeOK /\ Stacked /\ Linked
  BY DEF Inv
<1>2. /\ blocks \in Seq(Block) /\ Top \in 0 .. MaxDepth /\ MaxDepth \in Nat
      /\ mem \in [Addr -> Context] /\ handlers \in Addr \cup {NULL}
      /\ 1 .. Top \subseteq Addr
  BY <1>1, Typed
<1> PICK c \in Nat : c = Top + 1
  BY <1>2
<1>3. /\ status = "up" /\ status' = status /\ Top < MaxDepth
      /\ blocks' = Append(blocks, b) /\ mem' = Pushed(c) /\ handlers' = c
  BY DEF OS_TRY
<1>4. b \in Block /\ b.phase = "body"
  BY DEF Block
<1> HIDE DEF b
<1>5. /\ blocks' \in Seq(Block) /\ Top' = c
      /\ \A k \in 1 .. Top : blocks'[k] = blocks[k]
      /\ blocks'[c] = b
  BY <1>2, <1>3, <1>4, AppendProperties DEF Top
<1>6. c \in Addr /\ c \in 1 .. MaxDepth
  BY <1>2, <1>3 DEF Addr
<1>7. handlers \in 0 .. Top
  <2>1. handlers \in Bodies(MaxDepth + 1) \cup {NULL}
    BY <1>1 DEF Stacked, IsInner
  <2> QED
    BY <1>2, <2>1 DEF Bodies, NULL
<1>8. /\ mem' \in [Addr -> Context]
      /\ mem'[c].state = "none" /\ mem'[c].up = handlers
      /\ \A k \in Addr \ {c} : mem'[k].state = mem[k].state /\ mem'[k].up = mem[k].up
      /\ \A k \in Addr \ {c} : k # handlers => mem'[k].down = mem[k].down
      /\ handlers # NULL => mem'[handlers].down \in {c, NULL}
      /\ handlers # NULL /\ mem[handlers].down = NULL => mem'[handlers].down = NULL
  <2> DEFINE fresh  == [state |-> "none", up |-> handlers, down |-> Writable,
                        name |-> NoName]
             lower(k) == [mem[k] EXCEPT !.down = c]
  <2>1. fresh \in Context /\ fresh.state = "none" /\ fresh.up = handlers
    BY <1>2 DEF Context, Addr
  <2>2. ASSUME NEW k \in Addr
        PROVE  /\ lower(k) \in Context /\ lower(k).down = c
               /\ lower(k).state = mem[k].state /\ lower(k).up = mem[k].up
    BY <1>2, <1>6 DEF Context
  <2> HIDE DEF fresh, lower
  <2>3. mem' = [k \in Addr |->
                  IF k = c THEN fresh
                  ELSE IF k = handlers /\ mem[k].down # NULL THEN lower(k)
                  ELSE mem[k]]
    BY <1>3 DEF Pushed, fresh, lower
  <2>4. handlers # NULL => handlers \in Addr \ {c}
    BY <1>2, <1>7 DEF NULL, Addr
  <2>5. mem' \in [Addr -> Context]
    BY <1>2, <2>1, <2>2, <2>3
  <2> QED
    BY <1>2, <1>6, <2>1, <2>2, <2>3, <2>4, <2>5
<1>9. TypeOK'
  BY <1>1, <1>3, <1>5, <1>6, <1>8 DEF TypeOK
<1>10. /\ \A k \in 1 .. Top : Bodies(k)' = Bodies(k)
       /\ Bodies(c)' = Bodies(MaxDepth + 1)
       /\ Bodies(MaxDepth + 1)' = Bodies(MaxDepth + 1) \cup {c}
  <2>1. ASSUME NEW k \in 1 .. Top
        PROVE  Bodies(k)' = Bodies(k)
    BY <1>2, <1>5 DEF Bodies
  <2>2. ASSUME NEW j \in 1 .. c
        PROVE  /\ j \in Bodies(c)' <=> j \in Bodies(MaxDepth + 1)
               /\ j \in Bodies(MaxDepth + 1)' <=> j \in Bodies(MaxDepth + 1) \cup {c}
    <3>1. CASE j = c
      BY <1>2, <1>4, <1>5, <1>6, <3>1 DEF Bodies
    <3>2. CASE j # c
      <4>1. j \in 1 .. Top /\ blocks'[j] = blocks[j]
        BY <1>2, <1>5, <3>2
      <4> QED
        BY <1>2, <1>5, <1>6, <3>2, <4>1 DEF Bodies
    <3> QED
      BY <3>1, <3>2
  <2>3. /\ Bodies(c)' \subseteq 1 .. c /\ Bodies(MaxDepth + 1)' \subseteq 1 .. c
        /\ Bodies(MaxDepth + 1) \subseteq 1 .. c
    BY <1>2, <1>5 DEF Bodies
  <2> QED
    BY <1>6, <2>1, <2>2, <2>3
<1>11. Top \in 1 .. Top => blocks[Top].phase # "unmatched"
  <2>1. status = "up" /\ ~In("unmatched")
    BY DEF OS_TRY
  <2>2. Top \in 1 .. Top => blocks # <<>>
    BY <1>2, EmptySeq DEF Top
  <2> QED
    BY <2>1, <2>2 DEF In
<1>12. Stacked'
  <2>1. IsInner(handlers', Bodies(MaxDepth + 1)')
    <3>1. \A j \in Bodies(MaxDepth + 1) : j <= c
      BY <1>2 DEF Bodies
    <3> QED
      BY <1>3, <1>10, <3>1 DEF IsInner
  <2>2. ASSUME NEW k \in 1 .. c
        PROVE  /\ IsInner(mem'[k].up, Bodies(k)')
               /\ blocks'[k].phase = "body" => mem'[k].state = "none"
               /\ blocks'[k].phase = "handler" => mem'[k].state = "handled"
               /\ blocks'[k].phase = "unmatched" => k = c
               /\ mem'[k].state # "junk"
    <3>1. CASE k = c
      <4>1. IsInner(handlers, Bodies(MaxDepth + 1))
        BY <1>1 DEF Stacked
      <4> QED
        BY <1>4, <1>5, <1>8, <1>10, <3>1, <4>1
    <3>2. CASE k # c
      <4>1. k \in 1 .. Top /\ k \in Addr \ {c}
        BY <1>2, <3>2
      <4> QED
        <5>1. blocks[k].phase # "unmatched"
          BY <1>1, <1>11, <4>1 DEF Stacked
        <5> QED
          BY <1>1, <1>5, <1>8, <1>10, <4>1, <5>1 DEF Stacked
    <3> QED
      BY <3>1, <3>2
  <2> QED
    BY <1>5, <2>1, <2>2 DEF Stacked
<1>13. Linked'
  <2>1. ASSUME NEW k \in 1 .. c, mem'[k].up # NULL
        PROVE  /\ blocks'[k].phase \in {"body", "unmatched"}
                     => mem'[mem'[k].up].down \in {k, NULL}
               /\ blocks'[k].phase = "finally" /\ mem'[k].state = "active"
                     => mem'[mem'[k].up].down = NULL
    <3>1. CASE k = c
      BY <1>4, <1>5, <1>8, <2>1, <3>1
    <3>2. CASE k # c
      <4>1. k \in 1 .. Top /\ k \in Addr \ {c}
        BY <1>2, <3>2
      <4>2. /\ mem'[k].up = mem[k].up /\ mem'[k].state = mem[k].state
            /\ blocks'[k] = blocks[k]
        BY <1>5, <1>8, <4>1
      <4>3. IsInner(mem[k].up, Bodies(k))
        BY <1>1, <4>1 DEF Stacked
      <4>4. mem[k].up \in Bodies(k) /\ mem[k].up \in 1 .. k - 1
        BY <1>2, <2>1, <4>1, <4>2, <4>3 DEF IsInner, Bodies
      <4>5. mem[k].up \in Addr \ {c}
        BY <1>2, <4>1, <4>4 DEF Addr
      <4>6. CASE mem[k].up # handlers
        BY <1>1, <1>8, <2>1, <4>1, <4>2, <4>5, <4>6 DEF Linked
      <4>7. CASE mem[k].up = handlers
        <5>1. \A j \in Bodies(MaxDepth + 1) : j <= handlers
          BY <1>1 DEF Stacked, IsInner
        <5>2. blocks[k].phase # "body"
          BY <1>2, <4>1, <4>4, <4>7, <5>1 DEF Bodies
        <5>3. blocks[k].phase # "unmatched"
          BY <1>1, <1>11, <4>1 DEF Stacked
        <5> QED
          BY <1>1, <1>8, <2>1, <4>1, <4>2, <4>7, <5>2, <5>3 DEF Linked
      <4> QED
        BY <4>6, <4>7
    <3> QED
      BY <3>1, <3>2
  <2> QED
    BY <1>5, <2>1 DEF Linked
<1>14. Traceable' /\ WalksSafe'
  BY <1>3, <1>4, <1>5 DEF Traceable, WalksSafe
<1> QED
  BY <1>9, <1>12, <1>13, <1>14 DEF Inv

(* The innermost statement is left, or goes on in OS_FINALLY, without an   *)
(* exception.                                                              *)
LEMMA SettleKeepsInv ==
    ASSUME Inv, status = "up", blocks # <<>>, NEW n \in 1 .. MaxDepth, n = Top,
           UNCHANGED status, IsInner(handlers', Bodies(n)),
           handlers' \in Addr \cup {NULL}, mem' \in [Addr -> Context],
           \A k \in Addr : mem'[k].up = mem[k].up /\ mem'[k].down = mem[k].down,
           \A k \in Addr : k # n => mem'[k].state = mem[k].state,
           \/ Leave
           \/ Enter("finally") /\ mem'[n].state \notin {"active", "junk"}
    PROVE  Inv'
<1>1. TypeOK /\ Stacked /\ Linked
  BY DEF Inv
<1>2. MaxDepth \in Nat /\ 1 .. n \subseteq Addr
  BY <1>1, Typed
<1>3. /\ blocks' \in Seq(Block)
      /\ \A k \in 1 .. n - 1 : blocks'[k] = blocks[k]
      /\ \/ Top' = n - 1
         \/ Top' = n /\ blocks'[n].phase = "finally"
                     /\ mem'[n].state \notin {"active", "junk"}
  <2>1. CASE Leave
    BY <1>1, <2>1, LeaveFacts
  <2>2. CASE Enter("finally") /\ mem'[n].state \notin {"active", "junk"}
    <3>1. "finally" \in Phases
      BY DEF Phases
    <3>2. /\ blocks' \in Seq(Block) /\ Top' = Top
          /\ \A k \in 1 .. Top - 1 : blocks'[k] = blocks[k]
          /\ blocks'[Top].phase = "finally"
      BY <1>1, <2>2, <3>1, EnterFacts
    <3> QED
      BY <2>2, <3>2
  <2> QED
    BY <2>1, <2>2
<1>4. Top' \in 0 .. n
  BY <1>3
<1>5. /\ \A k \in 1 .. n : Bodies(k)' = Bodies(k)
      /\ Bodies(MaxDepth + 1)' = Bodies(n)
  <2>1. ASSUME NEW k \in 1 .. n
        PROVE  Bodies(k)' = Bodies(k)
    BY <1>2, <1>3 DEF Bodies
  <2>2. Bodies(MaxDepth + 1)' = Bodies(n)
    BY <1>2, <1>3 DEF Bodies
  <2> QED
    BY <2>1, <2>2
<1>6. TypeOK'
  BY <1>1, <1>2, <1>3, <1>4 DEF TypeOK
<1>7. Stacked'
  <2>1. IsInner(handlers', Bodies(MaxDepth + 1)')
    BY <1>5
  <2>2. ASSUME NEW k \in 1 .. n, k <= Top'
        PROVE  /\ IsInner(mem'[k].up, Bodies(k)')
               /\ blocks'[k].phase = "body" => mem'[k].state = "none"
               /\ blocks'[k].phase = "handler" => mem'[k].state = "handled"
               /\ blocks'[k].phase # "unmatched"
               /\ mem'[k].state # "junk"
    <3>1. k \in Addr
      BY <1>2
    <3>2. CASE k = n
      BY <1>1, <1>3, <1>5, <2>2, <3>1, <3>2 DEF Stacked
    <3>3. CASE k # n
      <4>1. mem'[k].state = mem[k].state /\ blocks'[k] = blocks[k]
        BY <1>3, <3>1, <3>3
      <4> QED
        BY <1>1, <1>5, <3>1, <3>3, <4>1 DEF Stacked
    <3> QED
      BY <3>2, <3>3
  <2> QED
    BY <1>4, <2>1, <2>2 DEF Stacked
<1>8. Linked'
  <2>1. ASSUME NEW k \in 1 .. n, k <= Top', mem'[k].up # NULL
        PROVE  /\ blocks'[k].phase \in {"body", "unmatched"}
                     => mem'[mem'[k].up].down \in {k, NULL}
               /\ blocks'[k].phase = "finally" /\ mem'[k].state = "active"
                     => mem'[mem'[k].up].down = NULL
    <3>1. k \in Addr /\ mem'[k].up \in Addr
      <4>1. k \in Addr
        BY <1>2
      <4>2. mem'[k] \in Context
        BY <4>1
      <4> QED
        BY <2>1, <4>1, <4>2 DEF Context
    <3>2. CASE k = n
      BY <1>3, <2>1, <3>2
    <3>3. CASE k # n
      <4>1. mem'[k].state = mem[k].state /\ blocks'[k] = blocks[k]
        BY <1>3, <3>1, <3>3
      <4> QED
        BY <1>1, <2>1, <3>1, <4>1 DEF Linked
    <3> QED
      BY <3>2, <3>3
  <2> QED
    BY <1>4, <2>1 DEF Linked
<1>9. Traceable' /\ WalksSafe'
  <2>1. blocks' # <<>> => Top' \in 1 .. n /\ blocks'[Top'].phase # "unmatched"
    <3>1. blocks' # <<>> => Top' \in 1 .. n
      BY <1>3, <1>4, EmptySeq DEF Top
    <3>2. ASSUME NEW k \in 1 .. n, k = Top'
          PROVE  blocks'[k].phase # "unmatched"
      BY <1>1, <1>3, <3>2 DEF Stacked
    <3> QED
      BY <3>1, <3>2
  <2> QED
    BY <2>1 DEF Traceable, WalksSafe
<1> QED
  BY <1>6, <1>7, <1>8, <1>9 DEF Inv

(* A call overwrites only frames below the statements the thread is in.    *)
LEMMA CallKeepsInv ==
    ASSUME Inv, call
    PROVE  Inv'
<1>1. TypeOK /\ Stacked /\ Linked /\ Traceable /\ WalksSafe
  BY DEF Inv
<1>2. /\ Top \in 0 .. MaxDepth /\ MaxDepth \in Nat /\ 1 .. Top \subseteq Addr
      /\ mem \in [Addr -> Context] /\ blocks \in Seq(Block)
  BY <1>1, Typed
<1>3. UNCHANGED <<handlers, blocks, status>> /\ status = "up" /\ ~In("unmatched")
  BY DEF call
<1>4. mem' \in [Addr -> Context] /\ \A k \in 1 .. Top : mem'[k] = mem[k]
  <2>1. PICK S \in SUBSET (Top + 1 .. MaxDepth) :
           mem' = [k \in Addr |-> IF k \in S THEN Junk ELSE mem[k]]
    BY DEF call
  <2>2. Junk \in Context
    BY DEF Junk, Context
  <2> QED
    BY <1>2, <2>1, <2>2
<1>5. TypeOK'
  BY <1>1, <1>3, <1>4 DEF TypeOK, Top
<1>6. \A k \in 1 .. Top : mem[k].up # NULL => mem[k].up \in 1 .. Top
  <2>1. \A k \in 1 .. Top : mem[k].up # NULL => mem[k].up \in Bodies(k)
    BY <1>1 DEF Stacked, IsInner
  <2> QED
    BY <1>2, <2>1 DEF Bodies
<1>7. \A k : Bodies(k)' = Bodies(k)
  BY <1>3 DEF Bodies, Top
<1>8. Top' = Top
  BY <1>3 DEF Top
<1>9. Stacked'
  BY <1>1, <1>3, <1>4, <1>7, <1>8 DEF Stacked
<1>10. Linked'
  BY <1>1, <1>3, <1>4, <1>6, <1>8 DEF Linked
<1>11. Traceable' /\ WalksSafe'
  BY <1>3, <1>8 DEF Traceable, WalksSafe, In
<1> QED
  BY <1>5, <1>9, <1>10, <1>11 DEF Inv

(* end_body: pop_context, and what follows the body.                       *)
LEMMA EndBodyKeepsInv ==
    ASSUME Inv, end_body
    PROVE  Inv'
<1>1. TypeOK /\ Stacked
  BY DEF Inv
<1>2. In("body")
  BY DEF end_body
<1>3. /\ status = "up" /\ blocks # <<>> /\ Top \in 1 .. MaxDepth
      /\ Top \in Addr /\ blocks[Top].phase = "body"
  BY <1>2, InPhase
<1>4. mem \in [Addr -> Context]
  BY <1>1, Typed
<1>5. /\ mem' \in [Addr -> Context]
      /\ \A k \in Addr : mem'[k].up = mem[k].up /\ mem'[k].down = mem[k].down
      /\ \A k \in Addr : k # Top => mem'[k].state = mem[k].state
      /\ mem'[Top].state = "popped"
  <2> DEFINE new == [mem[Top] EXCEPT !.state = "popped"]
  <2>1. mem[Top] \in Context
    BY <1>3, <1>4
  <2>2. /\ new \in Context /\ new.up = mem[Top].up /\ new.down = mem[Top].down
        /\ new.state = "popped"
    BY <2>1 DEF Context
  <2>3. mem' = [mem EXCEPT ![Top] = new]
    BY DEF end_body
  <2> HIDE DEF new
  <2> QED
    BY <1>3, <1>4, <2>2, <2>3
<1>6. handlers' = mem[Top].up /\ handlers' \in Addr \cup {NULL}
  <2>1. mem[Top] \in Context
    BY <1>3, <1>4
  <2> QED
    BY <2>1 DEF end_body, Context
<1>7. IsInner(handlers', Bodies(Top))
  BY <1>1, <1>3, <1>6 DEF Stacked
<1>8. Leave \/ Enter("finally")
  BY DEF end_body
<1>9. UNCHANGED status
  BY DEF end_body
<1> PICK n \in 1 .. MaxDepth : n = Top
  BY <1>3
<1> QED
  BY <1>3, <1>5, <1>6, <1>7, <1>8, <1>9, SettleKeepsInv

(* end_handler, and OS_ENDTRY after an OS_FINALLY without an exception.    *)
LEMMA EndClauseKeepsInv ==
    ASSUME Inv, NEW phase \in {"handler", "finally"}, In(phase),
           UNCHANGED <<handlers, mem, status>>,
           Leave \/ (phase = "handler" /\ Enter("finally"))
    PROVE  Inv'
<1>1. TypeOK /\ Stacked
  BY DEF Inv
<1>2. /\ status = "up" /\ blocks # <<>> /\ Top \in 1 .. MaxDepth
      /\ Top \in Addr /\ blocks[Top].phase = phase
      /\ Bodies(MaxDepth + 1) = Bodies(Top)
  BY InPhase
<1>3. mem \in [Addr -> Context] /\ handlers \in Addr \cup {NULL}
  BY <1>1, Typed
<1>4. IsInner(handlers', Bodies(Top))
  <2>1. IsInner(handlers, Bodies(MaxDepth + 1))
    BY <1>1 DEF Stacked
  <2> QED
    BY <1>2, <2>1
<1>5. phase = "handler" => mem[Top].state = "handled"
  <2>1. \A k \in 1 .. Top : blocks[k].phase = "handler" => mem[k].state = "handled"
    BY <1>1 DEF Stacked
  <2>2. Top \in 1 .. Top
    BY <1>2
  <2> QED
    BY <1>2, <2>1, <2>2
<1>6. Leave \/ (Enter("finally") /\ mem'[Top].state \notin {"active", "junk"})
  BY <1>5
<1> PICK n \in 1 .. MaxDepth : n = Top
  BY <1>2
<1>7. /\ IsInner(handlers', Bodies(n))
      /\ Leave \/ (Enter("finally") /\ mem'[n].state \notin {"active", "junk"})
  BY <1>4, <1>6
<1>8. /\ mem' \in [Addr -> Context] /\ handlers' \in Addr \cup {NULL}
      /\ \A k \in Addr : mem'[k].up = mem[k].up /\ mem'[k].down = mem[k].down
      /\ \A k \in Addr : k # n => mem'[k].state = mem[k].state
      /\ UNCHANGED status
  BY <1>3
<1> QED
  BY <1>2, <1>7, <1>8, SettleKeepsInv

-----------------------------------------------------------------------------
(* The theorems.                                                           *)

LEMMA InitInv ==
    ASSUME Init
    PROVE  Inv
<1>1. TypeOK
  <2>1. Junk \in Context
    BY DEF Junk, Context
  <2>2. <<>> \in Seq(Block) /\ Len(<<>>) = 0
    BY EmptySeq
  <2> QED
    BY <2>1, <2>2, ExceptionsAssumption DEF Init, TypeOK, Top
<1>2. Top = 0 /\ blocks = <<>>
  BY EmptySeq DEF Init, Top
<1>3. Bodies(MaxDepth + 1) = {}
  BY <1>2 DEF Bodies
<1>4. Stacked
  BY <1>2, <1>3 DEF Stacked, IsInner, Init
<1>5. Linked /\ Traceable /\ WalksSafe
  BY <1>2 DEF Linked, Traceable, WalksSafe, Init
<1> QED
  BY <1>1, <1>4, <1>5 DEF Inv

LEMMA Unmoved ==
    ASSUME Inv, UNCHANGED blocks
    PROVE  BodiesFollowed
BY DEF Inv, TypeOK, BodiesFollowed, Followed, Top

LEMMA TryFollows ==
    ASSUME Inv, NEW catches \in SUBSET Exceptions, NEW fin \in BOOLEAN,
           OS_TRY(catches, fin)
    PROVE  BodiesFollowed
<1> DEFINE b == [catches |-> catches, fin |-> fin, phase |-> "body"]
<1>1. blocks \in Seq(Block)
  BY DEF Inv, TypeOK
<1>2. blocks' = Append(blocks, b)
  BY DEF OS_TRY
<1>3. b \in Block
  BY DEF Block
<1> HIDE DEF b
<1>4. Len(blocks') = Top + 1 /\ Top \in Nat /\ \A k \in 1 .. Top : blocks'[k] = blocks[k]
  BY <1>1, <1>2, <1>3, AppendProperties, LenProperties DEF Top
<1> QED
  BY <1>4 DEF BodiesFollowed, Followed

LEMMA LeaveFollows ==
    ASSUME Inv, blocks # <<>>, Leave,
           ~blocks[Top].fin \/ blocks[Top].phase # "body"
    PROVE  BodiesFollowed
<1>1. TypeOK
  BY DEF Inv
<1>2. /\ Top' = Top - 1 /\ Top \in 1 .. MaxDepth /\ MaxDepth \in Nat
      /\ \A k \in 1 .. Top - 1 : blocks'[k] = blocks[k]
  BY <1>1, LeaveFacts, Typed
<1>3. Len(blocks') = Top - 1
  BY <1>2 DEF Top
<1>4. ASSUME NEW k \in 1 .. Top, blocks[k].phase = "body", blocks[k].fin
      PROVE  Followed(k)
  <2>1. k \in 1 .. Top - 1
    BY <1>2, <1>4
  <2> QED
    BY <1>2, <1>3, <1>4, <2>1 DEF Followed
<1> QED
  BY <1>4 DEF BodiesFollowed

(* Of a body that ends, OS_FINALLY follows; the others go on.              *)
LEMMA EndBodyFollows ==
    ASSUME Inv, end_body
    PROVE  BodiesFollowed
<1>1. TypeOK
  BY DEF Inv
<1>2. blocks # <<>>
  BY DEF end_body, In
<1>3. CASE blocks[Top].fin
  <2>1. Enter("finally")
    BY <1>3 DEF end_body
  <2>2. "finally" \in Phases
    BY DEF Phases
  <2>3. /\ Top' = Top /\ Top \in 1 .. MaxDepth /\ MaxDepth \in Nat
        /\ \A k \in 1 .. Top - 1 : blocks'[k] = blocks[k]
        /\ blocks'[Top].phase = "finally"
    BY <1>1, <1>2, <2>1, <2>2, EnterFacts, Typed
  <2>4. Len(blocks') = Top
    BY <2>3 DEF Top
  <2>5. ASSUME NEW k \in 1 .. Top, blocks[k].phase = "body"
        PROVE  Followed(k)
    <3>1. CASE k = Top
      BY <2>3, <2>4, <3>1 DEF Followed
    <3>2. CASE k # Top
      <4>1. k \in 1 .. Top - 1
        BY <2>3, <3>2
      <4> QED
        BY <2>3, <2>4, <2>5, <4>1 DEF Followed
    <3> QED
      BY <3>1, <3>2
  <2> QED
    BY <2>5 DEF BodiesFollowed
<1>4. CASE ~blocks[Top].fin
  <2>1. Leave
    BY <1>4 DEF end_body
  <2> QED
    BY <1>2, <1>4, <2>1, LeaveFollows
<1> QED
  BY <1>3, <1>4

LEMMA EndClauseFollows ==
    ASSUME Inv, NEW phase \in {"handler", "finally"}, In(phase),
           Leave \/ (phase = "handler" /\ Enter("finally"))
    PROVE  BodiesFollowed
<1>1. TypeOK
  BY DEF Inv
<1>2. blocks # <<>> /\ blocks[Top].phase # "body"
  BY DEF In
<1>3. CASE Leave
  BY <1>2, <1>3, LeaveFollows
<1>4. CASE Enter("finally")
  <2>1. "finally" \in Phases
    BY DEF Phases
  <2>2. /\ Top' = Top /\ Top \in 1 .. MaxDepth /\ MaxDepth \in Nat
        /\ \A k \in 1 .. Top - 1 : blocks'[k] = blocks[k]
    BY <1>1, <1>2, <1>4, <2>1, EnterFacts, Typed
  <2>3. Len(blocks') = Top
    BY <2>2 DEF Top
  <2>4. ASSUME NEW k \in 1 .. Top, blocks[k].phase = "body"
        PROVE  Followed(k)
    <3>1. k \in 1 .. Top - 1
      BY <1>2, <2>2, <2>4
    <3> QED
      BY <2>2, <2>3, <2>4, <3>1 DEF Followed
  <2> QED
    BY <2>4 DEF BodiesFollowed
<1> QED
  BY <1>3, <1>4

(* Every step keeps the invariant, and what FinallyRuns says.              *)
LEMMA NextInv ==
    ASSUME Inv, [Next]_vars
    PROVE  Inv' /\ BodiesFollowed
<1>1. CASE UNCHANGED vars
  <2>1. Inv'
    BY <1>1 DEF vars, Inv, TypeOK, Stacked, Linked, Traceable, TraceSafe, WalksSafe, Bodies, Top
  <2> QED
    BY <1>1, <2>1, Unmoved DEF vars
<1>2. ASSUME NEW catches \in SUBSET Exceptions, NEW fin \in BOOLEAN,
             OS_TRY(catches, fin)
      PROVE  Inv' /\ BodiesFollowed
  BY <1>2, TryKeepsInv, TryFollows
<1>3. ASSUME NEW e \in Exceptions, OS_RAISE(e)
      PROVE  Inv' /\ BodiesFollowed
  BY <1>3, RaiseFromHandlers DEF OS_RAISE
<1>4. CASE OS_RERAISE
  <2>1. In("handler")
    BY <1>4 DEF OS_RERAISE
  <2>2. status = "up" /\ Top \in Addr
    BY <2>1, InPhase
  <2>3. mem[Top].name \in Exceptions \cup {NoName}
    <3>1. mem[Top] \in Context
      BY <2>2, Typed DEF Inv
    <3> QED
      BY <3>1 DEF Context
  <2> QED
    BY <1>4, <2>2, <2>3, RaiseFromHandlers DEF OS_RERAISE
<1>5. CASE end_body
  BY <1>5, EndBodyKeepsInv, EndBodyFollows
<1>6. CASE end_handler
  <2>1. In("handler") /\ UNCHANGED <<handlers, mem, status>>
    BY <1>6 DEF end_handler
  <2>2. Leave \/ Enter("finally")
    BY <1>6 DEF end_handler
  <2> QED
    BY <2>1, <2>2, EndClauseKeepsInv, EndClauseFollows
<1>7. CASE end_finally
  <2>1. CASE mem[Top].state = "active" /\ propagate
    BY <1>7, <2>1, PropagateKeepsInv DEF end_finally
  <2>2. CASE Leave /\ UNCHANGED <<handlers, mem, status>>
    <3>1. In("finally")
      BY <1>7 DEF end_finally
    <3> QED
      BY <2>2, <3>1, EndClauseKeepsInv, EndClauseFollows
  <2> QED
    BY <1>7, <2>1, <2>2 DEF end_finally
<1>8. CASE end_unmatched
  BY <1>8, PropagateKeepsInv DEF end_unmatched
<1>9. CASE call
  BY <1>9, CallKeepsInv, Unmoved DEF call
<1> QED
  BY <1>1, <1>2, <1>3, <1>4, <1>5, <1>6, <1>7, <1>8, <1>9 DEF Next

LEMMA SpecInv == Spec => []Inv
<1>1. Init => Inv
  BY InitInv
<1>2. Inv /\ [Next]_vars => Inv'
  BY NextInv
<1> QED
  BY <1>1, <1>2, PTL DEF Spec

(* The stack of handlers that push_context, pop_context and internal_raise *)
(* maintain is always exactly the statements whose body runs, innermost    *)
(* first, and nothing has been raised in any of them.                      *)
THEOREM HandlerStackExact == Spec => []HandlersExact
<1>1. Inv => HandlersExact
  <2> SUFFICES ASSUME Inv
               PROVE  HandlersExact
    OBVIOUS
  <2>1. TypeOK /\ Stacked
    BY DEF Inv
  <2>2. \A k : Bodies(k) \in SUBSET Nat
    BY DEF Bodies
  <2>3. handlers = Innermost(Bodies(MaxDepth + 1))
    BY <2>1, <2>2, InnerIsInnermost DEF Stacked
  <2>4. ASSUME NEW k \in Bodies(MaxDepth + 1)
        PROVE  mem[k].state = "none" /\ mem[k].up = Innermost(Bodies(k))
    <3>1. k \in 1 .. Top /\ blocks[k].phase = "body"
      BY DEF Bodies
    <3>2. IsInner(mem[k].up, Bodies(k)) /\ mem[k].state = "none"
      BY <2>1, <3>1 DEF Stacked
    <3> QED
      BY <2>2, <3>2, InnerIsInnermost
  <2> QED
    BY <2>1, <2>3, <2>4 DEF HandlersExact
<1> QED
  BY <1>1, SpecInv, PTL

(* Whatever is raised where, the body of a statement without OS_CATCH is   *)
(* followed by its OS_FINALLY clause.                                      *)
THEOREM FinallyClausesRun == Spec => FinallyRuns
<1>1. Inv /\ [Next]_vars => BodiesFollowed
  BY NextInv
<1> QED
  BY <1>1, SpecInv, PTL DEF Spec, FinallyRuns, BodiesFollowed, Followed

(* The walk along the down pointers that OS_ENDTRY does to propagate an    *)
(* exception leaves the contexts only after an OS_FINALLY clause.          *)
THEOREM BacktraceWalksSafe == Spec => []WalksSafe
<1>1. Inv => WalksSafe
  BY DEF Inv
<1> QED
  BY <1>1, SpecInv, PTL
=============================================================================
