-------------------------- MODULE ExceptionContexts --------------------------
(***************************************************************************)
(* Exceptions by setjmp and longjmp: the macros of                         *)
(* src/kernel/arch/x86/exceptions.h over push_context, pop_context and     *)
(* raise of src/modules/exceptions_mod/exception_system.cpp.               *)
(*                                                                         *)
(* One thread enters and leaves nested OS_TRY statements in any way the    *)
(* macros allow.  Each statement has its context in its stack frame; the   *)
(* context of the k-th nested statement is at address k.  A context stays  *)
(* in memory when its frame is gone, until other frames overwrite it.      *)
(***************************************************************************)
EXTENDS Integers, Sequences, FiniteSets

CONSTANTS
    Exceptions,
    NoName,
    MaxDepth      \* bound on the nesting of statements

ASSUME ExceptionsAssumption == MaxDepth \in Nat /\ NoName \notin Exceptions

VARIABLES
    handlers,    \* d_state: the innermost context on the stack
    mem,         \* the stack memory: the context at each address
    blocks,      \* the statements the thread is in: their clauses and phase
    status       \* "up", "panic", or "wild" after a walk along bad pointers

vars == <<handlers, mem, blocks, status>>

NULL     == 0
Writable == -1                \* the pointer 0x1
Addr     == 1 .. MaxDepth
Top      == Len(blocks)

Junk == [state |-> "junk", up |-> NULL, down |-> Writable, name |-> NoName]

Init ==
    /\ handlers = NULL
    /\ mem = [k \in Addr |-> Junk]
    /\ blocks = <<>>
    /\ status = "up"

In(phase) == status = "up" /\ blocks # <<>> /\ blocks[Top].phase = phase

-----------------------------------------------------------------------------
(* push_context writes down of the enclosing context unless a raise or an  *)
(* OS_FINALLY has cauterised it.                                           *)
Pushed(c) ==
    [k \in Addr |->
        CASE k = c -> [state |-> "none", up |-> handlers, down |-> Writable, name |-> NoName]
          [] k # c /\ k = handlers /\ mem[k].down # NULL -> [mem[k] EXCEPT !.down = c]
          [] OTHER -> mem[k]]

OS_TRY(catches, fin) ==
    /\ status = "up" /\ ~In("unmatched") /\ Top < MaxDepth
    /\ blocks' = Append(blocks, [catches |-> catches, fin |-> fin, phase |-> "body"])
    /\ mem' = Pushed(Top + 1)
    /\ handlers' = Top + 1
    /\ UNCHANGED status

(* A call of some function overwrites frames that are gone.                *)
call ==
    /\ status = "up" /\ ~In("unmatched")
    /\ \E S \in SUBSET (Top + 1 .. MaxDepth) :
          mem' = [k \in Addr |-> IF k \in S THEN Junk ELSE mem[k]]
    /\ UNCHANGED <<handlers, blocks, status>>

-----------------------------------------------------------------------------
(* internal_raise looks for a context in which nothing has been raised.    *)
\* Faulty: begins with the statement around it.
TargetAbove(m, h) ==
    LET T[k \in 0 .. Top] ==
            IF k = NULL \/ m[k].state = "none" THEN k ELSE T[m[k].up]
    IN  IF h = NULL \/ m[h].up = NULL THEN h ELSE T[m[h].up]

Target(m, h) ==
    LET T[k \in 0 .. Top] ==
            IF k = NULL \/ m[k].state = "none" THEN k ELSE T[m[k].up]
    IN  T[h]

Activated(m, c, e, initial) ==
    [m EXCEPT ![c].state = "active", ![c].name = e, ![c].down = IF initial THEN NULL ELSE @]

(* Where control goes on in a statement after longjmp: to the OS_CATCH     *)
(* clause that matches, to OS_FINALLY, or to OS_ENDTRY.                    *)
Clause(b, e) == CASE e \in b.catches            -> "handler"
                  [] e \notin b.catches /\ b.fin -> "finally"
                  [] OTHER                       -> "unmatched"

\* Faulty: OS_FINALLY leaves the enclosing context as it is.
NotCauterised(m, c, phase) ==
    IF phase = "handler" THEN [m EXCEPT ![c].state = "handled"] ELSE m

(* What the clause does at its beginning: OS_CATCH marks the exception as  *)
(* handled, OS_FINALLY cauterises the enclosing context.                   *)
Begun(m, c, phase) ==
    CASE phase = "handler" -> [m EXCEPT ![c].state = "handled"]
      [] phase = "finally" /\ m[c].up # NULL -> [m EXCEPT ![m[c].up].down = NULL]
      [] OTHER -> m

\* Faulty: the context stays on the stack of handlers.
AfterJump(m, c) == c

AfterRaise(m, c) == m[c].up

(* h and m are handlers and memory when internal_raise is called.          *)
internal_raise(initial, e, h, m) ==
    LET c == Target(m, h) IN
    IF c = NULL THEN
        /\ status' = "panic"
        /\ UNCHANGED <<handlers, mem, blocks>>
    ELSE
        LET phase == Clause(blocks[c], e) IN
        /\ mem' = Begun(Activated(m, c, e, initial), c, phase)
        /\ handlers' = AfterRaise(m, c)
        /\ blocks' = [SubSeq(blocks, 1, c) EXCEPT ![c].phase = phase]
        /\ UNCHANGED status

OS_RAISE(e) ==
    /\ status = "up" /\ ~In("unmatched")
    /\ internal_raise(TRUE, e, handlers, mem)

OS_RERAISE == In("handler") /\ internal_raise(TRUE, mem[Top].name, handlers, mem)

-----------------------------------------------------------------------------
(* Leaving a clause.  pop_context runs once, in OS_FINALLY or OS_ENDTRY.   *)
Leave == blocks' = SubSeq(blocks, 1, Top - 1)
Enter(phase) == blocks' = [blocks EXCEPT ![Top].phase = phase]

end_body ==
    /\ In("body")
    /\ mem' = [mem EXCEPT ![Top].state = "popped"]
    /\ handlers' = mem[Top].up
    /\ IF blocks[Top].fin THEN Enter("finally") ELSE Leave
    /\ UNCHANGED status

end_handler ==
    /\ In("handler")
    /\ IF blocks[Top].fin THEN Enter("finally") ELSE Leave
    /\ UNCHANGED <<handlers, mem, status>>

(* OS_ENDTRY with an active exception follows down through the contexts of *)
(* the frames that are gone, to keep them, and propagates the exception.   *)
(* The walk is safe if it meets only contexts that are still there, each   *)
(* further down the stack, until the pointer is NULL.                      *)
TraceSafe ==
    \E trace \in SUBSET (0 .. MaxDepth) :
        /\ Top \in trace
        /\ \A k \in trace \ {NULL} :
              /\ mem[k].state # "junk"
              /\ mem[k].down \in trace
              /\ mem[k].down = NULL \/ mem[k].down > k

propagate ==
    IF ~TraceSafe THEN status' = "wild" /\ UNCHANGED <<handlers, mem, blocks>>
    ELSE internal_raise(FALSE, mem[Top].name, mem[Top].up,
                        [mem EXCEPT ![Top].state = "popped"])

end_finally ==
    /\ In("finally")
    /\ \/ mem[Top].state = "active" /\ propagate
       \/ mem[Top].state # "active" /\ Leave /\ UNCHANGED <<handlers, mem, status>>

end_unmatched == In("unmatched") /\ propagate

Next ==
    \/ \E catches \in SUBSET Exceptions, fin \in BOOLEAN : OS_TRY(catches, fin)
    \/ \E e \in Exceptions : OS_RAISE(e)
    \/ OS_RERAISE
    \/ end_body \/ end_handler \/ end_finally \/ end_unmatched
    \/ call

Spec == Init /\ [][Next]_vars

-----------------------------------------------------------------------------
Context == [state : {"none", "active", "handled", "popped", "junk"},
            up : Addr \cup {NULL}, down : Addr \cup {NULL, Writable},
            name : Exceptions \cup {NoName}]
Block   == [catches : SUBSET Exceptions, fin : BOOLEAN,
            phase : {"body", "handler", "finally", "unmatched"}]

TypeOK ==
    /\ handlers \in Addr \cup {NULL}
    /\ mem \in [Addr -> Context]
    /\ blocks \in Seq(Block)
    /\ Top <= MaxDepth
    /\ status \in {"up", "panic", "wild"}

(* The statements whose body runs, outside of context k.                   *)
Bodies(k) == {j \in 1 .. Top : j < k /\ blocks[j].phase = "body"}

Innermost(S) == IF S = {} THEN NULL ELSE CHOOSE j \in S : \A i \in S : i <= j

(* The variables have their types, and the stack of handlers is exactly    *)
(* the statements whose body runs, innermost first, with no exception in   *)
(* any of them (a "can't happen?" of internal_raise), although their       *)
(* frames come and go and exceptions are raised in handlers and in         *)
(* OS_FINALLY clauses.                                                     *)
HandlersExact ==
    /\ TypeOK
    /\ handlers = Innermost(Bodies(MaxDepth + 1))
    /\ \A k \in Bodies(MaxDepth + 1) : mem[k].state = "none" /\ mem[k].up = Innermost(Bodies(k))

(* Whatever is raised where, a body is not left without its OS_FINALLY     *)
(* clause, in statements without OS_CATCH ("You should *avoid* using       *)
(* FINALLY with CATCH clauses"): the clause begins when the body ends.     *)
FinallyRuns ==
    [][\A k \in 1 .. Top :
          blocks[k].phase = "body" /\ blocks[k].fin /\ blocks[k].catches = {} =>
              \/ status' # "up"
              \/ k <= Len(blocks') /\ blocks'[k].phase \in {"body", "finally"}]_vars

(* The walk for the backtrace meets only contexts that nothing has         *)
(* overwritten, except in OS_ENDTRY after an OS_FINALLY clause: that       *)
(* clause may have used the stack of the contexts below it.                *)
WalksSafe == status = "wild" => blocks[Top].phase = "finally"
=============================================================================
