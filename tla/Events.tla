------------------------------- MODULE Events -------------------------------
(***************************************************************************)
(* Event counts and their channels                                         *)
(* (src/modules/tcb/root_domain/events.cpp).                               *)
(*                                                                         *)
(* Threads of one domain call the operations.  A vcpu_lock_t turns         *)
(* activations off, so an operation under it is one step.  await looks at  *)
(* the count before it enters its critical section and waits inside of     *)
(* it, so it is split there; the kernel may deliver events on a channel at *)
(* any moment.  The scheduler, the vcpu and the dispatcher exist as        *)
(* interfaces only; what they do is taken from how events.cpp uses them    *)
(* and from src/interfaces.                                                *)
(*                                                                         *)
(* Event values are unsigned words; Word stands for 2^64.                  *)
(***************************************************************************)
EXTENDS Integers, SequencesExt

CONSTANTS
    Threads, Counts,
    Endpoints,    \* channel endpoints
    NullEp,       \* NULL_EP, endpoint 0
    None,         \* no thread, no count
    Word,         \* number of event values
    MaxValue,     \* bound on counts, tickets and received values
    Increments,   \* arguments of advance
    CyclicNext    \* does next() of an empty list return the list itself?
                  \* FALSE in dl_link_t; block_event needs TRUE

Value == 0 .. Word - 1
Types == {"none", "rx", "tx"}

ASSUME EventsAssumption ==
    /\ Word \in {2 * n : n \in 1 .. Word}
    /\ MaxValue \in Value
    /\ Increments \subseteq Value
    /\ CyclicNext \in BOOLEAN
    /\ None \notin Threads \cup Counts
    /\ NullEp \notin Endpoints

AllEndpoints == Endpoints \cup {NullEp}

VARIABLES
    count,    \* event_count_t of each count
    thr,      \* per thread: where it is, and its qlink_t
    cs,       \* the thread that keeps all others from running, or None
    timeq,    \* threads whose qlink is linked into time_queue
    ep,       \* the vcpu's view of each endpoint
    status    \* "up", or what stopped the domain

vars == <<count, thr, cs, timeq, ep, status>>

NewCount == [life |-> "live", value |-> 0, type |-> "none", ep |-> NullEp,
             queue |-> <<>>]
NoCount  == [NewCount EXCEPT !.life = "free"]

Idle == [pc |-> "idle", ec |-> None, want |-> 0, timed |-> FALSE,
         rx |-> None, alerted |-> FALSE]

Endpoint(s) == [state |-> s, type |-> "none", val |-> 0, ack |-> 0,
                listed |-> FALSE, notify |-> None]

Init ==
    /\ count = [e \in Counts |-> NoCount]
    /\ thr = [t \in Threads |-> Idle]
    /\ cs = None
    /\ timeq = {}
    /\ ep = [p \in Endpoints |-> Endpoint("local")]
    /\ status = "up"

-----------------------------------------------------------------------------
(* Comparisons of event values by the sign of their difference.            *)
Diff(v, w)  == (v - w) % Word
EC_LT(v, w) == Diff(v, w) >= Word \div 2
EC_LE(v, w) == v = w \/ EC_LT(v, w)

\* Faulty: the next value is not greater.
GreaterByTwo(v, w) == Diff(v, w) \in 2 .. Word \div 2 - 1

EC_GT(v, w) == Diff(v, w) \in 1 .. Word \div 2 - 1

Live(e)    == count[e].life # "free"
Waiting(e) == ToSet(count[e].queue)

(* A thread may run while nobody keeps it from running.                    *)
Runs(t) == status = "up" /\ cs \in {None, t}
Calls(t) == Runs(t) /\ thr[t].pc = "idle"

(* The domain follows a bad pointer; what it had changed does not matter.  *)
Stop(why) ==
    /\ status' = why
    /\ UNCHANGED <<count, thr, cs, timeq, ep>>

-----------------------------------------------------------------------------
(* block_event finds its place among the waiting threads by a plain        *)
(* comparison of their values.                                             *)
PlaceOf(q, v) ==
    LET k == SelectInSeq(q, LAMBDA u : thr[u].want > v)
    IN  IF k = 0 THEN Len(q) + 1 ELSE k

(* unblock_event takes threads off the front of the queue while their      *)
(* values are reached.                                                     *)
Reached(q, v) ==
    LET k == SelectInSeq(q, LAMBDA u : ~EC_LE(thr[u].want, v))
    IN  IF k = 0 THEN Len(q) ELSE k - 1

(* The threads with the first n threads of q unblocked.  The wake-up of a  *)
(* thread that block_yield has not let go of yet makes it ready.           *)
Unblocked(q, n, alerted) ==
    [t \in Threads |->
        IF t \in ToSet(SubSeq(q, 1, n))
        THEN [Idle EXCEPT !.pc = "ready", !.ec = thr[t].ec, !.alerted = alerted]
        ELSE thr[t]]

(* Count e gets value v and wakes whom it must.                            *)
Updated(e, v) ==
    LET q == count[e].queue
    IN  [count EXCEPT ![e].value = v,
                      ![e].queue = SubSeq(q, Reached(q, v) + 1, Len(q))]

Woken(e, v) == Unblocked(count[e].queue, Reached(count[e].queue, v), FALSE)

-----------------------------------------------------------------------------
(* Event counts.                                                           *)

(* The exception of a failed allocation is a longjmp out of the scope of   *)
(* the vcpu_lock_t, whose destructor would have enabled activations.  The  *)
(* domain goes on without them and gets no more events; the model does not *)
(* follow it there.                                                        *)
no_resources(t) == Calls(t) /\ Stop("masked")

create(t, e) ==
    /\ Calls(t) /\ ~Live(e)
    /\ count' = [count EXCEPT ![e] = NewCount]
    /\ UNCHANGED <<thr, cs, timeq, ep, status>>

(* destroy alerts all who wait.  With an endpoint it leaves the critical   *)
(* section to close the channel, and frees the count afterwards; who came  *)
(* to wait in the meantime is on no list any more.  The dispatcher refuses *)
(* to detach from a sending endpoint; that exception leaves activations    *)
(* off, too.                                                               *)
AlertAll(e) == Unblocked(count[e].queue, Len(count[e].queue), TRUE)

\* Faulty: leaves the handler of the count with the endpoint.
StaysAttached(e) == ep

Detached(e) == [ep EXCEPT ![count[e].ep].notify = None]

Undetachable(e) ==
    count[e].type = "tx" \/ (count[e].type = "rx" /\ ep[count[e].ep].type = "tx")

destroy(t, e) ==
    /\ Calls(t) /\ count[e].life = "live"
    /\ CASE count[e].type = "none" ->
              /\ count' = [count EXCEPT ![e] = NoCount]
              /\ thr' = AlertAll(e)
              /\ UNCHANGED <<cs, timeq, ep, status>>
         [] Undetachable(e) -> Stop("masked")
         [] OTHER ->
              /\ count' = [count EXCEPT ![e].life = "closing", ![e].queue = <<>>]
              /\ thr' = [AlertAll(e) EXCEPT ![t].pc = "closing", ![t].ec = e]
              /\ ep' = Detached(e)
              /\ UNCHANGED <<cs, timeq, status>>

close(t) ==
    LET e == thr[t].ec
        p == count[e].ep
    IN
    /\ Runs(t) /\ thr[t].pc = "closing"
    /\ IF ep[p].notify # None THEN Stop("panic")
       ELSE /\ ep' = [ep EXCEPT ![p] = Endpoint("free")]
            /\ count' = [count EXCEPT ![e] = NoCount]
            /\ thr' = [u \in Threads |->
                         CASE u = t -> Idle
                           [] u \in Waiting(e) -> [Idle EXCEPT !.pc = "stranded"]
                           [] OTHER -> thr[u]]
            /\ UNCHANGED <<cs, timeq, status>>

(* read polls an attached receiving endpoint, and wakes nobody.            *)
read(t, e) ==
    /\ Calls(t) /\ Live(e)
    /\ count[e].type = "rx"
    /\ count' = [count EXCEPT ![e].value = ep[count[e].ep].val]
    /\ UNCHANGED <<thr, cs, timeq, ep, status>>

(* The value a sending count gets is sent to its peer, which is outside of *)
(* this model.  send may raise an exception; advance enables activations   *)
(* in its OS_FINALLY clause.                                               *)
advance(t, e, n) ==
    LET v == (count[e].value + n) % Word IN
    /\ Calls(t) /\ Live(e)
    /\ v <= MaxValue
    /\ count' = Updated(e, v)
    /\ thr' = Woken(e, v)
    /\ UNCHANGED <<cs, timeq, ep, status>>

-----------------------------------------------------------------------------
(* await and await_until.  A call whose value is reached, or whose         *)
(* deadline has passed, returns at once and changes nothing.               *)
await(t, e, v, timed) ==
    /\ Calls(t) /\ Live(e)
    /\ ~EC_LE(v, count[e].value)
    /\ thr' = [thr EXCEPT ![t] =
                  [Idle EXCEPT !.pc = "entering", !.ec = e, !.want = v, !.timed = timed]]
    /\ UNCHANGED <<count, cs, timeq, ep, status>>

(* The end of the critical section: c and th are the counts and threads    *)
(* so far.  The thread returns, blocks, or finds that its deadline passed. *)
Return(t, c, th) ==
    /\ count' = c
    /\ thr' = [th EXCEPT ![t] = Idle]
    /\ UNCHANGED <<timeq, status>>

Blocked(t, c, e) ==
    LET q == c[e].queue
    IN  [c EXCEPT ![e].queue = InsertAt(q, PlaceOf(q, thr[t].want), t)]

(* The first thread to wait finds the list empty.  A thread that an        *)
(* advance has woken before its deadline is still linked into time_queue,  *)
(* and linking it again breaks that list.                                  *)
NullNext(t, c, e) ==
    /\ ~CyclicNext
    /\ c[e].queue = <<>> \/ (thr[t].timed /\ timeq = {})

block_event(t, c, th, e) ==
    IF NullNext(t, c, e) THEN
        status' = "null" /\ UNCHANGED <<count, thr, timeq>>
    ELSE IF t \in timeq THEN
        status' = "relinked" /\ UNCHANGED <<count, thr, timeq>>
    ELSE
        /\ count' = Blocked(t, c, e)
        /\ thr' = [th EXCEPT ![t].pc = "blocked"]
        /\ timeq' = IF thr[t].timed THEN timeq \cup {t} ELSE timeq
        /\ UNCHANGED status

Finish(t, v, c, th) ==
    /\ \/ ~EC_GT(thr[t].want, v) /\ Return(t, c, th)
       \/ thr[t].timed /\ Return(t, c, th)
       \/ EC_GT(thr[t].want, v) /\ block_event(t, c, th, thr[t].ec)
    /\ cs' = None

(* Entering the critical section: the count may have changed, or gone.     *)
enter(t) ==
    LET e == thr[t].ec IN
    /\ Runs(t) /\ thr[t].pc = "entering"
    /\ CASE ~Live(e) -> Stop("dangling")
         [] Live(e) /\ count[e].type # "rx" ->
              Finish(t, count[e].value, count, thr) /\ UNCHANGED ep
         [] Live(e) /\ count[e].type = "rx" ->
              /\ thr' = [thr EXCEPT ![t].pc = "syncing"]
              /\ cs' = t
              /\ UNCHANGED <<count, timeq, ep, status>>

(* One turn of the loop that brings the count up to its endpoint: the      *)
(* value is taken over once it is large enough or acknowledged, so that    *)
(* the next event will be noticed.  await_until yields before it           *)
(* acknowledges.                                                           *)
UpToDate(x, want) == EC_GT(x.val, want) \/ x.val = x.ack

\* Faulty: lets other threads run in await, too.
YieldsAlways(t) == None

Yields(t) == IF thr[t].timed THEN None ELSE t

sync(t) ==
    LET e == thr[t].ec
        x == ep[count[e].ep]
    IN
    /\ Runs(t) /\ thr[t].pc = "syncing"
    /\ \/ /\ UpToDate(x, thr[t].want)
          /\ Finish(t, x.val, Updated(e, x.val), [Woken(e, x.val) EXCEPT ![t].rx = x.val])
          /\ UNCHANGED ep
       \/ /\ thr[t].timed      \* the deadline has passed
          /\ Return(t, Updated(e, x.val), Woken(e, x.val))
          /\ cs' = None
          /\ UNCHANGED ep
       \/ /\ ~UpToDate(x, thr[t].want)
          /\ thr' = [thr EXCEPT ![t].pc = "acking", ![t].rx = x.val]
          /\ cs' = Yields(t)
          /\ UNCHANGED <<count, timeq, ep, status>>

ack(t) ==
    LET e == thr[t].ec IN
    /\ Runs(t) /\ thr[t].pc = "acking"
    /\ IF ~Live(e) \/ count[e].type # "rx" THEN Stop("dangling")
       ELSE /\ ep' = [ep EXCEPT ![count[e].ep].ack = thr[t].rx]
            /\ thr' = [thr EXCEPT ![t].pc = "syncing", ![t].rx = None]
            /\ cs' = t
            /\ UNCHANGED <<count, timeq, status>>

(* await_until without a count: the thread waits for its deadline alone.   *)
sleep(t) ==
    /\ Calls(t)
    /\ CASE t \in timeq -> Stop("relinked")
         [] t \notin timeq /\ timeq = {} /\ ~CyclicNext -> Stop("null")
         [] OTHER ->
              /\ thr' = [thr EXCEPT ![t] = [Idle EXCEPT !.pc = "blocked", !.timed = TRUE]]
              /\ timeq' = timeq \cup {t}
              /\ UNCHANGED <<count, cs, ep, status>>

(* block_yield returns: an alerted thread leaves the count alone.          *)
resume(t) ==
    /\ Runs(t) /\ thr[t].pc = "ready"
    /\ IF ~thr[t].alerted /\ ~Live(thr[t].ec) THEN Stop("stale")
       ELSE /\ thr' = [thr EXCEPT ![t] = Idle]
            /\ UNCHANGED <<count, cs, timeq, ep, status>>

-----------------------------------------------------------------------------
(* Channels.  attach asks for the state of the endpoint the count had      *)
(* before: NULL_EP, endpoint 0 of the domain, whatever that is used for.   *)
(* attach_pair asks for the right ones.                                    *)
EndpointZero == [state : {"local", "connected"}, type : {"rx", "tx"}, val : 0 .. MaxValue]

Fit(x, type) == \/ x.state = "local"
                \/ x.state = "connected" /\ x.type = type

Attached(e, p, type) == [count EXCEPT ![e].ep = p, ![e].type = type]

(* A handler that is already there is told to call the new one; the method *)
(* table of these handlers is empty.                                       *)
Chained(p, type) == type = "rx" /\ ep[p].notify # None

(* The dispatcher refuses a sending endpoint after the count has been      *)
(* changed; the exception leaves it like that.                             *)
Refused(p, type) == type = "rx" /\ ep[p].state = "connected" /\ ep[p].type = "tx"

attach(t, e, p, type, x) ==
    LET c == Attached(e, p, type) IN
    /\ Calls(t) /\ Live(e)
    /\ Fit(x, type) /\ count[e].type = "none" /\ ep[p].state # "free"
    /\ IF Refused(p, type)
       THEN count' = c /\ UNCHANGED <<thr, cs, timeq, ep, status>>
       ELSE IF Chained(p, type) THEN Stop("notify")
       ELSE /\ IF type = "rx" /\ x.state = "connected"
               THEN /\ count' = [c EXCEPT ![e] = [Updated(e, x.val)[e] EXCEPT
                                                    !.ep = p, !.type = type]]
                    /\ thr' = Woken(e, x.val)
               ELSE count' = c /\ UNCHANGED thr
            /\ ep' = IF type = "rx" THEN [ep EXCEPT ![p].notify = e] ELSE ep
            /\ UNCHANGED <<cs, timeq, status>>

attach_pair(t, er, et, pr, pt) ==
    LET x == ep[pr]
        c == [Attached(er, pr, "rx") EXCEPT ![et].ep = pt, ![et].type = "tx"]
    IN
    /\ Calls(t) /\ Live(er) /\ Live(et) /\ er # et /\ pr # pt
    /\ Fit(ep[pt], "tx") /\ Fit(x, "rx")
    /\ count[er].type = "none" /\ count[et].type = "none"
    /\ IF Chained(pr, "rx") THEN Stop("notify")
       ELSE /\ IF x.state = "connected"
               THEN /\ count' = [c EXCEPT ![er].value = x.val,
                                          ![er].queue = Updated(er, x.val)[er].queue]
                    /\ thr' = Woken(er, x.val)
               ELSE count' = c /\ UNCHANGED thr
            /\ ep' = [ep EXCEPT ![pr].notify = er]
            /\ UNCHANGED <<cs, timeq, status>>

create_channel(t, p) ==
    /\ Calls(t) /\ ep[p].state = "free"
    /\ ep' = [ep EXCEPT ![p] = Endpoint("local")]
    /\ UNCHANGED <<count, thr, cs, timeq, status>>

destroy_channel(t, p) ==
    /\ Calls(t) /\ ep[p].state = "local"
    /\ IF ep[p].notify # None THEN Stop("panic")
       ELSE /\ ep' = [ep EXCEPT ![p] = Endpoint("free")]
            /\ UNCHANGED <<count, thr, cs, timeq, status>>

-----------------------------------------------------------------------------
(* The world outside: the binder opens a channel, the peer sends, the      *)
(* dispatcher looks at an endpoint that asks for attention, and a deadline *)
(* passes.  An endpoint asks for attention when it gets its first event    *)
(* that is not acknowledged.                                               *)
connect(p, type) ==
    /\ status = "up" /\ ep[p].state = "local"
    /\ ep' = [ep EXCEPT ![p].state = "connected", ![p].type = type]
    /\ UNCHANGED <<count, thr, cs, timeq, status>>

arrive(p) ==
    LET x == ep[p] IN
    /\ status = "up" /\ x.state = "connected" /\ x.type = "rx"
    /\ x.val < MaxValue
    /\ ep' = [ep EXCEPT ![p].val = @ + 1, ![p].listed = @ \/ x.val = x.ack]
    /\ UNCHANGED <<count, thr, cs, timeq, status>>

activation(p) ==
    /\ status = "up" /\ cs = None /\ ep[p].listed
    /\ IF ep[p].notify = None
       THEN /\ ep' = [ep EXCEPT ![p].listed = FALSE]
            /\ UNCHANGED <<count, thr, cs, timeq, status>>
       ELSE Stop("notify")

timeout(t) ==
    /\ status = "up" /\ cs = None /\ t \in timeq
    /\ Stop("notify")

-----------------------------------------------------------------------------
InAwait(t) == enter(t) \/ sync(t) \/ ack(t)

Operation(t) ==
    \/ \E e \in Counts : create(t, e) \/ read(t, e)
    \/ \E e \in Counts, n \in Increments : advance(t, e, n)
    \/ \E e \in Counts, v \in 0 .. MaxValue : await(t, e, v, FALSE)
    \/ no_resources(t)
    \/ \E e \in Counts, p \in Endpoints, x \in EndpointZero : attach(t, e, p, x.type, x)
    \/ \E er, et \in Counts, pr, pt \in Endpoints : attach_pair(t, er, et, pr, pt)
    \/ \E p \in Endpoints : create_channel(t, p)

Teardown(t) ==
    \/ \E e \in Counts : destroy(t, e)
    \/ close(t)
    \/ \E p \in Endpoints : destroy_channel(t, p)

AwaitUntil(t) ==
    \/ \E e \in Counts, v \in 0 .. MaxValue : await(t, e, v, TRUE)
    \/ sleep(t)

Outside ==
    \/ \E p \in Endpoints, type \in {"rx", "tx"} : connect(p, type)
    \/ \E p \in Endpoints : arrive(p) \/ activation(p)

(* All operations without deadlines, as long as nobody is woken.  With     *)
(* CyclicNext = FALSE nobody ever is: the first thread that has to wait    *)
(* follows the null pointer (EventsProofs).                                *)
NextNoWake ==
    \/ \E t \in Threads : Operation(t) \/ Teardown(t) \/ InAwait(t)
    \/ Outside

(* The same with threads that return from block_yield ...                  *)
NextAwait == NextNoWake \/ \E t \in Threads : resume(t)

(* ... and with deadlines, while nothing is destroyed.                     *)
NextUntil ==
    \/ \E t \in Threads : \/ Operation(t) \/ AwaitUntil(t) \/ InAwait(t)
                          \/ resume(t) \/ timeout(t)
    \/ Outside

SpecNoWake == Init /\ [][NextNoWake]_vars
SpecAwait == Init /\ [][NextAwait]_vars
SpecUntil == Init /\ [][NextUntil]_vars

-----------------------------------------------------------------------------
TypeOK ==
    /\ count \in [Counts -> [life : {"free", "live", "closing"},
                             value : Value, type : Types, ep : AllEndpoints,
                             queue : Seq(Threads)]]
    /\ thr \in [Threads -> [pc : {"idle", "entering", "syncing", "acking", "blocked",
                                  "ready", "closing", "stranded"},
                            ec : Counts \cup {None}, want : Value, timed : BOOLEAN,
                            rx : Value \cup {None}, alerted : BOOLEAN]]
    /\ cs \in Threads \cup {None}
    /\ timeq \subseteq Threads
    /\ ep \in [Endpoints ->
                  [state : {"free", "local", "connected"}, type : Types, val : Value,
                   ack : Value, listed : BOOLEAN, notify : Counts \cup {None}]]
    /\ status \in {"up", "null", "relinked", "dangling", "stale", "notify", "panic", "masked"}

(* What await promises, "block the current thread until ec.val >= val":    *)
(* nobody returns from it before the value is reached, whatever happens    *)
(* between the test outside of the critical section, the look at the       *)
(* channel and the test inside.                                            *)
AwaitKeepsWord ==
    [][\A t \in Threads :
           thr[t].pc \in {"entering", "syncing"} /\ ~thr[t].timed /\ thr'[t].pc = "idle"
               => EC_LE(thr[t].want, count'[thr[t].ec].value)]_vars

(* The handler of an endpoint, to which the dispatcher's next activation   *)
(* goes, belongs to a live count that receives on that endpoint, in which  *)
(* order ever counts and channels are attached, destroyed and made anew.   *)
HandlersLive ==
    /\ TypeOK
    /\ \A p \in Endpoints : ep[p].notify # None =>
          LET c == count[ep[p].notify]
          IN  c.life = "live" /\ c.type = "rx" /\ c.ep = p

(* What vcpu_v1 says of the list of endpoints that require attention: an   *)
(* endpoint is on it when its state changes from not pending to pending.   *)
(* The loop of await acknowledges while events come in; a late             *)
(* acknowledgement makes an endpoint pending that nobody puts on the list, *)
(* and the next event is not noticed.                                      *)
PendingListed ==
    [][\A p \in Endpoints :
           ep[p].val = ep[p].ack /\ ep'[p].val # ep'[p].ack => ep'[p].listed]_vars

(* What block_event says of itself: it enqueues the thread and returns     *)
(* when the thread is unblocked.  It follows next() of a list that may be  *)
(* empty.                                                                  *)
WaitersEnqueued == status # "null"

-----------------------------------------------------------------------------
(* What the wait queues give where CyclicNext is TRUE.                     *)

(* A blocked thread is on exactly one wait queue, once: that of its count. *)
(* A thread that runs is on none.                                          *)
QueuesExact ==
    /\ TypeOK
    /\ \A t \in Threads : \A e \in Counts :
           Cardinality({i \in DOMAIN count[e].queue : count[e].queue[i] = t})
               = IF thr[t].pc = "blocked" /\ thr[t].ec = e THEN 1 ELSE 0

(* Thread t waits on a receiving count and has gone through the loop of    *)
(* await; the count's handler is attached, as it is unless attach failed   *)
(* half way or destroy is under way.                                       *)
Tied(e, t) ==
    count[e].type = "rx" /\ thr[t].rx # None /\ ep[count[e].ep].notify = e

(* No wake-up is lost: a thread waits for a value its count has not        *)
(* reached, however advances, other waiters and the test outside of the    *)
(* critical section interleave.  On a receiving count read may run ahead   *)
(* of the waiters, but only while the endpoint still asks for attention.   *)
NoLostWakeup ==
    \A e \in Counts : \A t \in Waiting(e) :
        \/ EC_GT(thr[t].want, count[e].value)
        \/ count[e].type = "rx" /\ (Tied(e, t) => ep[count[e].ep].listed)

(* While a thread that went through the loop of await waits on a receiving *)
(* count and nobody is in that loop, every event that comes in is noticed: *)
(* what the endpoint has received is acknowledged, or the endpoint asks    *)
(* for attention ("required to ensure that events are not lost by the      *)
(* scheduler").                                                            *)
EventsNoticed ==
    \A e \in Counts : \A t \in Waiting(e) :
        Tied(e, t) /\ (\A u \in Threads : thr[u].pc \notin {"syncing", "acking"})
            => LET x == ep[count[e].ep] IN x.listed \/ x.val = x.ack

(* await keeps its word: a thread leaves a wait queue when its value is    *)
(* reached, or when the count is destroyed, and then it is alerted.        *)
WokenForCause ==
    [][\A e \in Counts : \A t \in Waiting(e) \ ToSet(count'[e].queue) :
           \/ thr'[t].pc = "stranded"
           \/ thr'[t].pc = "ready" /\ thr'[t].alerted /\ count'[e].life # "live"
           \/ /\ thr'[t].pc = "ready" /\ ~thr'[t].alerted
              /\ EC_LE(thr[t].want, count'[e].value)]_vars
=============================================================================
