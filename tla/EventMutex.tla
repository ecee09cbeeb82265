----------------------------- MODULE EventMutex -----------------------------
(***************************************************************************)
(* The mutex and the condition variable that src/runtime/event_counts.h    *)
(* builds from event counts and sequencers, with threads that use one of   *)
(* each.  Events models the calls below them; the two counts have no       *)
(* channel.                                                                *)
(***************************************************************************)
EXTENDS Events

CONSTANTS
    M,            \* the event count of the mutex
    C,            \* the event count of the condition
    MaxLocks,     \* bound on the tickets of the mutex
    MaxWaits      \* bound on the tickets of the condition, and on signals

ASSUME MutexAssumption ==
    /\ {M, C} \subseteq Counts /\ M # C
    /\ {MaxLocks, MaxWaits} \subseteq Nat
    /\ MaxLocks < MaxValue /\ 4 * MaxWaits <= MaxValue
    /\ IsFiniteSet(Threads)

VARIABLES
    at,        \* where each thread is in the operations below
    tick,      \* the ticket it holds
    peeked,    \* what broadcast has read: [t, f]
    seq        \* the two sequencers

clientVars == <<at, tick, peeked, seq>>
allVars    == <<vars, clientVars>>

(* The counts begin with these values: the constructor of the mutex        *)
(* advances its count by one, that of the condition leaves it at zero.     *)
StartValue(e) == IF e = M THEN 1 ELSE 0

Constructed ==
    /\ count = [e \in Counts |-> [NewCount EXCEPT !.value = StartValue(e)]]
    /\ thr = [t \in Threads |-> Idle]
    /\ cs = None
    /\ timeq = {}
    /\ ep = [p \in Endpoints |-> Endpoint("local")]
    /\ status = "up"
    /\ at = [t \in Threads |-> "out"]
    /\ tick = [t \in Threads |-> 0]
    /\ peeked = [t \in Threads |-> [t |-> 0, f |-> 0]]
    /\ seq = [e \in {M, C} |-> 0]

-----------------------------------------------------------------------------
Goto(t, place) == at' = [at EXCEPT ![t] = place]

(* A thread takes the next ticket of sequencer e.                          *)
ticket(t, e) ==
    /\ Calls(t)
    /\ seq[e] < IF e = M THEN MaxLocks ELSE MaxWaits
    /\ seq' = [seq EXCEPT ![e] = @ + 1]
    /\ tick' = [tick EXCEPT ![t] = seq[e]]
    /\ UNCHANGED <<vars, peeked>>

(* The count a thread awaits, and where it goes when await returns.        *)
AwaitsOn(t) == IF at[t] = "locking" THEN M ELSE C
Awaited(t)  == IF at[t] = "locking" THEN "in" ELSE "woken"

(* Calls of await: it returns at once, or goes on in Events.               *)
start_await(t) ==
    /\ at[t] \in {"locking", "waiting"}
    /\ \/ /\ Calls(t)
          /\ EC_LE(tick[t], count[AwaitsOn(t)].value)
          /\ Goto(t, Awaited(t))
          /\ UNCHANGED vars
       \/ /\ await(t, AwaitsOn(t), tick[t], FALSE)
          /\ UNCHANGED at
    /\ UNCHANGED <<tick, peeked, seq>>

(* await returns in the middle of Events, or goes on there.                *)
Returns(t) ==
    /\ IF status' = "up" /\ thr'[t].pc = "idle" THEN Goto(t, Awaited(t)) ELSE UNCHANGED at
    /\ UNCHANGED <<tick, peeked, seq>>

go_on(t) == enter(t) /\ Returns(t)
wake(t)  == resume(t) /\ Returns(t)

lock(t) ==
    /\ at[t] \in {"out", "woken"}
    /\ ticket(t, M)
    /\ Goto(t, "locking")

unlock(t) ==
    /\ at[t] = "in"
    /\ advance(t, M, 1)
    /\ Goto(t, "out")
    /\ tick' = [tick EXCEPT ![t] = 0]
    /\ UNCHANGED <<peeked, seq>>

(* wait takes a ticket of the condition, unlocks the mutex, awaits, and    *)
(* locks again.                                                            *)
\* Faulty: waits for the condition with the mutex locked.
WaitLocked(t) ==
    /\ at[t] = "in"
    /\ ticket(t, C)
    /\ Goto(t, "waiting")

wait(t) ==
    \/ /\ at[t] = "in"
       /\ ticket(t, C)
       /\ Goto(t, "leaving")
    \/ /\ at[t] = "leaving"
       /\ advance(t, M, 1)
       /\ Goto(t, "waiting")
       /\ UNCHANGED <<tick, peeked, seq>>

signal(t) ==
    /\ at[t] = "in" /\ count[C].value < MaxWaits
    /\ advance(t, C, 1)
    /\ UNCHANGED clientVars

(* broadcast reads the sequencer, then the count, then advances.           *)
\* Faulty: one less than it takes.
AllButOne(t, f) == IF t > f + 2 THEN t - f - 2 ELSE 0

BroadcastBy(t, f) == IF t > f + 1 THEN t - f - 1 ELSE 0

broadcast(t) ==
    \/ /\ at[t] = "in" /\ Calls(t)
       /\ peeked' = [peeked EXCEPT ![t].t = seq[C]]
       /\ Goto(t, "read_seq")
       /\ UNCHANGED <<vars, tick, seq>>
    \/ /\ at[t] = "read_seq" /\ Calls(t)
       /\ peeked' = [peeked EXCEPT ![t].f = count[C].value]
       /\ Goto(t, "read_count")
       /\ UNCHANGED <<vars, tick, seq>>
    \/ /\ at[t] = "read_count"
       /\ advance(t, C, BroadcastBy(peeked[t].t, peeked[t].f))
       /\ Goto(t, "in")
       /\ peeked' = [peeked EXCEPT ![t] = [t |-> 0, f |-> 0]]
       /\ UNCHANGED <<tick, seq>>

-----------------------------------------------------------------------------
(* What threads do as long as nobody is woken, and all of it.              *)
NextMutexNoWake ==
    \E t \in Threads : \/ start_await(t) \/ go_on(t)
                       \/ lock(t) \/ unlock(t)
                       \/ wait(t) \/ signal(t) \/ broadcast(t)

NextMutex == NextMutexNoWake \/ \E t \in Threads : wake(t)

SpecMutexNoWake == Constructed /\ [][NextMutexNoWake]_allVars
SpecMutex       == Constructed /\ [][NextMutex]_allVars

-----------------------------------------------------------------------------
Inside == {t \in Threads : at[t] \in {"in", "leaving", "read_seq", "read_count"}}

(* What event_counts.h calls a mutex: at most one thread is between lock   *)
(* and unlock.                                                             *)
MutualExclusion == Cardinality(Inside) <= 1

(* Tickets are served in order and none is skipped: as long as a locker's  *)
(* turn has not come, some thread before it holds the mutex or may take    *)
(* it, so that an unlock will follow.                                      *)
TurnsCome ==
    \A t \in Threads :
        at[t] = "locking" /\ EC_GT(tick[t], count[M].value) =>
            \E u \in Threads : \/ u \in Inside
                               \/ at[u] = "locking" /\ EC_LE(tick[u], count[M].value)

(* A broadcast reaches all who had a ticket when it began, although it     *)
(* reads the sequencer and the count at different times and others signal  *)
(* in between: nobody of them has to wait after it.                        *)
BroadcastReachesAll ==
    [][\A t \in Threads :
           at[t] = "read_count" /\ at'[t] = "in" =>
               \A u \in Threads :
                   at[u] \in {"leaving", "waiting"} /\ tick[u] < peeked[t].t
                       => EC_LE(tick[u], count'[C].value)]_allVars

-----------------------------------------------------------------------------
(* What holds for any list, also where threads can wait.                   *)

(* The tickets 0 and 1 are both reached when the count starts at 1, so two *)
(* threads can be between lock and unlock at once; but never more, and     *)
(* never more than the tickets that were given out and not returned.       *)
AtMostTwoInside ==
    /\ Cardinality(Inside) <= 2
    /\ Cardinality(Inside) <= (seq[M] + 1) - count[M].value

(* A broadcast takes all who had a ticket when it began off the queue.     *)
BroadcastWakesAll ==
    [][\A t \in Threads :
           at[t] = "read_count" /\ at'[t] = "in" =>
               \A u \in Threads : at[u] = "waiting" /\ tick[u] < peeked[t].t
                                      => u \notin ToSet(count'[C].queue)]_allVars
=============================================================================
