------------------------- MODULE UpstreamConcurrency -------------------------
(***************************************************************************)
(* The admission queue in front of one upstream: two sorted sets in Redis, *)
(* active leases by expiry and waiting tokens by enqueue time, and the     *)
(* requests of any number of API processes that poll them through          *)
(* ACQUIRE_SCRIPT and RELEASE_SCRIPT.  A script is atomic; between scripts  *)
(* anything may happen, a lost reply and the death of a process included.   *)
(*                                                                         *)
(* The script is given the caller's Date.now().  Clocks of the processes   *)
(* and the delay until Redis runs the script differ from one global clock  *)
(* by at most Skew.                                                        *)
(*                                                                         *)
(* A definition with an underscore is a fault the properties must catch.   *)
(***************************************************************************)
EXTENDS Integers, FiniteSets

CONSTANTS
    Requests,       \* request tokens, in their lexicographic order
    Limit,          \* concurrencyLimit
    Ttl,            \* resolveActiveTtlMs
    QueueTimeout,   \* queueTimeoutMs
    MaxHold,        \* longest time from a grant to the end of its call, the
                    \* way of the script's reply to the caller included
    Skew,           \* bound on the error of a caller's `now`
    MaxClock        \* model bound on the clock

ASSUME RequestsAssumption == Requests \subseteq Nat /\ IsFiniteSet(Requests)
ASSUME LimitAssumption == Limit \in Nat \ {0}
ASSUME ClockAssumption == /\ QueueTimeout \in Nat \ {0}
                          /\ MaxHold \in Nat
                          /\ Skew \in Nat
                          /\ MaxClock \in Nat
(* A stream is cut by fetchUpstream's signal (120 s, 600 s for deepseek), a *)
(* non-stream call by streamMaxDurationMs; Ttl is that plus a minute.       *)
ASSUME LeaseOutlivesCall == Ttl \in Nat /\ Ttl > MaxHold + 2 * Skew

VARIABLES
    clock,
    active,     \* tokens in the active set
    expiry,     \* their scores
    waiting,    \* tokens in the waiting set
    enqueued,   \* their scores; kept while a request polls whose place is lost
    pc,         \* where the request is
    deadline,   \* its own deadline while it is in the queue
    granted     \* when the slot of a call at the upstream was granted

redis == <<active, expiry, waiting, enqueued>>
callers == <<pc, deadline, granted>>
vars == <<clock, redis, callers>>

Queueing == {"arriving", "polling"}     \* shouldEnqueue, and the polls after
Running  == Queueing \union {"inflight", "answered", "draining"}
Over     == {"over"}    \* answered, timed out, failed or dead

Init ==
    /\ clock = 0
    /\ active = {} /\ waiting = {}
    /\ expiry = [r \in Requests |-> 0]
    /\ enqueued = [r \in Requests |-> 0]
    /\ pc = [r \in Requests |-> "new"]
    /\ deadline = [r \in Requests |-> 0]
    /\ granted = [r \in Requests |-> 0]

Readings == (clock - Skew)..(clock + Skew)

\* Calls at the upstream, and those of them whose slot is still theirs: a
\* "draining" call gave it back ahead of its body.
AtUpstream == {r \in Requests : pc[r] \in {"inflight", "draining"}}
InFlight   == {r \in AtUpstream : pc[r] # "draining"}

------------------------------------------------------------------------------
(* acquireUpstreamSlot *)

\* The deadline is set by the caller's own clock; the guard leaves time for
\* its timeout before the model's clock stops.
Start(r) ==
    /\ pc[r] = "new"
    /\ clock + QueueTimeout + Skew <= MaxClock
    /\ pc' = [pc EXCEPT ![r] = "arriving"]
    /\ \E now \in Readings : deadline' = [deadline EXCEPT ![r] = now + QueueTimeout]
    /\ UNCHANGED <<clock, redis, granted>>

\* ACQUIRE_SCRIPT run for r with the caller's time `now`: drop the expired
\* leases and the stale waiters, then take a slot if one is free and nobody
\* waits before r.  Only the first poll enqueues.
Leases(now)  == {q \in active : expiry[q] > now}
Waiters(now) == {q \in waiting : enqueued[q] > now - QueueTimeout}

\* A score goes with its member.
Expiries(now) == [q \in Requests |-> IF q \in Leases(now) THEN expiry[q] ELSE 0]
Places(now) ==
    [q \in Requests |-> IF q \in Waiters(now) \/ pc[q] = "polling" THEN enqueued[q] ELSE 0]

Line(r, now) == IF pc[r] = "arriving" THEN Waiters(now) \union {r} ELSE Waiters(now)
Score(r, now) == IF pc[r] = "arriving" THEN now ELSE enqueued[r]

\* A fault: a free slot goes to whoever asks.
First_Anybody(r, now) == r \in Requests

\* A sorted set is ordered by score, then by member.
First(r, now) ==
    \/ Waiters(now) = {}
    \/ /\ r \in Line(r, now)
       /\ \A q \in Line(r, now) \ {r} :
             \/ Score(r, now) < enqueued[q]
             \/ Score(r, now) = enqueued[q] /\ r < q

\* A fault: off by one at the limit.
Grants_OneMore(r, now) == Cardinality(Leases(now)) <= Limit /\ First(r, now)

Grants(r, now) == Cardinality(Leases(now)) < Limit /\ First(r, now)

\* A fault: the lease ends with the caller's deadline in the queue.
AcquireScript_ShortLease(r, now) ==
    /\ enqueued' = [Places(now) EXCEPT ![r] = Score(r, now)]
    /\ IF Grants(r, now)
       THEN /\ active' = Leases(now) \union {r}
            /\ expiry' = [Expiries(now) EXCEPT ![r] = deadline[r]]
            /\ waiting' = Waiters(now) \ {r}
       ELSE /\ active' = Leases(now)
            /\ waiting' = Line(r, now)
            /\ expiry' = Expiries(now)

AcquireScript(r, now) ==
    /\ enqueued' = [Places(now) EXCEPT ![r] = Score(r, now)]
    /\ IF Grants(r, now)
       THEN /\ active' = Leases(now) \union {r}
            /\ expiry' = [Expiries(now) EXCEPT ![r] = now + Ttl]
            /\ waiting' = Waiters(now) \ {r}
       ELSE /\ active' = Leases(now)
            /\ waiting' = Line(r, now)
            /\ expiry' = Expiries(now)

\* A fault: every poll starts the timeout again.
Poll_Renews(r) ==
    /\ pc[r] \in Queueing
    /\ \E now \in Readings :
        /\ now <= deadline[r]
        /\ AcquireScript(r, now)
        /\ IF Grants(r, now)
           THEN /\ pc' = [pc EXCEPT ![r] = "inflight"]
                /\ granted' = [granted EXCEPT ![r] = clock]
           ELSE /\ pc' = [pc EXCEPT ![r] = "polling"]
                /\ UNCHANGED granted
    /\ deadline' = [deadline EXCEPT ![r] = clock + QueueTimeout]
    /\ UNCHANGED clock

Poll(r) ==
    /\ pc[r] \in Queueing
    /\ \E now \in Readings :
        /\ now <= deadline[r]
        /\ AcquireScript(r, now)
        /\ IF Grants(r, now)
           THEN /\ pc' = [pc EXCEPT ![r] = "inflight"]
                /\ granted' = [granted EXCEPT ![r] = clock]
                /\ deadline' = [deadline EXCEPT ![r] = 0]
           ELSE /\ pc' = [pc EXCEPT ![r] = "polling"]
                /\ UNCHANGED <<deadline, granted>>
    /\ UNCHANGED clock

\* The request is over, and its locals with it.
Leave(r) ==
    /\ pc' = [pc EXCEPT ![r] = "over"]
    /\ deadline' = [deadline EXCEPT ![r] = 0]
    /\ granted' = [granted EXCEPT ![r] = 0]

\* The eval throws: acquireUpstreamSlot leaves without releasing the token,
\* whether or not the script ran.
PollThrows(r) ==
    /\ pc[r] \in Queueing
    /\ \/ \E now \in Readings : now <= deadline[r] /\ AcquireScript(r, now)
       \/ UNCHANGED redis
    /\ Leave(r)
    /\ UNCHANGED clock

\* RELEASE_SCRIPT, whose failure is only logged.
ReleaseScript(r) ==
    \/ /\ active' = active \ {r}
       /\ waiting' = waiting \ {r}
       /\ expiry' = [expiry EXCEPT ![r] = 0]
       /\ UNCHANGED enqueued
    \/ UNCHANGED redis

TimeOut(r) ==
    /\ pc[r] \in Queueing
    /\ clock + Skew >= deadline[r]
    /\ ReleaseScript(r)
    /\ Leave(r)
    /\ UNCHANGED clock

------------------------------------------------------------------------------
(* The relay that holds the slot. *)

\* The upstream call is over: answered, failed, cut or aborted.
CallEnds(r) ==
    /\ \/ /\ pc[r] = "inflight"
          /\ pc' = [pc EXCEPT ![r] = "answered"]
          /\ granted' = [granted EXCEPT ![r] = 0]
          /\ UNCHANGED deadline
       \/ pc[r] = "draining" /\ Leave(r)
    /\ UNCHANGED <<clock, redis>>

\* A passthrough hands a body that is not JSON to its caller unread: finally
\* releases the slot while the upstream still sends.
ReleaseEarly(r) ==
    /\ pc[r] = "inflight"
    /\ ReleaseScript(r)
    /\ pc' = [pc EXCEPT ![r] = "draining"]
    /\ UNCHANGED <<clock, deadline, granted>>

\* releaseUpstreamSlot from the finally block or the stream's onFinalize.
Release(r) ==
    /\ pc[r] = "answered"
    /\ ReleaseScript(r)
    /\ Leave(r)
    /\ UNCHANGED clock

\* forwardStream returns early on a response without a body and calls no
\* onFinalize: the lease stays until it expires.
MissingBody(r) ==
    /\ pc[r] = "answered"
    /\ Leave(r)
    /\ UNCHANGED <<clock, redis>>

\* The process that served r dies; its sockets close with it.
Die(r) ==
    /\ pc[r] \in Running
    /\ Leave(r)
    /\ UNCHANGED <<clock, redis>>

\* Time passes; no call is at the upstream longer than MaxHold.
Tick ==
    /\ clock < MaxClock
    /\ \A r \in AtUpstream : clock < granted[r] + MaxHold
    /\ clock' = clock + 1
    /\ UNCHANGED <<redis, callers>>

------------------------------------------------------------------------------
Next ==
    \/ \E r \in Requests : \/ Start(r) \/ Poll(r) \/ PollThrows(r) \/ TimeOut(r)
                           \/ CallEnds(r) \/ ReleaseEarly(r) \/ Release(r)
                           \/ MissingBody(r) \/ Die(r)
    \/ Tick

Spec == Init /\ [][Next]_vars

(* The event loop runs a due timeout, a call ends by its abort signal and   *)
(* time goes on.  Polling needs no fairness.                                *)
Fairness ==
    /\ WF_vars(Tick)
    /\ \A r \in Requests : /\ WF_vars(TimeOut(r))
                           /\ WF_vars(CallEnds(r))

FairSpec == Spec /\ Fairness

------------------------------------------------------------------------------
TypeOK ==
    /\ clock \in Nat
    /\ active \subseteq Requests
    /\ waiting \subseteq Requests
    /\ expiry \in [Requests -> Int]
    /\ enqueued \in [Requests -> Int]
    /\ pc \in [Requests -> Running \union Over \union {"new"}]
    /\ deadline \in [Requests -> Int]
    /\ granted \in [Requests -> Int]

(* The goal of docs/design/upstream-concurrency-control.md: the requests in *)
(* flight at the upstream never exceed the limit, although leases expire by *)
(* other processes' clocks, replies get lost and processes die.  Out of it  *)
(* are only the unread bodies of ReleaseEarly, which the code does not      *)
(* count: with them the calls at the upstream may exceed the limit.         *)
InFlightWithinLimit == Cardinality(InFlight) <= Limit

(* First-waiter priority: a request that still polls is not overtaken by    *)
(* one that joined the queue later, unless its place was already stale for  *)
(* the clock of the other.                                                  *)
Granted(r) == r \notin InFlight /\ r \in InFlight'
NoOvertaking ==
    [][\A r, q \in Requests :
        /\ Granted(r)
        /\ pc[q] = "polling"
        /\ enqueued[q] < enqueued'[r]
        => clock + Skew >= enqueued[q] + QueueTimeout]_vars

(* Every request that joins the queue gets a slot or its timeout.           *)
QueueingResolves ==
    \A r \in Requests : pc[r] \in Queueing ~> pc[r] \notin Queueing

(* The strengthening: a call that has not given its slot back holds a lease *)
(* that no caller's clock can have expired, and the script never lets the   *)
(* active set outgrow the limit.                                            *)
LeaseCovers(r) ==
    pc[r] = "inflight" =>
        /\ r \in active
        /\ expiry[r] >= granted[r] - Skew + Ttl
        /\ clock <= granted[r] + MaxHold

SlotInvariant ==
    /\ TypeOK
    /\ Cardinality(active) <= Limit
    /\ \A r \in Requests : LeaseCovers(r)

(* A request that polls keeps its place until its score is stale for the    *)
(* clock of some caller, whose script then sweeps it away.                  *)
PlaceKept(r) ==
    pc[r] = "polling" => \/ r \in waiting
                         \/ clock + Skew >= enqueued[r] + QueueTimeout

ConcurrencyInvariant ==
    /\ SlotInvariant
    /\ \A r \in Requests : PlaceKept(r)
==============================================================================
