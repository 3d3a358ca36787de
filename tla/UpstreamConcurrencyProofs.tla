---------------------- MODULE UpstreamConcurrencyProofs ----------------------
(***************************************************************************)
(* The limit holds for any number of requests, any limit and any clocks    *)
(* within Skew of each other, because a lease outlives the call it covers. *)
(***************************************************************************)
EXTENDS UpstreamConcurrency, FiniteSetTheorems, TLAPS

USE RequestsAssumption, LimitAssumption, ClockAssumption, LeaseOutlivesCall

\* A reading of the clock never drops the lease of a call in flight.
LEMMA LeaseKept ==
    ASSUME SlotInvariant, NEW r \in Requests, pc[r] = "inflight", NEW now \in Readings
    PROVE  r \in Leases(now)
  BY DEF SlotInvariant, TypeOK, LeaseCovers, Readings, Leases

\* ACQUIRE_SCRIPT keeps the type of what it stores and the bound on the leases.
LEMMA ScriptBounds ==
    ASSUME SlotInvariant, NEW r \in Requests, NEW now \in Readings, AcquireScript(r, now)
    PROVE  /\ active' \subseteq Requests /\ Cardinality(active') <= Limit
           /\ waiting' \subseteq Requests
           /\ expiry' \in [Requests -> Int] /\ enqueued' \in [Requests -> Int]
           /\ now \in Int
<1>1. now \in Int
  BY DEF SlotInvariant, TypeOK, Readings
<1>2. IsFiniteSet(active) /\ Leases(now) \subseteq active
  BY FS_Subset DEF SlotInvariant, TypeOK, Leases
<1>3. /\ IsFiniteSet(Leases(now))
      /\ Cardinality(Leases(now)) \in Nat
      /\ Cardinality(Leases(now)) <= Cardinality(active)
      /\ Cardinality(active) \in Nat
  BY <1>2, FS_Subset, FS_CardinalityType
<1>4. enqueued' \in [Requests -> Int]
  <2>1. Places(now) \in [Requests -> Int]
    BY DEF Places, SlotInvariant, TypeOK
  <2>2. Score(r, now) \in Int
    BY <1>1 DEF Score, SlotInvariant, TypeOK
  <2> QED
    BY <2>1, <2>2 DEF AcquireScript
<1>5. Expiries(now) \in [Requests -> Int]
  BY DEF Expiries, SlotInvariant, TypeOK
<1>6. CASE Grants(r, now)
  <2>1. active' = Leases(now) \union {r} /\ Cardinality(Leases(now)) < Limit
    BY <1>6 DEF AcquireScript, Grants
  <2>2. Cardinality(active') <= Cardinality(Leases(now)) + 1
    <3>1. /\ Cardinality(Leases(now) \union {r}) \in {Cardinality(Leases(now)), Cardinality(Leases(now)) + 1}
          /\ IsFiniteSet(Leases(now) \union {r})
      BY <1>3, FS_AddElement
    <3> QED
      BY <1>3, <2>1, <3>1
  <2>3. Cardinality(active') <= Limit
    <3>1. Cardinality(active') \in Nat
      BY <1>3, <2>1, FS_AddElement, FS_CardinalityType
    <3> QED
      BY <1>3, <2>1, <2>2, <3>1
  <2>4. active' \subseteq Requests /\ waiting' \subseteq Requests
    BY <1>6, <2>1 DEF AcquireScript, Leases, Waiters, SlotInvariant, TypeOK
  <2>5. expiry' \in [Requests -> Int]
    BY <1>1, <1>5, <1>6 DEF AcquireScript
  <2> QED
    BY <1>1, <1>4, <2>3, <2>4, <2>5
<1>7. CASE ~Grants(r, now)
  <2>1. active' = Leases(now) /\ waiting' = Line(r, now) /\ expiry' = Expiries(now)
    BY <1>7 DEF AcquireScript
  <2>2. Cardinality(active') <= Limit
    BY <1>3, <2>1 DEF SlotInvariant
  <2> QED
    BY <1>1, <1>4, <1>5, <2>1, <2>2 DEF Leases, Line, Waiters, SlotInvariant, TypeOK
<1> QED
  BY <1>6, <1>7

\* ACQUIRE_SCRIPT, run for a request that is not in flight, leaves the leases
\* of the calls in flight as they are.
LEMMA ScriptKeepsLeases ==
    ASSUME SlotInvariant, NEW r \in Requests, pc[r] # "inflight",
           NEW now \in Readings, AcquireScript(r, now),
           NEW q \in Requests, pc[q] = "inflight"
    PROVE  q \in active' /\ expiry'[q] = expiry[q]
<1>1. q # r /\ q \in Leases(now) /\ Expiries(now)[q] = expiry[q]
  BY LeaseKept DEF Expiries
<1>2. CASE Grants(r, now)
  <2>1. active' = Leases(now) \union {r} /\ expiry' = [Expiries(now) EXCEPT ![r] = now + Ttl]
    BY <1>2 DEF AcquireScript
  <2> QED
    BY <1>1, <2>1 DEF Expiries
<1>3. CASE ~Grants(r, now)
  BY <1>1, <1>3 DEF AcquireScript
<1> QED
  BY <1>2, <1>3

\* RELEASE_SCRIPT only takes the caller's own token away.
LEMMA ReleaseBounds ==
    ASSUME SlotInvariant, NEW r \in Requests, ReleaseScript(r)
    PROVE  /\ active' \subseteq Requests /\ Cardinality(active') <= Limit
           /\ waiting' \subseteq Requests
           /\ expiry' \in [Requests -> Int] /\ enqueued' = enqueued
           /\ \A q \in active : q # r => q \in active' /\ expiry'[q] = expiry[q]
<1>1. active' \subseteq active
  BY DEF ReleaseScript, redis
<1>2. IsFiniteSet(active)
  BY FS_Subset DEF SlotInvariant, TypeOK
<1>3. Cardinality(active') <= Cardinality(active) /\ Cardinality(active) \in Nat /\ Cardinality(active') \in Nat
  BY <1>1, <1>2, FS_Subset, FS_CardinalityType
<1>4. Cardinality(active') <= Limit
  BY <1>3 DEF SlotInvariant
<1> QED
  <2> USE DEF SlotInvariant, TypeOK
  <2>1. CASE UNCHANGED redis
    BY <1>4, <2>1 DEF redis
  <2>2. CASE /\ active' = active \ {r}
             /\ waiting' = waiting \ {r}
             /\ expiry' = [expiry EXCEPT ![r] = 0]
             /\ UNCHANGED enqueued
    BY <1>4, <2>2
  <2> QED
    BY <2>1, <2>2 DEF ReleaseScript

\* Every step keeps the leases, their bound and the types.
LEMMA SlotStep == SlotInvariant /\ [Next]_vars => SlotInvariant'
<1> SUFFICES ASSUME SlotInvariant, [Next]_vars PROVE SlotInvariant'
  OBVIOUS
<1> USE DEF SlotInvariant, TypeOK, LeaseCovers, Running, Queueing, Over, callers, redis
<1>1. ASSUME NEW r \in Requests, Start(r) PROVE SlotInvariant'
  <2>1. PICK now \in Readings : deadline' = [deadline EXCEPT ![r] = now + QueueTimeout]
    BY <1>1 DEF Start
  <2>2. deadline' \in [Requests -> Int]
    BY <2>1 DEF Readings
  <2> QED
    BY <1>1, <2>2 DEF Start
<1>2. ASSUME NEW r \in Requests, Poll(r) PROVE SlotInvariant'
  <2>1. pc[r] \in Queueing /\ UNCHANGED clock
    BY <1>2 DEF Poll
  <2>2. PICK now \in Readings :
          /\ AcquireScript(r, now)
          /\ IF Grants(r, now)
             THEN /\ pc' = [pc EXCEPT ![r] = "inflight"]
                  /\ granted' = [granted EXCEPT ![r] = clock]
                  /\ deadline' = [deadline EXCEPT ![r] = 0]
             ELSE /\ pc' = [pc EXCEPT ![r] = "polling"]
                  /\ UNCHANGED <<deadline, granted>>
    BY <1>2 DEF Poll
  <2>3. /\ active' \subseteq Requests /\ Cardinality(active') <= Limit
        /\ waiting' \subseteq Requests
        /\ expiry' \in [Requests -> Int] /\ enqueued' \in [Requests -> Int]
        /\ now \in Int
    BY <2>2, ScriptBounds
  <2>4. TypeOK'
    BY <2>1, <2>2, <2>3
  <2>5. ASSUME NEW q \in Requests PROVE LeaseCovers(q)'
    <3>1. CASE q # r
      <4>1. pc'[q] = pc[q] /\ granted'[q] = granted[q]
        BY <2>2, <3>1
      <4>2. pc[q] = "inflight" => q \in active' /\ expiry'[q] = expiry[q]
        BY <2>1, <2>2, ScriptKeepsLeases
      <4> QED
        BY <2>1, <4>1, <4>2
    <3>2. CASE q = r /\ Grants(r, now)
      BY <2>1, <2>2, <2>3, <3>2 DEF AcquireScript, Readings
    <3>3. CASE q = r /\ ~Grants(r, now)
      BY <2>2, <3>3
    <3> QED
      BY <3>1, <3>2, <3>3
  <2> QED
    BY <2>3, <2>4, <2>5
<1>3. ASSUME NEW r \in Requests, PollThrows(r) PROVE SlotInvariant'
  <2>1. pc[r] \in Queueing /\ Leave(r) /\ UNCHANGED clock
    BY <1>3 DEF PollThrows
  <2>2. CASE \E now \in Readings : AcquireScript(r, now)
    <3>1. PICK now \in Readings : AcquireScript(r, now)
      BY <2>2
    <3>2. /\ active' \subseteq Requests /\ Cardinality(active') <= Limit
          /\ waiting' \subseteq Requests
          /\ expiry' \in [Requests -> Int] /\ enqueued' \in [Requests -> Int]
      BY <3>1, ScriptBounds
    <3>3. ASSUME NEW q \in Requests PROVE LeaseCovers(q)'
      <4>1. CASE q # r
        <5>1. pc[q] = "inflight" => q \in active' /\ expiry'[q] = expiry[q]
          BY <2>1, <3>1, ScriptKeepsLeases
        <5> QED
          BY <2>1, <4>1, <5>1 DEF Leave
      <4>2. CASE q = r
        BY <2>1, <4>2 DEF Leave
      <4> QED
        BY <4>1, <4>2
    <3>4. /\ pc' \in [Requests -> Running \union Over \union {"new"}]
          /\ deadline' \in [Requests -> Int] /\ granted' \in [Requests -> Int]
      BY <2>1 DEF Leave
    <3> QED
      BY <2>1, <3>2, <3>3, <3>4
  <2>3. CASE UNCHANGED redis
    BY <2>1, <2>3 DEF Leave
  <2> QED
    BY <1>3, <2>2, <2>3 DEF PollThrows
<1>4. ASSUME NEW r \in Requests, TimeOut(r) \/ ReleaseEarly(r) \/ Release(r)
      PROVE  SlotInvariant'
  <2>1. ReleaseScript(r) /\ UNCHANGED clock
    BY <1>4 DEF TimeOut, ReleaseEarly, Release
  <2>2. /\ active' \subseteq Requests /\ Cardinality(active') <= Limit
        /\ waiting' \subseteq Requests
        /\ expiry' \in [Requests -> Int] /\ enqueued' = enqueued
        /\ \A q \in active : q # r => q \in active' /\ expiry'[q] = expiry[q]
    BY <2>1, ReleaseBounds
  <2>3. CASE Leave(r)
    BY <2>1, <2>2, <2>3 DEF Leave
  <2>4. CASE ReleaseEarly(r)
    BY <2>1, <2>2, <2>4 DEF ReleaseEarly
  <2> QED
    BY <1>4, <2>3, <2>4 DEF TimeOut, Release
<1>5. ASSUME NEW r \in Requests, CallEnds(r) \/ MissingBody(r) \/ Die(r) PROVE SlotInvariant'
  <2>1. UNCHANGED <<clock, redis>>
    BY <1>5 DEF CallEnds, MissingBody, Die
  <2>2. CASE Leave(r)
    BY <2>1, <2>2 DEF Leave
  <2>3. CASE pc' = [pc EXCEPT ![r] = "answered"] /\ granted' = [granted EXCEPT ![r] = 0] /\ UNCHANGED deadline
    BY <2>1, <2>3
  <2> QED
    BY <1>5, <2>2, <2>3 DEF CallEnds, MissingBody, Die
<1>6. CASE Tick
  BY <1>6 DEF Tick, AtUpstream
<1>7. CASE UNCHANGED vars
  BY <1>7 DEF vars
<1> QED
  BY <1>1, <1>2, <1>3, <1>4, <1>5, <1>6, <1>7 DEF Next

\* A step takes a polling request out of the queue only when it is stale.
LEMMA PlaceStep ==
    ASSUME SlotInvariant, NEW q \in Requests, PlaceKept(q), [Next]_vars
    PROVE  PlaceKept(q)'
<1> USE DEF SlotInvariant, TypeOK, PlaceKept, Running, Queueing, Over, callers, redis
<1>1. ASSUME NEW r \in Requests, NEW now \in Readings, AcquireScript(r, now), UNCHANGED clock,
             q # r, pc'[q] = pc[q]
      PROVE  PlaceKept(q)'
  <2>1. now \in Int /\ now <= clock + Skew
    BY DEF Readings
  <2>2. pc[q] = "polling" => enqueued'[q] = enqueued[q]
    BY <1>1 DEF AcquireScript, Places
  <2>3. q \in Waiters(now) => q \in waiting'
    BY <1>1 DEF AcquireScript, Line
  <2>4. q \in waiting /\ q \notin Waiters(now) => clock + Skew >= enqueued[q] + QueueTimeout
    BY <2>1 DEF Waiters
  <2> QED
    BY <1>1, <2>2, <2>3, <2>4 DEF Waiters
<1>2. ASSUME NEW r \in Requests, ReleaseScript(r), UNCHANGED clock,
             q = r => pc'[q] # "polling", q # r => pc'[q] = pc[q]
      PROVE  PlaceKept(q)'
  BY <1>2 DEF ReleaseScript
<1>3. ASSUME NEW r \in Requests, Poll(r) PROVE PlaceKept(q)'
  <2>1. PICK now \in Readings :
          /\ AcquireScript(r, now)
          /\ IF Grants(r, now)
             THEN pc' = [pc EXCEPT ![r] = "inflight"]
             ELSE pc' = [pc EXCEPT ![r] = "polling"]
    BY <1>3 DEF Poll
  <2>2. CASE q # r
    BY <1>1, <1>3, <2>1, <2>2 DEF Poll
  <2>3. CASE q = r
    <3>1. now \in Int /\ now <= clock + Skew
      BY DEF Readings
    <3>2. CASE Grants(r, now)
      BY <2>1, <2>3, <3>2
    <3>3. CASE ~Grants(r, now) /\ pc[r] = "arriving"
      BY <2>1, <2>3, <3>3 DEF AcquireScript, Line
    <3>4. CASE ~Grants(r, now) /\ pc[r] = "polling"
      <4>1. waiting' = Waiters(now) /\ enqueued'[r] = enqueued[r] /\ UNCHANGED clock
        BY <1>3, <2>1, <3>4 DEF Poll, AcquireScript, Line, Score, Places
      <4> QED
        BY <2>3, <3>1, <3>4, <4>1 DEF Waiters
    <3> QED
      BY <1>3, <3>2, <3>3, <3>4 DEF Poll
  <2> QED
    BY <2>2, <2>3
<1>4. ASSUME NEW r \in Requests, PollThrows(r) PROVE PlaceKept(q)'
  <2>1. pc' = [pc EXCEPT ![r] = "over"] /\ UNCHANGED clock
    BY <1>4 DEF PollThrows, Leave
  <2>2. CASE q # r
    BY <1>1, <1>4, <2>1, <2>2 DEF PollThrows
  <2>3. CASE q = r
    BY <2>1, <2>3
  <2> QED
    BY <2>2, <2>3
<1>5. ASSUME NEW r \in Requests, TimeOut(r) \/ ReleaseEarly(r) \/ Release(r)
      PROVE  PlaceKept(q)'
  <2>1. PICK to \in {"draining", "over"} : pc' = [pc EXCEPT ![r] = to]
    BY <1>5 DEF TimeOut, ReleaseEarly, Release, Leave
  <2>2. ReleaseScript(r) /\ UNCHANGED clock
    BY <1>5 DEF TimeOut, ReleaseEarly, Release
  <2> QED
    BY <1>2, <2>1, <2>2
<1>6. ASSUME NEW r \in Requests, Start(r) \/ CallEnds(r) \/ MissingBody(r) \/ Die(r)
      PROVE  PlaceKept(q)'
  BY <1>6 DEF Start, CallEnds, MissingBody, Die, Leave
<1>7. CASE Tick
  BY <1>7 DEF Tick
<1>8. CASE UNCHANGED vars
  BY <1>8 DEF vars
<1> QED
  BY <1>3, <1>4, <1>5, <1>6, <1>7, <1>8 DEF Next

\* The invariant of the admission queue: ACQUIRE_SCRIPT and RELEASE_SCRIPT keep
\* the lease of a call until its caller gives it back, and the place of every
\* caller that polls.
THEOREM QueueInvariant == Spec => []ConcurrencyInvariant
<1>1. Init => ConcurrencyInvariant
  BY FS_EmptySet DEF Init, ConcurrencyInvariant, SlotInvariant, TypeOK, LeaseCovers, PlaceKept
<1>2. ConcurrencyInvariant /\ [Next]_vars => ConcurrencyInvariant'
  BY SlotStep, PlaceStep DEF ConcurrencyInvariant
<1> QED
  BY <1>1, <1>2, PTL DEF Spec

\* Never more than Limit requests in flight at the upstream, for any number of
\* processes, clocks within Skew, lost replies and deaths, as long as a lease
\* outlives the call (ACQUIRE_SCRIPT, resolveActiveTtlMs); the passthrough's
\* unread bodies, whose slots the code gives back early, are not among them.
THEOREM LimitHolds == Spec => []InFlightWithinLimit
<1>1. ConcurrencyInvariant => InFlightWithinLimit
  <2> SUFFICES ASSUME ConcurrencyInvariant PROVE InFlightWithinLimit
    OBVIOUS
  <2>1. InFlight \subseteq active
    BY DEF ConcurrencyInvariant, SlotInvariant, LeaseCovers, InFlight, AtUpstream
  <2>2. IsFiniteSet(active)
    BY FS_Subset DEF ConcurrencyInvariant, SlotInvariant, TypeOK
  <2>3. Cardinality(InFlight) <= Cardinality(active)
        /\ Cardinality(active) \in Nat /\ Cardinality(InFlight) \in Nat
    BY <2>1, <2>2, FS_Subset, FS_CardinalityType
  <2> QED
    BY <2>3 DEF ConcurrencyInvariant, SlotInvariant, InFlightWithinLimit
<1> QED
  BY <1>1, QueueInvariant, PTL

\* First-waiter priority of ACQUIRE_SCRIPT: whoever is granted a slot has not
\* overtaken a request that polls and whose place no clock has found stale.
THEOREM FirstComeFirstServed == Spec => NoOvertaking
<1> DEFINE Overtaken(r, q) == /\ Granted(r)
                             /\ pc[q] = "polling"
                             /\ enqueued[q] < enqueued'[r]
<1>1. ASSUME ConcurrencyInvariant, Next, NEW r \in Requests, NEW q \in Requests, Overtaken(r, q)
      PROVE  clock + Skew >= enqueued[q] + QueueTimeout
  <2> USE DEF ConcurrencyInvariant, SlotInvariant, TypeOK
  <2>1. pc[r] # "inflight" /\ pc'[r] = "inflight"
    BY <1>1 DEF Granted, InFlight, AtUpstream
  <2>2. Poll(r)
    BY <1>1, <2>1 DEF Next, Start, Poll, PollThrows, TimeOut, CallEnds, ReleaseEarly, Release,
                      MissingBody, Die, Leave, Tick, callers, Running, Queueing
  <2>3. PICK now \in Readings : AcquireScript(r, now) /\ Grants(r, now)
    <3>1. PICK now \in Readings :
            /\ AcquireScript(r, now)
            /\ IF Grants(r, now)
               THEN pc' = [pc EXCEPT ![r] = "inflight"]
               ELSE pc' = [pc EXCEPT ![r] = "polling"]
      BY <2>2 DEF Poll
    <3>2. pc \in [Requests -> Running \union Over \union {"new"}]
      BY <1>1
    <3>3. Grants(r, now)
      BY <2>1, <3>1, <3>2
    <3> QED
      BY <3>1, <3>3
  <2>4. now \in Int /\ now <= clock + Skew
    BY <1>1 DEF Readings
  <2>5. enqueued'[r] = Score(r, now)
    BY <1>1, <2>3 DEF AcquireScript, Places
  <2>6. q # r
    BY <1>1, <2>5 DEF Score
  <2>7. CASE q \in Waiters(now)
    <3>1. q \in Line(r, now) \ {r}
      BY <2>6, <2>7 DEF Line
    <3>2. Score(r, now) < enqueued[q] \/ Score(r, now) = enqueued[q]
      BY <2>3, <2>7, <3>1 DEF Grants, First
    <3>3. Score(r, now) \in Int /\ enqueued[q] \in Int
      BY <1>1, <2>4 DEF Score
    <3>4. enqueued[q] < Score(r, now)
      BY <1>1, <2>5
    <3> HIDE DEF Overtaken
    <3> QED
      BY <3>2, <3>3, <3>4
  <2>8. CASE q \notin Waiters(now)
    BY <1>1, <2>4, <2>8 DEF PlaceKept, Waiters
  <2> QED
    BY <2>7, <2>8
<1>2. ConcurrencyInvariant /\ [Next]_vars =>
        [\A r, q \in Requests :
            /\ Granted(r)
            /\ pc[q] = "polling"
            /\ enqueued[q] < enqueued'[r]
            => clock + Skew >= enqueued[q] + QueueTimeout]_vars
  BY <1>1
<1> QED
  BY <1>2, QueueInvariant, PTL DEF Spec, NoOvertaking
==============================================================================
