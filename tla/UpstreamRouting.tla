--------------------------- MODULE UpstreamRouting ---------------------------
(***************************************************************************)
(* Which upstreams and credentials a request may use: the row of an        *)
(* upstream, changed by administrators and by the health checks that       *)
(* disable and re-enable it, and the caches an API process answers from    *)
(* (target lists, credential pools), which live for a time and are         *)
(* invalidated over a bus that may lose, delay or repeat its messages.     *)
(*                                                                         *)
(* API processes share nothing but the database and the bus: the caches of *)
(* one are followed.  What no process in "up" reads is left out.           *)
(*                                                                         *)
(* A definition with an underscore is a fault the properties must catch.   *)
(***************************************************************************)
EXTENDS Integers, FiniteSets

CONSTANTS
    Checks,         \* checks of the upstream that may overlap: one for each
                    \* endpoint that shares it, and rounds of several workers
    Requests,       \* requests that resolve the endpoint's targets at a time
    Loads,          \* loads of the credential pool at a time (at most one)
    Deployments,    \* the sets of them that may run together
    Threshold,      \* FAILURE_THRESHOLD (2 in the code)
    MaxDeaths       \* model bound: checks that die

Processes == Checks \union Requests \union Loads

ASSUME ThresholdAssumption == Threshold \in Nat \ {0}
ASSUME DeathsAssumption == MaxDeaths \in Nat
ASSUME DeploymentAssumption == Deployments \subseteq SUBSET Processes

VARIABLES
    up,             \* the processes that run
    enabled,        \* of the upstream's row
    autoDisabled,   \* of the row
    failures,       \* of the row: consecutiveFailures, up to Threshold
    gone,           \* the row has been deleted: what is written to it is lost
    removing,       \* an administrator is about to delete it
    keyOn,          \* its credential is enabled
    reachable,      \* the upstream answers a ping
    at,             \* where a check is
    seen,           \* the count a check is about to write
    deaths,         \* checks that died
    telling,        \* invalidations a process has still to publish
    inbox,          \* invalidations under way to the API process
    targets,        \* upstreamCache: whether its list has the upstream
    pc,             \* where a request is
    have,           \* what a request has read
    pool,           \* pools: whether the pool has the credential
    load,           \* pendingLoads: none, or what it has read
    current,        \* the load's version is poolCacheVersion
    owed,           \* history: changes the API process has not heard of
    lost,           \* history: those nobody will tell it any more
    overtaken,      \* history: an invalidation came after what the request read
    fromOvertaken,  \* history: the list comes from such a request
    bad,            \* history: failures recorded since the last reset
    crossed         \* history: that reset crossed a check about to count

rowVars == <<enabled, autoDisabled, failures, gone, removing>>
checkVars == <<at, seen, deaths>>
busVars == <<telling, inbox, owed, lost>>
targetVars == <<targets, pc, have, overtaken, fromOvertaken>>
poolVars == <<pool, load, current>>
evidence == <<bad, crossed>>
vars == <<up, rowVars, keyOn, reachable, checkVars, busVars, targetVars,
          poolVars, evidence>>

Kinds == {"targets", "pool"}
Contents == {"with", "without"}

Listed == IF enabled /\ ~autoDisabled /\ ~gone THEN "with" ELSE "without"
Pooled == IF keyOn THEN "with" ELSE "without"

\* The caches that some running process fills.
Cached == {m \in Kinds : up \intersect (IF m = "targets" THEN Requests ELSE Loads) # {}}

Counted(n) == IF n < Threshold THEN n + 1 ELSE n

Init ==
    /\ up \in Deployments
    /\ enabled \in BOOLEAN
    /\ autoDisabled = FALSE
    /\ failures = 0
    /\ gone = FALSE
    /\ removing = FALSE
    /\ keyOn \in BOOLEAN
    /\ reachable \in BOOLEAN
    /\ at = [k \in Checks |-> "idle"]
    /\ seen = [k \in Checks |-> 0]
    /\ deaths = 0
    /\ telling = {}
    /\ inbox = {}
    /\ targets = "none"
    /\ pc = [r \in Requests |-> "idle"]
    /\ have = [r \in Requests |-> "without"]
    /\ pool = "none"
    /\ load = "none"
    /\ current = TRUE
    /\ owed = {}
    /\ lost = {}
    /\ overtaken = [r \in Requests |-> FALSE]
    /\ fromOvertaken = FALSE
    /\ bad = 0
    /\ crossed = FALSE

\* A committed change, to be told by whoever made it.
Changed(ms) ==
    /\ owed' = owed \union (ms \intersect Cached)
    /\ telling' = telling \union (ms \intersect Cached)
    /\ UNCHANGED <<inbox, lost>>

\* A check has read a count, or compared it, and not acted on it yet.
Counting(k) == at[k] \in {"write", "reread", "disable"}

\* The count of failures starts again.
Reset ==
    /\ failures' = 0
    /\ bad' = 0
    /\ crossed' = \E k \in Checks : Counting(k)

------------------------------------------------------------------------------
(* Administrators *)

\* PUT /upstreams/:id with "enabled": one UPDATE, the invalidations follow.
SetEnabled ==
    /\ up \intersect (Checks \union Requests) # {}
    /\ ~gone
    /\ enabled' \in BOOLEAN
    /\ autoDisabled' = FALSE
    /\ Reset
    /\ Changed(Kinds)
    /\ UNCHANGED <<up, gone, removing, keyOn, reachable, checkVars, targetVars, poolVars>>

\* A credential, its assignment or its provider is enabled or disabled.
SetKey ==
    /\ up \intersect (Checks \union Loads) # {}
    /\ keyOn' = ~keyOn
    /\ Changed({"pool"})
    /\ UNCHANGED <<up, rowVars, reachable, checkVars, targetVars, poolVars, evidence>>

\* DELETE /upstreams/:id invalidates first and deletes the row afterwards.
BeginDelete ==
    /\ up \intersect (Checks \union Requests) # {}
    /\ ~removing
    /\ removing' = TRUE
    /\ telling' = telling \union Cached
    /\ UNCHANGED <<up, enabled, autoDisabled, failures, gone, keyOn, reachable, checkVars,
                   inbox, owed, lost, targetVars, poolVars, evidence>>

Delete ==
    /\ removing /\ ~gone
    /\ telling = {}
    /\ gone' = TRUE
    /\ owed' = owed \union ({"targets"} \intersect Cached)
    /\ UNCHANGED <<up, enabled, autoDisabled, failures, removing, keyOn, reachable, checkVars,
                   telling, inbox, lost, targetVars, poolVars, evidence>>

------------------------------------------------------------------------------
(* check-endpoint-health: checkEndpoint and applyHealthResult *)

Goto(k, place) == at' = [at EXCEPT ![k] = place]

CheckOnly == UNCHANGED <<up, rowVars, keyOn, reachable, deaths, busVars, targetVars,
                         poolVars, evidence>>

\* A fault: what is disabled is not checked.
Begin_OnlyActive(k) ==
    /\ k \in up /\ at[k] = "idle"
    /\ enabled /\ ~autoDisabled /\ ~gone
    /\ Goto(k, "ping")
    /\ UNCHANGED seen
    /\ CheckOnly

\* checkableUpstreams: all but those an administrator has disabled.
Begin(k) ==
    /\ k \in up /\ at[k] = "idle"
    /\ (enabled \/ autoDisabled) /\ ~gone
    /\ Goto(k, "ping")
    /\ UNCHANGED seen
    /\ CheckOnly

\* Without an enabled credential the target is skipped.
Ping(k) ==
    /\ at[k] = "ping"
    /\ Goto(k, IF ~keyOn THEN "idle" ELSE IF reachable THEN "good" ELSE "bad")
    /\ UNCHANGED seen
    /\ CheckOnly

\* findById: a row that is gone ends the check.
ReadGood(k) ==
    /\ at[k] = "good"
    /\ Goto(k, IF gone THEN "idle" ELSE IF autoDisabled THEN "reenable" ELSE "success")
    /\ UNCHANGED seen
    /\ CheckOnly

\* A fault: a success leaves the count of failures.
RecordSuccess_KeepsCount(k) ==
    /\ at[k] = "success"
    /\ UNCHANGED failures
    /\ bad' = 0
    /\ UNCHANGED crossed
    /\ Goto(k, "idle")
    /\ UNCHANGED <<up, enabled, autoDisabled, gone, removing, keyOn, reachable, seen, deaths,
                   busVars, targetVars, poolVars>>

RecordSuccess(k) ==
    /\ at[k] = "success"
    /\ Reset
    /\ Goto(k, "idle")
    /\ UNCHANGED <<up, enabled, autoDisabled, gone, removing, keyOn, reachable, seen, deaths,
                   busVars, targetVars, poolVars>>

\* markAutoReenabled, and the invalidation of the target lists.
Reenable(k) ==
    /\ at[k] = "reenable"
    /\ autoDisabled' = FALSE
    /\ Reset
    /\ Changed({"targets"})
    /\ Goto(k, "idle")
    /\ UNCHANGED <<up, enabled, gone, removing, keyOn, reachable, seen, deaths, targetVars,
                   poolVars>>

\* A count from before FAILURE_WINDOW_MS is cleared before this one is added.
ReadBad(k) ==
    /\ at[k] = "bad"
    /\ \/ Goto(k, IF gone THEN "idle" ELSE "record")
       \/ ~gone /\ ~autoDisabled /\ failures > 0 /\ Goto(k, "window")
    /\ UNCHANGED seen
    /\ CheckOnly

ClearWindow(k) ==
    /\ at[k] = "window"
    /\ failures' = 0
    /\ Goto(k, "record")
    /\ UNCHANGED <<up, enabled, autoDisabled, gone, removing, keyOn, reachable, seen, deaths,
                   busVars, targetVars, poolVars, evidence>>

\* recordFailure reads the count and writes it back.
ReadCount(k) ==
    /\ at[k] = "record"
    /\ seen' = [seen EXCEPT ![k] = Counted(failures)]
    /\ Goto(k, "write")
    /\ CheckOnly

\* A fault: a failure counts twice.
WriteCount_Twice(k) ==
    /\ at[k] = "write"
    /\ failures' = Counted(seen[k])
    /\ bad' = Counted(bad)
    /\ seen' = [seen EXCEPT ![k] = 0]
    /\ Goto(k, "reread")
    /\ UNCHANGED <<up, enabled, autoDisabled, gone, removing, keyOn, reachable, deaths,
                   busVars, targetVars, poolVars, crossed>>

WriteCount(k) ==
    /\ at[k] = "write"
    /\ failures' = seen[k]
    /\ bad' = Counted(bad)
    /\ seen' = [seen EXCEPT ![k] = 0]
    /\ Goto(k, "reread")
    /\ UNCHANGED <<up, enabled, autoDisabled, gone, removing, keyOn, reachable, deaths,
                   busVars, targetVars, poolVars, crossed>>

Reread(k) ==
    /\ at[k] = "reread"
    /\ Goto(k, IF failures >= Threshold /\ ~autoDisabled /\ ~gone THEN "disable" ELSE "idle")
    /\ UNCHANGED seen
    /\ CheckOnly

\* markAutoDisabled, and the invalidation of the target lists.
Disable(k) ==
    /\ at[k] = "disable"
    /\ autoDisabled' = TRUE
    /\ Changed({"targets"})
    /\ Goto(k, "idle")
    /\ UNCHANGED <<up, enabled, failures, gone, removing, keyOn, reachable, seen, deaths,
                   targetVars, poolVars, evidence>>

Check(k) ==
    \/ Begin(k) \/ Ping(k)
    \/ ReadGood(k) \/ RecordSuccess(k) \/ Reenable(k)
    \/ ReadBad(k) \/ ClearWindow(k) \/ ReadCount(k) \/ WriteCount(k)
    \/ Reread(k) \/ Disable(k)

\* The worker dies or the database fails: the round is lost.
CheckDies(k) ==
    /\ at[k] # "idle"
    /\ deaths < MaxDeaths
    /\ deaths' = deaths + 1
    /\ seen' = [seen EXCEPT ![k] = 0]
    /\ Goto(k, "idle")
    /\ UNCHANGED <<up, rowVars, keyOn, reachable, busVars, targetVars, poolVars, evidence>>

Flip ==
    /\ up \intersect Checks # {}
    /\ reachable' = ~reachable
    /\ UNCHANGED <<up, rowVars, keyOn, checkVars, busVars, targetVars, poolVars, evidence>>

------------------------------------------------------------------------------
(* The bus, and what the API process does with an invalidation *)

\* invalidateUpstreamCache: reads under way are not called off.
DropTargets ==
    /\ targets' = "none"
    /\ fromOvertaken' = FALSE
    /\ overtaken' = [r \in Requests |-> overtaken[r] \/ pc[r] = "fill"]
    /\ UNCHANGED <<pc, have, poolVars>>

\* invalidateCredentialPool: a load under way has an old version from now on.
DropPool ==
    /\ pool' = "none"
    /\ current' = FALSE
    /\ UNCHANGED <<load, targetVars>>

\* A fault: an invalidation without an endpoint id is ignored.
Invalidate_NotTargets(m) ==
    IF m = "targets" THEN UNCHANGED <<targetVars, poolVars>> ELSE DropPool

Invalidate(m) == IF m = "targets" THEN DropTargets ELSE DropPool

Heard(m) ==
    /\ Invalidate(m)
    /\ owed' = owed \ {m}
    /\ lost' = lost \ {m}

\* emit: the emitter's own handlers at once if it is the process followed, and
\* a message to all; another change of the kind may still be waiting.
Tell(m) ==
    /\ m \in telling
    /\ telling' \in {telling, telling \ {m}}
    /\ \/ Heard(m) /\ inbox' = inbox \union {m}
       \/ /\ inbox' = inbox \union {m}
          /\ UNCHANGED <<owed, lost, targetVars, poolVars>>
       \/ /\ lost' = lost \union ({m} \intersect owed)
          /\ UNCHANGED <<inbox, owed, targetVars, poolVars>>
    /\ UNCHANGED <<up, rowVars, keyOn, reachable, checkVars, evidence>>

\* Who made the change dies, or fails, before it tells.
TellerDies(m) ==
    /\ m \in telling
    /\ telling' = telling \ {m}
    /\ lost' = lost \union ({m} \intersect owed)
    /\ UNCHANGED <<up, rowVars, keyOn, reachable, checkVars, inbox, owed, targetVars, poolVars,
                   evidence>>

\* A message of the bus, which may come again: the emitter gets its own.
Deliver(m) ==
    /\ m \in inbox
    /\ inbox' \in {inbox, inbox \ {m}}
    /\ Heard(m)
    /\ UNCHANGED <<up, rowVars, keyOn, reachable, checkVars, telling, evidence>>

------------------------------------------------------------------------------
(* resolveUpstreamCandidates *)

ElseTargets == UNCHANGED <<up, rowVars, keyOn, reachable, checkVars, busVars, poolVars, evidence>>

Miss(r) ==
    /\ r \in up /\ pc[r] = "idle"
    /\ targets = "none"
    /\ pc' = [pc EXCEPT ![r] = "reading"]
    /\ UNCHANGED <<targets, have, overtaken, fromOvertaken>>
    /\ ElseTargets

ReadTargets(r) ==
    /\ pc[r] = "reading"
    /\ have' = [have EXCEPT ![r] = Listed]
    /\ overtaken' = [overtaken EXCEPT ![r] = FALSE]
    /\ pc' = [pc EXCEPT ![r] = "fill"]
    /\ UNCHANGED <<targets, fromOvertaken>>
    /\ ElseTargets

\* upstreamCache.set, whatever has happened since the read.
Fill(r) ==
    /\ pc[r] = "fill"
    /\ targets' = have[r]
    /\ fromOvertaken' = overtaken[r]
    /\ pc' = [pc EXCEPT ![r] = "idle"]
    /\ have' = [have EXCEPT ![r] = "without"]
    /\ overtaken' = [overtaken EXCEPT ![r] = FALSE]
    /\ ElseTargets

\* A fault: every use renews an entry's time.
ExpireTargets_Renewed ==
    /\ targets # "none"
    /\ UNCHANGED <<targetVars>>
    /\ ElseTargets

\* CACHE_TTL_MS, counted from before the read.
ExpireTargets ==
    /\ targets # "none"
    /\ targets' = "none"
    /\ fromOvertaken' = FALSE
    /\ UNCHANGED <<pc, have, overtaken>>
    /\ ElseTargets

------------------------------------------------------------------------------
(* getPool, refreshPool and loadPool *)

ElsePool == UNCHANGED <<up, rowVars, keyOn, reachable, checkVars, busVars, targetVars, evidence>>

\* One load at a time: who comes while it is under way joins it.
BeginLoad ==
    /\ up \intersect Loads # {}
    /\ pool = "none" /\ load = "none"
    /\ load' = "reading"
    /\ current' = TRUE
    /\ UNCHANGED pool
    /\ ElsePool

ReadPool ==
    /\ load = "reading"
    /\ load' = Pooled
    /\ UNCHANGED <<pool, current>>
    /\ ElsePool

\* A fault: a load is kept whatever its version.
EndLoad_AnyVersion ==
    /\ load \in Contents
    /\ pool' = load
    /\ load' = "none"
    /\ UNCHANGED current
    /\ ElsePool

EndLoad ==
    /\ load \in Contents
    /\ pool' = IF current THEN load ELSE pool
    /\ load' = "none"
    /\ UNCHANGED current
    /\ ElsePool

LoadFails ==
    /\ load # "none"
    /\ load' = "none"
    /\ UNCHANGED <<pool, current>>
    /\ ElsePool

\* POOL_TTL_MS, counted from the end of the load.
ExpirePool ==
    /\ pool # "none"
    /\ pool' = "none"
    /\ UNCHANGED <<load, current>>
    /\ ElsePool

------------------------------------------------------------------------------
Request(r) == Miss(r) \/ ReadTargets(r) \/ Fill(r)

Pool == BeginLoad \/ ReadPool \/ EndLoad

Next ==
    \/ SetEnabled \/ SetKey \/ BeginDelete \/ Delete
    \/ \E k \in Checks : Check(k) \/ CheckDies(k)
    \/ Flip
    \/ \E m \in Kinds : Tell(m) \/ TellerDies(m) \/ Deliver(m)
    \/ \E r \in Requests : Request(r)
    \/ ExpireTargets
    \/ Pool \/ LoadFails \/ ExpirePool

Spec == Init /\ [][Next]_vars

(* The recurring job runs and each of its steps ends (a ping has a timeout); *)
(* requests and loads go on, and time passes.  Nothing says that a message   *)
(* is told or delivered.                                                     *)
Fairness ==
    /\ \A k \in Checks : WF_vars(Check(k))
    /\ \A r \in Requests : WF_vars(Request(r))
    /\ WF_vars(Pool)
    /\ WF_vars(ExpireTargets)
    /\ WF_vars(ExpirePool)

FairSpec == Spec /\ Fairness

------------------------------------------------------------------------------
Places == {"idle", "ping", "good", "bad", "success", "reenable", "window", "record",
           "write", "reread", "disable"}

TypeOK ==
    /\ up \subseteq Processes
    /\ enabled \in BOOLEAN /\ autoDisabled \in BOOLEAN /\ failures \in 0..Threshold
    /\ gone \in BOOLEAN /\ removing \in BOOLEAN
    /\ keyOn \in BOOLEAN /\ reachable \in BOOLEAN
    /\ at \in [Checks -> Places] /\ seen \in [Checks -> 0..Threshold] /\ deaths \in 0..MaxDeaths
    /\ telling \subseteq Kinds /\ inbox \subseteq Kinds
    /\ owed \subseteq Kinds /\ lost \subseteq Kinds
    /\ targets \in Contents \union {"none"}
    /\ pc \in [Requests -> {"idle", "reading", "fill"}]
    /\ have \in [Requests -> Contents] /\ overtaken \in [Requests -> BOOLEAN]
    /\ fromOvertaken \in BOOLEAN
    /\ pool \in Contents \union {"none"} /\ load \in Contents \union {"none", "reading"}
    /\ current \in BOOLEAN
    /\ bad \in 0..Threshold /\ crossed \in BOOLEAN

\* What the API process has not heard of is on its way, or named as lost.
OwedIsTold ==
    /\ owed \subseteq Cached
    /\ "pool" \in owed => "pool" \in telling \union inbox \union lost
    /\ "targets" \in owed => gone \/ "targets" \in telling \union inbox \union lost

\* What a request or a load has read and not kept yet.
ReadsTellRow ==
    /\ \A r \in Requests : pc[r] = "fill" /\ have[r] # Listed =>
           "targets" \in owed \/ overtaken[r]
    /\ load \in Contents /\ current /\ load # Pooled => "pool" \in owed

ProcessesUp ==
    /\ \A r \in Requests : pc[r] # "idle" => r \in up
    /\ targets # "none" => up \intersect Requests # {}
    /\ load # "none" \/ pool # "none" => up \intersect Loads # {}

\* Unless a reset crossed it, no check counts more failures than there were.
CountsAreTrue ==
    crossed \/ /\ failures <= bad
               /\ \A k \in Checks :
                     /\ at[k] = "write" => seen[k] <= Counted(bad)
                     /\ at[k] = "disable" => bad >= Threshold

(* The state keeps its shape, no count of failures exceeds the failures      *)
(* recorded, and what is under way into a cache agrees with its row unless   *)
(* an invalidation is due or has overtaken it.                               *)
RoutingInvariant ==
    TypeOK /\ ProcessesUp /\ OwedIsTold /\ ReadsTellRow /\ CountsAreTrue

(* A credential pool that is kept agrees with the credentials, or the change *)
(* has not been heard of and is on its way or lost: a load that an           *)
(* invalidation overtakes is never kept.                                     *)
PoolTellsRow ==
    pool \notin {"none", Pooled} =>
        "pool" \in owed /\ "pool" \in telling \union inbox \union lost

(* A target list that is kept agrees with the upstream's row, or the change  *)
(* is on its way or lost, or the row was deleted after it had been told, or  *)
(* the list comes from a read that an invalidation overtook: nothing compares *)
(* versions here.                                                            *)
TargetsTellRow ==
    targets \notin {"none", Listed} =>
        \/ "targets" \in owed /\ (gone \/ "targets" \in telling \union inbox \union lost)
        \/ fromOvertaken

(* The job disables an upstream only after Threshold failures since the last *)
(* success, re-enabling or decision of an administrator, unless that crossed *)
(* a check that was about to count.                                          *)
DisabledOnEvidence ==
    [][~autoDisabled /\ autoDisabled' => bad >= Threshold \/ crossed]_vars

(* Lost invalidations and overtaken reads do not last: once the rows do not  *)
(* change any more, the caches agree with them for good.                     *)
CachesSettle == \A c \in Contents :
    /\ <>[](Listed = c) => <>[](targets \in {"none", c})
    /\ <>[](Pooled = c) => <>[](pool \in {"none", c})

(* An upstream that answers from some time on, and has a credential to ask   *)
(* it with, does not stay disabled by the job.                               *)
GoodUpstreamReturns ==
    up \intersect Checks # {} =>
        (<>[](reachable /\ keyOn /\ ~gone) => <>[](~autoDisabled))
==============================================================================
