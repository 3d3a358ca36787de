--------------------------- MODULE ConsumerBilling ---------------------------
(***************************************************************************)
(* The money path of the gateway: relay requests of one consumer key       *)
(* against one prepaid pay-agent.  A request passes the consumer-key       *)
(* middleware, the pre-flight limits, the semantic cache and the upstream; *)
(* billConsumer then checks the limits, debits the balance and enqueues    *)
(* the ledger row, which the write-queue worker inserts and follows with   *)
(* the provider's revenue share.  Requests run concurrently: every await   *)
(* on the database is the end of an action.                                *)
(*                                                                         *)
(* All models are priced: a free model skips the balance gate, the limits  *)
(* and the debit.  Limits are one window; its roll-over is left out.       *)
(*                                                                         *)
(* A definition with an underscore is a fault the properties must catch.   *)
(***************************************************************************)
EXTENDS Integers, FiniteSets

CONSTANTS
    Requests,       \* relay requests of the consumer
    Streams,        \* the requests with body.stream
    Cost,           \* costStr of each request when the upstream reports usage
    PromptOf,       \* cache key of each request
    PerPayLimit,    \* payAgents.perPayLimit
    SpendLimit,     \* payAgents.dailyLimit (monthlyLimit is a second copy)
    MaxDepth,       \* write-queue depth above which a job is dropped
    MaxAttempts,    \* BullMQ attempts of a job (3 in the code)
    MaxStalls,      \* BullMQ maxStalledCount (1 by default)
    MaxBalance      \* model bound on the balance, reached by top-ups

ASSUME RequestsAssumption == IsFiniteSet(Requests)
ASSUME StreamsAssumption == Streams \subseteq Requests
ASSUME CostAssumption == Cost \in [Requests -> Nat \ {0}]
ASSUME LimitsAssumption == PerPayLimit \in Nat /\ SpendLimit \in Nat
ASSUME QueueAssumption ==
    MaxDepth \in Nat /\ MaxAttempts \in Nat \ {0} /\ MaxStalls \in Nat
ASSUME BalanceAssumption == MaxBalance \in Nat

VARIABLES
    balance,        \* pay_agents.balance
    status,         \* pay_agents.status
    pc,             \* where each request is
    due,            \* costStr of the request being billed
    charged,        \* what debitBalance took for it
    cache,          \* cache keys with a stored response (this process)
    job,            \* the request's agent-ai-txn job
    attempts,       \* failed runs of the job
    stalls,         \* times the job was taken from a dead worker
    rows,           \* ai_usage rows of the request in pay_agent_transactions
    shares,         \* revenue-share credits to the key provider
    shareRows,      \* revenue_share rows in key_provider_transactions
    sampledFull,    \* RedisJobQueue.redisDepth of this process > MaxDepth
    excused         \* history: a limit check could not keep the limit

agentVars   == <<balance, status>>
requestVars == <<pc, due, charged>>
jobVars     == <<job, attempts, stalls>>
ledgerVars  == <<rows, shares, shareRows>>
vars == <<agentVars, requestVars, cache, jobVars, ledgerVars, sampledFull, excused>>

Running == {"authed", "lookup", "fetching", "limits", "suspending",
            "debiting", "debited", "exhausted"}
Ended   == {"paid", "free", "unpaid", "refused", "failed"}
Live    == {"queued", "sharing", "noting", "acking"}
Gone    == {"dropped", "unqueued", "dead"}

Init ==
    /\ balance \in 0..MaxBalance
    /\ status = "active"
    /\ pc = [r \in Requests |-> "idle"]
    /\ due = [r \in Requests |-> 0]
    /\ charged = [r \in Requests |-> 0]
    /\ cache \in SUBSET {PromptOf[r] : r \in Requests}
    /\ job = [r \in Requests |-> "none"]
    /\ attempts = [r \in Requests |-> 0]
    /\ stalls = [r \in Requests |-> 0]
    /\ rows = [r \in Requests |-> 0]
    /\ shares = [r \in Requests |-> 0]
    /\ shareRows = [r \in Requests |-> 0]
    /\ sampledFull = FALSE
    /\ excused = FALSE

------------------------------------------------------------------------------
(* sumSpendingToday reads the ledger, not the balance: a charge counts once *)
(* its row is inserted, and as often as it was inserted.                    *)

\* SUM(f): the number of units f gives to the requests together.
Units(f) == UNION {{r} \X (1..f[r]) : r \in Requests}
Total(f) == Cardinality(Units(f))

Spent == Total([r \in Requests |-> rows[r] * charged[r]])

\* A fault: the request at hand is left out of the sum.
OverCostLimits_PastOnly(r) == due[r] > PerPayLimit \/ Spent > SpendLimit

OverCostLimits(r) == due[r] > PerPayLimit \/ Spent + due[r] > SpendLimit

\* Requests whose charge is decided but not yet in the ledger.
Unrecorded == {r \in Requests : \/ pc[r] \in {"suspending", "debiting", "debited"}
                                \/ charged[r] > 0 /\ rows[r] = 0}

Goto(r, where) == pc' = [pc EXCEPT ![r] = where]

------------------------------------------------------------------------------
(* The request, up to the bill. *)

\* Middleware: the agent's row is read once; the balance gate of the route
\* uses the balance of that read.
Authenticate(r) ==
    /\ pc[r] = "idle"
    /\ Goto(r, IF status = "active" /\ balance > 0 THEN "authed" ELSE "refused")
    /\ UNCHANGED <<agentVars, due, charged, cache, jobVars, ledgerVars, sampledFull, excused>>

\* checkConsumerSpendingLimits: only what has been spent already counts.
Preflight(r) ==
    /\ pc[r] = "authed"
    /\ Goto(r, IF Spent > SpendLimit THEN "refused" ELSE "lookup")
    /\ UNCHANGED <<agentVars, due, charged, cache, jobVars, ledgerVars, sampledFull, excused>>

\* A non-stream request found in the cache is answered without a bill.
LookupCache(r) ==
    /\ pc[r] = "lookup"
    /\ Goto(r, IF r \notin Streams /\ PromptOf[r] \in cache THEN "free" ELSE "fetching")
    /\ UNCHANGED <<agentVars, due, charged, cache, jobVars, ledgerVars, sampledFull, excused>>

\* The upstream answered: a non-stream response goes to the cache before
\* billConsumer is called; a stream has been forwarded by now.  Without
\* reported usage the cost is 0.
UpstreamAnswers(r) ==
    /\ pc[r] = "fetching"
    /\ Goto(r, "limits")
    /\ \E cost \in {0, Cost[r]} : due' = [due EXCEPT ![r] = cost]
    /\ cache' = IF r \in Streams THEN cache ELSE cache \union {PromptOf[r]}
    /\ UNCHANGED <<agentVars, charged, jobVars, ledgerVars, sampledFull, excused>>

\* A fault: an error is retried without a bound on the attempts.
RequestFails_Retries(r) ==
    /\ pc[r] \in {"authed", "lookup", "fetching"}
    /\ Goto(r, "lookup")
    /\ UNCHANGED <<agentVars, due, charged, cache, jobVars, ledgerVars, sampledFull, excused>>

\* An upstream error that ends the request, or a failed database call of the
\* middleware or the relay before the debit.
RequestFails(r) ==
    /\ pc[r] \in {"authed", "lookup", "fetching"}
    /\ Goto(r, "failed")
    /\ UNCHANGED <<agentVars, due, charged, cache, jobVars, ledgerVars, sampledFull, excused>>

------------------------------------------------------------------------------
(* billConsumer *)

\* A non-stream caller sets rejectOnLimit and gets the refusal; the owner of
\* a stream is suspended and the stream is billed all the same.
CheckLimits(r) ==
    /\ pc[r] = "limits"
    /\ Goto(r, CASE OverCostLimits(r) /\ r \notin Streams -> "refused"
                 [] OverCostLimits(r) /\ r \in Streams    -> "suspending"
                 [] ~OverCostLimits(r) /\ due[r] > 0      -> "debiting"
                 [] OTHER                                 -> "free")
    /\ excused' = \/ excused
                  \/ Unrecorded # {}
                  \/ OverCostLimits(r) /\ r \in Streams
    /\ UNCHANGED <<agentVars, due, charged, cache, jobVars, ledgerVars, sampledFull>>

SuspendForLimit(r) ==
    /\ pc[r] = "suspending"
    /\ status' = "suspended"
    /\ Goto(r, IF due[r] > 0 THEN "debiting" ELSE "free")
    /\ UNCHANGED <<balance, due, charged, cache, jobVars, ledgerVars, sampledFull, excused>>

\* debitBalance: one guarded UPDATE.
DebitBalance(r) ==
    /\ pc[r] = "debiting"
    /\ IF balance >= due[r]
       THEN /\ balance' = balance - due[r]
            /\ charged' = [charged EXCEPT ![r] = due[r]]
            /\ Goto(r, "debited")
       ELSE /\ Goto(r, "exhausted")
            /\ UNCHANGED <<balance, charged>>
    /\ UNCHANGED <<status, due, cache, jobVars, ledgerVars, sampledFull, excused>>

\* A fault: a full queue refuses the request, which has been debited.
RecordCharge_Refuses(r) ==
    /\ pc[r] = "debited"
    /\ IF sampledFull
       THEN Goto(r, "refused") /\ UNCHANGED job
       ELSE Goto(r, "paid") /\ job' = [job EXCEPT ![r] = "queued"]
    /\ UNCHANGED <<agentVars, due, charged, cache, attempts, stalls, ledgerVars, sampledFull, excused>>

\* The debit's reply arrives: enqueueJob("agent-ai-txn") drops the job when
\* the last sample of the queue was above its limit, and the add itself may
\* fail; neither is reported to the caller, whose request is answered.
RecordCharge(r) ==
    /\ pc[r] = "debited"
    /\ Goto(r, "paid")
    /\ IF sampledFull
       THEN job' = [job EXCEPT ![r] = "dropped"]
       ELSE \E outcome \in {"queued", "unqueued"} : job' = [job EXCEPT ![r] = outcome]
    /\ UNCHANGED <<agentVars, due, charged, cache, attempts, stalls, ledgerVars, sampledFull, excused>>

\* The debit found too little: the agent is suspended, a non-stream caller is
\* refused, a stream stays uncollected.
SuspendExhausted(r) ==
    /\ pc[r] = "exhausted"
    /\ status' = "suspended"
    /\ Goto(r, IF r \in Streams THEN "unpaid" ELSE "refused")
    /\ UNCHANGED <<balance, due, charged, cache, jobVars, ledgerVars, sampledFull, excused>>

\* A fault: the debit is tried again when its reply is lost.
BillingThrows_Retries(r) ==
    /\ pc[r] = "debited"
    /\ Goto(r, "debiting")
    /\ UNCHANGED <<agentVars, due, charged, cache, jobVars, ledgerVars, sampledFull, excused>>

\* A database call of billConsumer throws, the debit's reply included: the
\* exception ends the bill, and a debit that committed stays.
BillingThrows(r) ==
    /\ pc[r] \in {"limits", "suspending", "debiting", "debited", "exhausted"}
    /\ Goto(r, "failed")
    /\ UNCHANGED <<agentVars, due, charged, cache, jobVars, ledgerVars, sampledFull, excused>>

------------------------------------------------------------------------------
(* The write queue's worker: one agent-ai-txn job. *)

\* A fault: one run more than the job's attempts.
Requeue_OneMore(r) ==
    /\ attempts' = [attempts EXCEPT ![r] = @ + 1]
    /\ job' = [job EXCEPT ![r] = IF attempts[r] < MaxAttempts THEN "queued" ELSE "dead"]

Requeue(r) ==
    /\ attempts' = [attempts EXCEPT ![r] = @ + 1]
    /\ job' = [job EXCEPT ![r] = IF attempts[r] + 1 < MaxAttempts THEN "queued" ELSE "dead"]

\* The handler inserts the row first.
InsertRow(r) ==
    /\ job[r] = "queued"
    /\ rows' = [rows EXCEPT ![r] = @ + 1]
    /\ job' = [job EXCEPT ![r] = "sharing"]
    /\ UNCHANGED <<agentVars, requestVars, cache, attempts, stalls, shares, shareRows, sampledFull, excused>>

\* A fault: the handler swallows the error of the insert.
InsertThrows_Swallowed(r) ==
    /\ job[r] = "queued"
    /\ job' = [job EXCEPT ![r] = "acking"]
    /\ UNCHANGED <<agentVars, requestVars, cache, attempts, stalls, ledgerVars, sampledFull, excused>>

\* The insert throws, before or after it committed; the job is tried again.
InsertThrows(r) ==
    /\ job[r] = "queued"
    /\ Requeue(r)
    /\ rows' \in {rows, [rows EXCEPT ![r] = @ + 1]}
    /\ UNCHANGED <<agentVars, requestVars, cache, stalls, shares, shareRows, sampledFull, excused>>

\* The key provider's balance is credited before its row is written; no
\* owner, no profit or an error skips both, and the error is swallowed.
CreditProvider(r) ==
    /\ job[r] = "sharing"
    /\ \/ /\ shares' = [shares EXCEPT ![r] = @ + 1]
          /\ job' = [job EXCEPT ![r] = "noting"]
       \/ /\ job' = [job EXCEPT ![r] = "acking"]
          /\ UNCHANGED shares
    /\ UNCHANGED <<agentVars, requestVars, cache, attempts, stalls, rows, shareRows, sampledFull, excused>>

\* A fault: a failed insert of the share's row starts the share again.
NoteShare_Restarts(r) ==
    /\ job[r] = "noting"
    /\ job' = [job EXCEPT ![r] = "sharing"]
    /\ UNCHANGED <<agentVars, requestVars, cache, attempts, stalls, ledgerVars, sampledFull, excused>>

NoteShare(r) ==
    /\ job[r] = "noting"
    /\ job' = [job EXCEPT ![r] = "acking"]
    /\ shareRows' \in {shareRows, [shareRows EXCEPT ![r] = @ + 1]}
    /\ UNCHANGED <<agentVars, requestVars, cache, attempts, stalls, rows, shares, sampledFull, excused>>

Acknowledge(r) ==
    /\ job[r] = "acking"
    /\ job' = [job EXCEPT ![r] = "done"]
    /\ UNCHANGED <<agentVars, requestVars, cache, attempts, stalls, ledgerVars, sampledFull, excused>>

\* The worker died while it held the job, before the insert ("queued" covers
\* a job that a worker has taken) or after it: BullMQ gives it to another
\* worker, from the beginning, and fails it after MaxStalls of these.
JobStalls(r) ==
    /\ job[r] \in Live
    /\ stalls' = [stalls EXCEPT ![r] = @ + 1]
    /\ job' = [job EXCEPT ![r] = IF stalls[r] < MaxStalls THEN "queued" ELSE "dead"]
    /\ UNCHANGED <<agentVars, requestVars, cache, attempts, ledgerVars, sampledFull, excused>>

------------------------------------------------------------------------------
(* Timers, the administrator and the process. *)

SampleDepth ==
    /\ sampledFull' = (Cardinality({r \in Requests : job[r] \in Live}) > MaxDepth)
    /\ UNCHANGED <<agentVars, requestVars, cache, jobVars, ledgerVars, excused>>

\* The 5-minute TTL or the LRU bound removes an entry.
EvictCache ==
    /\ \E p \in cache : cache' = cache \ {p}
    /\ UNCHANGED <<agentVars, requestVars, jobVars, ledgerVars, sampledFull, excused>>

\* creditBalance, whoever calls it: also reactivates the agent.
CreditBalance ==
    /\ \E amount \in 1..(MaxBalance - balance) : balance' = balance + amount
    /\ status' = "active"
    /\ UNCHANGED <<requestVars, cache, jobVars, ledgerVars, sampledFull, excused>>

AdminDebit ==
    /\ \E amount \in 1..balance : balance' = balance - amount
    /\ UNCHANGED <<status, requestVars, cache, jobVars, ledgerVars, sampledFull, excused>>

AdminSetStatus ==
    /\ status' \in {"active", "suspended"}
    /\ UNCHANGED <<balance, requestVars, cache, jobVars, ledgerVars, sampledFull, excused>>

\* The API process dies: requests in flight end, its cache and its depth
\* sample go; the queue and the database stay.
Crash ==
    /\ pc' = [r \in Requests |-> IF pc[r] \in Running THEN "failed" ELSE pc[r]]
    /\ cache' = {}
    /\ sampledFull' = FALSE
    /\ UNCHANGED <<agentVars, due, charged, jobVars, ledgerVars, excused>>

------------------------------------------------------------------------------
Relay(r) ==
    \/ Authenticate(r) \/ Preflight(r) \/ LookupCache(r)
    \/ UpstreamAnswers(r) \/ RequestFails(r)

Bill(r) ==
    \/ CheckLimits(r) \/ SuspendForLimit(r) \/ DebitBalance(r)
    \/ RecordCharge(r) \/ SuspendExhausted(r) \/ BillingThrows(r)

Work(r) ==
    \/ InsertRow(r) \/ InsertThrows(r) \/ CreditProvider(r)
    \/ NoteShare(r) \/ Acknowledge(r) \/ JobStalls(r)

Environment ==
    \/ SampleDepth \/ EvictCache \/ CreditBalance
    \/ AdminDebit \/ AdminSetStatus \/ Crash

Next ==
    \/ \E r \in Requests : Relay(r) \/ Bill(r) \/ Work(r)
    \/ Environment

Spec == Init /\ [][Next]_vars

(* The event loop runs a request that can go on, every upstream call has a  *)
(* timeout, and the workers keep polling Redis.  Nobody has to start a      *)
(* request, credit, sample or crash.                                        *)
Fairness == \A r \in Requests :
    /\ WF_vars(Relay(r) /\ pc[r] # "idle")
    /\ WF_vars(Bill(r))
    /\ WF_vars(Work(r))

FairSpec == Spec /\ Fairness

------------------------------------------------------------------------------
TypeOK ==
    /\ balance \in Nat
    /\ status \in {"active", "suspended"}
    /\ pc \in [Requests -> Running \union Ended \union {"idle"}]
    /\ due \in [Requests -> Nat]
    /\ charged \in [Requests -> Nat]
    /\ job \in [Requests -> Live \union Gone \union {"none", "done"}]
    /\ attempts \in [Requests -> Nat]
    /\ stalls \in [Requests -> Nat]
    /\ rows \in [Requests -> Nat]
    /\ shares \in [Requests -> Nat]
    /\ shareRows \in [Requests -> Nat]
    /\ sampledFull \in BOOLEAN
    /\ excused \in BOOLEAN

(* The caller's answer agrees with the ledger of charges: a refusal (402,  *)
(* 429), a cache hit and an uncollected stream were never debited, a paid   *)
(* answer was debited its whole cost.  consumer-relay.ts returns the        *)
(* refusal of billConsumer; billing.ts debits after the limits.             *)
AnswerTellsCharge ==
    \A r \in Requests :
        /\ pc[r] \in {"refused", "free", "unpaid"} => charged[r] = 0
        /\ pc[r] = "paid" => charged[r] = due[r] /\ charged[r] > 0

\* BullMQ gives a job up for one of two reasons only.
UsedUp(r) == attempts[r] = MaxAttempts \/ stalls[r] = MaxStalls + 1

(* Every charge is in the ledger, on its way there, or lost in one of the   *)
(* ways the code has: the request broke between the debit and the enqueue,  *)
(* the job was dropped or not added, or it used up its runs or its stalls.  *)
ChargeAccounted ==
    \A r \in Requests : charged[r] > 0 =>
        \/ rows[r] > 0
        \/ job[r] = "queued"
        \/ pc[r] = "debited"
        \/ pc[r] = "failed" /\ job[r] = "none"
        \/ job[r] \in {"dropped", "unqueued"}
        \/ job[r] = "dead" /\ UsedUp(r)

(* A row is about a charge that happened, is written again only when a run  *)
(* of the job failed or stalled, and a provider is credited only after a    *)
(* row of the consumer's ledger was inserted.                               *)
RowsTraceCharges ==
    \A r \in Requests :
        /\ rows[r] > 0 => charged[r] > 0
        /\ rows[r] <= 1 + attempts[r] + stalls[r]
        /\ shareRows[r] <= shares[r]
        /\ shares[r] <= rows[r]

(* The limit is exact for a spender that is alone: charges exceed           *)
(* SpendLimit only if a check ran while another charge was not in the       *)
(* ledger yet (concurrently, or lost by the queue), or found a stream over  *)
(* the limit, which has been served and is billed all the same.             *)
Charges == Total(charged)
SoleSpenderWithinLimit == Charges > SpendLimit => excused

(* Without a fault of the queue or of the process a charge reaches the      *)
(* ledger: a queued row is inserted unless its runs are used up.            *)
QueuedRowIsWritten ==
    \A r \in Requests :
        job[r] = "queued" ~> rows[r] > 0 \/ job[r] = "dead"

(* Every admitted request is answered. *)
AdmittedIsAnswered ==
    \A r \in Requests : pc[r] = "authed" ~> pc[r] \in Ended

------------------------------------------------------------------------------
(* The inductive strengthening: what the place of a request says of its     *)
(* charge, and what the place of its job says of the rows.                  *)

PlaceTellsCharge(r) ==
    /\ pc[r] \in {"idle", "authed", "lookup", "fetching", "limits", "suspending",
                 "debiting", "exhausted", "refused", "free", "unpaid"} => charged[r] = 0
    /\ pc[r] \in {"debited", "paid"} => charged[r] = due[r] /\ charged[r] > 0
    /\ pc[r] = "debiting" => due[r] > 0
    /\ pc[r] = "unpaid" => r \in Streams
    /\ pc[r] = "paid" <=> job[r] # "none"

JobTellsRows(r) ==
    /\ job[r] \in {"none", "dropped", "unqueued"} => rows[r] = 0
    /\ job[r] \in {"queued", "dead"} => rows[r] <= attempts[r] + stalls[r]
    /\ job[r] \in {"sharing", "noting", "acking", "done"} =>
           rows[r] \in 1..(1 + attempts[r] + stalls[r])
    /\ job[r] \notin Gone => attempts[r] < MaxAttempts /\ stalls[r] <= MaxStalls
    /\ job[r] = "dead" => UsedUp(r)
    /\ shares[r] <= rows[r]
    /\ job[r] = "sharing" => shares[r] < rows[r]
    /\ shareRows[r] <= shares[r]
    /\ job[r] = "noting" => shareRows[r] < shares[r]

BillingInvariant ==
    /\ TypeOK
    /\ \A r \in Requests : PlaceTellsCharge(r) /\ JobTellsRows(r)

(* As long as no check is excused, at most one request is about to be      *)
(* debited, and what it owes fits in what the limit leaves.                 *)
LimitInvariant ==
    excused \/ /\ Charges <= SpendLimit
               /\ \A r \in Requests :
                      /\ pc[r] # "suspending"
                      /\ pc[r] = "debiting" =>
                             /\ Charges + due[r] <= SpendLimit
                             /\ \A q \in Requests : pc[q] = "debiting" => q = r

------------------------------------------------------------------------------
Implements == INSTANCE PrepaidLedger WITH
    charge <- charged,
    answer <- [r \in Requests |-> IF pc[r] \in Ended THEN pc[r] ELSE "open"]

LedgerPromise == Implements!LedgerSpec
==============================================================================
