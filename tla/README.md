# Prismix in TLA+

Prismix (`src/`) is a gateway in front of language-model providers. Consumers
send chat requests with a key; the gateway picks an upstream, relays the call,
streams the answer back and charges a prepaid *pay-agent*, whose balance is fed
by USDC deposits and drained by withdrawals. This directory models the parts
that decide about money, about scarce slots, about which upstreams are used and
about what the queues and messages carry, checks them with TLC on small
instances, and proves the safety results with TLAPS for every instance.

Paths below are relative to the repository's server, `src/src/server/`.

## 1. Inventory

### Components, their state and their operations

| component | source | state | operations | what makes it correct |
|---|---|---|---|---|
| consumer key middleware | `ai/middleware/consumer-key-auth.ts` | none; reads key and agent once per request | authenticate | later steps live with a stale snapshot |
| relays | `ai/routes/consumer-relay.ts`, `ai/routes/relay.ts` | per request: candidate, lease, answer | retry loop of four routes, bill | one slot at a time, given back on every path; one bill; no retry once the answer is committed |
| stream proxy | `ai/lib/stream-proxy.ts` | per stream: abort reason, timers, reader | forward, time out, disconnect, finalize, complete | slot and bill exactly once, whatever ends the stream |
| billing pipeline | `ai/lib/billing.ts` | none; uses agent and ledger | limits, debit, suspend, enqueue the row | charged at most once, within the balance, answer agrees with the charge |
| pay-agents and ledger | `repos/pay-agent-repo.ts`, `repos/pay-agent-transaction-repo.ts` | balance, status, rows | guarded debit, credit, insert, sums | balance never negative, one row per charge |
| write queue | `lib/write-queue.ts`, `queue/redis-job-queue.ts` | Redis jobs, batches in the worker, sampled depth | enqueue, drop, batch, flush, run, retry, shut down | a row is written or its loss is a known case; nothing accepted stays for ever |
| revenue share | `ai/init.ts` | provider balance and rows | credit the key's owner after the row | not before the consumer's row, not without it |
| semantic cache | `ai/lib/semantic-cache.ts` | responses by prompt | read, write, evict | a hit costs nothing |
| upstream concurrency | `ai/lib/upstream-concurrency.ts` | two sorted sets in Redis | acquire, poll, release | never more calls in flight than the limit; no overtaking; a waiter gets a slot or a timeout |
| credential balancer | `ai/lib/credential-balancer.ts` | pools, loads under way, version | load, join, invalidate, expire | an invalidated pool is not kept |
| upstream routing | `ai/lib/upstream-routing.ts` | target lists by endpoint | resolve, invalidate, expire | a disabled upstream leaves the lists |
| endpoint health | `jobs/check-endpoint-health.ts`, `repos/ai-upstream-repo.ts` | count of failures, `autoDisabled` | ping, count, disable, re-enable | disables on evidence, takes it back |
| event bus | `events/` | subscriptions | emit, publish, dispatch | who misses a message recovers |
| webhook delivery | `events/consumers/webhook.ts`, `lib/bootstrap.ts`, `messaging/jobs/retry-webhook-deliveries.ts` | delivery rows, failure counts | insert, deliver, record, claim, retry, disable | no receiver is told twice without a fault; a delivery ends |
| notifications | `messaging/notifications/dispatcher.ts` | log rows, delayed jobs | insert, send, retry, defer | as for webhooks |
| top-up orders | `user/routes/wallet.ts`, `repos/topup-order-repo.ts` | order status | create, confirm, settle, reject, expire | one transition out of `pending` |
| deposit scan and verification | `jobs/scan-topup-deposit.ts`, `../blockchain/config.ts`, `user/routes/wallet.ts` | job data (cursor), rows | poll, confirm, insert, credit, reschedule, verify | a transfer is credited once, the cursor skips nothing |
| withdrawals | `admin/routes/admin.ts`, `repos/withdraw-order-repo.ts`, `lib/hot-wallet.ts` | order status, balance, chain | request, reject, approve, send, finalize, refund | sent at most once, after a debit; refunded only if not paid |
| idempotency, rate limits | `middleware/`, `rate-limit/` | Redis keys | check, store | one effect per key; the window's bound |
| refresh tokens | `lib/auth-flows.ts`, `repos/refresh-token-repo.ts` | token rows | rotate, revoke | a token is used once |
| announcements, write-through cache, adapters, UI | see `PROJECT.json` | | | |

`PROJECT.json` lists every component with its status and, under `hazards`,
the places where one of them can go wrong in a way a test would hardly reach.

### How they interact

* **A chat request.** Middleware reads the agent, the relay checks the limits
  against the ledger, resolves its candidates from the cached target lists and
  credential pools, looks into the semantic cache, asks `upstream-concurrency`
  for a slot, fetches, and either answers JSON or hands the response (and the
  slot) to `stream-proxy`. `billConsumer` checks limits, debits the database
  and leaves the ledger row to a BullMQ job, whose handler also pays the
  revenue share. Only the debit is synchronous: the ledger, which the limits
  are read from, lags behind. Usage and request logs go through the batches of
  the write queue; the handler of request logs (`ai/init.ts:221`) swallows what
  fails, so only of usage logs does the end of a job say anything of a row.
* **Which upstreams there are.** Administrators and the recurring health check
  change rows; each change is told to the processes over the bus, which drop
  what they have cached. A message is sent once; the caches' lives bound what a
  lost one costs.
* **An event.** Consumers of the bus insert a row per webhook endpoint and per
  notification config and enqueue a job for it. A webhook is retried by a
  periodic job that claims the row, a notification by its own handler and by a
  delayed job.
* **A deposit.** `POST /topup` makes an order and a job that scans the chain;
  the user can hurry it with `POST /deposit/verify`, an administrator can
  confirm, settle or reject, a repeating job expires. These five meet only in
  the status of the order and in the unique `txHash` of the ledger.
* **A withdrawal.** The user files an order against an unreserved balance; an
  administrator's call debits, broadcasts from the hot wallet and finalizes or
  refunds, with the chain between two database transactions.

### What is hard here

Every `await` is a point where other requests, jobs or processes run. Replies
get lost after their effect. Processes die between two writes. Jobs that stall
are run again from the beginning. Clocks differ between processes. Messages of
the bus are lost, late or repeated. All of these are actions of the models, not
assumptions about their absence.

## 2. The modules

| module | models | state ↔ code |
|---|---|---|
| `PrepaidLedger` | what the gateway promises a pay-agent: abstract, no queue, no process | `balance`, the charge and the answer of each request |
| `ConsumerBilling` | middleware → limits → cache → upstream → `billConsumer` → write-queue job → revenue share | `balance`, `status` are the agent's row; `pc` is the await each request is at; `job`, `attempts`, `stalls` the BullMQ job; `rows`, `shares`, `shareRows` the three tables; `sampledFull` is the comparison of `RedisJobQueue.redisDepth` with its bound; `excused` is history |
| `WriteQueue` | the batched half of the write queue, as usage logs use it, with the life of its workers | `job` is what became of an entry; `buffer` is `BatchConfig.buffer`, `flight` the batches whose handler runs, `running` the jobs of the BullMQ worker; `state` the process, `awaited` the batch its shutdown waits for |
| `UpstreamConcurrency` | `ACQUIRE_SCRIPT`, `RELEASE_SCRIPT` and the callers that poll them | `active`/`expiry` and `waiting`/`enqueued` are the sorted sets and their scores; `clock` is global, each call reads it with an error up to `Skew`, for its deadline as for its polls; a `pc` of `draining` is a passthrough whose body streams on after its slot was given back |
| `RelayAttempts` | the retry loops of the consumer's and the administrator's chat and passthrough, with `forwardStream` and `forwardPassthroughStream` | `route` is the handler; `attempt` is `uIdx + 1` (or `pIdx`, `idx`); `slot`, `returns`, `failed`, `passed`, `bills` per attempt; `handed` is `!releaseInFinally`; `reason` is `state.abortReason` |
| `UpstreamRouting` | the row of an upstream, `check-endpoint-health`, target lists, credential pools and the bus between them | `enabled`, `autoDisabled`, `failures` are the row; `at`, `seen` a check; `targets` is `upstreamCache`, `pool` is `pools`, `load` is `pendingLoads`, `current` compares `loadVersion` with `poolCacheVersion`; `telling`, `inbox` are the messages; `owed`, `lost`, `overtaken`, `bad`, `crossed` are history |
| `MessageDelivery` | the event consumers, the delivery jobs of webhooks and notifications, the retry job | `status`, `attempts`, `retryAt` are the row; `at`, `attempt`, `first`, `runs` a job; `off`, `failures` an endpoint or config; `heard` and `unheard` count what a receiver took, by whether its answer arrived; they, `disturbed` and `abandoned` are history |
| `DepositSettlement` | creation, scan job, verification, administrator and expiry of top-up orders | `scan`, `start`, `last` are the job and its data; `recorded` the unique `txHash`; `credits` counts additions to the balance per transfer; `since`, `unread` and `blind` record from where a scan has to answer for the chain, the chunks that failed it and whether its start was lost |
| `Payouts`, `Deposits`, `Deliveries`, `BestEffortLog` | what is promised of withdrawal orders, of top-ups and the transfers that pay for them, of the rows of an event's messages, and of log entries: abstract, no job, cursor, call or worker | the outcome of an order, row or entry, and how often money moved, a message was taken or a row was written |
| `Withdrawals` | request, reject, approve with its three transactions, `sendUsdc` | `status` of orders; `at` is the point each administrator call has reached; `tx` the transfer it broadcast |

The modules meet as the code does. `RelayAttempts` shows that a request gives
its slot back, which `UpstreamConcurrency` takes as `Release` (its lost release
is the path that does not); it shows that a response is billed once, and
`ConsumerBilling` what one bill does. `UpstreamRouting` decides the candidates,
whose number `RelayAttempts` chooses freely. `ConsumerBilling` and
`MessageDelivery` each contain the single-job queue as they use it, with its
drops, retries and stalls; `WriteQueue` is the batched one. Deposits and
withdrawals appear in `ConsumerBilling` as `CreditBalance` and `AdminDebit`.
No module composes two of these: a product of their states would be beyond TLC and would add
only what these interfaces say.

Five modules refine an abstract one, each by an `INSTANCE ... WITH` named
`Implements` whose mapping is state the program has, and whose specification is
both a property of a run and a theorem:

| program | promise | how the state is mapped |
|---|---|---|
| `ConsumerBilling` | `PrepaidLedger` | the balance; the charge and the answer of each request |
| `WriteQueue` | `BestEffortLog` | `Fate`: an entry is open while a job or a buffer has it, kept when acknowledged, else lost |
| `DepositSettlement` | `Deposits` | `RowOf`: a row is held while a scan has yet to credit it, lost when that scan died; `CallOf`: a verification is loose between its credit and its row |
| `Withdrawals` | `Payouts` | `Outcome`: open until an end; debits and refunds; transfers broadcast and mined |
| `MessageDelivery` | `Deliveries` | `Told`: open, success or failed; what the receiver took, heard and unheard; whether a run was cut short |

Where the code does less than a reader would expect, the header of the abstract
module says what is *not* promised; `CreditedOnce` and `PaidIsNotRefunded` below
are two such cases.

`MC*` modules give the constants small values; each `.cfg` belongs to one run.
`*Proofs` modules hold the theorems. In a model, a definition whose name
carries an underscore (`Splice_Copies`) is a plausible fault of that
definition. It is used by no specification: putting it in the place of the
definition it is named for must break a property, which shows that the property
says something about the code.

### Remarks on the modelling

* An action ends at an `await` whose interleaving matters: a database call, a
  Redis script, an RPC. Reads of immutable data are merged with the next step.
* Daily and monthly limits are two copies of one mechanism and appear as one
  window, which does not roll over. All models are priced.
* `debitBalance` and each transition of an order are single guarded UPDATEs and
  therefore single actions. A transaction of the database is one action.
* A transaction of the chain carries one transfer. Reorganisations are left out.
* A deposit job that BullMQ runs a second time *while* the first run still goes
  on is not modelled; the comparison of the order's status excludes it from
  confirming twice, as it does the scans of two orders, which are modelled.
  Nor is a job that is run again after it had enqueued its successor: an order
  then has two scans, which are excluded from each other by the same comparison
  and by the unique `txHash`.
* A chunk of `chunkedGetLogs` is a block: any set of the blocks of a range may
  fail. The block in which a transfer is mined, if it is, is a constant
  (`BlockOf`) so that what a scan has left behind differs between them.
* An early release changes what `concurrencyLimit` bounds: the upstream serves
  the unread body of a passthrough and another call beside it.
  `UpstreamConcurrency` has the step and says of which calls the limit holds.
* A scan that returns because its network is not configured has the effect of a
  lost reschedule and is covered by it.
* `WriteQueue` follows one batch name and keeps a buffer as a set, since only
  its size and its content matter. An INSERT writes all its rows or none, and
  may commit although its reply, or the process, is lost.
* `MessageDelivery` follows one event and lets what is due later happen at once.
  Endpoints and configs that are deleted while a job is under way are left out:
  the handler then returns and the row goes with its endpoint.
* `UpstreamRouting` follows the caches of one API process; the others share
  nothing with it. Which checks, requests and loads run together is one of
  `Deployments`, so that only combinations that interact are explored.
  Requests that find a cached list change nothing and are left out.
* Faults of the database surface as a throw, with or without the effect.

## 3. The runs

| run | question | bounds and why they suffice |
|---|---|---|
| `billing_stream` | do a non-stream request and a stream, with crashes, a full queue, lost replies and failing or stalled jobs, keep the ledger's promise and get an answer? | costs 1 and 2 against a balance and a limit of 2: each alone is paid, together one is refused or uncollected; queue bound 0 so that one job fills it; two attempts and one stall, before or after the insert, so that a retry, a stall and the two ways they use a job up happen |
| `queue` | does the queue implement the best-effort log, and does what is accepted end, although workers fail, crash, restart and shut down? | a good and a poisoned entry that a batch of two may bring together, or the timer separates; three attempts, so that a failed run, a start without handlers and a last run fit in one life; one stall |
| `queue_shutdown` | does a graceful shutdown flush what it waits for? **No** | same instance |
| `concurrency` | limit, order and progress of the slots' queue, when the pollers' clocks differ | three tokens for one slot: one holds, two wait in an order; clocks are off by one in either direction, so two readings differ by up to two; the lease (4) is the least that `LeaseOutlivesCall` allows for a call of 1; the clock runs to 4, so from clock 2 on a fast poller finds the lease of a holder that died run out and takes its slot, which `LeaseCovers` must not let it take from a call that goes on; any call may give its slot back early and stream on |
| `relay` | are slots, bills and marks settled on every path of every route? | four candidates, three attempts: the cap and not the list ends the loop; the first, a middle and the last attempt are told apart |
| `relay_rebilled` | is a passthrough billed once? **No** | two candidates |
| `routing` | do caches agree with rows but for named exceptions, does the job disable on evidence and take it back? | a threshold of two; two overlapping checks, a check beside a request, two requests, or a pool with its loads; one check may die |
| `messages` | do the rows tell what the receivers did, is one told twice only after a fault, do deliveries end? | one webhook and one notification; two retries, three attempts, a threshold of two failures; two jobs of a row at a time, each with two runs; one lost answer is counted per row, and any of them may be the one |
| `deposits` | do the five paths keep the promise of `Deposits`, is the cursor sound, does a pending order end? | two orders whose creation races, one transfer that is also verified by the user and one that only scans see, in the second and third of three blocks; a lookback of 0, so the chain outgrows it and a scan whose start was lost does skip; any of the blocks of a poll may fail |
| `deposits_race` | is a deposit credited once? **No** | same instance |
| `withdrawals` | does the status tell the money, is an order taken and sent once, does processing end? | two administrator calls on a crypto order, one on a fiat order; amounts 1 and 2 against a balance of 2, so they compete |
| `withdrawals_refund` | is a paid order never refunded? **No** | same instance |

Deadlock is not checked: every model has a state in which all is done.

### Properties

* `ConsumerBilling`. `LedgerPromise` is refinement: every step is a step of
  `PrepaidLedger` or a stutter. `AnswerTellsCharge`, `ChargeAccounted`
  (a charge is in the ledger, on its way, or lost in one of the named ways; a
  job that died has used up its attempts or, since a worker may die with it
  before the insert as well as after, its stalls),
  `RowsTraceCharges` (duplicates only by failed or stalled runs),
  `SoleSpenderWithinLimit` (the limit is exact unless a check ran beside an
  unrecorded charge or a stream), `QueuedRowIsWritten`, `AdmittedIsAnswered`.
* `WriteQueue`. `LogPromise` is refinement: only an open entry is written, as
  often as it may be tried, several together as one batch; it ends once, as kept
  only with its row. `QueueInvariant` contains `LossIsNamed`: what BullMQ
  acknowledges has its row, what it buries has used up its runs. `RowsTraceRuns`: a refused row is never written
  and a good one again only by a failed or stalled run. `EveryEntryEnds`.
* `UpstreamConcurrency`. `InFlightWithinLimit` although leases expire by other
  processes' clocks, of the calls that have not given their slot back; bodies
  that stream on after an early release come on top; `NoOvertaking`, first come first served up to staleness;
  `QueueingResolves`.
* `RelayAttempts`. `OverIsSettled`, `MarksAreEarned`, `CommittedStays`,
  `RequestEnds`; the invariant also says that a request holds one slot at a
  time, so two requests cannot wait for each other's upstreams.
* `UpstreamRouting`. `PoolTellsRow`: a pool that is kept agrees with the
  credentials, or the change is on its way or lost; the version comparison
  makes it exact. `TargetsTellRow`: the same for target lists, which have no
  version, so a read that an invalidation overtook is a further exception, and
  a row deleted after it was told another. `CachesSettle`: neither lasts.
  `DisabledOnEvidence`: although `recordFailure` reads and then writes, lost
  updates only make the count too small; only a reset that crosses a check can
  make it too large. `GoodUpstreamReturns`.
* `MessageDelivery`. `DeliveryPromise` is refinement: unless a run was cut short,
  a receiver takes a message only while its row is open and no success has been
  heard, and the row's end is what was heard; a success was heard even then. An
  answer that is lost, or later than the timeout of the send, counts as a
  failure, so the message is taken again by the next attempt: the code knows no
  better and nothing else is promised. `AcceptedOnce`, of every step: once a
  success was heard, the retry job and a rate limit send nothing more unless a
  run was cut short. `DeliveryEnds`, with the ways a row is left
  `pending` or `processing` for ever named in `abandoned`. The invariant bounds
  the attempts and gives each undisturbed row one job.
* `DepositSettlement`. `DepositPromise` is refinement: an order is decided once,
  whichever of five paths comes first, and an administrator's credit comes with
  the decision; a transfer gets one row, credited at most once; a verification
  credits at most once, as the row's credit if it gets the row.
  `DepositInvariant` contains `CreditEquation`, which says what each transfer's
  credits are exactly, with the two ways the code departs from "one": rows
  stranded by a scan that died, and verifications that credited without a row.
  `CursorCovers`: over all the jobs that carry a scan on, a transfer mined since
  the scan was enqueued and behind the block its next job reads from has its
  row, but in the two ways the code skips one: its chunk failed, or a failed
  `getBlockNumber` lost the start (`jobs/scan-topup-deposit.ts:84`) and the
  transfer is beyond the lookback. `ScansCreditOnce`, `PendingEnds`.
* `Withdrawals`. `PayoutPromise` is refinement: an order is taken from the
  balance once, sent once while its money is held, completed only when its
  transfer was mined, put back at most once, declined only if nothing was taken.
  `StatusTellsMoney`, `ProcessingResolves`.

### What the violated runs show

1. `CreditedOnce`: `POST /deposit/verify` credits (`user/routes/wallet.ts:424`) before it
   inserts the unique row, so a scan of the same transfer credits it too.
2. `PaidIsNotRefunded`: the refund of `admin/routes/admin.ts:615` also runs when the wait for
   the receipt throws after a broadcast that is mined later.
3. `BilledOnce`: the catch block of a passthrough attempt
   (`ai/routes/consumer-relay.ts:1975`) also catches a bill that throws, and the
   next upstream is called and billed.
4. `ShutdownFlushes`: `closeWriteQueue` (`lib/write-queue.ts:305`) stops the
   timers, flushes once and then waits for the jobs of the worker, which took
   jobs while that flush was awaited: they sit in a buffer nothing empties.

Disagreements met on the way that have no run of their own:

* The relay stores a response in the semantic cache before it bills
  (`ai/routes/consumer-relay.ts:1299`); `docs/architecture/request-lifecycle.md:334` has the
  write afterwards. After a refusal the same prompt is free.
* A stream without a body leaves before its `finally`
  (`ai/lib/stream-proxy.ts:487`); `docs/design/upstream-concurrency-control.md:46` says early
  returns release. `OverIsSettled` names it `Bodiless`; the lease then expires.
* The fetch timeout, which the repository's README (line 402) calls time to
  first byte, stays armed while the body streams (`ai/lib/stream-proxy.ts:398`).
* The administrator's chat loses its lease when the stream it handed it to
  cannot be opened (`Dropped` in `RelayAttempts`).
* A passthrough whose body is not JSON streams on after its slot is released
  (`ai/routes/consumer-relay.ts:1971`, `ai/routes/relay.ts:967`), so the calls
  at an upstream can exceed the limit that
  `docs/design/upstream-concurrency-control.md` states. `ReleaseEarly` is the
  step; `InFlightWithinLimit` counts the other calls.
* A timer's reason is overwritten by a done frame that arrives while its error
  event is being written, after which the credential is marked as good.
* `registerBatchHandler` says batches "bypass the BullMQ queue entirely"
  (`lib/write-queue.ts:157`); a producer outside the worker sends them through it.
* The webhook consumer and `emitNotification` recognise a duplicate by
  `includes("UNIQUE")`, which is not in PostgreSQL's message; the comment of the
  event id speaks of the same second, the timestamp is in milliseconds.
* `redis-event-bus.ts:61` speaks of events "from OTHER instances"; the emitter
  receives its own (`Deliver` in `UpstreamRouting`).
* `DELETE /upstreams/:id` invalidates before it deletes, so a list filled in
  between has the row until it expires; the credentials it leaves behind join
  the endpoint's own pool without an invalidation.
* An administrator's disabling that crosses a check may leave a row that is both
  disabled and `autoDisabled`, which the check then re-enables only in part.
* Comments of `scan-topup-deposit.ts:8` and `expire-topup-orders.ts:6` disagree
  with the one hour of the constant.

### Fairness

* `ConsumerBilling`: weak fairness of the steps of a request that has started,
  of its bill and of its job: the event loop runs what is ready, upstream calls
  have timeouts, workers poll. Arrivals, top-ups, crashes and samples are free.
* `WriteQueue`: timers fire, an INSERT ends, BullMQ acknowledges and recovers
  the jobs of the dead, handlers get registered and shutdowns go on where they
  can. A waiting job is taken by some worker if workers are up again and again
  (strong fairness: workers come and go). A process whose shutdown hangs is
  killed: without that supervisor the violation of `ShutdownFlushes` would also
  break `EveryEntryEnds`. Nothing says that a process stays up.
* `UpstreamConcurrency`: time passes, a due timeout is taken, a call in flight
  ends by its signal. Polling is not assumed fair; the timeout suffices.
* `RelayAttempts`: the request goes on, since acquiring, fetching and streaming
  each have a timeout. That the write of a timer's error event ends, because
  the client reads or disconnects, is assumed.
* `UpstreamRouting`: checks recur and their steps end, requests and loads go
  on, entries expire. Nothing says that a message is told or arrives, and
  `CachesSettle` holds without it. Checks die a bounded number of times
  (`MaxDeaths`).
* `MessageDelivery`: workers take jobs, handlers go on (sends have timeouts),
  the retry job recurs. Stalls need no bound: a job has `MaxRuns` runs.
* `DepositSettlement`: orders age and the repeating expiry job runs. Scans are
  not assumed to make progress: their jobs can be lost.
* `Withdrawals`: a call that holds an order goes on, since RPC calls and the
  wait for the receipt have timeouts. It may die instead, and the property says
  that nothing then picks the order up.

## 4. The proofs

Constants are arbitrary; the assumptions are the named `ASSUME`s of each module
and nothing else. The only strong one is `LeaseOutlivesCall`
(`Ttl > MaxHold + 2 * Skew`): the lease is the longest call plus a minute, so
the minute has to cover the clocks. Without it `InFlightWithinLimit` is false.

| module | inductive invariant | why it is needed | results |
|---|---|---|---|
| `ConsumerBillingProofs` | `BillingInvariant` | `AnswerTellsCharge` alone does not survive the debit: one must know that a request about to be debited has no charge yet, and that a job exists only for a paid request | `InvariantHolds`, `TypeCorrect`, `AnswersAgree`, `ChargesAccounted`, `RowsTrace`, `SpendersWithinLimit`, `Refinement` |
| `WriteQueueProofs` | `QueueInvariant` | that an acknowledged job has its row needs `PlaceTellsJob` (who holds an entry says what its job is), and that a batch writes an entry once needs `HeldOnce`, over all workers | `QueueSound`, `LossesNamed`, `RowsTraced`, `Refinement` |
| `UpstreamConcurrencyProofs` | `ConcurrencyInvariant` | the limit on calls follows from the limit on leases only because a call that has not given its slot back has a lease no clock can have expired (`LeaseCovers`); the order needs that a polling request keeps its place until it is stale (`PlaceKept`) | `QueueInvariant`, `LimitHolds`, `FirstComeFirstServed` |
| `RelayAttemptsProofs` | `RelayInvariant` | the slot, mark and bill of the current attempt are determined by where the request is (`RelayShape`) | `RelaySound`, `RequestsSettle`, `MarksFair`, `NoRetryAfterCommit`, `OnlyPassthroughRebills` |
| `UpstreamRoutingProofs` | `RoutingInvariant` with both cache properties | what is kept agrees because what was read agreed until an invalidation came (`ReadsTellRow`) and none is forgotten (`OwedIsTold`); the evidence needs that no check carries a count above the failures (`CountsAreTrue`) | `RoutingInvariantHolds`, `PoolsAgree`, `TargetsAgree`, `EvidenceForDisabling` |
| `MessageDeliveryProofs` | `MessagingInvariant` | a second success is excluded because a row has one job that may still send (`OneCarrier`) and what the retry job may claim has none (`Unclaimed`); the attempts of a claimed row are those its job has read (`WebhookTries`); after a cut, a success still has an answer behind it because the place of a job remembers it (`SuccessIsHeard`) | `MessagingSound`, `SentOnce`, `Refinement` |
| `DepositSettlementProofs` | `DepositInvariant` | the equation is kept by a scan's credit only if no other scan holds the row (`HandsDisjoint`) and the order was confirmed first (`OrderPrecedesScan`); `CursorCovers` is inductive with what the jobs of a scan hand to each other: the start, or the cursor, or neither after a loss (`CursorTells`) | `DepositsSound`, `BooksBalance`, `ScansSafe`, `OrdersMoveOnce`, `SecondCreditIsACalls`, `CursorSkipsNothing`, `Refinement` |
| `WithdrawalsProofs` | `WithdrawalInvariant` | the status tells the money only because one call holds a processing order and its place fixes what has been done | `WithdrawalsSound`, `StatusHonest`, `NoDoublePayment`, `NoFinalizationConflict` (the "manual" branch is unreachable), `Refinement` |

Each proof has the same course: the initial states satisfy the invariant; one
lemma per group of actions shows that its actions keep it, with one step per
action; the temporal step combines them. Each invariant was first checked by TLC
as an invariant of a run.

**The refinements.** Initial states map to initial states; for each group of
actions a lemma says which abstract action, or stutter, each of its steps is,
under the inductive invariant. The invariant is what makes an abstract guard
true: that a scan credits only held rows is `HandsDisjoint`, that a call sends
only while the money is held is `HolderTellsOrder`, that a batch writes only
open entries is `PlaceTellsJob`. The mapped functions are defined by cases over
the program's state, so each proof first says which entries of them a step
changes, and that the others stay.

**The spending limit.** `SoleSpenderWithinLimit` is about a sum over requests,
and a sum defined by recursion could not be reasoned about here. `Total` is
therefore the number of *units* (`{r} \X 1..f[r]`, one per unit of money): a step that raises one request's charge adds that many units, and
cardinality of disjoint sets adds up. `LimitInvariant` is the strengthening:
until a check has missed something (`excused`), the charges are within the
limit, and a request that has passed its check still fits and is the only one
that has.

**How far the violated properties fail.** `SecondCreditIsACalls`: a transfer is
credited twice only if a verification credited it and got no row, so the scans,
the administrator and the expiry are not part of it.
`OnlyPassthroughRebills`: two attempts of one request are billed on no route but
the consumer's passthrough.

**What the proofs changed in the models.** Four invariants turned out too weak
to carry a theorem and were strengthened, then checked by TLC again: a scan that
inserts or credits has a *confirmed* order (`OrderPrecedesScan`); the row a job
carries is open, a notification's as well as a webhook's (`CarriedIsOpen`); what
is about to be recorded as a success was heard, disturbed or not
(`SuccessIsHeard`); and the loop of a relay has
not passed the number of candidates even when it is over (`SlotShape`).

Only model-checked: the liveness properties (`QueuedRowIsWritten`,
`AdmittedIsAnswered`, `EveryEntryEnds`, `QueueingResolves`, `RequestEnds`,
`CachesSettle`, `GoodUpstreamReturns`, `DeliveryEnds`, `PendingEnds`,
`ProcessingResolves`), which need fairness: the proof system's backends have no
rule for it. Every invariant and action property of a passing run is a theorem.

## 5. Not modelled, and why

* Translation between client formats, frame parsing, token counting, prices,
  rendering of messages, signatures: pure data the properties do not tell
  apart. They are most of the lines of `ai/`.
* The web interface, which is nearly half of the source's lines, and the listing,
  filtering and CRUD routes: clients and single statements, with no state of
  their own. This is why the lines the modules stand for are a small part of
  the repository; they are most of those where several actors meet.
* The order within a target list, the weights of a pool and the penalty of a
  credential: they order choices that `RelayAttempts` makes freely.
* The endpoint's own health target runs the code of `UpstreamRouting`'s check
  on another row, and disables only where the endpoint has no other upstream.
* Idempotency keys: a lookup before a call, a store after it, and no exclusion
  between. It is listed as a hazard; the order routes do not rely on it.
* Rate limits and refresh tokens: one atomic script, one `DELETE ... RETURNING`.
* The write-through store beyond the semantic cache; announcements;
  `sync-agent-balances`, which nothing starts.
* Deletion of pay-agents, `debitAll` and `setBalance` in `ConsumerBilling`:
  administrative overwrites of a balance, about which nothing is promised.
