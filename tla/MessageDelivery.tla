--------------------------- MODULE MessageDelivery ---------------------------
(***************************************************************************)
(* What a domain event sends out: webhook deliveries, retried by a job     *)
(* that claims them in the database, and notifications, retried by their   *)
(* handler and, when a channel limits the rate, by a delayed job.  Both    *)
(* live in a row with a status and are carried by jobs of the write queue, *)
(* which may be dropped, throw, stall and run again from the beginning.    *)
(*                                                                         *)
(* One event is modelled: a delivery is the row of one target.  Delays are *)
(* left out: what is due later may happen at once.                         *)
(*                                                                         *)
(* A definition with an underscore is a fault the properties must catch.   *)
(***************************************************************************)
EXTENDS Integers, FiniteSets

CONSTANTS
    Webhooks,       \* rows of webhook_deliveries
    Notices,        \* rows of notification_logs
    Targets,        \* webhook endpoints and notification configs
    TargetOf,       \* the one a row is for
    MaxRetries,     \* length of RETRY_DELAYS (5 in the code)
    MaxAttempts,    \* MAX_ATTEMPTS of a notification (3 in the code)
    Threshold,      \* FAILURE_THRESHOLD (100 in the code)
    MaxRuns,        \* runs of a job before BullMQ gives it up
    Slots,          \* model bound: jobs of a row at a time
    MaxUnheard      \* model bound: lost answers that are counted of a row

Rows == Webhooks \union Notices
Jobs == Rows \X Slots

ASSUME RowsAssumption == Webhooks \intersect Notices = {}
ASSUME TargetAssumption == TargetOf \in [Rows -> Targets]
ASSUME RetryAssumption == /\ MaxRetries \in Nat
                          /\ MaxAttempts \in Nat \ {0}
                          /\ Threshold \in Nat \ {0}
                          /\ MaxRuns \in Nat \ {0}

VARIABLES
    status,     \* of the row
    attempts,   \* of the row
    retryAt,    \* webhook: nextRetryAt is set
    off,        \* targets that are disabled
    failures,   \* webhook endpoint: failureCount, up to Threshold
    at,         \* where each job is
    attempt,    \* webhook: the attempts its run has read; notice: its attempt
    first,      \* notice: job.attempt
    runs,       \* runs of the job that failed or stalled
    heard,      \* history: times the receiver took the message and a run was
                \* told so
    unheard,    \* history: times it took the message and the answer was lost,
                \* or came after the timeout of the send
    disturbed,  \* history: a run of the row's jobs was cut short
    abandoned   \* history: an enqueue was lost, a job died, an error was
                \* swallowed, or an end was overwritten by "pending"

rowVars == <<status, attempts, retryAt>>
targetVars == <<off, failures>>
jobVars == <<at, attempt, first, runs>>
history == <<heard, unheard, disturbed, abandoned>>
vars == <<rowVars, targetVars, jobVars, history>>

WebhookPlaces == {"loaded", "ok", "bad", "reset", "count", "check", "disable"}
NoticePlaces == {"send", "sent", "failing", "limited", "pend", "gone", "giveup"}
Active == WebhookPlaces \union NoticePlaces

Init ==
    /\ status = [d \in Rows |-> "none"]
    /\ attempts = [d \in Rows |-> 0]
    /\ retryAt = [d \in Rows |-> FALSE]
    /\ off = {}
    /\ failures = [t \in Targets |-> 0]
    /\ at = [j \in Jobs |-> "idle"]
    /\ attempt = [j \in Jobs |-> 0]
    /\ first = [j \in Jobs |-> 1]
    /\ runs = [j \in Jobs |-> 0]
    /\ heard = [d \in Rows |-> 0]
    /\ unheard = [d \in Rows |-> 0]
    /\ disturbed = [d \in Rows |-> FALSE]
    /\ abandoned = [d \in Rows |-> FALSE]

Goto(j, place) == at' = [at EXCEPT ![j] = place]
SetStatus(d, s) == status' = [status EXCEPT ![d] = s]

------------------------------------------------------------------------------
(* The queue *)

\* enqueueJob: a job in a free slot, or lost with nobody told: dropped by a
\* deep queue, not added, or its producer died before the call.
NewJob(j, n, here) ==
    \/ /\ at[j] = "idle"
       /\ at' = [here EXCEPT ![j] = "waiting"]
       /\ first' = [first EXCEPT ![j] = n]
       /\ runs' = [runs EXCEPT ![j] = 0]
       /\ UNCHANGED abandoned
    \/ /\ at' = here
       /\ abandoned' = [abandoned EXCEPT ![j[1]] = TRUE]
       /\ UNCHANGED <<first, runs>>

\* The consumers of the event bus: a row per target that is on, then its job.
\* Rows of different targets share no state: one target's are followed at a time.
Emit(j) ==
    /\ status[j[1]] = "none"
    /\ TargetOf[j[1]] \notin off
    /\ \A d \in Rows : status[d] # "none" => TargetOf[d] = TargetOf[j[1]]
    /\ SetStatus(j[1], "pending")
    /\ NewJob(j, 1, at)
    /\ UNCHANGED <<attempts, retryAt, targetVars, attempt, heard, unheard, disturbed>>

\* A run ends without its handler returning: it threw, or its worker died and
\* the job stalled.  It starts again, or is given up.
Cut(j) ==
    /\ runs' = [runs EXCEPT ![j] = @ + 1]
    /\ disturbed' = [disturbed EXCEPT ![j[1]] = TRUE]
    /\ IF runs[j] + 1 < MaxRuns
       THEN Goto(j, "waiting") /\ UNCHANGED abandoned
       ELSE Goto(j, "idle") /\ abandoned' = [abandoned EXCEPT ![j[1]] = TRUE]
    /\ UNCHANGED <<rowVars, targetVars, attempt, first, heard, unheard>>

WebhookCut(j) == j[1] \in Webhooks /\ at[j] \in WebhookPlaces /\ Cut(j)

\* A notification's handler swallows what it throws: only a stall cuts it.
NoticeStalls(j) == j[1] \in Notices /\ at[j] \in NoticePlaces /\ Cut(j)

------------------------------------------------------------------------------
(* The webhook-deliver handler *)

TakeWebhook(j) ==
    /\ j[1] \in Webhooks /\ at[j] = "waiting"
    /\ attempt' = [attempt EXCEPT ![j] = attempts[j[1]]]
    /\ Goto(j, "loaded")
    /\ UNCHANGED <<rowVars, targetVars, first, runs, history>>

\* The endpoint's secret cannot be decrypted.
Undecryptable(j) ==
    /\ at[j] = "loaded"
    /\ SetStatus(j[1], "failed")
    /\ attempts' = [attempts EXCEPT ![j[1]] = attempt[j] + 1]
    /\ Goto(j, "idle")
    /\ UNCHANGED <<retryAt, targetVars, attempt, first, runs, history>>

\* The two ends of a send.  A failure does not tell whether the receiver took
\* the message: its answer may be lost, or later than AbortSignal.timeout.
Heard(d) == heard' = [heard EXCEPT ![d] = @ + 1] /\ UNCHANGED unheard
NotHeard(d) ==
    /\ \/ UNCHANGED unheard
       \/ unheard[d] < MaxUnheard /\ unheard' = [unheard EXCEPT ![d] = @ + 1]
    /\ UNCHANGED heard

\* deliverWebhook: an answer of success, or any other end.
Deliver(j) ==
    /\ at[j] = "loaded"
    /\ \/ Goto(j, "ok") /\ Heard(j[1])
       \/ Goto(j, "bad") /\ NotHeard(j[1])
    /\ UNCHANGED <<rowVars, targetVars, attempt, first, runs, disturbed, abandoned>>

RecordSuccess(j) ==
    /\ at[j] = "ok"
    /\ SetStatus(j[1], "success")
    /\ attempts' = [attempts EXCEPT ![j[1]] = attempt[j] + 1]
    /\ Goto(j, "reset")
    /\ UNCHANGED <<retryAt, targetVars, attempt, first, runs, history>>

ResetFailure(j) ==
    /\ at[j] = "reset"
    /\ failures' = [failures EXCEPT ![TargetOf[j[1]]] = 0]
    /\ Goto(j, "idle")
    /\ UNCHANGED <<rowVars, off, attempt, first, runs, history>>

\* A fault: one retry more than there are delays.
RecordFailure_OneMore(j) ==
    /\ at[j] = "bad"
    /\ LET again == attempt[j] <= MaxRetries IN
        /\ SetStatus(j[1], IF again THEN "pending" ELSE "failed")
        /\ retryAt' = [retryAt EXCEPT ![j[1]] = again]
    /\ attempts' = [attempts EXCEPT ![j[1]] = attempt[j] + 1]
    /\ Goto(j, "count")
    /\ UNCHANGED <<targetVars, attempt, first, runs, history>>

\* A fault: the row goes back to pending without a time for its retry.
RecordFailure_NoTime(j) ==
    /\ at[j] = "bad"
    /\ SetStatus(j[1], IF attempt[j] < MaxRetries THEN "pending" ELSE "failed")
    /\ attempts' = [attempts EXCEPT ![j[1]] = attempt[j] + 1]
    /\ Goto(j, "count")
    /\ UNCHANGED <<retryAt, targetVars, attempt, first, runs, history>>

\* calculateNextRetry: a delay for each failed attempt, then no more.
RecordFailure(j) ==
    /\ at[j] = "bad"
    /\ LET again == attempt[j] < MaxRetries IN
        /\ SetStatus(j[1], IF again THEN "pending" ELSE "failed")
        /\ retryAt' = [retryAt EXCEPT ![j[1]] = again]
    /\ attempts' = [attempts EXCEPT ![j[1]] = attempt[j] + 1]
    /\ Goto(j, "count")
    /\ UNCHANGED <<targetVars, attempt, first, runs, history>>

IncrementFailure(j) ==
    /\ at[j] = "count"
    /\ LET t == TargetOf[j[1]] IN
        failures' = [failures EXCEPT ![t] = IF @ < Threshold THEN @ + 1 ELSE @]
    /\ Goto(j, "check")
    /\ UNCHANGED <<rowVars, off, attempt, first, runs, history>>

\* The endpoint is read again and compared; what happens to its counter before
\* the next step does not matter any more.
CheckThreshold(j) ==
    /\ at[j] = "check"
    /\ Goto(j, IF failures[TargetOf[j[1]]] >= Threshold THEN "disable" ELSE "idle")
    /\ UNCHANGED <<rowVars, targetVars, attempt, first, runs, history>>

Disable(j) ==
    /\ at[j] = "disable"
    /\ off' = off \union {TargetOf[j[1]]}
    /\ Goto(j, "idle")
    /\ UNCHANGED <<rowVars, failures, attempt, first, runs, history>>

------------------------------------------------------------------------------
(* retry-webhook-deliveries, in every worker *)

\* A fault: the delivery is enqueued without being claimed.
Claim_NoClaim(j) ==
    /\ j[1] \in Webhooks
    /\ status[j[1]] = "pending" /\ retryAt[j[1]]
    /\ NewJob(j, 1, at)
    /\ UNCHANGED <<rowVars, targetVars, attempt, heard, unheard, disturbed>>

\* findPendingRetries and claimForRetry, then the job.
Claim(j) ==
    /\ j[1] \in Webhooks
    /\ status[j[1]] = "pending" /\ retryAt[j[1]]
    /\ SetStatus(j[1], "processing")
    /\ NewJob(j, 1, at)
    /\ UNCHANGED <<attempts, retryAt, targetVars, attempt, heard, unheard, disturbed>>

------------------------------------------------------------------------------
(* The notification-deliver handler *)

TakeNotice(j) ==
    /\ j[1] \in Notices /\ at[j] = "waiting"
    /\ attempt' = [attempt EXCEPT ![j] = first[j]]
    /\ Goto(j, "send")
    /\ UNCHANGED <<rowVars, targetVars, first, runs, history>>

NoChannel(j) ==
    /\ j[1] \in Notices /\ at[j] = "waiting"
    /\ SetStatus(j[1], "failed")
    /\ attempts' = [attempts EXCEPT ![j[1]] = 1]
    /\ Goto(j, "idle")
    /\ UNCHANGED <<retryAt, targetVars, attempt, first, runs, history>>

\* ch.send: a success, an error to retry, a rate limit, a target that is gone, or
\* a request that can only be given up.
Send(j) ==
    /\ at[j] = "send"
    /\ \/ Goto(j, "sent") /\ Heard(j[1])
       \/ Goto(j, "failing") /\ NotHeard(j[1])
       \/ /\ \E end \in {"limited", "gone", "giveup"} : Goto(j, end)
          /\ UNCHANGED <<heard, unheard>>
    /\ UNCHANGED <<rowVars, targetVars, attempt, first, runs, disturbed, abandoned>>

RecordSent(j) ==
    /\ at[j] = "sent"
    /\ SetStatus(j[1], "success")
    /\ attempts' = [attempts EXCEPT ![j[1]] = attempt[j]]
    /\ Goto(j, "idle")
    /\ UNCHANGED <<retryAt, targetVars, attempt, first, runs, history>>

\* updateStatus("sent") is inside the try block: its error counts as a failed
\* attempt, and the message is sent again.
RecordSentThrows(j) ==
    /\ at[j] = "sent"
    /\ Goto(j, "failing")
    /\ disturbed' = [disturbed EXCEPT ![j[1]] = TRUE]
    /\ UNCHANGED <<rowVars, targetVars, attempt, first, runs, heard, unheard, abandoned>>

NextAttempt(j) ==
    /\ at[j] = "failing"
    /\ IF attempt[j] < MaxAttempts
       THEN Goto(j, "send") /\ attempt' = [attempt EXCEPT ![j] = @ + 1]
       ELSE Goto(j, "giveup") /\ UNCHANGED attempt
    /\ UNCHANGED <<rowVars, targetVars, first, runs, history>>

\* A fault: the run goes on beside the delayed job.
RateLimited_GoesOn(j) ==
    /\ at[j] = "limited"
    /\ attempt[j] < MaxAttempts
    /\ \E s \in Slots : NewJob(<<j[1], s>>, attempt[j] + 1, [at EXCEPT ![j] = "failing"])
    /\ UNCHANGED <<rowVars, targetVars, attempt, heard, unheard, disturbed>>

\* A rate limit before the last attempt leaves the rest to a delayed job, which
\* is enqueued before this run records the row as pending.
RateLimited(j) ==
    /\ at[j] = "limited"
    /\ attempt[j] < MaxAttempts
    /\ \E s \in Slots : NewJob(<<j[1], s>>, attempt[j] + 1, [at EXCEPT ![j] = "pend"])
    /\ UNCHANGED <<rowVars, targetVars, attempt, heard, unheard, disturbed>>

RateLimitedLast(j) ==
    /\ at[j] = "limited"
    /\ attempt[j] >= MaxAttempts
    /\ Goto(j, "giveup")
    /\ UNCHANGED <<rowVars, targetVars, attempt, first, runs, history>>

\* The delayed job, or that of an earlier run of this one, may have recorded an
\* end by now: it is overwritten.
RecordPending(j) ==
    /\ at[j] = "pend"
    /\ SetStatus(j[1], "pending")
    /\ attempts' = [attempts EXCEPT ![j[1]] = attempt[j]]
    /\ Goto(j, "idle")
    /\ abandoned' = [abandoned EXCEPT ![j[1]] = @ \/ status[j[1]] # "pending"]
    /\ UNCHANGED <<retryAt, targetVars, attempt, first, runs, heard, unheard, disturbed>>

\* ChannelDeactivatedError: the config is disabled, an error of that is ignored.
Deactivate(j) ==
    /\ at[j] = "gone"
    /\ off' \in {off, off \union {TargetOf[j[1]]}}
    /\ Goto(j, "giveup")
    /\ UNCHANGED <<rowVars, failures, attempt, first, runs, history>>

RecordFailed(j) ==
    /\ at[j] = "giveup"
    /\ SetStatus(j[1], "failed")
    /\ attempts' = [attempts EXCEPT ![j[1]] = attempt[j]]
    /\ Goto(j, "idle")
    /\ UNCHANGED <<retryAt, targetVars, attempt, first, runs, history>>

\* The last updateStatus throws: initNotificationQueue logs it, and the job is
\* done with its row as it was.
RecordThrows(j) ==
    /\ at[j] \in {"pend", "giveup"}
    /\ Goto(j, "idle")
    /\ disturbed' = [disturbed EXCEPT ![j[1]] = TRUE]
    /\ abandoned' = [abandoned EXCEPT ![j[1]] = TRUE]
    /\ UNCHANGED <<rowVars, targetVars, attempt, first, runs, heard, unheard>>

------------------------------------------------------------------------------
Webhook(j) ==
    \/ TakeWebhook(j) \/ Undecryptable(j) \/ Deliver(j)
    \/ RecordSuccess(j) \/ ResetFailure(j)
    \/ RecordFailure(j) \/ IncrementFailure(j) \/ CheckThreshold(j) \/ Disable(j)

Notice(j) ==
    \/ TakeNotice(j) \/ NoChannel(j) \/ Send(j)
    \/ RecordSent(j) \/ RecordSentThrows(j) \/ NextAttempt(j)
    \/ RateLimited(j) \/ RateLimitedLast(j) \/ RecordPending(j)
    \/ Deactivate(j) \/ RecordFailed(j) \/ RecordThrows(j)

Next == \E j \in Jobs :
    Emit(j) \/ Claim(j) \/ Webhook(j) \/ Notice(j) \/ WebhookCut(j) \/ NoticeStalls(j)

Spec == Init /\ [][Next]_vars

(* Workers take jobs, handlers go on (every send has a timeout) and the      *)
(* retry job runs every ten seconds.                                         *)
Fairness == \A j \in Jobs :
    WF_vars(Claim(j)) /\ WF_vars(Webhook(j)) /\ WF_vars(Notice(j))

FairSpec == Spec /\ Fairness

------------------------------------------------------------------------------
TypeOK ==
    /\ status \in [Rows -> {"none", "pending", "processing", "success", "failed"}]
    /\ attempts \in [Rows -> Nat]
    /\ retryAt \in [Rows -> BOOLEAN]
    /\ off \subseteq Targets
    /\ failures \in [Targets -> Nat]
    /\ at \in [Jobs -> Active \union {"idle", "waiting"}]
    /\ attempt \in [Jobs -> Nat]
    /\ first \in [Jobs -> Nat]
    /\ runs \in [Jobs -> Nat]
    /\ heard \in [Rows -> Nat]
    /\ unheard \in [Rows -> Nat]
    /\ disturbed \in [Rows -> BOOLEAN]
    /\ abandoned \in [Rows -> BOOLEAN]

\* Jobs that may still send, or that have sent and not recorded it.
Carrying(j) == at[j] \in {"waiting", "loaded", "ok", "bad",
                          "send", "sent", "failing", "limited", "gone", "giveup"}

PlacesByKind == \A j \in Jobs :
    /\ at[j] \in WebhookPlaces => j[1] \in Webhooks
    /\ at[j] \in NoticePlaces => j[1] \in Notices

\* One job at a time carries a row, and whether a success was heard is where
\* the job is.
OneCarrier(d) == \A s, t \in Slots :
    Carrying(<<d, s>>) /\ Carrying(<<d, t>>) => s = t

CarrierTells(d) == \A s \in Slots :
    Carrying(<<d, s>>) =>
        heard[d] = IF at[<<d, s>>] \in {"ok", "sent"} THEN 1 ELSE 0

\* What Emit may begin, and what the retry job may claim, has no other job.
Unclaimed(d) ==
    /\ status[d] = "none" => /\ \A s \in Slots : at[<<d, s>>] = "idle"
                             /\ heard[d] = 0 /\ ~retryAt[d]
    /\ d \in Webhooks /\ status[d] = "pending" /\ retryAt[d] =>
           /\ \A s \in Slots : ~Carrying(<<d, s>>)
           /\ heard[d] = 0

CarriedIsOpen(d) == \A s \in Slots :
    Carrying(<<d, s>>) => status[d] \in {"pending", "processing"}

\* What is about to be recorded as a success was heard, disturbed or not.
SuccessIsHeard(d) == \A s \in Slots : at[<<d, s>>] \in {"ok", "sent"} => heard[d] > 0

\* A webhook is tried once and again for each delay; a disturbed run may try
\* once more what it had recorded as failed.
WebhookTries(d) == d \in Webhooks =>
    /\ attempts[d] <= MaxRetries + 1
    /\ status[d] \in {"none", "pending", "processing"} => attempts[d] <= MaxRetries
    /\ \A s \in Slots : at[<<d, s>>] \in {"loaded", "ok", "bad"} =>
           attempt[<<d, s>>] = attempts[d]

\* A notification is tried MaxAttempts times over all its jobs.
NoticeTries == \A d \in Notices :
    /\ attempts[d] <= MaxAttempts
    /\ \A s \in Slots :
           /\ first[<<d, s>>] \in 1..MaxAttempts
           /\ at[<<d, s>>] \in NoticePlaces => attempt[<<d, s>>] \in 1..MaxAttempts

RowTells(d) == ~disturbed[d] =>
    /\ heard[d] <= 1
    /\ OneCarrier(d) /\ CarrierTells(d) /\ Unclaimed(d)
    /\ CarriedIsOpen(d) /\ WebhookTries(d)

(* While no database error or death has cut a run of its jobs short, a row   *)
(* is carried by one job at a time, what may be claimed has none, and the    *)
(* attempts keep to their bound; a notification's do so in any case.         *)
MessagingInvariant ==
    /\ TypeOK
    /\ PlacesByKind
    /\ NoticeTries
    /\ \A d \in Rows : SuccessIsHeard(d) /\ RowTells(d)

(* Once a run has heard that the receiver took the message, the receiver     *)
(* takes it again, whether that is heard or not, only if a database error or *)
(* a death cut a run short: neither the retry job nor a rate limit           *)
(* duplicates what is known to have gone through.  A message whose answers   *)
(* were lost (deliver.ts treats them as failures) may be taken many times.   *)
Taken(d) == heard[d] + unheard[d]
AcceptedOnce ==
    [][\A d \in Rows : heard[d] > 0 /\ Taken(d)' > Taken(d) => disturbed[d]]_vars

(* What an event sends is recorded as a success or as failed in the end,     *)
(* unless an enqueue was lost, a job died, a last error was swallowed or an  *)
(* end was overwritten: those rows stay pending or processing, and no retry  *)
(* finds them.                                                               *)
DeliveryEnds == \A d \in Rows :
    status[d] \in {"pending", "processing"} ~>
        status[d] \in {"success", "failed"} \/ abandoned[d]
------------------------------------------------------------------------------
(* Retries, claims, stalls and rate limits keep the promise of Deliveries:   *)
(* a row says what was heard of its receiver.                                *)
Told(d) ==
    CASE status[d] \in {"pending", "processing"} -> "open"
      [] OTHER                                   -> status[d]

Implements == INSTANCE Deliveries WITH told <- [d \in Rows |-> Told(d)]

DeliveryPromise == Implements!DeliveriesSpec
==============================================================================
