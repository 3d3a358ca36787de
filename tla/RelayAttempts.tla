---------------------------- MODULE RelayAttempts ----------------------------
(***************************************************************************)
(* One request to the gateway on its way through the upstreams that may    *)
(* serve it: the retry loop of a relay and, once an upstream has answered  *)
(* a stream, the proxy with its timers and the client's disconnect.  Four  *)
(* routes share the machinery and differ in detail: a consumer's chat and  *)
(* passthrough, and an administrator's.  What a request owes is a slot to  *)
(* give back (UpstreamConcurrency), for a consumer a bill                  *)
(* (ConsumerBilling), and a mark for the credential it used.               *)
(*                                                                         *)
(* A definition with an underscore is a fault the properties must catch.   *)
(***************************************************************************)
EXTENDS Naturals, FiniteSets

CONSTANTS
    Candidates,     \* most upstreams a model can resolve to
    MaxAttempts     \* MAX_UPSTREAM_ATTEMPTS

ASSUME AttemptsAssumption == Candidates \in Nat \ {0} /\ MaxAttempts \in Nat \ {0}

VARIABLES
    route,          \* which handler the request has reached
    stream,         \* body.stream
    resolved,       \* how many upstreams with a usable credential were found
    attempt,        \* uIdx + 1, pIdx + 1, totalAttempts, idx + 1
    pc,             \* where the request is
    slot,           \* what acquireUpstreamSlot said for each attempt
    returns,        \* how often the slot of each attempt was given back
    handed,         \* attempts whose lease a stream took over: ~releaseInFinally
    accepted,       \* upstreamRes.ok of a response a passthrough reads
    failed,         \* how often the credential of each attempt was marked as failed
    passed,         \* how often it was marked as successful
    bills,          \* how often billConsumer was called for each attempt
    answer,         \* what the client gets
    reason,         \* state.abortReason of the stream
    cancelled,      \* the stream's abort: "no", "writing" the error, "yes"
    broken          \* the upstream's connection broke while it was streaming

loopVars   == <<route, stream, resolved>>
slotVars   == <<slot, returns, handed>>
markVars   == <<failed, passed>>
streamVars == <<reason, cancelled, broken>>
vars == <<loopVars, attempt, pc, slotVars, accepted, markVars, bills, answer, streamVars>>

Routes == {"chat", "passthrough", "adminChat", "adminPassthrough"}
Consumer == route \in {"chat", "passthrough"}
PassesThrough == route \in {"passthrough", "adminPassthrough"}

Attempts == 1..(IF Candidates < MaxAttempts THEN Candidates ELSE MaxAttempts)

Reasons == {"none", "completed", "client_abort", "timeout", "buffer_overflow",
            "upstream_read_error", "upstream_missing_body"}
Places == {"gate", "looking", "acquiring", "fetching", "failing", "parsing", "billing", "leaving",
           "opening", "streaming", "finalizing", "completing", "over", "crashed"}
Slots == {"unasked", "granted", "unlimited", "denied"}
Answers == {"open", "cached", "json", "refused", "error", "exhausted", "events"}

Init ==
    /\ route \in Routes
    /\ stream \in BOOLEAN
    /\ resolved = 0
    /\ attempt = 1
    /\ pc = "gate"
    /\ slot = [a \in Attempts |-> "unasked"]
    /\ returns = [a \in Attempts |-> 0]
    /\ handed = {}
    /\ accepted = TRUE
    /\ failed = [a \in Attempts |-> 0]
    /\ passed = [a \in Attempts |-> 0]
    /\ bills = [a \in Attempts |-> 0]
    /\ answer = "open"
    /\ reason = "none"
    /\ cancelled = "no"
    /\ broken = FALSE

MarkFailure == failed' = [failed EXCEPT ![attempt] = @ + 1] /\ UNCHANGED passed
MarkSuccess == passed' = [passed EXCEPT ![attempt] = @ + 1] /\ UNCHANGED failed
Bill == bills' = [bills EXCEPT ![attempt] = @ + 1]

\* releaseUpstreamSlot of the lease in scope; the lease of an unlimited
\* upstream is null.
ReleaseSlot ==
    /\ returns' = [returns EXCEPT ![attempt] = IF slot[attempt] = "granted" THEN @ + 1 ELSE @]
    /\ UNCHANGED <<slot, handed>>

SlotSays(outcome) ==
    /\ slot' = [slot EXCEPT ![attempt] = outcome]
    /\ UNCHANGED <<returns, handed>>

\* `continue`: the next candidate, or the loop is over.
NextCandidate ==
    IF attempt + 1 <= resolved /\ attempt + 1 <= MaxAttempts
    THEN attempt' = attempt + 1 /\ pc' = "looking" /\ UNCHANGED answer
    ELSE UNCHANGED attempt /\ pc' = "over" /\ answer' = "exhausted"

------------------------------------------------------------------------------
(* Before the loop: the body, the access to the model, guardrails, the      *)
(* balance and the limits refuse a request, or a number of upstreams with   *)
(* a usable credential is found.                                            *)
Gate(least) ==
    /\ pc = "gate"
    /\ \/ \E n \in (least..Candidates) \ {0} :
             resolved' = n /\ pc' = "looking" /\ UNCHANGED answer
       \/ least = 0 /\ pc' = "over" /\ answer' = "exhausted" /\ UNCHANGED resolved
       \/ pc' = "over" /\ answer' = "error" /\ UNCHANGED resolved
    /\ UNCHANGED <<route, stream, attempt, slotVars, accepted, markVars, bills, streamVars>>

\* No upstream is an answer of its own, and with it the request is over.
ChatGate == route = "chat" /\ Gate(1)
PassthroughGate == route = "passthrough" /\ Gate(1)
AdminPassthroughGate == route = "adminPassthrough" /\ Gate(1)

\* The administrator's chat resolves each route of the model, then those of
\* its fallback models, as it goes: none at all is an exhausted loop.
AdminGate == route = "adminChat" /\ Gate(0)

------------------------------------------------------------------------------
(* The loop over the candidates. *)

StartAttempt ==
    /\ pc = "looking"
    /\ pc' = "acquiring"
    /\ UNCHANGED <<loopVars, attempt, slotVars, accepted, markVars, bills, answer, streamVars>>

\* A cached response ends the request before a slot is asked for.
AnswerFromCache ==
    /\ pc = "looking" /\ ~stream
    /\ pc' = "over" /\ answer' = "cached"
    /\ UNCHANGED <<loopVars, attempt, slotVars, accepted, markVars, bills, streamVars>>

\* A slot, or none needed because the upstream has no limit.
Acquire ==
    /\ pc = "acquiring"
    /\ \E outcome \in {"granted", "unlimited"} : SlotSays(outcome)
    /\ pc' = "fetching"
    /\ UNCHANGED <<loopVars, attempt, accepted, markVars, bills, answer, streamVars>>

\* A fault: a queue timeout counts against the credential.
AcquireFails_Marks ==
    /\ pc = "acquiring"
    /\ SlotSays("denied")
    /\ MarkFailure
    /\ NextCandidate
    /\ UNCHANGED <<loopVars, accepted, bills, streamVars>>

\* A fault: a queue timeout asks for the same slot again.
AcquireFails_Again ==
    /\ pc = "acquiring"
    /\ SlotSays("denied")
    /\ pc' = "looking"
    /\ UNCHANGED <<loopVars, attempt, accepted, markVars, bills, answer, streamVars>>

\* The queue's timeout or an error of Redis: no fault of the credential.
AcquireFails ==
    /\ pc = "acquiring"
    /\ SlotSays("denied")
    /\ NextCandidate
    /\ UNCHANGED <<loopVars, accepted, markVars, bills, streamVars>>

\* The fetch throws, or the status is one to retry.
FetchFails ==
    /\ pc = "fetching"
    /\ MarkFailure
    /\ pc' = "failing"
    /\ UNCHANGED <<loopVars, attempt, slotVars, accepted, bills, answer, streamVars>>

\* A fault: the candidate is left without its finally block.
ReleaseAndRetry_Leaks ==
    /\ pc = "failing"
    /\ NextCandidate
    /\ UNCHANGED <<loopVars, slotVars, accepted, markVars, bills, streamVars>>

\* The finally block of an attempt that failed, then the next candidate.
ReleaseAndRetry ==
    /\ pc = "failing"
    /\ ReleaseSlot
    /\ NextCandidate
    /\ UNCHANGED <<loopVars, accepted, markVars, bills, streamVars>>

\* Any other status is the client's answer.
Rejected ==
    /\ pc = "fetching"
    /\ pc' = "leaving" /\ answer' = "error"
    /\ UNCHANGED <<loopVars, attempt, slotVars, accepted, markVars, bills, streamVars>>

\* The lease is handed to the proxy, whose call returns the streaming answer.
HandOver ==
    /\ stream
    /\ handed' = handed \union {attempt}
    /\ pc' = "opening" /\ answer' = "events"
    /\ UNCHANGED <<slot, returns>>

FetchAnswers ==
    /\ pc = "fetching"
    /\ \/ HandOver
       \/ ~stream /\ pc' = "parsing" /\ UNCHANGED <<slotVars, answer>>
    /\ UNCHANGED <<loopVars, attempt, accepted, markVars, bills, streamVars>>

\* A passthrough streams only an ok response with a body; every other one that
\* is not to be retried is read and passed on, whatever its status.
PassthroughAnswers ==
    /\ pc = "fetching"
    /\ \/ HandOver /\ UNCHANGED accepted
       \/ accepted' \in BOOLEAN /\ pc' = "parsing" /\ UNCHANGED <<slotVars, answer>>
    /\ UNCHANGED <<loopVars, attempt, markVars, bills, streamVars>>

\* What is evaluated for the call of the proxy throws: nothing has been sent,
\* the catch block releases the slot the finally block no longer will.
ForwardThrows ==
    /\ pc = "fetching" /\ stream
    /\ handed' = handed \union {attempt}
    /\ returns' = [returns EXCEPT ![attempt] = IF slot[attempt] = "granted" THEN @ + 1 ELSE @]
    /\ MarkFailure
    /\ NextCandidate
    /\ UNCHANGED <<loopVars, slot, accepted, bills, streamVars>>

\* The catch block of the administrator's chat does not.
AdminForwardThrows ==
    /\ pc = "fetching" /\ stream
    /\ handed' = handed \union {attempt}
    /\ MarkFailure
    /\ NextCandidate
    /\ UNCHANGED <<loopVars, slot, returns, accepted, bills, streamVars>>

------------------------------------------------------------------------------
(* A response that is not streamed. *)

\* Not JSON, or for a consumer's chat not what the adapter can transform: an
\* error, and the credential keeps its standing.
ParseFails ==
    /\ pc = "parsing"
    /\ pc' = "leaving" /\ answer' = "error"
    /\ UNCHANGED <<loopVars, attempt, slotVars, accepted, markVars, bills, streamVars>>

\* A body that breaks off in a passthrough, or one the adapter of the
\* administrator's chat cannot transform, is caught: the next candidate.
BodyFails ==
    /\ pc = "parsing"
    /\ MarkFailure
    /\ pc' = "failing"
    /\ UNCHANGED <<loopVars, attempt, slotVars, accepted, bills, answer, streamVars>>

Parse ==
    /\ pc = "parsing"
    /\ MarkSuccess
    /\ Bill
    /\ pc' = "billing"
    /\ UNCHANGED <<loopVars, attempt, slotVars, accepted, answer, streamVars>>

\* The administrator is not billed.
AdminParse ==
    /\ pc = "parsing"
    /\ MarkSuccess
    /\ pc' = "leaving" /\ answer' = "json"
    /\ UNCHANGED <<loopVars, attempt, slotVars, accepted, bills, streamVars>>

PassthroughParse ==
    /\ pc = "parsing"
    /\ IF accepted THEN MarkSuccess ELSE MarkFailure
    /\ Bill
    /\ pc' = "billing"
    /\ UNCHANGED <<loopVars, attempt, slotVars, accepted, answer, streamVars>>

\* Of the rejections only those with a status of the upstream's own are marked.
AdminPassthroughParse ==
    /\ pc = "parsing"
    /\ \/ accepted /\ MarkSuccess
       \/ ~accepted /\ (MarkFailure \/ UNCHANGED markVars)
    /\ pc' = "leaving" /\ answer' = IF accepted THEN "json" ELSE "error"
    /\ UNCHANGED <<loopVars, attempt, slotVars, accepted, bills, streamVars>>

\* billConsumer returns, refuses or throws.
Billed ==
    /\ pc = "billing"
    /\ answer' \in {"json", "refused", "error"}
    /\ pc' = "leaving"
    /\ UNCHANGED <<loopVars, attempt, slotVars, accepted, markVars, bills, streamVars>>

PassthroughBilled ==
    /\ pc = "billing"
    /\ answer' \in {IF accepted THEN "json" ELSE "error", "refused"}
    /\ pc' = "leaving"
    /\ UNCHANGED <<loopVars, attempt, slotVars, accepted, markVars, bills, streamVars>>

\* In a passthrough a throw of billConsumer is caught like one of the fetch: the
\* credential is marked a second time and the next candidate is asked.
BillThrows ==
    /\ pc = "billing"
    /\ MarkFailure
    /\ pc' = "failing"
    /\ UNCHANGED <<loopVars, attempt, slotVars, accepted, bills, answer, streamVars>>

\* The finally block of an attempt that ends the request.
Leave ==
    /\ pc = "leaving"
    /\ ReleaseSlot
    /\ pc' = "over"
    /\ UNCHANGED <<loopVars, attempt, accepted, markVars, bills, answer, streamVars>>

------------------------------------------------------------------------------
(* forwardStream and forwardPassthroughStream.  The first reason stays,     *)
(* except that a done event makes the stream completed.                     *)

SetAbortReason(why) == reason' = IF reason = "none" THEN why ELSE reason

\* No body: the callback returns before the try block whose finally calls
\* onFinalize and onComplete.
MissingBody ==
    /\ pc = "opening"
    /\ SetAbortReason("upstream_missing_body")
    /\ MarkFailure
    /\ pc' = "over"
    /\ UNCHANGED <<loopVars, attempt, slotVars, accepted, bills, answer, cancelled, broken>>

OpenReader ==
    /\ pc = "opening"
    /\ pc' = "streaming"
    /\ UNCHANGED <<loopVars, attempt, slotVars, accepted, markVars, bills, answer, streamVars>>

\* The idle or the maximum timer: the reason, an error event, the abort.
TimerFires ==
    /\ pc = "streaming" /\ cancelled = "no"
    /\ SetAbortReason("timeout")
    /\ cancelled' = "writing"
    /\ UNCHANGED <<loopVars, attempt, pc, slotVars, accepted, markVars, bills, answer, broken>>

TimerCancels ==
    /\ cancelled = "writing"
    /\ cancelled' = "yes"
    /\ UNCHANGED <<loopVars, attempt, pc, slotVars, accepted, markVars, bills, answer, reason, broken>>

\* The client's disconnect, at any time of the stream.
ClientAborts ==
    /\ pc = "streaming"
    /\ SetAbortReason("client_abort")
    /\ cancelled' = "yes"
    /\ UNCHANGED <<loopVars, attempt, pc, slotVars, accepted, markVars, bills, answer, broken>>

DoneFrame ==
    /\ pc = "streaming"
    /\ reason' = "completed"
    /\ UNCHANGED <<loopVars, attempt, pc, slotVars, accepted, markVars, bills, answer, cancelled, broken>>

BufferOverflows ==
    /\ pc = "streaming"
    /\ SetAbortReason("buffer_overflow")
    /\ cancelled' = "yes"
    /\ pc' = "finalizing"
    /\ UNCHANGED <<loopVars, attempt, slotVars, accepted, markVars, bills, answer, broken>>

\* A fault: a stream that breaks is retried with the next candidate.
ReadFails_Retries ==
    /\ pc = "streaming" /\ broken
    /\ ReleaseSlot
    /\ MarkFailure
    /\ NextCandidate
    /\ UNCHANGED <<loopVars, accepted, bills, streamVars>>

\* A read of a broken connection throws.
ReadFails ==
    /\ pc = "streaming" /\ broken
    /\ SetAbortReason("upstream_read_error")
    /\ pc' = "finalizing"
    /\ UNCHANGED <<loopVars, attempt, slotVars, accepted, markVars, bills, answer, cancelled, broken>>

\* fetchUpstream's AbortSignal.timeout is never disarmed: it aborts the body
\* of a stream that is still running, and the read throws a TimeoutError.
FetchDeadline ==
    /\ pc = "streaming" /\ cancelled # "yes"
    /\ SetAbortReason("upstream_read_error")
    /\ pc' = "finalizing"
    /\ UNCHANGED <<loopVars, attempt, slotVars, accepted, markVars, bills, answer, cancelled, broken>>

UpstreamBreaks ==
    /\ pc = "streaming"
    /\ broken' = TRUE
    /\ UNCHANGED <<loopVars, attempt, pc, slotVars, accepted, markVars, bills, answer, reason, cancelled>>

\* forwardPassthroughStream leaves a stream that ends well without a reason.
PassthroughReadEnds ==
    /\ pc = "streaming"
    /\ pc' = "finalizing"
    /\ UNCHANGED <<loopVars, attempt, slotVars, accepted, markVars, bills, answer, streamVars>>

\* The upstream is done or the loop sees the abort.
ReadEnds ==
    /\ pc = "streaming"
    /\ SetAbortReason("completed")
    /\ pc' = "finalizing"
    /\ UNCHANGED <<loopVars, attempt, slotVars, accepted, markVars, bills, answer, cancelled, broken>>

\* onFinalize, awaited.
Finalize ==
    /\ pc = "finalizing"
    /\ ReleaseSlot
    /\ pc' = "completing"
    /\ UNCHANGED <<loopVars, attempt, accepted, markVars, bills, answer, streamVars>>

\* A fault: only a completed stream is billed.
Complete_OnlyCompleted ==
    /\ pc = "completing"
    /\ IF Consumer /\ reason = "completed" THEN Bill ELSE UNCHANGED bills
    /\ IF reason \in {"none", "completed"} THEN MarkSuccess
       ELSE IF reason = "client_abort" THEN UNCHANGED markVars ELSE MarkFailure
    /\ pc' = "over"
    /\ UNCHANGED <<loopVars, attempt, slotVars, accepted, answer, streamVars>>

\* onComplete, which only a consumer's stream has, is started and not awaited;
\* the credential gets its mark.
Complete ==
    /\ pc = "completing"
    /\ IF Consumer THEN Bill ELSE UNCHANGED bills
    /\ \/ reason \in {"none", "completed"} /\ MarkSuccess
       \/ reason = "client_abort" /\ UNCHANGED markVars
       \/ reason \notin {"none", "completed", "client_abort"} /\ MarkFailure
    /\ pc' = "over"
    /\ UNCHANGED <<loopVars, attempt, slotVars, accepted, answer, streamVars>>

\* The process dies.
Crash ==
    /\ pc \notin {"over", "crashed"}
    /\ pc' = "crashed"
    /\ UNCHANGED <<loopVars, attempt, slotVars, accepted, markVars, bills, answer, streamVars>>

------------------------------------------------------------------------------
Attempting == StartAttempt \/ Acquire \/ AcquireFails \/ FetchFails \/ ReleaseAndRetry \/ Leave

ChatLoop ==
    /\ route = "chat"
    /\ \/ Attempting \/ AnswerFromCache \/ Rejected \/ FetchAnswers \/ ForwardThrows
       \/ ParseFails \/ Parse \/ Billed

PassthroughLoop ==
    /\ route = "passthrough"
    /\ \/ Attempting \/ PassthroughAnswers \/ ForwardThrows
       \/ BodyFails \/ PassthroughParse \/ PassthroughBilled \/ BillThrows

AdminLoop ==
    /\ route = "adminChat"
    /\ \/ Attempting \/ AnswerFromCache \/ Rejected \/ FetchAnswers \/ AdminForwardThrows
       \/ ParseFails \/ BodyFails \/ AdminParse

AdminPassthroughLoop ==
    /\ route = "adminPassthrough"
    /\ \/ Attempting \/ PassthroughAnswers \/ ForwardThrows
       \/ BodyFails \/ AdminPassthroughParse

Proxying == \/ OpenReader \/ TimerFires \/ TimerCancels \/ BufferOverflows \/ ReadFails
            \/ Finalize \/ Complete
ForwardStream == ~PassesThrough /\ (Proxying \/ MissingBody \/ DoneFrame \/ ReadEnds)
ForwardPassthroughStream == PassesThrough /\ (Proxying \/ PassthroughReadEnds)

Environment == FetchDeadline \/ UpstreamBreaks \/ ClientAborts \/ Crash

Proceed == \/ ChatGate \/ PassthroughGate \/ AdminGate \/ AdminPassthroughGate
           \/ ChatLoop \/ PassthroughLoop \/ AdminLoop \/ AdminPassthroughLoop
           \/ ForwardStream \/ ForwardPassthroughStream
Next == Proceed \/ Environment

Spec == Init /\ [][Next]_vars

(* Acquiring, fetching and streaming each have a timeout, the database      *)
(* answers or throws, and a client that reads no more disconnects at last   *)
(* (the write a timer awaits before it cancels ends); nothing of the        *)
(* environment has to happen.                                               *)
FairSpec == Spec /\ WF_vars(Proceed)

------------------------------------------------------------------------------
TypeOK ==
    /\ route \in Routes
    /\ stream \in BOOLEAN
    /\ resolved \in 0..Candidates
    /\ attempt \in Attempts
    /\ pc \in Places
    /\ slot \in [Attempts -> Slots]
    /\ returns \in [Attempts -> Nat]
    /\ handed \subseteq Attempts
    /\ accepted \in BOOLEAN
    /\ failed \in [Attempts -> Nat]
    /\ passed \in [Attempts -> Nat]
    /\ bills \in [Attempts -> Nat]
    /\ answer \in Answers
    /\ reason \in Reasons
    /\ cancelled \in {"no", "writing", "yes"}
    /\ broken \in BOOLEAN

(* A request holds one slot at a time: it has given back every slot of the  *)
(* attempts before, once, when it asks for the next, so that two requests   *)
(* cannot wait for each other's upstreams.  The lease that an               *)
(* administrator's chat had handed to a stream that could not be opened is  *)
(* the exception: nobody returns it.                                        *)
Held(a) == slot[a] = "granted" /\ returns[a] = 0
Dropped(a) == route = "adminChat" /\ a \in handed
GivenUp(a) == a <= resolved /\ (a < attempt \/ (a = attempt /\ answer = "exhausted"))
OneSlotHeld ==
    \A a \in Attempts :
        /\ returns[a] <= 1
        /\ Held(a) /\ ~(GivenUp(a) /\ Dropped(a)) =>
              a = attempt /\ pc \notin {"gate", "looking", "acquiring"}

(* A request that is over has given its slot back and, when a stream was    *)
(* forwarded or a response parsed for a consumer, was billed exactly once   *)
(* for the attempt that answered, whichever of the timers, the disconnect   *)
(* or the upstream ended it; a response without a body is the exception to  *)
(* both.  A bill for an attempt that was given up is one of a passthrough   *)
(* whose billConsumer threw, and an administrator has none.                 *)
Bodiless == reason = "upstream_missing_body"
OverIsSettled ==
    /\ pc = "over" =>
          /\ Bodiless \/ \A a \in Attempts : Held(a) => GivenUp(a) /\ Dropped(a)
          /\ answer = "events" => bills[attempt] = (IF Bodiless \/ ~Consumer THEN 0 ELSE 1)
          /\ answer \in {"json", "refused"} => bills[attempt] = (IF Consumer THEN 1 ELSE 0)
          /\ answer = "cached" => bills[attempt] = 0
    /\ \A a \in Attempts :
          /\ bills[a] <= 1
          /\ bills[a] = 1 => Consumer /\ (GivenUp(a) => route = "passthrough")

(* The credential of a candidate that was given up has one failure, unless  *)
(* it was given up for want of a slot, which is no mark, or because its     *)
(* bill threw, which is a second one; the one in use has at most one mark,  *)
(* the good one only for a stream that was complete or a response that was  *)
(* billed, and none for a client that left.                                 *)
MarksAreEarned ==
    \A a \in Attempts :
        /\ failed[a] + passed[a] <=
              (IF a > attempt THEN 0
               ELSE IF route = "passthrough" /\ bills[a] = 1 /\ a \notin handed THEN 2 ELSE 1)
        /\ GivenUp(a) /\ bills[a] = 0 =>
              passed[a] = 0 /\ failed[a] = IF slot[a] = "denied" THEN 0 ELSE 1
        /\ GivenUp(a) /\ bills[a] = 1 => failed[a] + passed[a] = 2 /\ failed[a] > 0
        /\ slot[a] \in {"unasked", "denied"} => failed[a] + passed[a] = 0
        /\ passed[a] > 0 =>
              IF a \in handed
              THEN a = attempt /\ reason = IF PassesThrough THEN "none" ELSE "completed"
              ELSE Consumer => bills[a] = 1
        /\ reason = "client_abort" /\ a = attempt => failed[a] + passed[a] = 0

(* What the theorems prove: the above, the types, and what each place of    *)
(* the request says of its slot, its marks and its bill.                    *)
Committed == {"opening", "streaming", "finalizing", "completing"}
Waiting   == {"gate", "looking", "acquiring"}
Working   == {"fetching", "failing", "parsing", "billing"}
Untouched(a) ==
    /\ slot[a] = "unasked" /\ returns[a] = 0 /\ a \notin handed
    /\ failed[a] = 0 /\ passed[a] = 0 /\ bills[a] = 0
SlotShape ==
    /\ \A a \in Attempts : a > attempt \/ (a = attempt /\ pc \in Waiting) => Untouched(a)
    /\ pc = "gate" => attempt = 1 /\ resolved = 0
    /\ attempt = 1 \/ attempt <= resolved
    /\ pc \in {"looking", "acquiring", "leaving"} \union Working \union Committed => attempt <= resolved
    /\ pc \in Working \union Committed \union {"leaving"} =>
          /\ slot[attempt] \in {"granted", "unlimited"}
          /\ IF pc = "completing" THEN ~Held(attempt) ELSE returns[attempt] = 0
    /\ pc \in Working \union {"leaving"} => attempt \notin handed
    /\ pc \in Committed => attempt \in handed
    /\ answer = "events" <=> attempt \in handed /\ answer # "exhausted"
MarkShape ==
    /\ pc \in {"fetching", "parsing"} \union Committed => failed[attempt] = 0 /\ passed[attempt] = 0
    /\ pc = "failing" => failed[attempt] + passed[attempt] = 1 + bills[attempt] /\ failed[attempt] > 0
    /\ pc \in {"billing", "leaving"} => failed[attempt] + passed[attempt] <= 1
    /\ pc = "billing" => failed[attempt] + passed[attempt] = 1
    /\ pc = "billing" /\ route = "chat" => failed[attempt] = 0
AnswerShape ==
    /\ pc \in Waiting \union Working => answer = "open"
    /\ pc \in Committed => stream /\ answer = "events"
    /\ pc \in {"parsing", "billing"} => ~stream \/ PassesThrough
    /\ pc = "leaving" => answer \in {"json", "refused", "error"}
BillShape ==
    /\ pc \in {"fetching", "parsing"} \union Committed => bills[attempt] = 0
    /\ pc = "failing" /\ bills[attempt] = 1 => route = "passthrough"
    /\ pc = "billing" => Consumer /\ bills[attempt] = 1
    /\ pc = "leaving" /\ answer # "error" => bills[attempt] = (IF Consumer THEN 1 ELSE 0)
ReasonShape ==
    /\ pc \in Waiting \union Working \union {"leaving", "opening"} => reason = "none"
    /\ answer = "exhausted" => reason = "none"
    /\ pc \in Committed => ~Bodiless
    /\ pc \in {"finalizing", "completing"} /\ ~PassesThrough => reason # "none"
    /\ PassesThrough => reason # "completed"
RelayShape == SlotShape /\ MarkShape /\ AnswerShape /\ BillShape /\ ReasonShape
RelayInvariant == TypeOK /\ RelayShape /\ OneSlotHeld /\ OverIsSettled /\ MarksAreEarned

(* Once the client has an answer, or the SSE headers of one are committed,  *)
(* no further candidate is tried for it and the answer stays.               *)
CommittedStays ==
    [][answer # "open" => answer' = answer /\ attempt' = attempt]_vars

(* Every request gets to its end, by itself or by a crash.                  *)
RequestEnds == <>(pc \in {"over", "crashed"})

(* A passthrough has the "Same billing and ACL as chat completions": one    *)
(* bill for one request.                                                    *)
BilledOnce == \A a, b \in Attempts : bills[a] = 1 /\ bills[b] = 1 => a = b
==============================================================================
