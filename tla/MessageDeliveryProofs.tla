------------------------ MODULE MessageDeliveryProofs ------------------------
(***************************************************************************)
(* MessagingInvariant is inductive.  A step of a job touches the row of    *)
(* that job only, so the argument is about one row: as long as no run of   *)
(* its jobs was cut short, what may begin a job has none, so the one job   *)
(* that carries the row tells whether a success was heard.  The            *)
(* refinement of Deliveries adds that a row whose run was cut short is     *)
(* still no success unless one was heard (SuccessIsHeard).                 *)
(***************************************************************************)
EXTENDS MessageDelivery, TLAPS

Places == Active \union {"idle", "waiting"}

LEMMA InitInvariant == Init => MessagingInvariant
<1> SUFFICES ASSUME Init PROVE MessagingInvariant
  OBVIOUS
<1>1. TypeOK
  BY DEF Init, TypeOK
<1>2. PlacesByKind
  BY DEF Init, PlacesByKind, WebhookPlaces, NoticePlaces
<1>3. NoticeTries
  BY RetryAssumption DEF Init, NoticeTries, NoticePlaces, Rows, Jobs
<1>4. \A d \in Rows : SuccessIsHeard(d) /\ RowTells(d)
  BY RetryAssumption DEF Init, SuccessIsHeard, RowTells, OneCarrier, CarrierTells, Carrying, Unclaimed,
     CarriedIsOpen, WebhookTries, Rows, Jobs
<1> QED
  BY <1>1, <1>2, <1>3, <1>4 DEF MessagingInvariant

------------------------------------------------------------------------------
(* Types *)

LEMMA GotoType ==
    ASSUME TypeOK, NEW j \in Jobs, NEW p \in Places, Goto(j, p)
    PROVE  at' \in [Jobs -> Places]
BY DEF TypeOK, Goto, Places

LEMMA StatusType ==
    ASSUME TypeOK, NEW d \in Rows,
           NEW v \in {"none", "pending", "processing", "success", "failed"}, SetStatus(d, v)
    PROVE  status' \in [Rows -> {"none", "pending", "processing", "success", "failed"}]
BY DEF TypeOK, SetStatus

LEMMA JobRow == \A j \in Jobs : j[1] \in Rows
BY DEF Jobs

LEMMA NewJobType ==
    ASSUME TypeOK, NEW j \in Jobs, NEW n \in Nat, NEW here \in [Jobs -> Places],
           NewJob(j, n, here)
    PROVE  /\ at' \in [Jobs -> Places] /\ first' \in [Jobs -> Nat] /\ runs' \in [Jobs -> Nat]
           /\ abandoned' \in [Rows -> BOOLEAN]
<1>1. at' \in [Jobs -> Places]
  BY DEF NewJob, Places
<1>2. first' \in [Jobs -> Nat] /\ runs' \in [Jobs -> Nat]
  BY DEF NewJob, TypeOK
<1>3. abandoned' \in [Rows -> BOOLEAN]
  BY JobRow DEF NewJob, TypeOK
<1> QED
  BY <1>1, <1>2, <1>3

LEMMA CutType == ASSUME TypeOK, NEW j \in Jobs, Cut(j) PROVE TypeOK'
<1>1. at' \in [Jobs -> Places]
  <2>1. "waiting" \in Places /\ "idle" \in Places
    BY DEF Places
  <2>2. Goto(j, "waiting") \/ Goto(j, "idle")
    BY DEF Cut
  <2> QED
    BY <2>1, <2>2, GotoType
<1>2. runs' \in [Jobs -> Nat]
  BY DEF Cut, TypeOK
<1>3. disturbed' \in [Rows -> BOOLEAN] /\ abandoned' \in [Rows -> BOOLEAN]
  BY JobRow DEF Cut, TypeOK
<1> QED
  BY <1>1, <1>2, <1>3 DEF Cut, TypeOK, Places, rowVars, targetVars

LEMMA EmitClaimType ==
    ASSUME TypeOK, NEW j \in Jobs, Emit(j) \/ Claim(j)
    PROVE  TypeOK'
<1>1. NewJob(j, 1, at) /\ at \in [Jobs -> Places] /\ 1 \in Nat
  BY DEF Emit, Claim, TypeOK, Places
<1>2. /\ at' \in [Jobs -> Places] /\ first' \in [Jobs -> Nat] /\ runs' \in [Jobs -> Nat]
      /\ abandoned' \in [Rows -> BOOLEAN]
  BY <1>1, NewJobType
<1>3. status' \in [Rows -> {"none", "pending", "processing", "success", "failed"}]
  BY JobRow, StatusType DEF Emit, Claim
<1> QED
  BY <1>2, <1>3 DEF Emit, Claim, TypeOK, Places, targetVars

LEMMA WebhookType ==
    ASSUME TypeOK, NEW j \in Jobs, Webhook(j)
    PROVE  TypeOK'
<1>1. j[1] \in Rows
  BY JobRow
<1>2. at' \in [Jobs -> Places]
  <2>1. \A p \in Places : Goto(j, p) => at' \in [Jobs -> Places]
    BY GotoType
  <2>2. \E p \in Places : Goto(j, p)
    BY DEF Webhook, TakeWebhook, Undecryptable, Deliver, RecordSuccess, ResetFailure,
       RecordFailure, IncrementFailure, CheckThreshold, Disable,
       Places, Active, WebhookPlaces, NoticePlaces
  <2> QED
    BY <2>1, <2>2
<1>3. status' \in [Rows -> {"none", "pending", "processing", "success", "failed"}]
  <2>1. status' = status \/ \E v \in {"pending", "success", "failed"} : SetStatus(j[1], v)
    BY DEF Webhook, TakeWebhook, Undecryptable, Deliver, RecordSuccess, ResetFailure,
       RecordFailure, IncrementFailure, CheckThreshold, Disable, rowVars
  <2> QED
    BY <1>1, <2>1, StatusType DEF TypeOK
<1>4. TargetOf[j[1]] \in Targets
  BY <1>1, TargetAssumption
<1> USE DEF TypeOK, rowVars, targetVars, history
<1>5. CASE TakeWebhook(j)
  BY <1>1, <1>2, <1>5 DEF TakeWebhook, Places
<1>6. CASE Undecryptable(j)
  BY <1>1, <1>2, <1>3, <1>6 DEF Undecryptable, Places
<1>7. CASE Deliver(j)
  BY <1>1, <1>2, <1>7 DEF Deliver, Heard, NotHeard, Places
<1>8. CASE RecordSuccess(j)
  BY <1>1, <1>2, <1>3, <1>8 DEF RecordSuccess, Places
<1>9. CASE ResetFailure(j)
  BY <1>2, <1>4, <1>9 DEF ResetFailure, Places
<1>10. CASE RecordFailure(j)
  BY <1>1, <1>2, <1>3, <1>10 DEF RecordFailure, Places
<1>11. CASE IncrementFailure(j)
  BY <1>2, <1>4, <1>11 DEF IncrementFailure, Places
<1>12. CASE CheckThreshold(j)
  BY <1>2, <1>12 DEF CheckThreshold, Places
<1>13. CASE Disable(j)
  BY <1>2, <1>4, <1>13 DEF Disable, Places
<1> QED
  BY <1>5, <1>6, <1>7, <1>8, <1>9, <1>10, <1>11, <1>12, <1>13 DEF Webhook

LEMMA NoticeType ==
    ASSUME TypeOK, NEW j \in Jobs, Notice(j)
    PROVE  TypeOK'
<1>1. j[1] \in Rows
  BY JobRow
<1>2. (\E p \in Places : Goto(j, p)) => at' \in [Jobs -> Places]
  BY GotoType
<1>3. \A v \in {"pending", "success", "failed"} : SetStatus(j[1], v) =>
        status' \in [Rows -> {"none", "pending", "processing", "success", "failed"}]
  BY <1>1, StatusType
<1>4. TargetOf[j[1]] \in Targets
  BY <1>1, TargetAssumption
<1>5. CASE RateLimited(j)
  <2>1. PICK s \in Slots : NewJob(<<j[1], s>>, attempt[j] + 1, [at EXCEPT ![j] = "pend"])
    BY <1>5 DEF RateLimited
  <2>2. /\ <<j[1], s>> \in Jobs /\ attempt[j] + 1 \in Nat
        /\ [at EXCEPT ![j] = "pend"] \in [Jobs -> Places]
    BY <1>1 DEF Jobs, TypeOK, Places, Active, NoticePlaces
  <2>3. /\ at' \in [Jobs -> Places] /\ first' \in [Jobs -> Nat] /\ runs' \in [Jobs -> Nat]
        /\ abandoned' \in [Rows -> BOOLEAN]
    BY <2>1, <2>2, NewJobType
  <2> QED
    BY <1>5, <2>3 DEF RateLimited, TypeOK, Places, rowVars, targetVars
<1>6. ~RateLimited(j) => at' \in [Jobs -> Places]
  BY <1>2 DEF Notice, TakeNotice, NoChannel, Send, RecordSent, RecordSentThrows, NextAttempt,
     RateLimitedLast, RecordPending, Deactivate, RecordFailed, RecordThrows,
     Places, Active, NoticePlaces
<1> USE DEF TypeOK, rowVars, targetVars, history
<1>7. CASE TakeNotice(j)
  BY <1>1, <1>2, <1>7 DEF TakeNotice, Places, Active, NoticePlaces
<1>8. CASE NoChannel(j)
  BY <1>1, <1>2, <1>3, <1>8 DEF NoChannel, Places
<1>9. CASE Send(j)
  BY <1>1, <1>2, <1>9 DEF Send, Heard, NotHeard, Places, Active, NoticePlaces
<1>10. CASE RecordSent(j)
  BY <1>1, <1>2, <1>3, <1>10 DEF RecordSent, Places
<1>11. CASE RecordSentThrows(j)
  BY <1>1, <1>2, <1>11 DEF RecordSentThrows, Places, Active, NoticePlaces
<1>12. CASE NextAttempt(j)
  BY <1>1, <1>2, <1>12 DEF NextAttempt, Places, Active, NoticePlaces
<1>13. CASE RateLimitedLast(j)
  BY <1>1, <1>2, <1>13 DEF RateLimitedLast, Places, Active, NoticePlaces
<1>14. CASE RecordPending(j)
  BY <1>1, <1>2, <1>3, <1>14 DEF RecordPending, Places
<1>15. CASE Deactivate(j)
  BY <1>1, <1>2, <1>4, <1>15 DEF Deactivate, Places, Active, NoticePlaces
<1>16. CASE RecordFailed(j)
  BY <1>1, <1>2, <1>3, <1>16 DEF RecordFailed, Places
<1>17. CASE RecordThrows(j)
  BY <1>1, <1>2, <1>17 DEF RecordThrows, Places
<1> QED
  BY <1>5, <1>7, <1>8, <1>9, <1>10, <1>11, <1>12, <1>13, <1>14, <1>15, <1>16, <1>17 DEF Notice

LEMMA NextType == ASSUME TypeOK, [Next]_vars PROVE TypeOK'
<1>1. CASE UNCHANGED vars
  BY <1>1 DEF vars, TypeOK, rowVars, targetVars, jobVars, history
<1> QED
  BY <1>1, CutType, EmitClaimType, WebhookType, NoticeType DEF Next, WebhookCut, NoticeStalls

------------------------------------------------------------------------------
(* A step of a job concerns one row *)

Step(j) == Emit(j) \/ Claim(j) \/ Webhook(j) \/ Notice(j) \/ WebhookCut(j) \/ NoticeStalls(j)

\* What the invariant says of a row, with the kinds of its places.
Tries(d) == d \in Notices =>
    /\ attempts[d] <= MaxAttempts
    /\ \A s \in Slots :
           /\ first[<<d, s>>] \in 1..MaxAttempts
           /\ at[<<d, s>>] \in NoticePlaces => attempt[<<d, s>>] \in 1..MaxAttempts

Kind(d) == \A s \in Slots :
    /\ at[<<d, s>>] \in WebhookPlaces => d \in Webhooks
    /\ at[<<d, s>>] \in NoticePlaces => d \in Notices

RowInvariant(d) == Kind(d) /\ Tries(d) /\ SuccessIsHeard(d) /\ RowTells(d)

LEMMA ByRows == MessagingInvariant <=> TypeOK /\ \A d \in Rows : RowInvariant(d)
<1>1. PlacesByKind <=> \A d \in Rows : Kind(d)
  BY DEF PlacesByKind, Kind, Jobs
<1>2. NoticeTries <=> \A d \in Rows : Tries(d)
  BY DEF NoticeTries, Tries, Rows
<1> QED
  BY <1>1, <1>2 DEF MessagingInvariant, RowInvariant

LEMMA ByRowsPrime == MessagingInvariant' <=> TypeOK' /\ \A d \in Rows : RowInvariant(d)'
<1>1. PlacesByKind' <=> \A d \in Rows : Kind(d)'
  BY DEF PlacesByKind, Kind, Jobs
<1>2. NoticeTries' <=> \A d \in Rows : Tries(d)'
  BY DEF NoticeTries, Tries, Rows
<1> QED
  BY <1>1, <1>2 DEF MessagingInvariant, RowInvariant

\* The state of a row and its jobs is as it was.
Kept(d) ==
    /\ status'[d] = status[d] /\ attempts'[d] = attempts[d] /\ retryAt'[d] = retryAt[d]
    /\ heard'[d] = heard[d] /\ disturbed'[d] = disturbed[d]
    /\ \A s \in Slots : /\ at'[<<d, s>>] = at[<<d, s>>]
                        /\ attempt'[<<d, s>>] = attempt[<<d, s>>]
                        /\ first'[<<d, s>>] = first[<<d, s>>]

LEMMA KeptRow == ASSUME NEW d \in Rows, RowInvariant(d), Kept(d) PROVE RowInvariant(d)'
<1>1. Kind(d)' /\ Tries(d)' /\ SuccessIsHeard(d)'
  BY DEF RowInvariant, Kept, Kind, Tries, SuccessIsHeard
<1>2. OneCarrier(d) => OneCarrier(d)'
  BY DEF Kept, OneCarrier, Carrying
<1>3. CarrierTells(d) => CarrierTells(d)'
  BY DEF Kept, CarrierTells, Carrying
<1>4. Unclaimed(d) => Unclaimed(d)'
  BY DEF Kept, Unclaimed, Carrying
<1>5. CarriedIsOpen(d) => CarriedIsOpen(d)'
  BY DEF Kept, CarriedIsOpen, Carrying
<1>6. WebhookTries(d) => WebhookTries(d)'
  BY DEF Kept, WebhookTries
<1>7. RowTells(d)'
  BY <1>2, <1>3, <1>4, <1>5, <1>6 DEF RowInvariant, RowTells, Kept
<1> QED
  BY <1>1, <1>7 DEF RowInvariant

\* The job goes to p and no other job of the row moves.
Moves(d, s, p) == /\ at'[<<d, s>>] = p
                  /\ \A t \in Slots \ {s} : at'[<<d, t>>] = at[<<d, t>>]

LEMMA NewJobEffect ==
    ASSUME TypeOK, NEW j \in Jobs, NEW n \in Nat, NEW here \in [Jobs -> Places],
           NewJob(j, n, here)
    PROVE  \/ /\ at[j] = "idle" /\ at'[j] = "waiting" /\ first'[j] = n
              /\ \A i \in Jobs \ {j} : at'[i] = here[i] /\ first'[i] = first[i]
           \/ at' = here /\ first' = first
BY DEF NewJob, TypeOK

LEMMA NewJobElsewhere ==
    ASSUME TypeOK, NEW j \in Jobs, NEW n \in Nat, NEW here \in [Jobs -> Places],
           NewJob(j, n, here), NEW i \in Jobs, i # j
    PROVE  at'[i] = here[i] /\ first'[i] = first[i]
BY NewJobEffect

LEMMA EmitClaimEffect ==
    ASSUME TypeOK, NEW d \in Rows, NEW s \in Slots, Emit(<<d, s>>) \/ Claim(<<d, s>>)
    PROVE  \/ /\ at[<<d, s>>] = "idle" /\ Moves(d, s, "waiting") /\ first'[<<d, s>>] = 1
              /\ \A t \in Slots \ {s} : first'[<<d, t>>] = first[<<d, t>>]
           \/ at' = at /\ first' = first
<1>1. \A t \in Slots : <<d, t>> \in Jobs /\ (t # s => <<d, t>> # <<d, s>>)
  BY DEF Jobs
<1>2. NewJob(<<d, s>>, 1, at) /\ at \in [Jobs -> Places] /\ 1 \in Nat
  BY DEF Emit, Claim, TypeOK, Places
<1> QED
  BY <1>1, <1>2, NewJobEffect DEF Moves

LEMMA RateLimitedEffect ==
    ASSUME TypeOK, NEW d \in Rows, NEW s \in Slots, RateLimited(<<d, s>>)
    PROVE  \/ \E u \in Slots \ {s} :
                 /\ at[<<d, u>>] = "idle" /\ at'[<<d, u>>] = "waiting"
                 /\ first'[<<d, u>>] = attempt[<<d, s>>] + 1
                 /\ at'[<<d, s>>] = "pend" /\ first'[<<d, s>>] = first[<<d, s>>]
                 /\ \A t \in Slots \ {s, u} : /\ at'[<<d, t>>] = at[<<d, t>>]
                                              /\ first'[<<d, t>>] = first[<<d, t>>]
           \/ Moves(d, s, "pend") /\ first' = first
<1> DEFINE j == <<d, s>>
           here == [at EXCEPT ![j] = "pend"]
<1>1. \A t, u \in Slots : <<d, t>> \in Jobs /\ (t # u => <<d, t>> # <<d, u>>)
  BY DEF Jobs
<1>2. PICK u \in Slots : NewJob(<<d, u>>, attempt[j] + 1, here)
  BY DEF RateLimited
<1>3. here \in [Jobs -> Places] /\ attempt[j] + 1 \in Nat
  BY <1>1 DEF TypeOK, Places, Active, NoticePlaces
<1>4. \A t \in Slots : here[<<d, t>>] = IF t = s THEN "pend" ELSE at[<<d, t>>]
  BY <1>1 DEF TypeOK
<1> HIDE DEF here
<1>5. CASE /\ at[<<d, u>>] = "idle" /\ at'[<<d, u>>] = "waiting"
           /\ first'[<<d, u>>] = attempt[j] + 1
           /\ \A i \in Jobs \ {<<d, u>>} : at'[i] = here[i] /\ first'[i] = first[i]
  <2>1. u # s
    BY <1>5 DEF RateLimited
  <2> QED
    BY <1>1, <1>4, <1>5, <2>1
<1>6. CASE at' = here /\ first' = first
  BY <1>1, <1>4, <1>6 DEF Moves
<1> QED
  BY <1>1, <1>2, <1>3, <1>5, <1>6, NewJobEffect

LEMMA OtherRows ==
    ASSUME TypeOK, NEW d \in Rows, NEW s \in Slots, Step(<<d, s>>), NEW e \in Rows, e # d
    PROVE  Kept(e)
<1> DEFINE j == <<d, s>>
<1>1. j \in Jobs /\ j[1] = d /\ \A t \in Slots : <<e, t>> \in Jobs /\ <<e, t>> # j
  BY DEF Jobs
<1> HIDE DEF j
<1>2. CASE Emit(j) \/ Claim(j)
  <2>1. NewJob(j, 1, at) /\ at \in [Jobs -> Places] /\ 1 \in Nat
    BY <1>2 DEF Emit, Claim, TypeOK, Places
  <2>2. \A t \in Slots : at'[<<e, t>>] = at[<<e, t>>] /\ first'[<<e, t>>] = first[<<e, t>>]
    BY <1>1, <2>1, NewJobElsewhere
  <2> QED
    BY <1>1, <1>2, <2>2 DEF Emit, Claim, SetStatus, Kept, TypeOK
<1>3. CASE WebhookCut(j) \/ NoticeStalls(j)
  BY <1>1, <1>3 DEF WebhookCut, NoticeStalls, Cut, Goto, Kept, TypeOK, rowVars
<1>4. CASE Webhook(j)
  BY <1>1, <1>4 DEF Webhook, TakeWebhook, Undecryptable, Deliver, Heard, NotHeard, RecordSuccess, ResetFailure,
     RecordFailure, IncrementFailure, CheckThreshold, Disable, Goto, SetStatus, Kept, TypeOK,
     rowVars, history
<1>5. CASE RateLimited(j)
  <2>1. PICK t \in Slots : NewJob(<<d, t>>, attempt[j] + 1, [at EXCEPT ![j] = "pend"])
    BY <1>1, <1>5 DEF RateLimited
  <2>2. /\ <<d, t>> \in Jobs /\ attempt[j] + 1 \in Nat
        /\ [at EXCEPT ![j] = "pend"] \in [Jobs -> Places]
        /\ \A u \in Slots : <<e, u>> # <<d, t>>
    BY <1>1 DEF Jobs, TypeOK, Places, Active, NoticePlaces
  <2>3. \A u \in Slots : /\ at'[<<e, u>>] = [at EXCEPT ![j] = "pend"][<<e, u>>]
                         /\ first'[<<e, u>>] = first[<<e, u>>]
    BY <1>1, <2>1, <2>2, NewJobElsewhere
  <2>4. \A u \in Slots : at'[<<e, u>>] = at[<<e, u>>]
    BY <1>1, <2>3 DEF TypeOK
  <2> QED
    BY <1>5, <2>3, <2>4 DEF RateLimited, Kept, rowVars
<1>6. CASE Notice(j) /\ ~RateLimited(j)
  BY <1>1, <1>6 DEF Notice, TakeNotice, NoChannel, Send, Heard, NotHeard, RecordSent, RecordSentThrows,
     NextAttempt, RateLimitedLast, RecordPending, Deactivate, RecordFailed, RecordThrows,
     Goto, SetStatus, Kept, TypeOK, rowVars, history
<1> QED
  BY <1>2, <1>3, <1>4, <1>5, <1>6 DEF Step, j

------------------------------------------------------------------------------
(* The row of the job that takes a step *)

LEMMA GotoMoves ==
    ASSUME TypeOK, NEW d \in Rows, NEW s \in Slots, NEW p, Goto(<<d, s>>, p)
    PROVE  Moves(d, s, p)
BY DEF Goto, Moves, TypeOK, Jobs

LEMMA OwnKind ==
    ASSUME TypeOK, NEW d \in Rows, NEW s \in Slots, Kind(d), Step(<<d, s>>)
    PROVE  Kind(d)'
<1> DEFINE j == <<d, s>>
<1>1. j \in Jobs /\ j[1] = d
  BY DEF Jobs
<1>2. Webhooks \intersect Notices = {} /\ WebhookPlaces \intersect NoticePlaces = {}
  BY RowsAssumption DEF WebhookPlaces, NoticePlaces
<1>3. \A p : Goto(j, p) => Moves(d, s, p)
  BY GotoMoves
<1> HIDE DEF j
<1>4. CASE Emit(j) \/ Claim(j)
  <2>1. \A t \in Slots : at'[<<d, t>>] \in {at[<<d, t>>], "waiting"}
    BY <1>4, EmitClaimEffect DEF Moves, j
  <2> QED
    BY <2>1 DEF Kind, WebhookPlaces, NoticePlaces
<1>5. CASE RateLimited(j)
  <2>1. \A t \in Slots : at'[<<d, t>>] \in {at[<<d, t>>], "waiting", "pend"}
    BY <1>5, RateLimitedEffect DEF Moves, j
  <2>2. d \in Notices
    BY <1>1, <1>5 DEF RateLimited, Kind, NoticePlaces, j
  <2> QED
    BY <2>1, <2>2 DEF Kind, WebhookPlaces, NoticePlaces
<1>6. CASE WebhookCut(j) \/ NoticeStalls(j)
  <2>1. Moves(d, s, "waiting") \/ Moves(d, s, "idle")
    BY <1>3, <1>6 DEF WebhookCut, NoticeStalls, Cut
  <2> QED
    BY <2>1 DEF Moves, Kind, WebhookPlaces, NoticePlaces
<1>7. CASE Webhook(j)
  <2>1. d \in Webhooks
    BY <1>1, <1>7 DEF Webhook, TakeWebhook, Undecryptable, Deliver, RecordSuccess, ResetFailure,
       RecordFailure, IncrementFailure, CheckThreshold, Disable, Kind, WebhookPlaces, j
  <2>2. \E p \in WebhookPlaces \union {"idle"} : Moves(d, s, p)
    BY <1>3, <1>7 DEF Webhook, TakeWebhook, Undecryptable, Deliver, RecordSuccess, ResetFailure,
       RecordFailure, IncrementFailure, CheckThreshold, Disable, WebhookPlaces
  <2> QED
    BY <1>2, <2>1, <2>2 DEF Moves, Kind, NoticePlaces
<1>8. CASE Notice(j) /\ ~RateLimited(j)
  <2>1. d \in Notices
    BY <1>1, <1>8 DEF Notice, TakeNotice, NoChannel, Send, RecordSent, RecordSentThrows,
       NextAttempt, RateLimitedLast, RecordPending, Deactivate, RecordFailed, RecordThrows,
       Kind, NoticePlaces, j
  <2>2. \E p \in NoticePlaces \union {"idle"} : Moves(d, s, p)
    BY <1>3, <1>8 DEF Notice, TakeNotice, NoChannel, Send, RecordSent, RecordSentThrows,
       NextAttempt, RateLimitedLast, RecordPending, Deactivate, RecordFailed, RecordThrows,
       NoticePlaces
  <2> QED
    BY <1>2, <2>1, <2>2 DEF Moves, Kind, WebhookPlaces
<1> QED
  BY <1>4, <1>5, <1>6, <1>7, <1>8 DEF Step, j

LEMMA OwnTries ==
    ASSUME TypeOK, NEW d \in Rows, NEW s \in Slots, Kind(d), Tries(d), Step(<<d, s>>)
    PROVE  Tries(d)'
<1> DEFINE j == <<d, s>>
<1>0. SUFFICES ASSUME d \in Notices PROVE Tries(d)'
  BY DEF Tries
<1>1. j \in Jobs /\ j[1] = d /\ j[2] = s
  BY DEF Jobs
<1>2. d \notin Webhooks /\ MaxAttempts \in Nat \ {0}
  BY <1>0, RowsAssumption, RetryAssumption
<1>3. \A p : Goto(j, p) => Moves(d, s, p)
  BY GotoMoves
<1>4. /\ attempts[d] \in Nat /\ attempts[d] <= MaxAttempts
      /\ \A t \in Slots : first[<<d, t>>] \in 1..MaxAttempts
      /\ \A t \in Slots : at[<<d, t>>] \in NoticePlaces => attempt[<<d, t>>] \in 1..MaxAttempts
      /\ at[j] \in NoticePlaces => attempt[j] \in 1..MaxAttempts
      /\ first[j] \in 1..MaxAttempts
  BY <1>0, <1>1 DEF Tries, TypeOK
<1> HIDE DEF j
<1>5. CASE Emit(j)
  <2>1. \A t \in Slots : /\ at'[<<d, t>>] \in {at[<<d, t>>], "waiting"}
                         /\ first'[<<d, t>>] \in {first[<<d, t>>], 1}
    BY <1>5, EmitClaimEffect DEF Moves, j
  <2>2. attempts' = attempts /\ attempt' = attempt
    BY <1>5 DEF Emit
  <2> QED
    BY <1>2, <1>4, <2>1, <2>2 DEF Tries, NoticePlaces
<1>6. CASE RateLimited(j)
  <2>2. attempt[j] \in 1..MaxAttempts /\ attempt[j] + 1 \in 1..MaxAttempts
    BY <1>2, <1>4, <1>6 DEF RateLimited, NoticePlaces
  <2>3. \A t \in Slots : /\ at'[<<d, t>>] \in {at[<<d, t>>], "waiting"} \/ t = s
                         /\ first'[<<d, t>>] \in {first[<<d, t>>], attempt[j] + 1}
    BY <1>6, RateLimitedEffect DEF Moves, j
  <2>4. attempts' = attempts /\ attempt' = attempt
    BY <1>6 DEF RateLimited, rowVars
  <2> QED
    BY <1>2, <1>4, <2>2, <2>3, <2>4 DEF Tries, NoticePlaces, j
<1>7. CASE NoticeStalls(j)
  <2>1. Moves(d, s, "waiting") \/ Moves(d, s, "idle")
    BY <1>3, <1>7 DEF NoticeStalls, Cut
  <2>2. UNCHANGED <<attempts, attempt, first>>
    BY <1>7 DEF NoticeStalls, Cut, rowVars
  <2> QED
    BY <1>4, <2>1, <2>2 DEF Moves, Tries, NoticePlaces
<1>8. CASE Notice(j) /\ ~RateLimited(j)
  <2>1. first' = first
    BY <1>8 DEF Notice, TakeNotice, NoChannel, Send, RecordSent, RecordSentThrows,
       NextAttempt, RateLimitedLast, RecordPending, Deactivate, RecordFailed, RecordThrows
  <2>2. \A t \in Slots \ {s} : at'[<<d, t>>] = at[<<d, t>>] /\ attempt'[<<d, t>>] = attempt[<<d, t>>]
    BY <1>1, <1>8 DEF Notice, TakeNotice, NoChannel, Send, RecordSent, RecordSentThrows,
       NextAttempt, RateLimitedLast, RecordPending, Deactivate, RecordFailed, RecordThrows,
       Goto, TypeOK, j, Jobs
  <2>3. at'[j] \in NoticePlaces => attempt'[j] \in 1..MaxAttempts
    <3>1. CASE TakeNotice(j)
      BY <1>1, <1>4, <3>1 DEF TakeNotice, TypeOK
    <3>2. CASE NextAttempt(j)
      BY <1>1, <1>2, <1>4, <3>2 DEF NextAttempt, TypeOK, NoticePlaces
    <3>3. CASE ~TakeNotice(j) /\ ~NextAttempt(j)
      <4>1. attempt' = attempt
        BY <1>8, <3>3 DEF Notice, NoChannel, Send, RecordSent, RecordSentThrows,
           RateLimitedLast, RecordPending, Deactivate, RecordFailed, RecordThrows
      <4>2. at[j] \in NoticePlaces \/ at'[j] = "idle"
        BY <1>1, <1>8, <3>3 DEF Notice, NoChannel, Send, RecordSent, RecordSentThrows,
           RateLimitedLast, RecordPending, Deactivate, RecordFailed, RecordThrows, NoticePlaces,
           Goto, TypeOK
      <4> QED
        BY <1>4, <4>1, <4>2 DEF NoticePlaces
    <3> QED
      BY <3>1, <3>2, <3>3
  <2>4. attempts'[d] <= MaxAttempts
    <3>1. \/ attempts' = attempts
          \/ attempts' = [attempts EXCEPT ![j[1]] = 1]
          \/ at[j] \in NoticePlaces /\ attempts' = [attempts EXCEPT ![j[1]] = attempt[j]]
      BY <1>8 DEF Notice, TakeNotice, NoChannel, Send, RecordSent, RecordSentThrows,
         NextAttempt, RateLimitedLast, RecordPending, Deactivate, RecordFailed, RecordThrows,
         NoticePlaces, rowVars
    <3>2. attempts'[d] \in {attempts[d], 1} \/ (at[j] \in NoticePlaces /\ attempts'[d] = attempt[j])
      BY <1>1, <3>1 DEF TypeOK
    <3> QED
      BY <1>2, <1>4, <3>2
  <2> QED
    BY <1>4, <2>1, <2>2, <2>3, <2>4 DEF Tries, j
<1>9. CASE Claim(j) \/ Webhook(j) \/ WebhookCut(j)
  BY <1>0, <1>1, <1>2, <1>9 DEF Claim, WebhookCut, Webhook, TakeWebhook, Undecryptable, Deliver,
     RecordSuccess, ResetFailure, RecordFailure, IncrementFailure, CheckThreshold, Disable,
     Kind, WebhookPlaces, j
<1> QED
  BY <1>5, <1>6, <1>7, <1>8, <1>9 DEF Step, j

LEMMA OwnHeard ==
    ASSUME TypeOK, NEW d \in Rows, NEW s \in Slots, SuccessIsHeard(d), Step(<<d, s>>)
    PROVE  SuccessIsHeard(d)'
<1> DEFINE j == <<d, s>>
<1>1. j \in Jobs /\ j[1] = d
  BY DEF Jobs
<1>2. heard[d] \in Nat
  BY DEF TypeOK
<1>3. \A p : Goto(j, p) => Moves(d, s, p)
  BY GotoMoves
<1> HIDE DEF j
<1>4. CASE Deliver(j) \/ Send(j)
  <2>1. \/ heard'[d] = heard[d] + 1
        \/ /\ heard'[d] = heard[d]
           /\ \E p \in {"bad", "failing", "limited", "gone", "giveup"} : Moves(d, s, p)
    BY <1>1, <1>3, <1>4 DEF Deliver, Send, Heard, NotHeard, TypeOK
  <2>2. CASE heard'[d] = heard[d] + 1
    BY <1>2, <2>2 DEF SuccessIsHeard
  <2>3. CASE /\ heard'[d] = heard[d]
             /\ \E p \in {"bad", "failing", "limited", "gone", "giveup"} : Moves(d, s, p)
    <3>1. \A t \in Slots : at'[<<d, t>>] \in {"ok", "sent"} => at'[<<d, t>>] = at[<<d, t>>]
      BY <2>3 DEF Moves
    <3> QED
      BY <2>3, <3>1 DEF SuccessIsHeard
  <2> QED
    BY <2>1, <2>2, <2>3
<1>5. CASE ~Deliver(j) /\ ~Send(j)
  <2>1. heard' = heard
    BY <1>5 DEF Step, j, Emit, Claim, Webhook, TakeWebhook, Undecryptable,
       RecordSuccess, ResetFailure, RecordFailure, IncrementFailure, CheckThreshold, Disable,
       Notice, TakeNotice, NoChannel, RecordSent, RecordSentThrows, NextAttempt,
       RateLimited, RateLimitedLast, RecordPending, Deactivate, RecordFailed, RecordThrows,
       WebhookCut, NoticeStalls, Cut, history
  <2>2. \A t \in Slots : at'[<<d, t>>] \in {"ok", "sent"} => at'[<<d, t>>] = at[<<d, t>>]
    <3>1. CASE Emit(j) \/ Claim(j)
      BY <3>1, EmitClaimEffect DEF Moves, j
    <3>2. CASE RateLimited(j)
      BY <3>2, RateLimitedEffect DEF Moves, j
    <3>3. CASE ~Emit(j) /\ ~Claim(j) /\ ~RateLimited(j)
      <4>1. \E p : Moves(d, s, p) /\ p \notin {"ok", "sent"}
        BY <1>3, <1>5, <3>3 DEF Step, j, Webhook, TakeWebhook, Undecryptable,
           RecordSuccess, ResetFailure, RecordFailure, IncrementFailure, CheckThreshold, Disable,
           Notice, TakeNotice, NoChannel, RecordSent, RecordSentThrows, NextAttempt,
           RateLimitedLast, RecordPending, Deactivate, RecordFailed, RecordThrows,
           WebhookCut, NoticeStalls, Cut
      <4> QED
        BY <4>1 DEF Moves
    <3> QED
      BY <3>1, <3>2, <3>3
  <2> QED
    BY <2>1, <2>2 DEF SuccessIsHeard
<1> QED
  BY <1>4, <1>5

\* The row may still be tried.
Open == {"pending", "processing"}

LEMMA OwnTells ==
    ASSUME TypeOK, NEW d \in Rows, NEW s \in Slots, RowInvariant(d), Step(<<d, s>>)
    PROVE  RowTells(d)'
<1> DEFINE j == <<d, s>>
<1>0. SUFFICES ASSUME ~disturbed'[d] PROVE RowTells(d)'
  BY DEF RowTells
<1>1. j \in Jobs /\ j[1] = d /\ j[2] = s /\ \A t \in Slots : <<d, t>> \in Jobs
  BY DEF Jobs
<1>2. /\ MaxRetries \in Nat /\ attempts[d] \in Nat /\ heard[d] \in Nat /\ attempt[j] \in Nat
      /\ retryAt[d] \in BOOLEAN
      /\ Webhooks \intersect Notices = {}
  BY <1>1, RetryAssumption, RowsAssumption DEF TypeOK
<1>3. ~disturbed[d]
  BY <1>0, <1>1 DEF Step, Emit, Claim, Webhook, TakeWebhook, Undecryptable, Deliver,
     RecordSuccess, ResetFailure, RecordFailure, IncrementFailure, CheckThreshold, Disable,
     Notice, TakeNotice, NoChannel, Send, RecordSent, RecordSentThrows, NextAttempt,
     RateLimited, RateLimitedLast, RecordPending, Deactivate, RecordFailed, RecordThrows,
     WebhookCut, NoticeStalls, Cut, TypeOK, history
<1>4. /\ heard[d] <= 1
      /\ \A t, u \in Slots : Carrying(<<d, t>>) /\ Carrying(<<d, u>>) => t = u
      /\ \A t \in Slots : Carrying(<<d, t>>) =>
            heard[d] = IF at[<<d, t>>] \in {"ok", "sent"} THEN 1 ELSE 0
      /\ status[d] = "none" => /\ \A t \in Slots : at[<<d, t>>] = "idle"
                               /\ heard[d] = 0 /\ ~retryAt[d]
      /\ d \in Webhooks /\ status[d] = "pending" /\ retryAt[d] =>
            (\A t \in Slots : ~Carrying(<<d, t>>)) /\ heard[d] = 0
      /\ \A t \in Slots : Carrying(<<d, t>>) => status[d] \in Open
      /\ d \in Webhooks => /\ attempts[d] <= MaxRetries + 1
                           /\ status[d] \in {"none", "pending", "processing"} =>
                                  attempts[d] <= MaxRetries
                           /\ \A t \in Slots : at[<<d, t>>] \in {"loaded", "ok", "bad"} =>
                                  attempt[<<d, t>>] = attempts[d]
  BY <1>3 DEF RowInvariant, RowTells, OneCarrier, CarrierTells, Unclaimed, CarriedIsOpen,
     WebhookTries, Open
<1>5. Kind(d)
  BY DEF RowInvariant
<1>6. SUFFICES
      /\ heard'[d] <= 1
      /\ \A t, u \in Slots : Carrying(<<d, t>>)' /\ Carrying(<<d, u>>)' => t = u
      /\ \A t \in Slots : Carrying(<<d, t>>)' =>
            heard'[d] = IF at'[<<d, t>>] \in {"ok", "sent"} THEN 1 ELSE 0
      /\ status'[d] = "none" => /\ \A t \in Slots : at'[<<d, t>>] = "idle"
                                /\ heard'[d] = 0 /\ ~retryAt'[d]
      /\ d \in Webhooks /\ status'[d] = "pending" /\ retryAt'[d] =>
            (\A t \in Slots : ~Carrying(<<d, t>>)') /\ heard'[d] = 0
      /\ \A t \in Slots : Carrying(<<d, t>>)' => status'[d] \in Open
      /\ d \in Webhooks => /\ attempts'[d] <= MaxRetries + 1
                           /\ status'[d] \in {"none", "pending", "processing"} =>
                                  attempts'[d] <= MaxRetries
                           /\ \A t \in Slots : at'[<<d, t>>] \in {"loaded", "ok", "bad"} =>
                                  attempt'[<<d, t>>] = attempts'[d]
  BY DEF RowTells, OneCarrier, CarrierTells, Unclaimed, CarriedIsOpen, WebhookTries, Open
<1>7. \A p : Goto(j, p) => Moves(d, s, p)
  BY GotoMoves
<1>8. d \in Notices => d \notin Webhooks
  BY <1>2
<1> HIDE DEF j
<1>9. CASE Emit(j) \/ Claim(j)
  <2>1. \/ /\ at[j] = "idle" /\ Moves(d, s, "waiting")
        \/ at' = at
    BY <1>9, EmitClaimEffect DEF j
  <2>2. \A t \in Slots : ~Carrying(<<d, t>>)
    BY <1>1, <1>4, <1>9 DEF Emit, Claim, Carrying
  <2>3. heard[d] = 0
    BY <1>1, <1>4, <1>9 DEF Emit, Claim
  <2>4. \A t \in Slots : Carrying(<<d, t>>)' => t = s /\ at'[<<d, t>>] = "waiting"
    BY <2>1, <2>2 DEF Moves, Carrying
  <2>5. /\ heard'[d] = 0 /\ attempts'[d] = attempts[d] /\ retryAt'[d] = retryAt[d]
        /\ status'[d] \in Open /\ (d \in Webhooks /\ status'[d] = "pending" => ~retryAt'[d])
        /\ status[d] \in {"none", "pending", "processing"}
    BY <1>1, <1>4, <1>9, <2>3 DEF Emit, Claim, SetStatus, TypeOK, Open
  <2>6. \A t \in Slots : at'[<<d, t>>] \notin {"loaded", "ok", "bad"}
    BY <2>1, <2>2 DEF Moves, Carrying, j
  <2> QED
    BY <1>2, <1>4, <2>4, <2>5, <2>6 DEF Open
<1>10. CASE Webhook(j)
  <2>1. d \in Webhooks /\ j[1] = d /\ d \in Rows
    BY <1>1, <1>5, <1>10 DEF Webhook, TakeWebhook, Undecryptable, Deliver, RecordSuccess,
       ResetFailure, RecordFailure, IncrementFailure, CheckThreshold, Disable,
       Kind, WebhookPlaces, j
  <2>2. status[d] # "none"
    BY <1>1, <1>4, <1>10 DEF Webhook, TakeWebhook, Undecryptable, Deliver, RecordSuccess,
       ResetFailure, RecordFailure, IncrementFailure, CheckThreshold, Disable, j
  <2>3. CASE TakeWebhook(j)
    <3>1. /\ Moves(d, s, "loaded") /\ at[j] = "waiting"
          /\ UNCHANGED <<status, attempts, retryAt, heard>>
          /\ attempt'[j] = attempts[d]
          /\ \A t \in Slots \ {s} : attempt'[<<d, t>>] = attempt[<<d, t>>]
      BY <1>1, <1>7, <2>3 DEF TakeWebhook, TypeOK, rowVars, history, j
    <3> QED
      BY <1>4, <2>1, <2>2, <3>1 DEF Moves, Carrying, j
  <2>4. CASE Undecryptable(j)
    <3>1. /\ Moves(d, s, "idle") /\ at[j] = "loaded"
          /\ UNCHANGED <<retryAt, heard, attempt>>
          /\ status'[d] = "failed" /\ attempts'[d] = attempt[j] + 1
      BY <1>1, <1>7, <2>1, <2>4 DEF Undecryptable, SetStatus, TypeOK, history
    <3>2. attempt[j] = attempts[d] /\ attempts[d] <= MaxRetries
      BY <1>4, <2>1, <3>1 DEF Carrying, Open, j
    <3>3. \A t \in Slots : ~Carrying(<<d, t>>)'
      BY <1>4, <3>1 DEF Moves, Carrying, j
    <3> QED
      BY <1>2, <1>4, <3>1, <3>2, <3>3 DEF Carrying
  <2>5. CASE Deliver(j)
    <3>1. /\ at[j] = "loaded"
          /\ UNCHANGED <<status, attempts, retryAt, attempt>>
          /\ \/ Moves(d, s, "ok") /\ heard'[d] = heard[d] + 1
             \/ Moves(d, s, "bad") /\ heard'[d] = heard[d]
      BY <1>1, <1>7, <2>1, <2>5 DEF Deliver, Heard, NotHeard, TypeOK, rowVars
    <3>2. heard[d] = 0
      BY <1>4, <3>1 DEF Carrying, j
    <3> QED
      BY <1>2, <1>4, <2>1, <2>2, <3>1, <3>2 DEF Moves, Carrying, Open, j
  <2>6. CASE RecordSuccess(j)
    <3>1. /\ Moves(d, s, "reset") /\ at[j] = "ok"
          /\ UNCHANGED <<retryAt, heard, attempt>>
          /\ status'[d] = "success" /\ attempts'[d] = attempt[j] + 1
      BY <1>1, <1>7, <2>1, <2>6 DEF RecordSuccess, SetStatus, TypeOK, history
    <3>2. attempt[j] = attempts[d] /\ attempts[d] <= MaxRetries
      BY <1>4, <2>1, <3>1 DEF Carrying, Open, j
    <3>3. \A t \in Slots : ~Carrying(<<d, t>>)'
      BY <1>4, <3>1 DEF Moves, Carrying, j
    <3> QED
      BY <1>2, <1>4, <3>1, <3>2, <3>3 DEF Carrying
  <2>7. CASE RecordFailure(j)
    <3>1. /\ Moves(d, s, "count") /\ at[j] = "bad"
          /\ UNCHANGED <<heard, attempt>>
          /\ attempts'[d] = attempt[j] + 1
          /\ status'[d] = IF attempt[j] < MaxRetries THEN "pending" ELSE "failed"
      BY <1>1, <1>7, <2>1, <2>7 DEF RecordFailure, SetStatus, TypeOK, history
    <3>2. attempt[j] = attempts[d] /\ attempts[d] <= MaxRetries /\ heard[d] = 0
      BY <1>4, <2>1, <3>1 DEF Carrying, Open, j
    <3>3. \A t \in Slots : ~Carrying(<<d, t>>)'
      BY <1>4, <3>1 DEF Moves, Carrying, j
    <3> QED
      BY <1>2, <1>4, <3>1, <3>2, <3>3 DEF Carrying
  <2>8. CASE ResetFailure(j) \/ IncrementFailure(j) \/ CheckThreshold(j) \/ Disable(j)
    <3>1. /\ \E p \in {"idle", "check", "disable"} : Moves(d, s, p)
          /\ UNCHANGED <<status, attempts, retryAt, heard, attempt>>
      BY <1>7, <2>8 DEF ResetFailure, IncrementFailure, CheckThreshold, Disable, rowVars, history
    <3>2. ~Carrying(<<d, s>>)' /\ at'[<<d, s>>] \notin {"loaded", "ok", "bad"}
      BY <3>1 DEF Moves, Carrying
    <3>3. \A t \in Slots \ {s} : /\ Carrying(<<d, t>>)' <=> Carrying(<<d, t>>)
                                 /\ at'[<<d, t>>] = at[<<d, t>>]
      BY <3>1 DEF Moves, Carrying
    <3> QED
      BY <1>4, <2>1, <2>2, <3>1, <3>2, <3>3
  <2> QED
    BY <1>10, <2>3, <2>4, <2>5, <2>6, <2>7, <2>8 DEF Webhook
<1>11. CASE RateLimited(j)
  <2>1. /\ d \in Notices /\ d \notin Webhooks
        /\ at[j] = "limited"
        /\ UNCHANGED <<status, attempts, retryAt, heard>>
    BY <1>1, <1>5, <1>8, <1>11 DEF RateLimited, Kind, NoticePlaces, rowVars, j
  <2>2. status[d] # "none" /\ status[d] \in Open /\ heard[d] = 0
    BY <1>4, <2>1 DEF Carrying, j
  <2>3. \A t \in Slots \ {s} : ~Carrying(<<d, t>>)
    BY <1>4, <2>1 DEF Carrying, j
  <2>4. \/ \E u \in Slots \ {s} :
                /\ at'[<<d, u>>] = "waiting" /\ at'[<<d, s>>] = "pend"
                /\ \A t \in Slots \ {s, u} : at'[<<d, t>>] = at[<<d, t>>]
        \/ Moves(d, s, "pend")
    BY <1>11, RateLimitedEffect DEF j
  <2>5. \E u \in Slots : \A t \in Slots : Carrying(<<d, t>>)' => t = u /\ at'[<<d, t>>] = "waiting"
    BY <2>3, <2>4 DEF Moves, Carrying
  <2> QED
    BY <2>1, <2>2, <2>5
<1>12. CASE Notice(j) /\ ~RateLimited(j)
  <2>1. d \in Notices /\ d \notin Webhooks /\ status[d] # "none" /\ j[1] = d /\ d \in Rows
    BY <1>1, <1>4, <1>5, <1>8, <1>12 DEF Notice, TakeNotice, NoChannel, Send, RecordSent,
       RecordSentThrows, NextAttempt, RateLimitedLast, RecordPending, Deactivate, RecordFailed,
       RecordThrows, Kind, NoticePlaces, j
  <2>2. status'[d] # "none"
    BY <2>1, <1>12 DEF Notice, TakeNotice, NoChannel, Send, RecordSent,
       RecordSentThrows, NextAttempt, RateLimitedLast, RecordPending, Deactivate, RecordFailed,
       RecordThrows, SetStatus, TypeOK, rowVars
  <2>3. SUFFICES /\ heard'[d] <= 1
                 /\ \A t, u \in Slots : Carrying(<<d, t>>)' /\ Carrying(<<d, u>>)' => t = u
                 /\ \A t \in Slots : Carrying(<<d, t>>)' =>
                       /\ heard'[d] = IF at'[<<d, t>>] \in {"ok", "sent"} THEN 1 ELSE 0
                       /\ status'[d] \in Open
    BY <2>1, <2>2
  <2>4. CASE Send(j)
    <3>1. /\ at[j] = "send" /\ status' = status
          /\ \/ Moves(d, s, "sent") /\ heard'[d] = heard[d] + 1
             \/ /\ heard'[d] = heard[d]
                /\ \E p \in {"failing", "limited", "gone", "giveup"} : Moves(d, s, p)
      BY <1>7, <2>1, <2>4 DEF Send, Heard, NotHeard, TypeOK, rowVars
    <3>2. heard[d] = 0 /\ status[d] \in Open /\ \A t \in Slots \ {s} : ~Carrying(<<d, t>>)
      BY <1>4, <3>1 DEF Carrying, j
    <3> QED
      BY <3>1, <3>2 DEF Moves, Carrying
  <2>5. CASE RecordSentThrows(j) \/ RecordThrows(j)
    BY <1>0, <2>1, <2>5 DEF RecordSentThrows, RecordThrows, TypeOK
  <2>6. CASE ~Send(j) /\ ~RecordSentThrows(j) /\ ~RecordThrows(j)
    <3>1. heard' = heard
      BY <1>12, <2>6 DEF Notice, TakeNotice, NoChannel, RecordSent, NextAttempt,
         RateLimitedLast, RecordPending, Deactivate, RecordFailed, history
    <3>2. \/ /\ Moves(d, s, "idle")
             /\ at[j] \in {"waiting", "sent", "giveup"} \/ status'[d] = "pending"
          \/ /\ at[j] \in {"waiting", "failing", "limited", "gone"} /\ status' = status
             /\ \E p \in {"send", "giveup"} : Moves(d, s, p)
      BY <1>7, <1>12, <2>1, <2>6 DEF Notice, TakeNotice, NoChannel, RecordSent, NextAttempt,
         RateLimitedLast, RecordPending, Deactivate, RecordFailed, SetStatus, TypeOK, rowVars
    <3>3. CASE /\ Moves(d, s, "idle")
               /\ at[j] \in {"waiting", "sent", "giveup"} \/ status'[d] = "pending"
      <4>0. at[j] \in {"waiting", "sent", "giveup"} => \A t \in Slots \ {s} : ~Carrying(<<d, t>>)
        BY <1>4 DEF Carrying, j
      <4>1. \A t \in Slots : Carrying(<<d, t>>)' =>
                t # s /\ Carrying(<<d, t>>) /\ at'[<<d, t>>] = at[<<d, t>>]
        BY <3>3 DEF Moves, Carrying
      <4> QED
        BY <1>4, <3>1, <3>3, <4>0, <4>1 DEF Open
    <3>4. CASE /\ at[j] \in {"waiting", "failing", "limited", "gone"} /\ status' = status
               /\ \E p \in {"send", "giveup"} : Moves(d, s, p)
      <4>1. /\ heard[d] = 0 /\ status[d] \in Open
            /\ \A t \in Slots \ {s} : ~Carrying(<<d, t>>)
        BY <1>4, <3>4 DEF Carrying, j
      <4> QED
        BY <3>1, <3>4, <4>1 DEF Moves, Carrying
    <3> QED
      BY <3>2, <3>3, <3>4
  <2> QED
    BY <2>4, <2>5, <2>6
<1>13. CASE WebhookCut(j) \/ NoticeStalls(j)
  BY <1>0, <1>1, <1>13 DEF WebhookCut, NoticeStalls, Cut, TypeOK
<1> QED
  BY <1>9, <1>10, <1>11, <1>12, <1>13 DEF Step, j

LEMMA Induction == MessagingInvariant /\ [Next]_vars => MessagingInvariant'
<1> SUFFICES ASSUME MessagingInvariant, [Next]_vars PROVE MessagingInvariant'
  OBVIOUS
<1>1. TypeOK /\ TypeOK' /\ \A d \in Rows : RowInvariant(d)
  BY ByRows, NextType
<1>2. CASE UNCHANGED vars
  <2>1. \A d \in Rows : Kept(d)
    BY <1>2 DEF vars, rowVars, jobVars, history, Kept
  <2> QED
    BY <1>1, <2>1, KeptRow, ByRowsPrime
<1>3. CASE Next
  <2>1. PICK d \in Rows, s \in Slots : Step(<<d, s>>)
    BY <1>3 DEF Next, Step, Jobs
  <2>2. \A e \in Rows \ {d} : RowInvariant(e)'
    BY <1>1, <2>1, OtherRows, KeptRow
  <2>3. Kind(d) /\ Tries(d)
    BY <1>1 DEF RowInvariant
  <2>4. RowInvariant(d)'
    BY <1>1, <2>1, <2>3, OwnKind, OwnTries, OwnHeard, OwnTells DEF RowInvariant
  <2> QED
    BY <1>1, <2>2, <2>4, ByRowsPrime
<1> QED
  BY <1>2, <1>3

------------------------------------------------------------------------------
(* For any events' rows, targets and bounds: a row none of whose runs was    *)
(* cut short is carried by one job, which tells whether a success was heard, *)
(* and retries keep to their bound, however many answers are lost.           *)
THEOREM MessagingSound == Spec => []MessagingInvariant
BY InitInvariant, Induction, PTL DEF Spec

\* Only a send changes what a receiver took, and a send is made by a job that
\* carries its row.
LEMMA TakenBySend ==
    ASSUME TypeOK, NEW d \in Rows, NEW s \in Slots, Step(<<d, s>>),
           NEW e \in Rows, Taken(e)' > Taken(e)
    PROVE  e = d /\ Carrying(<<d, s>>) /\ at[<<d, s>>] \notin {"ok", "sent"}
<1> DEFINE j == <<d, s>>
<1>1. Deliver(j) \/ Send(j)
  <2>1. CASE UNCHANGED <<heard, unheard>>
    BY <2>1 DEF Taken, TypeOK
  <2>2. ~Deliver(j) /\ ~Send(j) => UNCHANGED <<heard, unheard>>
    BY DEF Step, Emit, Claim, Webhook, TakeWebhook, Undecryptable,
       RecordSuccess, ResetFailure, RecordFailure, IncrementFailure, CheckThreshold, Disable,
       Notice, TakeNotice, NoChannel, RecordSent, RecordSentThrows, NextAttempt,
       RateLimited, RateLimitedLast, RecordPending, Deactivate, RecordFailed, RecordThrows,
       WebhookCut, NoticeStalls, Cut, history
  <2> QED
    BY <2>1, <2>2
<1>2. Carrying(j) /\ at[j] \notin {"ok", "sent"}
  BY <1>1 DEF Deliver, Send, Carrying
<1>3. ASSUME e # d PROVE heard'[e] = heard[e] /\ unheard'[e] = unheard[e]
  BY <1>1, <1>3 DEF Deliver, Send, Heard, NotHeard, TypeOK
<1>4. e = d
  BY <1>3 DEF Taken, TypeOK
<1> QED
  BY <1>2, <1>4

(* After a success that was heard, the receiver takes the message again only *)
(* if a database error or a death has cut a run of its jobs short: deliver   *)
(* and retry, claim and rate limit add nothing to what is known to be done.  *)
THEOREM SentOnce == Spec => AcceptedOnce
<1>1. ASSUME MessagingInvariant, Next, NEW e \in Rows, heard[e] > 0, Taken(e)' > Taken(e)
      PROVE  disturbed[e]
  <2>1. PICK d \in Rows, s \in Slots : Step(<<d, s>>)
    BY <1>1 DEF Next, Step, Jobs
  <2>2. e = d /\ Carrying(<<d, s>>) /\ at[<<d, s>>] \notin {"ok", "sent"}
    BY <1>1, <2>1, TakenBySend DEF MessagingInvariant
  <2>3. ~disturbed[d] => heard[d] = 0
    BY <1>1, <2>2 DEF MessagingInvariant, RowTells, CarrierTells
  <2> QED
    BY <1>1, <2>2, <2>3
<1>2. MessagingInvariant /\ [Next]_vars =>
        [\A d \in Rows : heard[d] > 0 /\ Taken(d)' > Taken(d) => disturbed[d]]_vars
  BY <1>1
<1> QED
  BY <1>2, MessagingSound, PTL DEF Spec, AcceptedOnce
------------------------------------------------------------------------------
(* The refinement of Deliveries: Emit is a Begin, a send that the receiver   *)
(* takes a Take, what the handlers record a Succeed, a Fail or a Reopen, an error  *)
(* or a death a CutShort; jobs, counters and targets stutter.                *)

Says == [d \in Rows |-> Told(d)]

LEMMA SameRows == Implements!Rows = Rows
  BY DEF Implements!Rows, Rows

\* What a record of a status changes of what the rows say.
LEMMA Records ==
    ASSUME TypeOK, NEW d \in Rows,
           NEW v \in {"pending", "processing", "success", "failed"}, SetStatus(d, v)
    PROVE  Says' = [Says EXCEPT ![d] = IF v \in {"pending", "processing"} THEN "open" ELSE v]
<1>1. status'[d] = v /\ \A e \in Rows \ {d} : status'[e] = status[e]
  BY DEF TypeOK, SetStatus
<1>2. Told(d)' = IF v \in {"pending", "processing"} THEN "open" ELSE v
  BY <1>1 DEF Told
<1>3. \A e \in Rows \ {d} : Told(e)' = Told(e)
  BY <1>1 DEF Told
<1> QED
  BY <1>2, <1>3 DEF Says

\* A step of what the jobs do besides.
LEMMA Stutters ==
    ASSUME UNCHANGED <<status, heard, unheard, disturbed>>
    PROVE  UNCHANGED Implements!deliveries
  BY DEF Implements!deliveries, Told

\* As long as no run was cut short, a row that is carried is open, and no
\* success was heard unless the job is on its way to record it.
LEMMA CarriedRow ==
    ASSUME MessagingInvariant, NEW d \in Rows, NEW s \in Slots, Carrying(<<d, s>>),
           ~disturbed[d]
    PROVE  /\ Told(d) = "open" /\ Says[d] = "open"
           /\ at[<<d, s>>] \notin {"ok", "sent"} => heard[d] = 0
<1>1. status[d] \in {"pending", "processing"}
  BY DEF MessagingInvariant, RowTells, CarriedIsOpen
<1>2. at[<<d, s>>] \notin {"ok", "sent"} => heard[d] = 0
  BY DEF MessagingInvariant, RowTells, CarrierTells
<1> QED
  BY <1>1, <1>2 DEF Told, Says

LEMMA TakeRefines ==
    ASSUME MessagingInvariant, NEW d \in Rows, NEW s \in Slots,
           Deliver(<<d, s>>) \/ Send(<<d, s>>)
    PROVE  [Implements!DeliveriesNext]_(Implements!deliveries)
<1> DEFINE j == <<d, s>>
<1>1. j[1] = d /\ Carrying(j) /\ at[j] \notin {"ok", "sent"} /\ UNCHANGED <<status, disturbed>>
  BY DEF Deliver, Send, Carrying, rowVars
<1>2. CASE UNCHANGED <<heard, unheard>>
  BY <1>1, <1>2, Stutters
<1>3. CASE \/ heard' = [heard EXCEPT ![d] = @ + 1] /\ UNCHANGED unheard
           \/ unheard' = [unheard EXCEPT ![d] = @ + 1] /\ UNCHANGED heard
  <2>1. disturbed[d] \/ (Says[d] = "open" /\ heard[d] = 0)
    BY <1>1, CarriedRow
  <2>2. Says' = Says
    BY <1>1 DEF Says, Told
  <2>3. Implements!Take(d)
    BY <1>1, <1>3, <2>1, <2>2 DEF Implements!Take, Implements!Unanswered, Says
  <2> QED
    BY <2>3, SameRows DEF Implements!DeliveriesNext
<1> QED
  BY <1>1, <1>2, <1>3 DEF Deliver, Send, Heard, NotHeard

LEMMA SuccessRefines ==
    ASSUME MessagingInvariant, NEW d \in Rows, NEW s \in Slots,
           RecordSuccess(<<d, s>>) \/ RecordSent(<<d, s>>)
    PROVE  [Implements!DeliveriesNext]_(Implements!deliveries)
<1> DEFINE j == <<d, s>>
<1>1. /\ j[1] = d /\ Carrying(j) /\ at[j] \in {"ok", "sent"}
      /\ SetStatus(d, "success") /\ UNCHANGED <<heard, unheard, disturbed>>
  BY DEF RecordSuccess, RecordSent, Carrying, history
<1>2. heard[d] > 0
  BY <1>1 DEF MessagingInvariant, SuccessIsHeard
<1>3. disturbed[d] \/ Says[d] = "open"
  BY <1>1, CarriedRow
<1>4. Says' = [Says EXCEPT ![d] = "success"]
  BY <1>1, Records DEF MessagingInvariant
<1>5. Implements!Succeed(d)
  BY <1>1, <1>2, <1>3, <1>4 DEF Implements!Succeed, Says
<1> QED
  BY <1>5, SameRows DEF Implements!DeliveriesNext

\* A failure that ends the row, or one to be retried.
LEMMA FailureRefines ==
    ASSUME MessagingInvariant, NEW d \in Rows, NEW s \in Slots,
           \/ Undecryptable(<<d, s>>) \/ RecordFailure(<<d, s>>)
           \/ NoChannel(<<d, s>>) \/ RecordFailed(<<d, s>>)
    PROVE  [Implements!DeliveriesNext]_(Implements!deliveries)
<1> DEFINE j == <<d, s>>
<1>1. /\ j[1] = d /\ Carrying(j) /\ at[j] \notin {"ok", "sent"}
      /\ SetStatus(d, "failed") \/ SetStatus(d, "pending")
      /\ UNCHANGED <<heard, unheard, disturbed>>
  BY DEF Undecryptable, RecordFailure, NoChannel, RecordFailed, Carrying, history
<1>2. disturbed[d] \/ (Says[d] = "open" /\ heard[d] = 0)
  BY <1>1, CarriedRow
<1>3. CASE SetStatus(d, "failed")
  <2>1. Says' = [Says EXCEPT ![d] = "failed"]
    BY <1>3, Records DEF MessagingInvariant
  <2>2. Implements!Fail(d)
    BY <1>1, <1>2, <2>1 DEF Implements!Fail, Implements!Unanswered, Says
  <2> QED
    BY <2>2, SameRows DEF Implements!DeliveriesNext
<1>4. CASE SetStatus(d, "pending")
  <2>1. Says' = [Says EXCEPT ![d] = "open"]
    BY <1>4, Records DEF MessagingInvariant
  <2>2. CASE Says[d] = "open"
    <3>1. Says' = Says
      BY <2>1, <2>2 DEF Says
    <3> QED
      BY <1>1, <3>1 DEF Implements!deliveries, Says
  <2>3. CASE disturbed[d]
    <3>1. Implements!Reopen(d)
      BY <1>1, <2>1, <2>3 DEF Implements!Reopen, Says
    <3> QED
      BY <3>1, SameRows DEF Implements!DeliveriesNext
  <2> QED
    BY <1>2, <2>2, <2>3
<1> QED
  BY <1>1, <1>3, <1>4

\* The late record of a run whose delayed job may have ended the row already.
LEMMA PendingRefines ==
    ASSUME MessagingInvariant, NEW d \in Rows, NEW s \in Slots, RecordPending(<<d, s>>)
    PROVE  [Implements!DeliveriesNext]_(Implements!deliveries)
<1> DEFINE j == <<d, s>>
<1>1. /\ j \in Jobs /\ j[1] = d /\ at[j] = "pend"
      /\ SetStatus(d, "pending") /\ UNCHANGED <<heard, unheard, disturbed>>
  BY DEF RecordPending, Jobs
<1>2. d \in Notices
  BY <1>1 DEF MessagingInvariant, PlacesByKind, NoticePlaces
<1>3. Says' = [Says EXCEPT ![d] = "open"]
  BY <1>1, Records DEF MessagingInvariant
<1>4. Implements!Reopen(d)
  BY <1>1, <1>2, <1>3 DEF Implements!Reopen, Says
<1> QED
  BY <1>4, SameRows DEF Implements!DeliveriesNext

LEMMA CutRefines ==
    ASSUME NEW d \in Rows, NEW s \in Slots,
           \/ WebhookCut(<<d, s>>) \/ NoticeStalls(<<d, s>>)
           \/ RecordSentThrows(<<d, s>>) \/ RecordThrows(<<d, s>>)
    PROVE  [Implements!DeliveriesNext]_(Implements!deliveries)
<1>1. /\ disturbed' = [disturbed EXCEPT ![d] = TRUE]
      /\ UNCHANGED <<status, heard, unheard>>
  BY DEF WebhookCut, NoticeStalls, Cut, RecordSentThrows, RecordThrows, rowVars
<1>2. Says' = Says
  BY <1>1 DEF Says, Told
<1>3. Implements!CutShort(d)
  BY <1>1, <1>2 DEF Implements!CutShort, Says
<1> QED
  BY <1>3, SameRows DEF Implements!DeliveriesNext

\* A row begins, or is claimed for a retry.
LEMMA EmitClaimRefines ==
    ASSUME MessagingInvariant, NEW d \in Rows, NEW s \in Slots, Emit(<<d, s>>) \/ Claim(<<d, s>>)
    PROVE  [Implements!DeliveriesNext]_(Implements!deliveries)
<1> DEFINE j == <<d, s>>
<1>1. j[1] = d /\ UNCHANGED <<heard, unheard, disturbed>>
  BY DEF Emit, Claim
<1>2. CASE Emit(j)
  <2>1. status[d] = "none" /\ SetStatus(d, "pending")
    BY <1>2 DEF Emit
  <2>2. Says[d] = "none" /\ Says' = [Says EXCEPT ![d] = "open"]
    BY <2>1, Records DEF MessagingInvariant, Says, Told
  <2>3. Implements!Begin(d)
    BY <1>1, <2>2 DEF Implements!Begin, Says
  <2> QED
    BY <2>3, SameRows DEF Implements!DeliveriesNext
<1>3. CASE Claim(j)
  <2>1. status[d] = "pending" /\ SetStatus(d, "processing")
    BY <1>3 DEF Claim
  <2>2. Says[d] = "open" /\ Says' = [Says EXCEPT ![d] = "open"]
    BY <2>1, Records DEF MessagingInvariant, Says, Told
  <2>3. Says' = Says
    BY <2>2 DEF Says
  <2> QED
    BY <1>1, <2>3 DEF Implements!deliveries, Says
<1> QED
  BY <1>2, <1>3

LEMMA StepRefines ==
    ASSUME MessagingInvariant, NEW d \in Rows, NEW s \in Slots, Step(<<d, s>>)
    PROVE  [Implements!DeliveriesNext]_(Implements!deliveries)
<1> DEFINE j == <<d, s>>
<1>1. CASE \/ TakeWebhook(j) \/ ResetFailure(j) \/ IncrementFailure(j) \/ CheckThreshold(j)
           \/ Disable(j) \/ TakeNotice(j) \/ NextAttempt(j) \/ RateLimited(j)
           \/ RateLimitedLast(j) \/ Deactivate(j)
  <2>1. UNCHANGED <<status, heard, unheard, disturbed>>
    BY <1>1 DEF TakeWebhook, ResetFailure, IncrementFailure, CheckThreshold, Disable, TakeNotice,
       NextAttempt, RateLimited, RateLimitedLast, Deactivate, rowVars, history
  <2> QED
    BY <2>1, Stutters
<1> QED
  BY <1>1, EmitClaimRefines, TakeRefines, SuccessRefines, FailureRefines, PendingRefines,
     CutRefines DEF Step, Webhook, Notice

(* Whatever jobs are lost, stalled, retried, claimed or delayed, a row says *)
(* what was heard of its receiver: a success is one that was heard, and as  *)
(* long as no run was cut short one was heard once, and nothing was taken   *)
(* after it; a failure is one of which no success was heard.                *)
THEOREM Refinement == Spec => DeliveryPromise
<1>1. Init => Implements!DeliveriesInit
  <2>1. Init => \A d \in Rows : Told(d) = "none"
    BY DEF Init, Told
  <2> QED
    BY <2>1, SameRows DEF Init, Implements!DeliveriesInit
<1>2. MessagingInvariant /\ [Next]_vars
        => [Implements!DeliveriesNext]_(Implements!deliveries)
  <2>1. CASE UNCHANGED vars
    BY <2>1, Stutters DEF vars, rowVars, history
  <2>2. ASSUME MessagingInvariant, Next
        PROVE  [Implements!DeliveriesNext]_(Implements!deliveries)
    <3>1. PICK d \in Rows, s \in Slots : Step(<<d, s>>)
      BY <2>2 DEF Next, Step, Jobs
    <3> QED
      BY <2>2, <3>1, StepRefines
  <2> QED
    BY <2>1, <2>2
<1> QED
  BY <1>1, <1>2, MessagingSound, PTL DEF Spec, DeliveryPromise, Implements!DeliveriesSpec
==============================================================================
