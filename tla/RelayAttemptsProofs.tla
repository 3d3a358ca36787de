-------------------------- MODULE RelayAttemptsProofs --------------------------
(***************************************************************************)
(* What holds of a request for any number of candidates and attempts: one  *)
(* slot at a time, an end that is settled, and marks that are earned.      *)
(***************************************************************************)
EXTENDS RelayAttempts, TLAPS

LEMMA AttemptsAreNumbers ==
    /\ Attempts \subseteq Nat
    /\ 1 \in Attempts
    BY AttemptsAssumption, SMT DEF AttemptsAssumption, Attempts

\* The candidate after this one is an attempt when NextCandidate takes it.
LEMMA NextIsAttempt ==
    ASSUME resolved \in 0..Candidates, attempt \in Attempts,
           attempt + 1 <= resolved, attempt + 1 <= MaxAttempts
    PROVE  attempt + 1 \in Attempts
    BY AttemptsAssumption, SMT DEF AttemptsAssumption, Attempts

USE AttemptsAreNumbers

LEMMA InitShape == Init => RelayInvariant
<1>1. SUFFICES ASSUME Init PROVE RelayInvariant
    OBVIOUS
<1> USE AttemptsAssumption DEF Init, Held, Dropped, Bodiless, Committed, Waiting, Working, Untouched, GivenUp,
        Consumer, PassesThrough, AttemptsAssumption
<1>2. TypeOK
    <2>1. slot \in [Attempts -> Slots]
        BY <1>1 DEF Slots
    <2>2. /\ returns \in [Attempts -> Nat] /\ failed \in [Attempts -> Nat]
          /\ passed \in [Attempts -> Nat] /\ bills \in [Attempts -> Nat]
        BY <1>1
    <2>3. route \in Routes /\ stream \in BOOLEAN /\ resolved \in 0..Candidates /\ handed \subseteq Attempts
        BY <1>1
    <2>4. /\ attempt \in Attempts
          /\ pc \in Places
          /\ accepted \in BOOLEAN
          /\ answer \in Answers
          /\ reason \in Reasons
          /\ cancelled \in {"no", "writing", "yes"}
          /\ broken \in BOOLEAN
        BY <1>1 DEF Places, Answers, Reasons
    <2> QED
        BY <2>1, <2>2, <2>3, <2>4 DEF TypeOK
<1>3. RelayShape
    BY <1>1, SMT DEF RelayShape, SlotShape, MarkShape, AnswerShape, BillShape, ReasonShape
<1>4. OneSlotHeld
    BY <1>1, SMT DEF OneSlotHeld
<1>5. OverIsSettled
    BY <1>1, SMT DEF OverIsSettled
<1>6. MarksAreEarned
    <2>1. ASSUME NEW a \in Attempts
          PROVE  /\ failed[a] = 0 /\ passed[a] = 0 /\ slot[a] = "unasked"
                 /\ a \in Nat /\ ~(a < attempt)
        BY <1>1, SMT DEF Attempts
    <2> QED
        BY <1>1, <2>1, SMT DEF MarksAreEarned
<1> QED
    BY <1>2, <1>3, <1>4, <1>5, <1>6 DEF RelayInvariant

\* A response whose lease is handed to the proxy.
LEMMA HandOverShape ==
    ASSUME RelayInvariant, pc = "fetching", HandOver,
           UNCHANGED <<loopVars, attempt, accepted, markVars, bills, streamVars>>
    PROVE  RelayInvariant'
<1> USE DEF RelayInvariant, RelayShape, HandOver, loopVars, markVars, streamVars, Held, Dropped,
        GivenUp, Bodiless, Committed, Waiting, Working, Untouched, Consumer, PassesThrough
<1>1. TypeOK'
    BY SMT DEF TypeOK, Routes, Places, Answers, Reasons, Slots
<1>2. SlotShape'
    BY SMT DEF TypeOK, SlotShape, AnswerShape
<1>3. MarkShape' /\ AnswerShape' /\ BillShape' /\ ReasonShape'
    BY SMT DEF TypeOK, SlotShape, MarkShape, AnswerShape, BillShape, ReasonShape
<1>4. OneSlotHeld'
    BY SMT DEF TypeOK, OneSlotHeld, AnswerShape
<1>5. OverIsSettled'
    BY SMT DEF TypeOK, OverIsSettled, AnswerShape, BillShape
<1>6. MarksAreEarned'
    BY SMT DEF TypeOK, MarksAreEarned, AnswerShape, MarkShape, ReasonShape, SlotShape
<1> QED
    BY <1>1, <1>2, <1>3, <1>4, <1>5, <1>6

\* A response that is read, by a passthrough whatever its status.
LEMMA ReadBodyShape ==
    ASSUME RelayInvariant, pc = "fetching", pc' = "parsing", accepted' \in BOOLEAN,
           ~stream \/ PassesThrough,
           UNCHANGED <<loopVars, attempt, slotVars, markVars, bills, answer, streamVars>>
    PROVE  RelayInvariant'
<1> USE DEF RelayInvariant, RelayShape, loopVars, slotVars, markVars, streamVars, Held, Dropped,
        GivenUp, Bodiless, Committed, Waiting, Working, Untouched, Consumer, PassesThrough
<1>1. TypeOK'
    BY SMT DEF TypeOK, Routes, Places, Answers, Reasons, Slots
<1>2. SlotShape'
    BY SMT DEF TypeOK, SlotShape, AnswerShape
<1>3. MarkShape' /\ AnswerShape' /\ BillShape' /\ ReasonShape'
    BY SMT DEF TypeOK, MarkShape, AnswerShape, BillShape, ReasonShape
<1>4. OneSlotHeld' /\ OverIsSettled' /\ MarksAreEarned'
    BY SMT DEF TypeOK, OneSlotHeld, OverIsSettled, MarksAreEarned
<1> QED
    BY <1>1, <1>2, <1>3, <1>4

LEMMA StepShape == RelayInvariant /\ Next => RelayInvariant'
<1>1. SUFFICES ASSUME RelayInvariant, Next PROVE RelayInvariant'
    OBVIOUS
<1>0. CASE (FetchAnswers \/ PassthroughAnswers) /\ HandOver
    BY <1>0, <1>1, HandOverShape DEF FetchAnswers, PassthroughAnswers, HandOver
<1>10. CASE FetchAnswers /\ ~PassesThrough /\ ~HandOver
    <2>1. accepted \in BOOLEAN
        BY <1>1 DEF RelayInvariant, TypeOK
    <2> QED
        BY <1>10, <1>1, <2>1, ReadBodyShape DEF FetchAnswers
<1>11. CASE PassthroughAnswers /\ PassesThrough /\ ~HandOver
    BY <1>11, <1>1, ReadBodyShape DEF PassthroughAnswers
<1> USE <1>1, NextIsAttempt DEF RelayInvariant, RelayShape, TypeOK, SlotShape, MarkShape, AnswerShape, BillShape,
        ReasonShape, OneSlotHeld, OverIsSettled, MarksAreEarned, Held, Dropped, GivenUp, Bodiless,
        Committed, Waiting, Working, Untouched, Consumer, PassesThrough, Routes, Places, Answers, Reasons, Slots,
        loopVars, slotVars, markVars, streamVars, MarkFailure, MarkSuccess,
        Bill, ReleaseSlot, SlotSays, NextCandidate, SetAbortReason
<1>2. CASE ChatGate \/ PassthroughGate \/ AdminGate \/ AdminPassthroughGate
    <2>1. PICK least \in {0, 1} : Gate(least)
        BY <1>2, Zenon DEF ChatGate, PassthroughGate, AdminGate, AdminPassthroughGate
    <2>2. /\ resolved' \in 0..Candidates /\ attempt = 1 /\ 1 \in Attempts /\ attempt' = attempt
          /\ pc' = "looking" => attempt <= resolved'
          /\ ~GivenUp(attempt)' \/ answer' # "exhausted"
          /\ pc' # "looking" => resolved' = 0
        BY <2>1, AttemptsAssumption, SMT DEF Gate, AttemptsAssumption
    <2> QED
        BY <2>1, <2>2, SMTT(60) DEF Gate
<1>3. CASE StartAttempt
    BY <1>3, SMTT(60) DEF StartAttempt
<1>4. CASE AnswerFromCache /\ ~PassesThrough
    BY <1>4, SMTT(60) DEF AnswerFromCache
<1>5. CASE Acquire
    BY <1>5, SMTT(60) DEF Acquire
<1>6. CASE AcquireFails
    BY <1>6, SMTT(60) DEF AcquireFails
<1>7. CASE FetchFails
    BY <1>7, SMTT(60) DEF FetchFails
<1>8. CASE ReleaseAndRetry
    BY <1>8, SMTT(60) DEF ReleaseAndRetry
<1>9. CASE Rejected /\ ~PassesThrough
    BY <1>9, SMTT(60) DEF Rejected
<1>12. CASE ForwardThrows /\ route # "adminChat"
    BY <1>12, SMTT(60) DEF ForwardThrows
<1>13. CASE AdminForwardThrows /\ route = "adminChat"
    BY <1>13, SMTT(60) DEF AdminForwardThrows
<1>14. CASE ParseFails /\ ~PassesThrough
    BY <1>14, SMTT(60) DEF ParseFails
<1>15. CASE BodyFails /\ route # "chat"
    BY <1>15, SMTT(60) DEF BodyFails
<1>16. CASE Parse /\ route = "chat"
    BY <1>16, SMTT(60) DEF Parse
<1>17. CASE AdminParse /\ route = "adminChat"
    BY <1>17, SMTT(60) DEF AdminParse
<1>18. CASE PassthroughParse /\ route = "passthrough"
    BY <1>18, SMTT(60) DEF PassthroughParse
<1>19. CASE AdminPassthroughParse /\ route = "adminPassthrough"
    BY <1>19, SMTT(60) DEF AdminPassthroughParse
<1>20. CASE Billed /\ route = "chat"
    BY <1>20, SMTT(60) DEF Billed
<1>21. CASE PassthroughBilled /\ route = "passthrough"
    BY <1>21, SMTT(60) DEF PassthroughBilled
<1>22. CASE BillThrows /\ route = "passthrough"
    BY <1>22, SMTT(60) DEF BillThrows
<1>23. CASE Leave
    BY <1>23, SMTT(60) DEF Leave
<1>24. CASE MissingBody /\ ~PassesThrough
    BY <1>24, SMTT(60) DEF MissingBody
<1>25. CASE OpenReader
    BY <1>25, SMTT(60) DEF OpenReader
<1>26. CASE TimerFires
    BY <1>26, SMTT(60) DEF TimerFires
<1>27. CASE TimerCancels
    BY <1>27, SMTT(60) DEF TimerCancels
<1>28. CASE DoneFrame /\ ~PassesThrough
    BY <1>28, SMTT(60) DEF DoneFrame
<1>29. CASE BufferOverflows
    BY <1>29, SMTT(60) DEF BufferOverflows
<1>30. CASE ReadFails
    BY <1>30, SMTT(60) DEF ReadFails
<1>31. CASE PassthroughReadEnds /\ PassesThrough
    BY <1>31, SMTT(60) DEF PassthroughReadEnds
<1>32. CASE ReadEnds /\ ~PassesThrough
    BY <1>32, SMTT(60) DEF ReadEnds
<1>33. CASE Finalize
    BY <1>33, SMTT(60) DEF Finalize
<1>34. CASE Complete
    BY <1>34, SMTT(60) DEF Complete
<1>35. CASE FetchDeadline
    BY <1>35, SMTT(60) DEF FetchDeadline
<1>36. CASE UpstreamBreaks
    BY <1>36, SMTT(60) DEF UpstreamBreaks
<1>37. CASE ClientAborts
    BY <1>37, SMTT(60) DEF ClientAborts
<1>38. CASE Crash
    BY <1>38, SMTT(60) DEF Crash
<1> QED
    BY <1>0, <1>1, <1>2, <1>3, <1>4, <1>5, <1>6, <1>7, <1>8, <1>9, <1>10, <1>11, <1>12, <1>13, <1>14, <1>15, <1>16, <1>17, <1>18, <1>19, <1>20, <1>21, <1>22, <1>23, <1>24, <1>25, <1>26, <1>27, <1>28, <1>29, <1>30, <1>31, <1>32, <1>33, <1>34, <1>35, <1>36, <1>37, <1>38
        DEF Next, Proceed, Environment, ChatLoop, PassthroughLoop, AdminLoop, AdminPassthroughLoop, Attempting,
            ForwardStream, ForwardPassthroughStream, Proxying

LEMMA Induction == RelayInvariant /\ [Next]_vars => RelayInvariant'
<1>1. CASE Next
    BY <1>1, StepShape
<1>2. CASE UNCHANGED vars
    BY <1>2, SMT DEF RelayInvariant, RelayShape, TypeOK, SlotShape, MarkShape, AnswerShape, BillShape,
        ReasonShape, OneSlotHeld, OverIsSettled, MarksAreEarned, Held, Dropped, GivenUp, Bodiless,
        Committed, Waiting, Working, Untouched, Consumer, PassesThrough, vars, loopVars, slotVars, markVars, streamVars
<1> QED
    BY <1>1, <1>2

(* For any number of candidates, a request is settled when it is over, its  *)
(* marks are earned, it holds one slot at a time, and each place of the     *)
(* loop and of the stream has the slot, the marks and the bill it is said   *)
(* to have.                                                                 *)
THEOREM RelaySound == Spec => []RelayInvariant
<1> QED
    BY InitShape, Induction, PTL DEF Spec

(* A request that is over has given back its slot and was billed once.      *)
THEOREM RequestsSettle == Spec => []OverIsSettled
<1>1. RelayInvariant => OverIsSettled
    BY DEF RelayInvariant
<1> QED
    BY <1>1, RelaySound, PTL

(* No credential is marked for what it did not do.                          *)
THEOREM MarksFair == Spec => []MarksAreEarned
<1>1. RelayInvariant => MarksAreEarned
    BY DEF RelayInvariant
<1> QED
    BY <1>1, RelaySound, PTL

(* Once the client has an answer no candidate is tried any more: the places *)
(* the loop can be at have no answer yet.                                   *)
THEOREM NoRetryAfterCommit == Spec => CommittedStays
<1>1. RelayInvariant /\ [Next]_vars => [answer # "open" => answer' = answer /\ attempt' = attempt]_vars
    <2>1. SUFFICES ASSUME RelayInvariant, Next, answer # "open"
                   PROVE  answer' = answer /\ attempt' = attempt
        BY DEF vars
    <2>2. pc \notin {"gate", "looking", "acquiring", "fetching", "failing", "parsing", "billing"}
        BY <2>1 DEF RelayInvariant, RelayShape, AnswerShape, Waiting, Working
    <2> QED
        BY <2>1, <2>2 DEF Next, Proceed, Environment, ChatLoop, PassthroughLoop, AdminLoop,
            AdminPassthroughLoop, Attempting, ForwardStream, ForwardPassthroughStream, Proxying,
            ChatGate, PassthroughGate, AdminGate, AdminPassthroughGate, loopVars,
            Gate, StartAttempt, AnswerFromCache, Acquire, AcquireFails, FetchFails,
            ReleaseAndRetry, Rejected, FetchAnswers, PassthroughAnswers, ForwardThrows,
            AdminForwardThrows, ParseFails, BodyFails, Parse, AdminParse, PassthroughParse,
            AdminPassthroughParse, Billed, PassthroughBilled, BillThrows, Leave, MissingBody,
            OpenReader, TimerFires, TimerCancels, DoneFrame, BufferOverflows, ReadFails,
            PassthroughReadEnds, ReadEnds, Finalize, Complete, FetchDeadline, UpstreamBreaks,
            ClientAborts, Crash
<1> QED
    BY <1>1, RelaySound, PTL DEF Spec, CommittedStays

(* BilledOnce fails only for a passthrough, whose bill may throw after it   *)
(* was enqueued: no other relay bills two candidates of one request.        *)
THEOREM OnlyPassthroughRebills == Spec => [](route # "passthrough" => BilledOnce)
<1>1. RelayInvariant /\ route # "passthrough" => BilledOnce
    <2>1. SUFFICES ASSUME RelayInvariant, route # "passthrough",
                          NEW a \in Attempts, NEW b \in Attempts, bills[a] = 1, bills[b] = 1
                   PROVE  a = b
        BY DEF BilledOnce
    <2>2. \A c \in Attempts : bills[c] = 1 => c <= attempt /\ ~GivenUp(c)
        BY <2>1 DEF RelayInvariant, RelayShape, SlotShape, OverIsSettled, Untouched, TypeOK, Attempts
    <2> QED
        BY <2>1, <2>2 DEF RelayInvariant, RelayShape, SlotShape, TypeOK, GivenUp
<1> QED
    BY <1>1, RelaySound, PTL
==============================================================================
