------------------------ MODULE ConsumerBillingProofs ------------------------
(***************************************************************************)
(* Proofs about ConsumerBilling, for any set of requests, costs, limits    *)
(* and retry bounds.  BillingInvariant is the inductive strengthening; the *)
(* safety properties and the refinement of PrepaidLedger follow from it.   *)
(***************************************************************************)
EXTENDS ConsumerBilling, FiniteSetTheorems, TLAPS

USE StreamsAssumption, CostAssumption, LimitsAssumption, QueueAssumption, BalanceAssumption

LEMMA InitInvariant == Init => BillingInvariant
<1> SUFFICES ASSUME Init PROVE BillingInvariant
  OBVIOUS
<1>1. TypeOK
  <2>1. balance \in Nat
    BY DEF Init
  <2>2. pc \in [Requests -> Running \union Ended \union {"idle"}]
    BY DEF Init
  <2>3. job \in [Requests -> Live \union Gone \union {"none", "done"}]
    BY DEF Init
  <2> QED
    BY <2>1, <2>2, <2>3 DEF Init, TypeOK
<1>2. ASSUME NEW r \in Requests PROVE PlaceTellsCharge(r)
  BY DEF Init, PlaceTellsCharge
<1>3. ASSUME NEW r \in Requests PROVE JobTellsRows(r)
  BY DEF Init, JobTellsRows, Live, Gone
<1> QED
  BY <1>1, <1>2, <1>3 DEF BillingInvariant

LEMMA RelayInvariant ==
    ASSUME BillingInvariant, NEW r \in Requests, Relay(r)
    PROVE  BillingInvariant'
<1> USE DEF BillingInvariant, TypeOK, PlaceTellsCharge, JobTellsRows, UsedUp, Running, Ended, Live, Gone,
            agentVars, requestVars, jobVars, ledgerVars, Goto
<1>1. CASE Authenticate(r)
  BY <1>1 DEF Authenticate
<1>2. CASE Preflight(r)
  BY <1>2 DEF Preflight
<1>3. CASE LookupCache(r)
  BY <1>3 DEF LookupCache
<1>4. CASE UpstreamAnswers(r)
  BY <1>4 DEF UpstreamAnswers
<1>5. CASE RequestFails(r)
  BY <1>5 DEF RequestFails
<1> QED
  BY <1>1, <1>2, <1>3, <1>4, <1>5 DEF Relay

LEMMA BillInvariant ==
    ASSUME BillingInvariant, NEW r \in Requests, Bill(r)
    PROVE  BillingInvariant'
<1> USE DEF BillingInvariant, TypeOK, PlaceTellsCharge, JobTellsRows, UsedUp, Running, Ended, Live, Gone,
            agentVars, requestVars, jobVars, ledgerVars, Goto
<1>1. CASE CheckLimits(r)
  BY <1>1 DEF CheckLimits
<1>2. CASE SuspendForLimit(r)
  BY <1>2 DEF SuspendForLimit
<1>3. CASE DebitBalance(r)
  <2>1. CASE balance >= due[r]
    <3>1. balance' \in Nat
      BY <1>3, <2>1 DEF DebitBalance
    <3>2. charged' \in [Requests -> Nat]
      BY <1>3, <2>1 DEF DebitBalance
    <3> QED
      BY <1>3, <2>1, <3>1, <3>2 DEF DebitBalance
  <2>2. CASE ~(balance >= due[r])
    BY <1>3, <2>2 DEF DebitBalance
  <2> QED
    BY <2>1, <2>2
<1>4. CASE RecordCharge(r)
  BY <1>4 DEF RecordCharge
<1>5. CASE SuspendExhausted(r)
  BY <1>5 DEF SuspendExhausted
<1>6. CASE BillingThrows(r)
  BY <1>6 DEF BillingThrows
<1> QED
  BY <1>1, <1>2, <1>3, <1>4, <1>5, <1>6 DEF Bill

LEMMA WorkInvariant ==
    ASSUME BillingInvariant, NEW r \in Requests, Work(r)
    PROVE  BillingInvariant'
<1> USE DEF BillingInvariant, TypeOK, PlaceTellsCharge, JobTellsRows, UsedUp, Running, Ended, Live, Gone,
            agentVars, requestVars, jobVars, ledgerVars
<1>1. CASE InsertRow(r)
  BY <1>1 DEF InsertRow
<1>2. CASE InsertThrows(r)
  BY <1>2 DEF InsertThrows, Requeue
<1>3. CASE CreditProvider(r)
  BY <1>3 DEF CreditProvider
<1>4. CASE NoteShare(r)
  BY <1>4 DEF NoteShare
<1>5. CASE Acknowledge(r)
  BY <1>5 DEF Acknowledge
<1>6. CASE JobStalls(r)
  BY <1>6 DEF JobStalls
<1> QED
  BY <1>1, <1>2, <1>3, <1>4, <1>5, <1>6 DEF Work

LEMMA EnvironmentInvariant ==
    ASSUME BillingInvariant, Environment
    PROVE  BillingInvariant'
<1> USE DEF BillingInvariant, TypeOK, PlaceTellsCharge, JobTellsRows, UsedUp, Running, Ended, Live, Gone,
            agentVars, requestVars, jobVars, ledgerVars
<1>1. CASE SampleDepth
  <2>1. IsFiniteSet({q \in Requests : job[q] \in Live})
    BY RequestsAssumption, FS_Subset
  <2> QED
    BY <1>1, <2>1, FS_CardinalityType DEF SampleDepth
<1>2. CASE EvictCache
  BY <1>2 DEF EvictCache
<1>3. CASE CreditBalance
  BY <1>3 DEF CreditBalance
<1>4. CASE AdminDebit
  BY <1>4 DEF AdminDebit
<1>5. CASE AdminSetStatus
  BY <1>5 DEF AdminSetStatus
<1>6. CASE Crash
  BY <1>6 DEF Crash
<1> QED
  BY <1>1, <1>2, <1>3, <1>4, <1>5, <1>6 DEF Environment

LEMMA StutterInvariant ==
    ASSUME BillingInvariant, UNCHANGED vars
    PROVE  BillingInvariant'
  BY DEF BillingInvariant, TypeOK, PlaceTellsCharge, JobTellsRows, UsedUp, vars,
         agentVars, requestVars, jobVars, ledgerVars

\* Every reachable state satisfies the inductive invariant, whatever the
\* requests, costs, limits and retry bounds (billConsumer and the agent-ai-txn
\* handler interleaved at every await, with crashes and failed calls).
THEOREM InvariantHolds == Spec => []BillingInvariant
<1>1. Init => BillingInvariant
  BY InitInvariant
<1>2. BillingInvariant /\ [Next]_vars => BillingInvariant'
  BY RelayInvariant, BillInvariant, WorkInvariant, EnvironmentInvariant, StutterInvariant DEF Next
<1> QED
  BY <1>1, <1>2, PTL DEF Spec

\* The type invariant of the relay and of the write queue.
THEOREM TypeCorrect == Spec => []TypeOK
<1>1. BillingInvariant => TypeOK
  BY DEF BillingInvariant
<1> QED
  BY <1>1, InvariantHolds, PTL

\* A refused, cached or uncollected request was never debited; a paid one was
\* debited its cost (the returns of billConsumer against debitBalance).
THEOREM AnswersAgree == Spec => []AnswerTellsCharge
<1>1. BillingInvariant => AnswerTellsCharge
  BY DEF BillingInvariant, PlaceTellsCharge, AnswerTellsCharge
<1> QED
  BY <1>1, InvariantHolds, PTL

\* No charge disappears except in the ways ChargeAccounted lists: dropped by
\* enqueueJob, broken between the debit and the enqueue, or given up by BullMQ,
\* its runs or its stalls used up (a worker may die before its insert).
THEOREM ChargesAccounted == Spec => []ChargeAccounted
<1>1. BillingInvariant => ChargeAccounted
  BY DEF BillingInvariant, TypeOK, PlaceTellsCharge, JobTellsRows, ChargeAccounted,
         Running, Ended, Live, Gone
<1> QED
  BY <1>1, InvariantHolds, PTL

\* Ledger rows and revenue shares exist only for charges, and repeat only with
\* a failed or stalled run of the agent-ai-txn job.
THEOREM RowsTrace == Spec => []RowsTraceCharges
<1>1. BillingInvariant => RowsTraceCharges
  BY QueueAssumption DEF BillingInvariant, TypeOK, PlaceTellsCharge, JobTellsRows, RowsTraceCharges,
         Running, Ended, Live, Gone
<1> QED
  BY <1>1, InvariantHolds, PTL
------------------------------------------------------------------------------
(* Sums over the requests.  A sum is the cardinality of its units, so what   *)
(* it needs is known of finite sets.                                         *)

\* A unit of f belongs to one request and counts up to the request's value.
LEMMA UnitsOf ==
    ASSUME NEW f \in [Requests -> Nat], NEW u
    PROVE  u \in Units(f) <=> \E q \in Requests : \E k \in 1..f[q] : u = <<q, k>>
  BY DEF Units

\* One request's units are as many as its value.
LEMMA UnitsOfOne ==
    ASSUME NEW q, NEW c \in Nat
    PROVE  IsFiniteSet({q} \X (1..c)) /\ Cardinality({q} \X (1..c)) = c
<1>1. ASSUME NEW A, NEW B, IsFiniteSet(A), IsFiniteSet(B), Cardinality(A) = 1, Cardinality(B) = c
      PROVE  IsFiniteSet(A \X B) /\ Cardinality(A \X B) = c
  <2>1. IsFiniteSet(A \X B) /\ Cardinality(A \X B) = Cardinality(A) * Cardinality(B)
    BY <1>1, FS_Product, Zenon
  <2> QED
    BY <1>1, <2>1
<1>2. IsFiniteSet({q}) /\ Cardinality({q}) = 1
  BY FS_Singleton
<1>3. IsFiniteSet(1..c) /\ Cardinality(1..c) = c
  BY FS_Interval
<1> QED
  BY <1>1, <1>2, <1>3, Zenon

\* Requests are finitely many, so a sum over them is a number.
LEMMA UnitsFinite ==
    ASSUME NEW f \in [Requests -> Nat]
    PROVE  IsFiniteSet(Units(f)) /\ Total(f) \in Nat
<1> DEFINE unitsOf == [q \in Requests |-> {q} \X (1..f[q])]
           parts == {{q} \X (1..f[q]) : q \in Requests}
<1>1. unitsOf \in Surjection(Requests, parts)
  BY DEF Surjection
<1>2. IsFiniteSet(parts)
  BY <1>1, RequestsAssumption, FS_Surjection
<1>3. ASSUME NEW q \in Requests PROVE IsFiniteSet({q} \X (1..f[q]))
  <2>1. f[q] \in Nat
    OBVIOUS
  <2> QED
    BY <2>1, UnitsOfOne, Zenon
<1>4. IsFiniteSet(UNION parts)
  BY <1>2, <1>3, FS_UNION
<1> QED
  BY <1>4, FS_CardinalityType DEF Units, Total

\* A sum grows with its terms.
LEMMA TotalMonotonic ==
    ASSUME NEW f \in [Requests -> Nat], NEW g \in [Requests -> Nat],
           \A q \in Requests : f[q] <= g[q]
    PROVE  Total(f) <= Total(g)
<1>1. Units(f) \subseteq Units(g)
  BY UnitsOf
<1> QED
  BY <1>1, UnitsFinite, FS_Subset DEF Total

\* Giving a value to a request that had none adds that value to the sum.
LEMMA TotalAdds ==
    ASSUME NEW f \in [Requests -> Nat], NEW r \in Requests, f[r] = 0, NEW c \in Nat
    PROVE  Total([f EXCEPT ![r] = c]) = Total(f) + c
<1> DEFINE g == [f EXCEPT ![r] = c]
           new == {r} \X (1..c)
<1>1. g \in [Requests -> Nat] /\ g[r] = c /\ \A q \in Requests : q # r => g[q] = f[q]
  OBVIOUS
<1> HIDE DEF g
<1>2. Units(g) = Units(f) \union new
  <2>1. ASSUME NEW u \in Units(g) PROVE u \in Units(f) \union new
    BY <1>1, <2>1, UnitsOf
  <2>2. ASSUME NEW u \in Units(f) PROVE u \in Units(g)
    <3>1. PICK q \in Requests : \E k \in 1..f[q] : u = <<q, k>>
      BY <2>2, UnitsOf
    <3>2. q # r
      BY <3>1
    <3> QED
      BY <1>1, <3>1, <3>2, UnitsOf
  <2>3. ASSUME NEW u \in new PROVE u \in Units(g)
    BY <1>1, <2>3, UnitsOf
  <2> QED
    BY <2>1, <2>2, <2>3
<1>3. Units(f) \intersect new = {}
  BY UnitsOf
<1>4. IsFiniteSet(new) /\ Cardinality(new) = c
  BY UnitsOfOne, Zenon
<1>5. Cardinality(Units(f) \union new) = Cardinality(Units(f)) + c
  <2>1. Cardinality(Units(f) \intersect new) = 0
    BY <1>3, FS_EmptySet
  <2>2. IsFiniteSet(Units(f)) /\ Cardinality(Units(f)) \in Nat
    BY UnitsFinite DEF Total
  <2> HIDE DEF new
  <2> QED
    BY <1>4, <2>1, <2>2, FS_Union
<1> QED
  BY <1>2, <1>5 DEF Total, g

\* What has been charged, and what the ledger says was spent, are numbers.
LEMMA SumsAreNumbers ==
    ASSUME TypeOK
    PROVE  Charges \in Nat /\ Spent \in Nat
<1>1. Charges \in Nat
  BY UnitsFinite DEF TypeOK, Charges
<1>2. [q \in Requests |-> rows[q] * charged[q]] \in [Requests -> Nat]
  <2>1. \A m, n \in Nat : m * n \in Nat
    OBVIOUS
  <2> QED
    BY <2>1 DEF TypeOK
<1> QED
  BY <1>1, <1>2, UnitsFinite DEF Spent

\* When every charge is in the ledger, the sum that the limits read is at
\* least what has been charged.
LEMMA SpentCoversCharges ==
    ASSUME TypeOK, \A q \in Requests : charged[q] > 0 => rows[q] > 0
    PROVE  Charges <= Spent
<1> DEFINE inLedger == [q \in Requests |-> rows[q] * charged[q]]
<1>1. ASSUME NEW q \in Requests
      PROVE  rows[q] * charged[q] \in Nat /\ charged[q] <= rows[q] * charged[q]
  <2>1. \A m, n \in Nat : m * n \in Nat
    OBVIOUS
  <2>2. \A m, n \in Nat : (m + 1) * n = m * n + n
    OBVIOUS
  <2>3. rows[q] \in Nat /\ charged[q] \in Nat
    BY DEF TypeOK
  <2>4. CASE charged[q] = 0
    BY <2>1, <2>3, <2>4
  <2>5. CASE charged[q] > 0
    <3>1. rows[q] - 1 \in Nat
      BY <2>3, <2>5
    <3>2. rows[q] * charged[q] = (rows[q] - 1) * charged[q] + charged[q]
      <4>1. ((rows[q] - 1) + 1) * charged[q] = (rows[q] - 1) * charged[q] + charged[q]
        BY <2>2, <2>3, <3>1
      <4>2. (rows[q] - 1) + 1 = rows[q]
        BY <2>3
      <4> QED
        BY <4>1, <4>2
    <3> QED
      BY <2>1, <2>3, <3>1, <3>2
  <2> QED
    BY <2>3, <2>4, <2>5
<1>2. inLedger \in [Requests -> Nat] /\ \A q \in Requests : charged[q] <= inLedger[q]
  BY <1>1
<1>3. charged \in [Requests -> Nat]
  BY DEF TypeOK
<1> HIDE DEF inLedger
<1>4. Total(charged) <= Total(inLedger)
  BY <1>2, <1>3, TotalMonotonic
<1> QED
  BY <1>4 DEF Charges, Spent, inLedger

------------------------------------------------------------------------------
(* The limit.  A check that is not excused saw every charge in the ledger    *)
(* and nobody else about to debit; it admits only what the limit leaves, and *)
(* until its debit no other check is without excuse.                         *)

LEMMA InitLimit == Init => LimitInvariant
<1> SUFFICES ASSUME Init PROVE LimitInvariant
  OBVIOUS
<1>1. Units(charged) = {}
  BY DEF Init, Units
<1>2. Charges = 0
  BY <1>1, FS_EmptySet DEF Charges, Total
<1> QED
  BY <1>2 DEF Init, LimitInvariant

\* Steps that take no money and send nobody to the debit keep the limit.
LEMMA QuietKeepsLimit ==
    ASSUME LimitInvariant, UNCHANGED <<charged, due, excused>>,
           \A q \in Requests : pc'[q] \in {"suspending", "debiting"} => pc'[q] = pc[q]
    PROVE  LimitInvariant'
<1>1. UNCHANGED Charges
  BY DEF Charges, Total, Units
<1> QED
  BY <1>1 DEF LimitInvariant

LEMMA CheckKeepsLimit ==
    ASSUME BillingInvariant, LimitInvariant, NEW r \in Requests, CheckLimits(r)
    PROVE  LimitInvariant'
<1> USE DEF BillingInvariant, TypeOK
<1>1. CASE excused'
  BY <1>1 DEF LimitInvariant
<1>2. CASE ~excused'
  <2>1. Unrecorded = {} /\ ~excused /\ ~(OverCostLimits(r) /\ r \in Streams)
    BY <1>2 DEF CheckLimits
  <2>2. \A q \in Requests : /\ pc[q] \notin {"suspending", "debiting"}
                            /\ charged[q] > 0 => rows[q] > 0
    BY <2>1 DEF Unrecorded
  <2>3. UNCHANGED <<charged, due, Charges>>
    BY DEF CheckLimits, requestVars, Charges, Total, Units
  <2>4. Charges <= Spent
    BY <2>2, SpentCoversCharges
  <2>5. Charges <= SpendLimit
    BY <2>1 DEF LimitInvariant
  <2>6. CASE OverCostLimits(r)
    <3>1. pc' = [pc EXCEPT ![r] = "refused"]
      BY <2>1, <2>6 DEF CheckLimits, Goto
    <3> QED
      BY <2>2, <2>3, <2>5, <3>1 DEF LimitInvariant
  <2>7. CASE ~OverCostLimits(r)
    <3>1. \E where \in {"debiting", "free"} : pc' = [pc EXCEPT ![r] = where]
      BY <2>7 DEF CheckLimits, Goto
    <3>2. Charges \in Nat /\ Spent \in Nat /\ due[r] \in Nat
      BY SumsAreNumbers
    <3>3. Spent + due[r] <= SpendLimit
      BY <2>7, <3>2, LimitsAssumption DEF OverCostLimits
    <3>4. Charges + due[r] <= SpendLimit
      BY <2>4, <3>2, <3>3, LimitsAssumption
    <3> QED
      BY <2>2, <2>3, <2>5, <3>1, <3>4 DEF LimitInvariant
  <2> QED
    BY <2>6, <2>7
<1> QED
  BY <1>1, <1>2

LEMMA DebitKeepsLimit ==
    ASSUME BillingInvariant, LimitInvariant, NEW r \in Requests, DebitBalance(r)
    PROVE  LimitInvariant'
<1> USE DEF BillingInvariant, TypeOK
<1>1. CASE balance >= due[r]
  <2>1. charged[r] = 0 /\ due[r] \in Nat /\ pc[r] = "debiting" /\ r \in DOMAIN pc
    BY DEF DebitBalance, PlaceTellsCharge
  <2>2. charged' = [charged EXCEPT ![r] = due[r]] /\ UNCHANGED <<due, excused>>
    BY <1>1 DEF DebitBalance
  <2>3. Charges' = Charges + due[r]
    BY <2>1, <2>2, TotalAdds DEF Charges, Total, Units
  <2>4. pc' = [pc EXCEPT ![r] = "debited"]
    BY <1>1 DEF DebitBalance, Goto
  <2> QED
    BY <2>1, <2>2, <2>3, <2>4 DEF LimitInvariant
<1>2. CASE ~(balance >= due[r])
  <2>1. UNCHANGED <<charged, due, excused>> /\ pc' = [pc EXCEPT ![r] = "exhausted"]
    BY <1>2 DEF DebitBalance, Goto
  <2> QED
    BY <2>1, QuietKeepsLimit
<1> QED
  BY <1>1, <1>2

LEMMA StepKeepsLimit ==
    ASSUME BillingInvariant, LimitInvariant, [Next]_vars
    PROVE  LimitInvariant'
<1> USE DEF BillingInvariant, TypeOK, agentVars, requestVars, jobVars, ledgerVars
<1>1. ASSUME NEW r \in Requests, Relay(r) PROVE LimitInvariant'
  <2>1. CASE UpstreamAnswers(r)
    <3>1. due' \in [Requests -> Nat] /\ UNCHANGED <<charged, excused, Charges>>
      BY <2>1 DEF UpstreamAnswers, Charges, Total, Units
    <3>2. \A q \in Requests : q # r => due'[q] = due[q] /\ pc'[q] = pc[q]
      BY <2>1 DEF UpstreamAnswers, Goto
    <3>3. pc'[r] = "limits"
      BY <2>1 DEF UpstreamAnswers, Goto
    <3> QED
      BY <3>1, <3>2, <3>3 DEF LimitInvariant
  <2>2. CASE ~UpstreamAnswers(r)
    BY <1>1, <2>2, QuietKeepsLimit
       DEF Relay, Authenticate, Preflight, LookupCache, RequestFails, Goto
  <2> QED
    BY <2>1, <2>2
<1>2. ASSUME NEW r \in Requests, Bill(r) PROVE LimitInvariant'
  <2>1. CASE SuspendForLimit(r)
    BY <2>1 DEF SuspendForLimit, LimitInvariant
  <2>2. CASE RecordCharge(r) \/ SuspendExhausted(r) \/ BillingThrows(r)
    BY <2>2, QuietKeepsLimit DEF RecordCharge, SuspendExhausted, BillingThrows, Goto
  <2> QED
    BY <1>2, <2>1, <2>2, CheckKeepsLimit, DebitKeepsLimit DEF Bill
<1>3. ASSUME NEW r \in Requests, Work(r) PROVE LimitInvariant'
  BY <1>3, QuietKeepsLimit DEF Work, InsertRow, InsertThrows, CreditProvider, NoteShare,
     Acknowledge, JobStalls
<1>4. ASSUME Environment PROVE LimitInvariant'
  BY <1>4, QuietKeepsLimit DEF Environment, SampleDepth, EvictCache, CreditBalance,
     AdminDebit, AdminSetStatus, Crash
<1>5. ASSUME UNCHANGED vars PROVE LimitInvariant'
  BY <1>5, QuietKeepsLimit DEF vars
<1> QED
  BY <1>1, <1>2, <1>3, <1>4, <1>5 DEF Next

\* A spender that is alone stays within its limit: the charges exceed it only
\* when a check could not see them all, or found a stream already served
\* (checkConsumerSpendingLimits reads the ledger, debitBalance takes the money).
THEOREM SpendersWithinLimit == Spec => []SoleSpenderWithinLimit
<1>1. BillingInvariant /\ LimitInvariant => SoleSpenderWithinLimit
  <2> SUFFICES ASSUME BillingInvariant, LimitInvariant PROVE SoleSpenderWithinLimit
    OBVIOUS
  <2>1. Charges \in Nat
    BY SumsAreNumbers DEF BillingInvariant
  <2> QED
    BY <2>1, LimitsAssumption DEF LimitInvariant, SoleSpenderWithinLimit
<1>2. BillingInvariant /\ LimitInvariant /\ [Next]_vars => LimitInvariant'
  BY StepKeepsLimit
<1> QED
  BY <1>1, <1>2, InitLimit, InvariantHolds, PTL DEF Spec

------------------------------------------------------------------------------
(* The refinement: a debit is a Charge, the end of a request an Answer or a *)
(* Break, top-ups and administrative debits a Transfer, the rest stutters.  *)

LEMMA RelayRefines ==
    ASSUME BillingInvariant, NEW r \in Requests, Relay(r)
    PROVE  [Implements!LedgerNext]_(Implements!ledger)
<1> USE DEF BillingInvariant, TypeOK, PlaceTellsCharge, Running, Ended,
            agentVars, Goto, Implements!ledger
<1> DEFINE answer == [q \in Requests |-> IF pc[q] \in Ended THEN pc[q] ELSE "open"]
<1>1. UNCHANGED <<balance, charged>>
  BY DEF Relay, Authenticate, Preflight, LookupCache, UpstreamAnswers, RequestFails
<1>2. CASE answer' = answer
  BY <1>1, <1>2
<1>3. CASE pc[r] \notin Ended /\ \E how \in {"free", "refused"} : pc' = [pc EXCEPT ![r] = how]
  <2>1. PICK how \in {"free", "refused"} : pc' = [pc EXCEPT ![r] = how]
    BY <1>3
  <2>2. charged[r] = 0
    BY <1>3 DEF Relay, Authenticate, Preflight, LookupCache, UpstreamAnswers, RequestFails
  <2>3. answer' = [answer EXCEPT ![r] = how]
    BY <2>1
  <2>4. Implements!Answer(r, how)
    BY <1>1, <1>3, <2>1, <2>2, <2>3 DEF Implements!Answer
  <2> QED
    BY <2>1, <2>4 DEF Implements!LedgerNext
<1>4. CASE pc[r] \notin Ended /\ pc' = [pc EXCEPT ![r] = "failed"]
  <2>1. Implements!Break({r})
    BY <1>1, <1>4 DEF Implements!Break
  <2> QED
    BY <2>1 DEF Implements!LedgerNext
<1> QED
  BY <1>2, <1>3, <1>4
     DEF Relay, Authenticate, Preflight, LookupCache, UpstreamAnswers, RequestFails

LEMMA BillRefines ==
    ASSUME BillingInvariant, NEW r \in Requests, Bill(r)
    PROVE  [Implements!LedgerNext]_(Implements!ledger)
<1> USE DEF BillingInvariant, TypeOK, PlaceTellsCharge, Running, Ended,
            agentVars, Goto, Implements!ledger
<1> DEFINE answer == [q \in Requests |-> IF pc[q] \in Ended THEN pc[q] ELSE "open"]
<1>1. ASSUME NEW how \in {"paid", "free", "unpaid", "refused"},
             pc[r] \notin Ended, pc' = [pc EXCEPT ![r] = how],
             how = "paid" <=> charged[r] > 0, how = "unpaid" => r \in Streams,
             UNCHANGED <<balance, charged>>
      PROVE  Implements!LedgerNext
  <2>1. answer' = [answer EXCEPT ![r] = how]
    BY <1>1
  <2>2. Implements!Answer(r, how)
    BY <1>1, <2>1 DEF Implements!Answer
  <2> QED
    BY <2>2 DEF Implements!LedgerNext
<1>2. CASE CheckLimits(r)
  <2>1. UNCHANGED <<balance, charged>> /\ pc[r] = "limits" /\ charged[r] = 0
    BY <1>2 DEF CheckLimits
  <2>2. PICK where \in {"refused", "suspending", "debiting", "free"} : pc' = [pc EXCEPT ![r] = where]
    BY <1>2 DEF CheckLimits
  <2>3. CASE where \in {"refused", "free"}
    <3>1. ~(where = "paid") /\ ~(where = "unpaid") /\ pc[r] \notin Ended /\ ~(charged[r] > 0)
      BY <2>1, <2>3
    <3> HIDE DEF answer
    <3>2. Implements!LedgerNext
      BY <1>1, <2>1, <2>2, <2>3, <3>1, Zenon
    <3> QED
      BY <3>2
  <2>4. CASE where \in {"suspending", "debiting"}
    BY <2>1, <2>2, <2>4
  <2> QED
    BY <2>3, <2>4
<1>3. CASE SuspendForLimit(r)
  <2>1. UNCHANGED <<balance, charged>> /\ pc[r] = "suspending" /\ charged[r] = 0
    BY <1>3 DEF SuspendForLimit
  <2>2. CASE due[r] > 0
    BY <1>3, <2>1, <2>2 DEF SuspendForLimit
  <2>3. CASE ~(due[r] > 0)
    BY <1>1, <1>3, <2>1, <2>3 DEF SuspendForLimit
  <2> QED
    BY <2>2, <2>3
<1>4. CASE DebitBalance(r)
  <2>1. answer' = answer /\ answer[r] = "open" /\ charged[r] = 0 /\ due[r] > 0
    BY <1>4 DEF DebitBalance
  <2>2. CASE balance >= due[r]
    <3>1. due[r] \in 1..balance
      BY <2>1, <2>2
    <3>2. balance' = balance - due[r] /\ charged' = [charged EXCEPT ![r] = due[r]]
      BY <1>4, <2>2 DEF DebitBalance
    <3>3. Implements!Charge(r)
      BY <2>1, <3>1, <3>2 DEF Implements!Charge
    <3> QED
      BY <3>3 DEF Implements!LedgerNext
  <2>3. CASE ~(balance >= due[r])
    BY <1>4, <2>1, <2>3 DEF DebitBalance
  <2> QED
    BY <2>2, <2>3
<1>5. CASE RecordCharge(r)
  BY <1>1, <1>5 DEF RecordCharge
<1>6. CASE SuspendExhausted(r)
  <2>1. CASE r \in Streams
    BY <1>1, <1>6, <2>1 DEF SuspendExhausted
  <2>2. CASE r \notin Streams
    BY <1>1, <1>6, <2>2 DEF SuspendExhausted
  <2> QED
    BY <2>1, <2>2
<1>7. CASE BillingThrows(r)
  <2>1. Implements!Break({r})
    BY <1>7 DEF BillingThrows, Implements!Break
  <2> QED
    BY <2>1 DEF Implements!LedgerNext
<1> QED
  BY <1>2, <1>3, <1>4, <1>5, <1>6, <1>7 DEF Bill

LEMMA WorkRefines ==
    ASSUME NEW r \in Requests, Work(r)
    PROVE  UNCHANGED Implements!ledger
  BY DEF Work, InsertRow, InsertThrows, CreditProvider, NoteShare, Acknowledge, JobStalls,
         agentVars, requestVars, Implements!ledger

LEMMA EnvironmentRefines ==
    ASSUME BillingInvariant, BillingInvariant', Environment
    PROVE  [Implements!LedgerNext]_(Implements!ledger)
<1> USE DEF BillingInvariant, TypeOK, agentVars, requestVars, Implements!ledger
<1>1. CASE SampleDepth \/ EvictCache \/ AdminSetStatus
  BY <1>1 DEF SampleDepth, EvictCache, AdminSetStatus
<1>2. CASE CreditBalance \/ AdminDebit
  <2>1. Implements!Transfer
    BY <1>2 DEF CreditBalance, AdminDebit, Implements!Transfer
  <2> QED
    BY <2>1 DEF Implements!LedgerNext
<1>3. CASE Crash
  <2> DEFINE S == {q \in Requests : pc[q] \in Running}
  <2>1. Implements!Break(S)
    BY <1>3 DEF Crash, Implements!Break, Running, Ended
  <2>2. S \in SUBSET Requests
    OBVIOUS
  <2>3. \E T \in SUBSET Requests : Implements!Break(T)
    <3> HIDE DEF S
    <3> QED
      BY <2>1, <2>2, Zenon DEF Implements!Break
  <2>4. Implements!LedgerNext
    BY <2>3, Zenon DEF Implements!LedgerNext
  <2> QED
    BY <2>4
<1> QED
  BY <1>1, <1>2, <1>3 DEF Environment

\* The relay implements the prepaid ledger: one debit per request within the
\* balance, and an answer that agrees with it, for every instance.
THEOREM Refinement == Spec => LedgerPromise
<1>1. Init => Implements!LedgerInit
  BY BalanceAssumption DEF Init, Implements!LedgerInit, Ended
<1>2. BillingInvariant /\ BillingInvariant' /\ [Next]_vars => [Implements!LedgerNext]_(Implements!ledger)
  <2>1. ASSUME UNCHANGED vars PROVE UNCHANGED Implements!ledger
    BY <2>1 DEF vars, agentVars, requestVars, Implements!ledger
  <2> QED
    BY <2>1, RelayRefines, BillRefines, WorkRefines, EnvironmentRefines DEF Next
<1> QED
  BY <1>1, <1>2, InvariantHolds, PTL DEF Spec, LedgerPromise, Implements!LedgerSpec
==============================================================================
