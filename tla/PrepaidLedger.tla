---------------------------- MODULE PrepaidLedger ----------------------------
(***************************************************************************)
(* What the gateway promises about one prepaid pay-agent, apart from how   *)
(* it keeps the promise: a request is charged at most once, out of money   *)
(* that is there, and the answer the caller gets tells whether it was      *)
(* charged.  ConsumerBilling is the relay that is shown to implement it.   *)
(***************************************************************************)
EXTENDS Naturals

CONSTANTS
    Requests,   \* the relay requests of one consumer
    Streams     \* those whose body arrives before the bill is known

VARIABLES
    balance,    \* pay_agents.balance
    charge,     \* what each request was debited, 0 when nothing
    answer      \* how each request ended

ledger == <<balance, charge, answer>>

Answers == {"open", "paid", "free", "unpaid", "refused", "failed"}

LedgerInit ==
    /\ balance \in Nat
    /\ charge = [r \in Requests |-> 0]
    /\ answer = [r \in Requests |-> "open"]

\* Money arrives or is taken out by somebody other than a request.
Transfer ==
    /\ balance' \in Nat
    /\ UNCHANGED <<charge, answer>>

\* One debit per request, never beyond the balance.
Charge(r) ==
    /\ answer[r] = "open"
    /\ charge[r] = 0
    /\ \E amount \in 1..balance :
        /\ balance' = balance - amount
        /\ charge' = [charge EXCEPT ![r] = amount]
    /\ UNCHANGED answer

\* A paid answer means charged; a refusal, a free answer and a stream that
\* could not be collected mean not charged.  Only a stream goes uncollected.
Answer(r, how) ==
    /\ answer[r] = "open"
    /\ how = "paid" <=> charge[r] > 0
    /\ how = "unpaid" => r \in Streams
    /\ answer' = [answer EXCEPT ![r] = how]
    /\ UNCHANGED <<balance, charge>>

\* An error or the death of the process ends any set of requests.
Break(S) ==
    /\ \A r \in S : answer[r] = "open"
    /\ answer' = [r \in Requests |-> IF r \in S THEN "failed" ELSE answer[r]]
    /\ UNCHANGED <<balance, charge>>

LedgerNext ==
    \/ Transfer
    \/ \E r \in Requests : Charge(r)
    \/ \E r \in Requests, how \in {"paid", "free", "unpaid", "refused"} : Answer(r, how)
    \/ \E S \in SUBSET Requests : Break(S)

LedgerSpec == LedgerInit /\ [][LedgerNext]_ledger
==============================================================================
