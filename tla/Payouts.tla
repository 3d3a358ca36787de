------------------------------- MODULE Payouts -------------------------------
(***************************************************************************)
(* What the gateway promises about the withdrawal orders of one pay-agent, *)
(* apart from who handles them: an order is taken from the balance once,   *)
(* in full, and put back at most once; one transfer at most is sent for    *)
(* it, while its money is held; it is declined only when nothing was taken *)
(* and completed only when its money has left.  Withdrawals is the review  *)
(* that is shown to implement it.                                          *)
(*                                                                         *)
(* It is not promised that an order put back was not paid.                 *)
(***************************************************************************)
EXTENDS Naturals

CONSTANTS
    Orders,     \* withdrawal orders
    Fiat,       \* those paid outside the system
    Amount,     \* what each asks for
    Transfers,  \* transfers on the chain that may be sent
    PaidBy      \* the order each would pay

VARIABLES
    balance,    \* pay_agents.balance
    taken,      \* how often each order was taken from it
    returned,   \* how often it was put back
    sent,       \* transfers sent
    mined,      \* those the chain has included
    outcome     \* what the owner is told of each order

payouts == <<balance, taken, returned, sent, mined, outcome>>

PayoutsInit ==
    /\ balance \in Nat
    /\ taken = [o \in Orders |-> 0]
    /\ returned = [o \in Orders |-> 0]
    /\ sent = {} /\ mined = {}
    /\ outcome = [o \in Orders |-> "open"]

\* Money arrives or leaves for other reasons.
OtherMoney ==
    /\ balance' \in Nat
    /\ UNCHANGED <<taken, returned, sent, mined, outcome>>

\* A fiat order is completed with the same step.
Take(o) ==
    /\ outcome[o] = "open" /\ taken[o] = 0
    /\ Amount[o] <= balance
    /\ balance' = balance - Amount[o]
    /\ taken' = [taken EXCEPT ![o] = 1]
    /\ outcome' = [outcome EXCEPT ![o] = IF o \in Fiat THEN "completed" ELSE "open"]
    /\ UNCHANGED <<returned, sent, mined>>

Held(o) == taken[o] = 1 /\ returned[o] = 0

Send(t) ==
    /\ PaidBy[t] \notin Fiat /\ Held(PaidBy[t])
    /\ \A u \in sent : PaidBy[u] # PaidBy[t]
    /\ sent' = sent \union {t}
    /\ UNCHANGED <<balance, taken, returned, mined, outcome>>

Include(t) ==
    /\ t \in sent
    /\ mined' = mined \union {t}
    /\ UNCHANGED <<balance, taken, returned, sent, outcome>>

Complete(o) ==
    /\ outcome[o] = "open" /\ Held(o)
    /\ \E t \in mined : PaidBy[t] = o
    /\ outcome' = [outcome EXCEPT ![o] = "completed"]
    /\ UNCHANGED <<balance, taken, returned, sent, mined>>

PutBack(o) ==
    /\ o \notin Fiat /\ Held(o)
    /\ balance' = balance + Amount[o]
    /\ returned' = [returned EXCEPT ![o] = 1]
    /\ outcome' = [outcome EXCEPT ![o] = "failed"]
    /\ UNCHANGED <<taken, sent, mined>>

Decline(o, how) ==
    /\ outcome[o] = "open" /\ taken[o] = 0
    /\ outcome' = [outcome EXCEPT ![o] = how]
    /\ UNCHANGED <<balance, taken, returned, sent, mined>>

PayoutsNext ==
    \/ OtherMoney
    \/ \E o \in Orders : Take(o) \/ Complete(o) \/ PutBack(o)
    \/ \E o \in Orders, how \in {"failed", "cancelled"} : Decline(o, how)
    \/ \E t \in Transfers : Send(t) \/ Include(t)

PayoutsSpec == PayoutsInit /\ [][PayoutsNext]_payouts
==============================================================================
