------------------------------- MODULE Deposits -------------------------------
(***************************************************************************)
(* What the gateway promises about top-up orders and the transfers that    *)
(* pay for them, apart from jobs, cursors and calls: an order is decided   *)
(* once, and an administrator's credit comes with that decision; a         *)
(* transfer gets one row, which is credited at most once; a verification   *)
(* call credits at most once, and what it credits is the row's credit if   *)
(* it writes the row.  DepositSettlement is the program that is shown to   *)
(* implement it.                                                           *)
(*                                                                         *)
(* Two things are not promised: that a row is ever credited, and that a    *)
(* credit of a call which never got a row is not the transfer's second.    *)
(***************************************************************************)
EXTENDS Naturals

CONSTANTS
    Orders,     \* top-up orders
    Transfers,  \* transfers to the agent
    Verifies,   \* calls of the verification
    TransferOf  \* the transfer each call names

VARIABLES
    outcome,    \* of each order: none, pending, confirmed, rejected, expired
    settled,    \* orders credited by the administrator
    row,        \* of each transfer: none, held (by a scan), credited, lost
    call,       \* of each call: open, loose (credited without a row), booked
    credits     \* how often each transfer was added to the balance

deposits == <<outcome, settled, row, call, credits>>

DepositsInit ==
    /\ outcome = [o \in Orders |-> "none"]
    /\ settled = {}
    /\ row = [t \in Transfers |-> "none"]
    /\ call = [v \in Verifies |-> "open"]
    /\ credits = [t \in Transfers |-> 0]

Open(o) ==
    /\ outcome[o] = "none"
    /\ outcome' = [outcome EXCEPT ![o] = "pending"]
    /\ UNCHANGED <<settled, row, call, credits>>

Pending == {o \in Orders : outcome[o] = "pending"}

Decide(S, how) ==
    /\ outcome' = [o \in Orders |-> IF o \in S THEN how ELSE outcome[o]]
    /\ UNCHANGED <<settled, row, call, credits>>

Settle(o) ==
    /\ outcome' = [outcome EXCEPT ![o] = "confirmed"]
    /\ settled' = settled \union {o}
    /\ UNCHANGED <<row, call, credits>>

\* Only the scan of an order that is confirmed writes a row it has to credit.
Record(t) ==
    /\ row[t] = "none"
    /\ \E o \in Orders : outcome[o] = "confirmed"
    /\ row' = [row EXCEPT ![t] = "held"]
    /\ UNCHANGED <<outcome, settled, call, credits>>

Held == {t \in Transfers : row[t] = "held"}

Credit(S) ==
    /\ row' = [t \in Transfers |-> IF t \in S THEN "credited" ELSE row[t]]
    /\ credits' = [t \in Transfers |-> IF t \in S THEN credits[t] + 1 ELSE credits[t]]
    /\ UNCHANGED <<outcome, settled, call>>

Lose(S) ==
    /\ row' = [t \in Transfers |-> IF t \in S THEN "lost" ELSE row[t]]
    /\ UNCHANGED <<outcome, settled, call, credits>>

CreditCall(v) ==
    /\ call[v] = "open"
    /\ call' = [call EXCEPT ![v] = "loose"]
    /\ credits' = [credits EXCEPT ![TransferOf[v]] = @ + 1]
    /\ UNCHANGED <<outcome, settled, row>>

BookCall(v) ==
    /\ call[v] = "loose" /\ row[TransferOf[v]] = "none"
    /\ call' = [call EXCEPT ![v] = "booked"]
    /\ row' = [row EXCEPT ![TransferOf[v]] = "credited"]
    /\ UNCHANGED <<outcome, settled, credits>>

DepositsNext ==
    \/ \E o \in Orders : Open(o)
    \/ \E S \in SUBSET Pending, how \in {"confirmed", "rejected", "expired"} : Decide(S, how)
    \/ \E o \in Pending : Settle(o)
    \/ \E t \in Transfers : Record(t)
    \/ \E S \in SUBSET Held : Credit(S) \/ Lose(S)
    \/ \E v \in Verifies : CreditCall(v) \/ BookCall(v)

DepositsSpec == DepositsInit /\ [][DepositsNext]_deposits
==============================================================================
