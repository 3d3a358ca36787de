----------------------------- MODULE Withdrawals -----------------------------
(***************************************************************************)
(* Withdrawal orders of one pay-agent.  The user files an order, which     *)
(* takes nothing from the balance; an administrator approves or rejects    *)
(* it.  An approval debits the balance and moves the order in one database *)
(* transaction; a crypto order is then paid from the hot wallet by the     *)
(* same call, outside any transaction, and either finalized or refunded in *)
(* a second one.  Several calls about one order may run at once.           *)
(*                                                                         *)
(* A definition with an underscore is a fault the properties must catch.   *)
(***************************************************************************)
EXTENDS Integers, FiniteSets

CONSTANTS
    Orders,         \* withdraw_orders of the agent
    Fiat,           \* those paid outside the system
    Amount,         \* amount of each order
    Calls,          \* administrator calls, approvals or rejections
    OrderOf,        \* the order each call names
    MaxBalance      \* model bound on the balance

ASSUME OrdersAssumption == Fiat \subseteq Orders /\ Amount \in [Orders -> Nat \ {0}]
ASSUME CallsAssumption == OrderOf \in [Calls -> Orders]
ASSUME BalanceAssumption == MaxBalance \in Nat

VARIABLES
    balance,        \* pay_agents.balance
    status,         \* withdraw_orders.status
    debits,         \* how often the order was taken from the balance
    refunds,        \* how often it was put back
    rows,           \* its withdraw rows in pay_agent_transactions
    at,             \* where each call is
    tx              \* the on-chain transfer each call made

money == <<balance, debits, refunds>>
vars  == <<money, status, rows, at, tx>>

Statuses == {"none", "pending", "processing", "completed", "failed", "cancelled"}
Holding  == {"sending", "waiting", "sent", "refunding"}   \* past the first transaction
Places   == Holding \union {"idle", "approving", "rejecting", "manual", "done", "dead"}

Init ==
    /\ balance \in 0..MaxBalance
    /\ status = [o \in Orders |-> "none"]
    /\ debits = [o \in Orders |-> 0]
    /\ refunds = [o \in Orders |-> 0]
    /\ rows = [o \in Orders |-> 0]
    /\ at = [c \in Calls |-> "idle"]
    /\ tx = [c \in Calls |-> "none"]

Goto(c, where) == at' = [at EXCEPT ![c] = where]
Move(c, to) == status' = [status EXCEPT ![OrderOf[c]] = to]
WriteRow(c) == rows' = [rows EXCEPT ![OrderOf[c]] = @ + 1]

------------------------------------------------------------------------------
(* The user and everything else that moves the balance. *)

\* POST /withdraw: the amount is compared with the balance, not reserved, and
\* other orders may be pending.
Request(o) ==
    /\ status[o] = "none"
    /\ balance >= Amount[o]
    /\ status' = [status EXCEPT ![o] = "pending"]
    /\ UNCHANGED <<money, rows, at, tx>>

Deposit ==
    /\ \E amount \in 1..(MaxBalance - balance) : balance' = balance + amount
    /\ UNCHANGED <<debits, refunds, status, rows, at, tx>>

Spend ==
    /\ \E amount \in 1..balance : balance' = balance - amount
    /\ UNCHANGED <<debits, refunds, status, rows, at, tx>>

------------------------------------------------------------------------------
(* PUT /wallet/withdrawals/:id/reject *)

\* findById; any other status answers 400.
RejectCheck(c) ==
    /\ at[c] = "idle" /\ status[OrderOf[c]] = "pending"
    /\ Goto(c, "rejecting")
    /\ UNCHANGED <<money, status, rows, tx>>

\* A fault: the order found pending is cancelled without a second look.
Reject_Unguarded(c) ==
    /\ at[c] = "rejecting"
    /\ Move(c, "cancelled")
    /\ Goto(c, "done")
    /\ UNCHANGED <<money, rows, tx>>

\* updateStatus applies to a pending order only; the call answers ok either way.
Reject(c) ==
    /\ at[c] = "rejecting"
    /\ IF status[OrderOf[c]] = "pending" THEN Move(c, "cancelled") ELSE UNCHANGED status
    /\ Goto(c, "done")
    /\ UNCHANGED <<money, rows, tx>>

------------------------------------------------------------------------------
(* PUT /wallet/withdrawals/:id/approve *)

ApproveCheck(c) ==
    /\ at[c] = "idle" /\ status[OrderOf[c]] = "pending"
    /\ Goto(c, "approving")
    /\ UNCHANGED <<money, status, rows, tx>>

Debit(o) ==
    /\ balance' = balance - Amount[o]
    /\ debits' = [debits EXCEPT ![o] = @ + 1]
    /\ UNCHANGED refunds

\* A fault: the debit has no condition on the balance.
Approve_Overdraws(c) ==
    /\ at[c] = "approving" /\ status[OrderOf[c]] = "pending"
    /\ Debit(OrderOf[c])
    /\ Move(c, "processing") /\ Goto(c, "sending")
    /\ UNCHANGED <<rows, tx>>

\* A fault: the order found pending is taken without a second look.
Approve_Unguarded(c) ==
    /\ at[c] = "approving" /\ balance >= Amount[OrderOf[c]]
    /\ Debit(OrderOf[c])
    /\ Move(c, "processing") /\ Goto(c, "sending")
    /\ UNCHANGED <<rows, tx>>

\* The first transaction: pending -> processing, the guarded debit, and for a
\* fiat order the completion and its row.
Approve(c) ==
    /\ at[c] = "approving"
    /\ LET o == OrderOf[c] IN
       \/ /\ status[o] # "pending"                              \* 409
          /\ Goto(c, "done")
          /\ UNCHANGED <<money, status, rows>>
       \/ /\ status[o] = "pending" /\ balance < Amount[o]       \* 400
          /\ Move(c, "failed") /\ Goto(c, "done")
          /\ UNCHANGED <<money, rows>>
       \/ /\ status[o] = "pending" /\ balance >= Amount[o] /\ o \in Fiat
          /\ Debit(o)
          /\ Move(c, "completed") /\ WriteRow(c) /\ Goto(c, "done")
       \/ /\ status[o] = "pending" /\ balance >= Amount[o] /\ o \notin Fiat
          /\ Debit(o)
          /\ Move(c, "processing") /\ Goto(c, "sending")
          /\ UNCHANGED rows
    /\ UNCHANGED tx

\* sendUsdc, writeContract: the transfer is broadcast, or not, or broadcast
\* and the reply lost; a throw ends in the catch block.
Broadcast(c) ==
    /\ at[c] = "sending"
    /\ \/ Goto(c, "waiting") /\ tx' = [tx EXCEPT ![c] = "flying"]
       \/ Goto(c, "refunding") /\ tx' = [tx EXCEPT ![c] = "flying"]
       \/ Goto(c, "refunding") /\ UNCHANGED tx
    /\ UNCHANGED <<money, status, rows>>

\* sendUsdc, waitForTransactionReceipt: a reverted receipt is thrown.
Receipt(c) ==
    /\ at[c] = "waiting"
    /\ tx[c] \in {"mined", "reverted"}
    /\ Goto(c, IF tx[c] = "mined" THEN "sent" ELSE "refunding")
    /\ UNCHANGED <<money, status, rows, tx>>

\* A fault: the wait for the receipt has no timeout.
ReceiptThrows_Waits(c) ==
    /\ at[c] = "waiting" /\ tx[c] # "flying"
    /\ Goto(c, "refunding")
    /\ UNCHANGED <<money, status, rows, tx>>

\* The wait times out or its RPC fails, whatever became of the transfer.
ReceiptThrows(c) ==
    /\ at[c] = "waiting"
    /\ Goto(c, "refunding")
    /\ UNCHANGED <<money, status, rows, tx>>

\* The second transaction: processing -> completed and the row.
Finalize(c) ==
    /\ at[c] = "sent"
    /\ IF status[OrderOf[c]] = "processing"
       THEN Move(c, "completed") /\ WriteRow(c) /\ Goto(c, "done")
       ELSE Goto(c, "manual") /\ UNCHANGED <<status, rows>>
    /\ UNCHANGED <<money, tx>>

\* It fails, or commits and its reply is lost.
FinalizeThrows(c) ==
    /\ at[c] = "sent" /\ status[OrderOf[c]] = "processing"
    /\ \/ UNCHANGED <<status, rows>>
       \/ Move(c, "completed") /\ WriteRow(c)
    /\ Goto(c, "refunding")
    /\ UNCHANGED <<money, tx>>

\* The third transaction: the amount is put back and the order marked failed,
\* whatever its status.
Refund(c) ==
    /\ at[c] = "refunding"
    /\ balance' = balance + Amount[OrderOf[c]]
    /\ refunds' = [refunds EXCEPT ![OrderOf[c]] = @ + 1]
    /\ Move(c, "failed") /\ Goto(c, "done")
    /\ UNCHANGED <<debits, rows, tx>>

\* A transaction throws outside the try block, or the process dies; a call that
\* holds no order yet is merely over.
CallBreaks(c) ==
    /\ \/ at[c] \in Holding /\ Goto(c, "dead")
       \/ at[c] \in {"approving", "rejecting"} /\ Goto(c, "done")
    /\ UNCHANGED <<money, status, rows, tx>>

\* The chain includes the transfer, or it reverts.
Mine(c) ==
    /\ tx[c] = "flying"
    /\ \E fate \in {"mined", "reverted"} : tx' = [tx EXCEPT ![c] = fate]
    /\ UNCHANGED <<money, status, rows, at>>

------------------------------------------------------------------------------
Review(c) == RejectCheck(c) \/ Reject(c) \/ ApproveCheck(c) \/ Approve(c)
Settle(c) == \/ Broadcast(c) \/ Receipt(c) \/ ReceiptThrows(c)
             \/ Finalize(c) \/ FinalizeThrows(c) \/ Refund(c)

Next ==
    \/ \E o \in Orders : Request(o)
    \/ Deposit \/ Spend
    \/ \E c \in Calls : Review(c) \/ Settle(c) \/ CallBreaks(c) \/ Mine(c)

Spec == Init /\ [][Next]_vars

(* A call that holds an order goes on: the RPC calls and the wait for the   *)
(* receipt have timeouts (viem), and the database answers or throws.        *)
FairSpec == Spec /\ \A c \in Calls : WF_vars(Settle(c))

------------------------------------------------------------------------------
TypeOK ==
    /\ balance \in Nat
    /\ status \in [Orders -> Statuses]
    /\ debits \in [Orders -> Nat]
    /\ refunds \in [Orders -> Nat]
    /\ rows \in [Orders -> Nat]
    /\ at \in [Calls -> Places]
    /\ tx \in [Calls -> {"none", "flying", "mined", "reverted"}]

(* The status of an order tells what became of the money, for any number of *)
(* concurrent approvals and rejections: "Simply cancel -- balance was never *)
(* debited, no refund needed" (admin.ts), a failed order was put back if it *)
(* was taken, and a completed one was taken and not put back.               *)
StatusTellsMoney ==
    \A o \in Orders :
        /\ status[o] \in {"none", "pending", "cancelled"} => debits[o] = 0 /\ refunds[o] = 0
        /\ status[o] = "processing" => debits[o] = 1 /\ refunds[o] = 0
        /\ status[o] = "completed" => debits[o] = 1 /\ refunds[o] = 0 /\ rows[o] = 1
        /\ status[o] = "failed" => debits[o] = refunds[o] /\ debits[o] <= 1

(* An order is sent by one call, once, after it was debited, and its ledger *)
(* row is about a transfer the chain has included.                          *)
Sent(o) == {c \in Calls : OrderOf[c] = o /\ tx[c] # "none"}
PaidOnce ==
    \A o \in Orders :
        /\ \A c, d \in Sent(o) : c = d
        /\ Sent(o) # {} => debits[o] = 1 /\ o \notin Fiat
        /\ rows[o] > 0 /\ o \notin Fiat => \E c \in Sent(o) : tx[c] = "mined"

(* A processing order is finalized or refunded, unless the call that held   *)
(* it broke: nothing else picks it up.                                      *)
Abandoned(o) == \E c \in Calls : OrderOf[c] = o /\ at[c] = "dead"
ProcessingResolves ==
    \A o \in Orders :
        status[o] = "processing" ~> status[o] \in {"completed", "failed"} \/ Abandoned(o)

(* "Approved withdrawal on-chain transfer failed, refunded": an order that  *)
(* is refunded was not paid on the chain.                                   *)
PaidIsNotRefunded ==
    \A o \in Orders : refunds[o] > 0 => \A c \in Sent(o) : tx[c] # "mined"

------------------------------------------------------------------------------
(* The strengthening: one call holds a processing order, and where it is    *)
(* tells how far the money has got.                                         *)

Holders(o) == {c \in Calls : OrderOf[c] = o /\ at[c] \in Holding}

HolderTellsOrder(c) ==
    LET o == OrderOf[c] IN
    /\ at[c] \in Holding =>
        /\ o \notin Fiat
        /\ debits[o] = 1 /\ refunds[o] = 0
        /\ \/ status[o] = "processing" /\ rows[o] = 0
           \/ at[c] = "refunding" /\ status[o] = "completed"
        /\ \A d \in Sent(o) : d = c
    /\ at[c] \in {"idle", "approving", "rejecting", "sending"} => tx[c] = "none"
    /\ at[c] = "sent" => tx[c] = "mined"
    /\ at[c] # "manual"

WithdrawalInvariant ==
    /\ TypeOK
    /\ StatusTellsMoney
    /\ PaidOnce
    /\ \A o \in Orders :
        /\ \A c, d \in Holders(o) : c = d
        /\ status[o] \in {"none", "pending", "cancelled"} => rows[o] = 0 /\ Sent(o) = {}
    /\ \A c \in Calls : HolderTellsOrder(c)
------------------------------------------------------------------------------
(* The review keeps the promise of Payouts: every call's transfer is one the *)
(* chain could be asked for, and an order is open until it has an end.       *)
Outcome(o) == IF status[o] \in {"completed", "failed", "cancelled"} THEN status[o] ELSE "open"

Implements == INSTANCE Payouts WITH
    Transfers <- Calls,
    PaidBy <- OrderOf,
    taken <- debits,
    returned <- refunds,
    sent <- {c \in Calls : tx[c] # "none"},
    mined <- {c \in Calls : tx[c] = "mined"},
    outcome <- [o \in Orders |-> Outcome(o)]

PayoutPromise == Implements!PayoutsSpec
==============================================================================
