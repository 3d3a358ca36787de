-------------------------- MODULE WithdrawalsProofs --------------------------
(***************************************************************************)
(* For any number of orders and of concurrent administrator calls.  The    *)
(* compare-and-set of the first transaction leaves at most one call past   *)
(* it, and that call alone moves a processing order and its money; what it *)
(* does, step by step, is what Payouts allows.                             *)
(***************************************************************************)
EXTENDS Withdrawals, TLAPS

USE OrdersAssumption, CallsAssumption, BalanceAssumption
USE DEF Statuses, Holding, Places, money, Goto, Move, WriteRow

LEMMA InitInvariant == Init => WithdrawalInvariant
  BY DEF Init, WithdrawalInvariant, TypeOK, StatusTellsMoney, PaidOnce, Sent, Holders, HolderTellsOrder

\* Steps that touch neither the calls past the first transaction nor the orders.
LEMMA OutsideInvariant ==
    ASSUME WithdrawalInvariant, (\E o \in Orders : Request(o)) \/ Deposit \/ Spend
    PROVE  WithdrawalInvariant'
<1> USE DEF WithdrawalInvariant, TypeOK, StatusTellsMoney, PaidOnce, Sent, Holders, HolderTellsOrder
<1>1. ASSUME NEW o \in Orders, Request(o) PROVE WithdrawalInvariant'
  BY <1>1 DEF Request
<1>2. CASE Deposit
  BY <1>2 DEF Deposit
<1>3. CASE Spend
  BY <1>3 DEF Spend
<1> QED
  BY <1>1, <1>2, <1>3

LEMMA ReviewInvariant ==
    ASSUME WithdrawalInvariant, NEW c \in Calls, Review(c)
    PROVE  WithdrawalInvariant'
<1> USE DEF WithdrawalInvariant, TypeOK, StatusTellsMoney, PaidOnce, Sent, Holders, HolderTellsOrder
<1>1. CASE RejectCheck(c)
  BY <1>1 DEF RejectCheck
<1>2. CASE Reject(c)
  BY <1>2 DEF Reject
<1>3. CASE ApproveCheck(c)
  BY <1>3 DEF ApproveCheck
<1>4. CASE Approve(c)
  <2> DEFINE o == OrderOf[c]
  <2>1. CASE status[o] # "pending"
    BY <1>4, <2>1 DEF Approve, Debit
  <2>2. CASE status[o] = "pending" /\ balance < Amount[o]
    BY <1>4, <2>2 DEF Approve, Debit
  <2>3. CASE status[o] = "pending" /\ balance >= Amount[o]
    <3>1. /\ o \in Orders
          /\ balance' \in Nat
          /\ debits' = [debits EXCEPT ![o] = 1]
          /\ refunds' = refunds /\ tx' = tx
      BY <1>4, <2>3 DEF Approve, Debit
    <3>2. /\ rows[o] = 0 /\ debits[o] = 0 /\ refunds[o] = 0
          /\ \A d \in Calls : OrderOf[d] = o => tx[d] = "none" /\ at[d] \notin Holding
      BY <2>3, <3>1
    <3>3. CASE o \in Fiat
      <4>1. /\ status' = [status EXCEPT ![o] = "completed"]
            /\ rows' = [rows EXCEPT ![o] = 1]
            /\ at' = [at EXCEPT ![c] = "done"]
        BY <1>4, <2>3, <3>1, <3>3 DEF Approve
      <4>2. TypeOK'
        BY <3>1, <3>2, <4>1
      <4>3. StatusTellsMoney'
        BY <3>1, <3>2, <4>1
      <4>4. PaidOnce'
        BY <2>3, <3>1, <3>2, <3>3, <4>1
      <4>5. ASSUME NEW d \in Calls PROVE HolderTellsOrder(d)'
        BY <2>3, <3>1, <3>2, <3>3, <4>1
      <4> QED
        BY <3>1, <3>2, <4>1, <4>2, <4>3, <4>4, <4>5
    <3>4. CASE o \notin Fiat
      <4>1. /\ status' = [status EXCEPT ![o] = "processing"]
            /\ rows' = rows
            /\ at' = [at EXCEPT ![c] = "sending"]
        BY <1>4, <2>3, <3>4 DEF Approve
      <4>2. TypeOK'
        BY <3>1, <3>2, <4>1
      <4>3. StatusTellsMoney'
        BY <3>1, <3>2, <4>1
      <4>4. PaidOnce'
        BY <2>3, <3>1, <3>2, <3>4, <4>1
      <4>5. ASSUME NEW d \in Calls PROVE HolderTellsOrder(d)'
        BY <2>3, <3>1, <3>2, <3>4, <4>1
      <4> QED
        BY <3>1, <3>2, <4>1, <4>2, <4>3, <4>4, <4>5
    <3> QED
      BY <3>3, <3>4
  <2> QED
    BY <2>1, <2>2, <2>3
<1> QED
  BY <1>1, <1>2, <1>3, <1>4 DEF Review

LEMMA SettleInvariant ==
    ASSUME WithdrawalInvariant, NEW c \in Calls, Settle(c) \/ CallBreaks(c) \/ Mine(c)
    PROVE  WithdrawalInvariant'
<1> USE DEF WithdrawalInvariant, TypeOK, StatusTellsMoney, PaidOnce, Sent, Holders, HolderTellsOrder
<1>1. CASE Broadcast(c)
  <2>1. /\ at[c] = "sending" /\ tx[c] = "none" /\ OrderOf[c] \in Orders
        /\ at' \in {[at EXCEPT ![c] = "waiting"], [at EXCEPT ![c] = "refunding"]}
        /\ tx' \in {tx, [tx EXCEPT ![c] = "flying"]}
        /\ UNCHANGED <<balance, debits, refunds, status, rows>>
    BY <1>1 DEF Broadcast
  <2>2. debits[OrderOf[c]] = 1 /\ OrderOf[c] \notin Fiat /\ Sent(OrderOf[c]) = {}
    BY <2>1
  <2>3. TypeOK' /\ StatusTellsMoney'
    BY <2>1
  <2>4. PaidOnce'
    BY <2>1, <2>2
  <2>5. ASSUME NEW d \in Calls PROVE HolderTellsOrder(d)'
    BY <2>1, <2>2
  <2> QED
    BY <2>1, <2>2, <2>3, <2>4, <2>5
<1>2. CASE Receipt(c)
  BY <1>2 DEF Receipt
<1>3. CASE ReceiptThrows(c)
  BY <1>3 DEF ReceiptThrows
<1>4. CASE Finalize(c)
  <2> DEFINE o == OrderOf[c]
  <2>1. /\ status[o] = "processing" /\ rows[o] = 0 /\ debits[o] = 1 /\ refunds[o] = 0
        /\ tx[c] = "mined" /\ o \notin Fiat /\ o \in Orders
    BY <1>4 DEF Finalize
  <2>2. /\ status' = [status EXCEPT ![o] = "completed"]
        /\ rows' = [rows EXCEPT ![o] = 1]
        /\ at' = [at EXCEPT ![c] = "done"]
        /\ UNCHANGED <<balance, debits, refunds, tx>>
    BY <1>4, <2>1 DEF Finalize
  <2>3. c \in Sent(o)'
    BY <2>1, <2>2
  <2>4. TypeOK'
    BY <2>1, <2>2
  <2>5. StatusTellsMoney'
    BY <2>1, <2>2
  <2>6. PaidOnce'
    BY <2>1, <2>2, <2>3
  <2>7. ASSUME NEW d \in Calls PROVE HolderTellsOrder(d)'
    BY <2>1, <2>2
  <2> QED
    BY <2>1, <2>2, <2>4, <2>5, <2>6, <2>7
<1>5. CASE FinalizeThrows(c)
  BY <1>5 DEF FinalizeThrows
<1>6. CASE Refund(c)
  BY <1>6 DEF Refund
<1>7. CASE CallBreaks(c)
  BY <1>7 DEF CallBreaks
<1>8. CASE Mine(c)
  BY <1>8 DEF Mine
<1> QED
  BY <1>1, <1>2, <1>3, <1>4, <1>5, <1>6, <1>7, <1>8 DEF Settle

LEMMA StepInvariant == WithdrawalInvariant /\ [Next]_vars => WithdrawalInvariant'
<1> SUFFICES ASSUME WithdrawalInvariant, [Next]_vars PROVE WithdrawalInvariant'
  OBVIOUS
<1>1. CASE UNCHANGED vars
  BY <1>1 DEF vars, WithdrawalInvariant, TypeOK, StatusTellsMoney, PaidOnce, Sent, Holders, HolderTellsOrder
<1>2. CASE Next
  BY <1>2, OutsideInvariant, ReviewInvariant, SettleInvariant DEF Next
<1> QED
  BY <1>1, <1>2

(* The inductive invariant holds of every state of the specification.       *)
THEOREM WithdrawalsSound == Spec => []WithdrawalInvariant
  BY InitInvariant, StepInvariant, PTL DEF Spec

(* The status of an order tells what became of the money.                   *)
THEOREM StatusHonest == Spec => []StatusTellsMoney
<1>1. WithdrawalInvariant => StatusTellsMoney
  BY DEF WithdrawalInvariant
<1> QED
  BY WithdrawalsSound, <1>1, PTL

(* No order is paid twice, whichever calls about it run at once.            *)
THEOREM NoDoublePayment == Spec => []PaidOnce
<1>1. WithdrawalInvariant => PaidOnce
  BY DEF WithdrawalInvariant
<1> QED
  BY WithdrawalsSound, <1>1, PTL

(* The "manual intervention" answer of an approval is never given: no other *)
(* path moves an order that is processing.                                  *)
THEOREM NoFinalizationConflict == Spec => [](\A c \in Calls : at[c] # "manual")
<1>1. WithdrawalInvariant => \A c \in Calls : at[c] # "manual"
  BY DEF WithdrawalInvariant, HolderTellsOrder
<1> QED
  BY WithdrawalsSound, <1>1, PTL
------------------------------------------------------------------------------
(* The refinement of Payouts: an approval is a Take or a Decline, a          *)
(* rejection a Decline, a broadcast a Send, the second transaction a         *)
(* Complete, the third a PutBack; checks and waits stutter.                  *)

USE DEF Outcome, Sent

\* What a step of a review or of the money changes of the promise.
LEMMA OutsideRefines ==
    ASSUME WithdrawalInvariant, WithdrawalInvariant',
           (\E o \in Orders : Request(o)) \/ Deposit \/ Spend
    PROVE  [Implements!PayoutsNext]_(Implements!payouts)
<1> USE DEF WithdrawalInvariant, TypeOK
<1>1. ASSUME NEW o \in Orders, Request(o) PROVE UNCHANGED Implements!payouts
  BY <1>1 DEF Request, Implements!payouts
<1>2. CASE Deposit \/ Spend
  <2>1. Implements!OtherMoney
    BY <1>2 DEF Deposit, Spend, Implements!OtherMoney
  <2> QED
    BY <2>1 DEF Implements!PayoutsNext
<1> QED
  BY <1>1, <1>2

\* An order of which nothing was taken may be declined.
LEMMA Declines ==
    ASSUME WithdrawalInvariant, NEW c \in Calls, NEW how \in {"failed", "cancelled"},
           status[OrderOf[c]] = "pending", Move(c, how), UNCHANGED <<money, tx>>
    PROVE  Implements!PayoutsNext
<1> USE DEF WithdrawalInvariant, TypeOK
<1> DEFINE o == OrderOf[c]
<1>1. o \in Orders /\ debits[o] = 0
  BY DEF StatusTellsMoney
<1>2. Implements!Decline(o, how)
  BY <1>1 DEF Implements!Decline
<1> QED
  BY <1>1, <1>2 DEF Implements!PayoutsNext

LEMMA ReviewRefines ==
    ASSUME WithdrawalInvariant, NEW c \in Calls, Review(c)
    PROVE  [Implements!PayoutsNext]_(Implements!payouts)
<1> USE DEF WithdrawalInvariant, TypeOK
<1> DEFINE o == OrderOf[c]
<1>1. CASE RejectCheck(c) \/ ApproveCheck(c)
  BY <1>1 DEF RejectCheck, ApproveCheck, Implements!payouts
<1>2. CASE Reject(c)
  <2>1. CASE status[o] = "pending"
    BY <1>2, <2>1, Declines DEF Reject
  <2>2. CASE status[o] # "pending"
    BY <1>2, <2>2 DEF Reject, Implements!payouts
  <2> QED
    BY <2>1, <2>2
<1>3. CASE Approve(c)
  <2>1. CASE status[o] # "pending"
    BY <1>3, <2>1 DEF Approve, Implements!payouts
  <2>2. CASE status[o] = "pending" /\ balance < Amount[o]
    BY <1>3, <2>2, Declines DEF Approve
  <2>3. CASE status[o] = "pending" /\ balance >= Amount[o]
    <3>1. /\ o \in Orders /\ debits[o] = 0 /\ Amount[o] <= balance
          /\ debits' = [debits EXCEPT ![o] = 1]
          /\ balance' = balance - Amount[o] /\ refunds' = refunds /\ tx' = tx
          /\ status' = [status EXCEPT ![o] = IF o \in Fiat THEN "completed" ELSE "processing"]
      BY <1>3, <2>3 DEF Approve, Debit, StatusTellsMoney
    <3>2. Implements!Take(o)
      BY <2>3, <3>1 DEF Implements!Take
    <3> QED
      BY <3>1, <3>2 DEF Implements!PayoutsNext
  <2> QED
    BY <2>1, <2>2, <2>3
<1> QED
  BY <1>1, <1>2, <1>3 DEF Review

\* The first broadcast of an order whose money is held.
LEMMA BroadcastRefines ==
    ASSUME WithdrawalInvariant, NEW c \in Calls, Broadcast(c)
    PROVE  [Implements!PayoutsNext]_(Implements!payouts)
<1> USE DEF WithdrawalInvariant, TypeOK
<1>1. CASE tx' = tx
  BY <1>1 DEF Broadcast, Implements!payouts
<1>2. CASE tx' = [tx EXCEPT ![c] = "flying"]
  <2>1. /\ OrderOf[c] \in Orders \ Fiat /\ debits[OrderOf[c]] = 1 /\ refunds[OrderOf[c]] = 0
        /\ \A d \in Sent(OrderOf[c]) : d = c
        /\ tx[c] = "none"
    BY DEF Broadcast, HolderTellsOrder
  <2>2. \A d \in Calls : tx[d] # "none" => OrderOf[d] # OrderOf[c]
    BY <2>1
  <2>3. {d \in Calls : tx'[d] # "none"} = {d \in Calls : tx[d] # "none"} \union {c}
    BY <1>2
  <2>4. {d \in Calls : tx'[d] = "mined"} = {d \in Calls : tx[d] = "mined"}
    BY <1>2, <2>1
  <2>5. Implements!Send(c)
    BY <2>1, <2>2, <2>3, <2>4 DEF Broadcast, Implements!Send, Implements!Held
  <2> QED
    BY <2>5 DEF Implements!PayoutsNext
<1> QED
  BY <1>1, <1>2 DEF Broadcast

\* A completion, by the second transaction or by one whose reply was lost.
LEMMA Completes ==
    ASSUME WithdrawalInvariant, NEW c \in Calls, at[c] = "sent",
           status[OrderOf[c]] = "processing", Move(c, "completed"), UNCHANGED <<money, tx>>
    PROVE  Implements!PayoutsNext
<1> USE DEF WithdrawalInvariant, TypeOK
<1> DEFINE o == OrderOf[c]
<1>1. o \in Orders /\ tx[c] = "mined" /\ debits[o] = 1 /\ refunds[o] = 0
  BY DEF HolderTellsOrder
<1>2. Implements!Complete(o)
  BY <1>1 DEF Implements!Complete, Implements!Held
<1> QED
  BY <1>1, <1>2 DEF Implements!PayoutsNext

LEMMA SettleRefines ==
    ASSUME WithdrawalInvariant, NEW c \in Calls, Settle(c) \/ CallBreaks(c) \/ Mine(c)
    PROVE  [Implements!PayoutsNext]_(Implements!payouts)
<1> USE DEF WithdrawalInvariant, TypeOK
<1> DEFINE o == OrderOf[c]
<1>1. CASE Receipt(c) \/ ReceiptThrows(c) \/ CallBreaks(c)
  BY <1>1 DEF Receipt, ReceiptThrows, CallBreaks, Implements!payouts
<1>2. CASE Finalize(c)
  <2>1. CASE status[o] = "processing"
    BY <1>2, <2>1, Completes DEF Finalize
  <2>2. CASE status[o] # "processing"
    BY <1>2, <2>2 DEF Finalize, Implements!payouts
  <2> QED
    BY <2>1, <2>2
<1>3. CASE FinalizeThrows(c)
  <2>1. CASE UNCHANGED status
    BY <1>3, <2>1 DEF FinalizeThrows, Implements!payouts
  <2>2. CASE Move(c, "completed")
    BY <1>3, <2>2, Completes DEF FinalizeThrows
  <2> QED
    BY <1>3, <2>1, <2>2 DEF FinalizeThrows
<1>4. CASE Refund(c)
  <2>1. o \in Orders \ Fiat /\ debits[o] = 1 /\ refunds[o] = 0
    BY <1>4 DEF Refund, HolderTellsOrder
  <2>2. /\ refunds' = [refunds EXCEPT ![o] = 1]
        /\ status' = [status EXCEPT ![o] = "failed"]
        /\ balance' = balance + Amount[o] /\ debits' = debits /\ tx' = tx
    BY <1>4, <2>1 DEF Refund
  <2>3. [p \in Orders |-> Outcome(p)'] = [[p \in Orders |-> Outcome(p)] EXCEPT ![o] = "failed"]
    BY <2>1, <2>2
  <2>4. Implements!PutBack(o)
    BY <2>1, <2>2, <2>3 DEF Implements!PutBack, Implements!Held
  <2> QED
    BY <2>1, <2>4 DEF Implements!PayoutsNext
<1>5. CASE Mine(c)
  <2>1. {d \in Calls : tx'[d] # "none"} = {d \in Calls : tx[d] # "none"}
    BY <1>5 DEF Mine
  <2>2. CASE tx' = [tx EXCEPT ![c] = "mined"]
    <3>1. {d \in Calls : tx'[d] = "mined"} = {d \in Calls : tx[d] = "mined"} \union {c}
      BY <2>2
    <3>2. Implements!Include(c)
      BY <1>5, <2>1, <3>1 DEF Mine, Implements!Include
    <3> QED
      BY <3>2 DEF Implements!PayoutsNext
  <2>3. CASE tx' = [tx EXCEPT ![c] = "reverted"]
    <3>1. {d \in Calls : tx'[d] = "mined"} = {d \in Calls : tx[d] = "mined"}
      BY <1>5, <2>3 DEF Mine
    <3> QED
      BY <1>5, <2>1, <3>1 DEF Mine, Implements!payouts
  <2> QED
    BY <1>5, <2>2, <2>3 DEF Mine
<1> QED
  BY <1>1, <1>2, <1>3, <1>4, <1>5, BroadcastRefines DEF Settle

(* Approvals, rejections, crashes and late receipts in any order keep the   *)
(* promise of Payouts: one debit, one transfer, one refund of an order.     *)
THEOREM Refinement == Spec => PayoutPromise
<1>1. Init => Implements!PayoutsInit
  BY DEF Init, Implements!PayoutsInit
<1>2. WithdrawalInvariant /\ WithdrawalInvariant' /\ [Next]_vars
        => [Implements!PayoutsNext]_(Implements!payouts)
  <2>1. ASSUME UNCHANGED vars PROVE UNCHANGED Implements!payouts
    BY <2>1 DEF vars, Implements!payouts
  <2> QED
    BY <2>1, OutsideRefines, ReviewRefines, SettleRefines DEF Next
<1> QED
  BY <1>1, <1>2, WithdrawalsSound, PTL DEF Spec, PayoutPromise, Implements!PayoutsSpec
==============================================================================
