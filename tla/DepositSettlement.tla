-------------------------- MODULE DepositSettlement --------------------------
(***************************************************************************)
(* Top-up orders of one pay-agent on one network, and the on-chain USDC    *)
(* transfers that settle them.  Three paths turn a transfer or an order    *)
(* into balance: the deposit-scan job of an order, POST /deposit/verify    *)
(* and the administrator's settle.  They meet only in the database: the    *)
(* order's status, compared and set by every transition, and the unique    *)
(* txHash of pay_agent_transactions.                                       *)
(*                                                                         *)
(* A transaction carries one transfer to the agent's address.  Definitions *)
(* with an underscore are faults the properties are checked to catch.      *)
(***************************************************************************)
EXTENDS Integers, FiniteSets

CONSTANTS
    Orders,         \* crypto top-up orders, numbered as created
    Transfers,      \* USDC transfers to the agent
    Verifies,       \* calls of POST /deposit/verify
    TransferOf,     \* the transfer each call names
    Enough,         \* transfers that cover an order's amount
    Lookback,       \* LOOKBACK_BLOCKS
    MaxHead,        \* model bound on the chain's height
    BlockOf         \* model bound: the block a transfer is mined in, if it is

ASSUME OrdersAssumption == Orders \subseteq Nat
ASSUME VerifiesAssumption == IsFiniteSet(Verifies) /\ TransferOf \in [Verifies -> Transfers]
ASSUME EnoughAssumption == Enough \subseteq Transfers
ASSUME BlocksAssumption == Lookback \in Nat /\ MaxHead \in Nat
ASSUME BlockOfAssumption == BlockOf \in [Transfers -> Nat]

VARIABLES
    head,           \* height of the chain
    minedAt,        \* block of each transfer, 0 before it is mined
    status,         \* top_up_orders.status
    aged,           \* a pending order is older than TOPUP_SCAN_TTL_MS
    creating,       \* where the POST /topup of each order is
    scan,           \* where the scan job of each order is
    start,          \* its data: startBlock, 0 when absent
    last,           \* its data: lastScannedBlock, 0 when absent
    todo,           \* transfers found and not inserted yet
    batch,          \* transfers inserted and not credited yet
    verify,         \* where each verification call is
    recorded,       \* transfers with a row in pay_agent_transactions
    credits,        \* how often each transfer was added to the balance
    settled,        \* orders credited by the administrator
    stranded,       \* history: rows whose scan died before crediting them
    since,          \* history: height of the chain when the scan was ordered
    blind,          \* history: the start block never reached the scan
    unread          \* history: transfers in the blocks the scan could not read

chainVars  == <<head, minedAt>>
orderVars  == <<status, aged, creating>>
scanVars   == <<scan, start, last, todo, batch>>
moneyVars  == <<recorded, credits, settled>>
watchVars  == <<since, blind, unread>>
historyVars == <<stranded, watchVars>>
vars == <<chainVars, orderVars, scanVars, verify, moneyVars, historyVars>>

Terminal == {"confirmed", "rejected", "expired"}
ScanPlaces == {"none", "waiting", "found", "inserting", "crediting", "over"}
VerifyPlaces == {"idle", "checked", "credited", "recorded", "done", "refused", "burnt"}

Init ==
    /\ head = 1
    /\ minedAt = [t \in Transfers |-> 0]
    /\ status = [o \in Orders |-> "none"]
    /\ aged = [o \in Orders |-> FALSE]
    /\ creating = [o \in Orders |-> "idle"]
    /\ scan = [o \in Orders |-> "none"]
    /\ start = [o \in Orders |-> 0]
    /\ last = [o \in Orders |-> 0]
    /\ todo = [o \in Orders |-> {}]
    /\ batch = [o \in Orders |-> {}]
    /\ verify = [v \in Verifies |-> "idle"]
    /\ recorded = {}
    /\ credits = [t \in Transfers |-> 0]
    /\ settled = {}
    /\ stranded = {}
    /\ since = [o \in Orders |-> 0]
    /\ blind = [o \in Orders |-> FALSE]
    /\ unread = [o \in Orders |-> {}]

\* A fault: the status is not compared.
Transition_Unguarded(o, to) ==
    /\ status[o] # "none"
    /\ status' = [status EXCEPT ![o] = to]
    /\ aged' = [aged EXCEPT ![o] = FALSE]

\* The guarded UPDATE every transition of an order goes through; the age of an
\* order that is not pending is of no use to anybody.
Transition(o, to) ==
    /\ status[o] = "pending"
    /\ status' = [status EXCEPT ![o] = to]
    /\ aged' = [aged EXCEPT ![o] = FALSE]

------------------------------------------------------------------------------
(* The chain *)

MineBlock ==
    /\ head < MaxHead
    /\ head' = head + 1
    /\ \E S \in SUBSET {t \in Transfers : minedAt[t] = 0 /\ BlockOf[t] = head + 1} :
        minedAt' = [t \in Transfers |-> IF t \in S THEN head' ELSE minedAt[t]]
    /\ UNCHANGED <<orderVars, scanVars, verify, moneyVars, historyVars>>

------------------------------------------------------------------------------
(* POST /topup: the check for a pending order and the insert are two calls. *)

CheckPending(o) ==
    /\ creating[o] = "idle"
    /\ creating' = [creating EXCEPT ![o] =
                        IF \E p \in Orders : status[p] = "pending" THEN "over" ELSE "checked"]
    /\ UNCHANGED <<chainVars, status, aged, scanVars, verify, moneyVars, historyVars>>

CreateOrder(o) ==
    /\ creating[o] = "checked"
    /\ creating' = [creating EXCEPT ![o] = "created"]
    /\ status' = [status EXCEPT ![o] = "pending"]
    /\ UNCHANGED <<chainVars, aged, scanVars, verify, moneyVars, historyVars>>

\* The start block is the next one, unless the RPC fails; the enqueue may be
\* lost (no queue, Redis down, or the process died before it).
EnqueueScan(o) ==
    /\ creating[o] = "created"
    /\ creating' = [creating EXCEPT ![o] = "over"]
    /\ \/ /\ scan' = [scan EXCEPT ![o] = "waiting"]
          /\ \E first \in {0, head + 1} :
              /\ start' = [start EXCEPT ![o] = first]
              /\ blind' = [blind EXCEPT ![o] = (first = 0)]
          /\ since' = [since EXCEPT ![o] = head]
       \/ /\ scan' = [scan EXCEPT ![o] = "over"]
          /\ UNCHANGED <<start, since, blind>>
    /\ UNCHANGED <<chainVars, status, aged, last, todo, batch, verify, moneyVars, stranded, unread>>

------------------------------------------------------------------------------
(* processScan.  What it reads before the lookup of recorded rows is        *)
(* immutable (blocks) or checked again by the confirm (the status).         *)

\* The job ends without another, and its data goes with it.
Finish(o) ==
    /\ scan' = [scan EXCEPT ![o] = "over"]
    /\ start' = [start EXCEPT ![o] = 0]
    /\ last' = [last EXCEPT ![o] = 0]
    /\ since' = [since EXCEPT ![o] = 0]
    /\ blind' = [blind EXCEPT ![o] = FALSE]
    /\ unread' = [unread EXCEPT ![o] = {}]

\* The next job carries the cursor, not the start, so the first of them loses
\* the start when there is no cursor yet; a job Redis loses is only logged.
Reschedule(o, cursor, missed) ==
    \/ /\ scan' = [scan EXCEPT ![o] = "waiting"]
       /\ start' = [start EXCEPT ![o] = 0]
       /\ last' = [last EXCEPT ![o] = cursor]
       /\ blind' = [blind EXCEPT ![o] = @ \/ cursor = 0]
       /\ unread' = [unread EXCEPT ![o] = @ \union missed]
       /\ UNCHANGED since
    \/ Finish(o)

\* Not pending or too old: the job ends without another.
ScanStops(o) ==
    /\ scan[o] = "waiting"
    /\ status[o] # "pending" \/ aged[o]
    /\ Finish(o)
    /\ UNCHANGED <<chainVars, orderVars, todo, batch, verify, moneyVars, stranded>>

\* getBlockNumber fails: the next job keeps the cursor but not the start.
ScanBlind(o) ==
    /\ scan[o] = "waiting" /\ status[o] = "pending" /\ ~aged[o]
    /\ Reschedule(o, last[o], {})
    /\ UNCHANGED <<chainVars, orderVars, todo, batch, verify, moneyVars, stranded>>

FromBlock(o) == IF last[o] > 0 THEN last[o] + 1
                ELSE IF start[o] > 0 THEN start[o] ELSE head - Lookback

\* A fault: the range starts one block late.
InRange_Late(o) == {t \in Transfers : minedAt[t] > FromBlock(o)}

InRange(o) == {t \in Transfers : minedAt[t] > 0 /\ minedAt[t] >= FromBlock(o)}

\* chunkedGetLogs walks the range chunk by chunk, skips one whose getLogs fails
\* and stops at ten logs: any of the blocks may go unread, and the cursor moves
\* to the head all the same.
ScanPoll(o) ==
    /\ scan[o] = "waiting" /\ status[o] = "pending" /\ ~aged[o]
    /\ \E blocks \in SUBSET (FromBlock(o)..head) :
        LET missed == {t \in Transfers : minedAt[t] \in blocks}
            newLogs == InRange(o) \ (missed \union recorded)
        IN  IF newLogs # {}
            THEN /\ todo' = [todo EXCEPT ![o] = newLogs]
                 /\ scan' = [scan EXCEPT ![o] = "found"]
                 /\ UNCHANGED <<start, last, watchVars>>
            ELSE /\ Reschedule(o, head, missed)
                 /\ UNCHANGED todo
    /\ UNCHANGED <<chainVars, orderVars, batch, verify, moneyVars, stranded>>

\* Confirm the order, or leave it to whoever did.
ScanConfirm(o) ==
    /\ scan[o] = "found"
    /\ IF status[o] = "pending"
       THEN /\ Transition(o, "confirmed")
            /\ scan' = [scan EXCEPT ![o] = "inserting"]
            /\ UNCHANGED <<start, last, todo, watchVars>>
       ELSE /\ Finish(o)
            /\ todo' = [todo EXCEPT ![o] = {}]
            /\ UNCHANGED <<status, aged>>
    /\ UNCHANGED <<chainVars, creating, batch, verify, moneyVars, stranded>>

\* A fault: a refused row is skipped and credited all the same.
ScanInsert_Skips(o) ==
    /\ scan[o] = "inserting"
    /\ recorded' = recorded \union todo[o]
    /\ batch' = [batch EXCEPT ![o] = todo[o]]
    /\ todo' = [todo EXCEPT ![o] = {}]
    /\ scan' = [scan EXCEPT ![o] = "crediting"]
    /\ UNCHANGED <<chainVars, orderVars, start, last, verify, credits, settled, historyVars>>

\* One row per transfer; the unique index refuses one somebody else recorded,
\* and the exception ends the job, which has a single attempt.
ScanInsert(o) ==
    /\ scan[o] = "inserting"
    /\ \E t \in todo[o] :
        IF t \in recorded
        THEN /\ Finish(o)
             /\ todo' = [todo EXCEPT ![o] = {}]
             /\ batch' = [batch EXCEPT ![o] = {}]
             /\ stranded' = stranded \union batch[o]
             /\ UNCHANGED recorded
        ELSE /\ recorded' = recorded \union {t}
             /\ todo' = [todo EXCEPT ![o] = @ \ {t}]
             /\ batch' = [batch EXCEPT ![o] = @ \union {t}]
             /\ scan' = [scan EXCEPT ![o] = IF todo[o] = {t} THEN "crediting" ELSE "inserting"]
             /\ UNCHANGED <<start, last, historyVars>>
    /\ UNCHANGED <<chainVars, orderVars, verify, credits, settled>>

\* A fault: only one transfer of the batch is credited.
ScanCredit_FirstOnly(o) ==
    /\ scan[o] = "crediting"
    /\ \E t \in batch[o] : credits' = [credits EXCEPT ![t] = @ + 1]
    /\ batch' = [batch EXCEPT ![o] = {}]
    /\ Finish(o)
    /\ UNCHANGED <<chainVars, orderVars, todo, verify, recorded, settled, stranded>>

ScanCredit(o) ==
    /\ scan[o] = "crediting"
    /\ credits' = [t \in Transfers |-> IF t \in batch[o] THEN credits[t] + 1 ELSE credits[t]]
    /\ batch' = [batch EXCEPT ![o] = {}]
    /\ Finish(o)
    /\ UNCHANGED <<chainVars, orderVars, todo, verify, recorded, settled, stranded>>

\* A fault: the job that runs again keeps what the first one had inserted.
ScanBreaks_Keeps(o) ==
    /\ scan[o] \in {"found", "inserting", "crediting"}
    /\ scan' = [scan EXCEPT ![o] = "waiting"]
    /\ UNCHANGED <<chainVars, orderVars, start, last, todo, batch, verify, moneyVars, historyVars>>

\* The job throws, or its worker dies and BullMQ runs it again from the start.
ScanBreaks(o) ==
    /\ scan[o] \in {"found", "inserting", "crediting"}
    /\ \/ Finish(o)
       \/ scan' = [scan EXCEPT ![o] = "waiting"] /\ UNCHANGED <<start, last, watchVars>>
    /\ todo' = [todo EXCEPT ![o] = {}]
    /\ batch' = [batch EXCEPT ![o] = {}]
    /\ stranded' = stranded \union batch[o]
    /\ UNCHANGED <<chainVars, orderVars, verify, moneyVars>>

------------------------------------------------------------------------------
(* POST /deposit/verify: look up, credit, insert, confirm. *)

VerifyGoes(v, where) == verify' = [verify EXCEPT ![v] = where]

VerifyCheck(v) ==
    /\ verify[v] = "idle"
    /\ minedAt[TransferOf[v]] > 0
    /\ VerifyGoes(v, IF TransferOf[v] \in recorded THEN "refused" ELSE "checked")
    /\ UNCHANGED <<chainVars, orderVars, scanVars, moneyVars, historyVars>>

VerifyCredit(v) ==
    /\ verify[v] = "checked"
    /\ credits' = [credits EXCEPT ![TransferOf[v]] = @ + 1]
    /\ VerifyGoes(v, "credited")
    /\ UNCHANGED <<chainVars, orderVars, scanVars, recorded, settled, historyVars>>

\* The unique index refuses a second row: the call answers 500, credited.
VerifyInsert(v) ==
    /\ verify[v] = "credited"
    /\ IF TransferOf[v] \in recorded
       THEN VerifyGoes(v, "burnt") /\ UNCHANGED recorded
       ELSE VerifyGoes(v, "recorded") /\ recorded' = recorded \union {TransferOf[v]}
    /\ UNCHANGED <<chainVars, orderVars, scanVars, credits, settled, historyVars>>

\* The latest pending order is confirmed when the amount covers it.
VerifyConfirm(v) ==
    /\ verify[v] = "recorded"
    /\ VerifyGoes(v, "done")
    /\ \/ /\ TransferOf[v] \in Enough
          /\ \E o \in Orders :
              /\ \A p \in Orders : status[p] = "pending" => p <= o
              /\ Transition(o, "confirmed")
       \/ /\ TransferOf[v] \notin Enough \/ \A o \in Orders : status[o] # "pending"
          /\ UNCHANGED <<status, aged>>
    /\ UNCHANGED <<chainVars, creating, scanVars, moneyVars, historyVars>>

\* The call throws or its process dies; what it credited stays.
VerifyBreaks(v) ==
    /\ \/ verify[v] = "checked" /\ VerifyGoes(v, "refused")
       \/ verify[v] = "credited" /\ VerifyGoes(v, "burnt")
       \/ verify[v] = "recorded" /\ VerifyGoes(v, "done")
    /\ UNCHANGED <<chainVars, orderVars, scanVars, moneyVars, historyVars>>

------------------------------------------------------------------------------
(* The administrator and the clock. *)

AdminConfirm(o) ==      \* marks the order, credits nothing
    /\ Transition(o, "confirmed")
    /\ UNCHANGED <<chainVars, creating, scanVars, verify, moneyVars, historyVars>>

AdminSettle(o) ==       \* one database transaction; its row has no txHash
    /\ Transition(o, "confirmed")
    /\ settled' = settled \union {o}
    /\ UNCHANGED <<chainVars, creating, scanVars, verify, recorded, credits, historyVars>>

AdminReject(o) ==
    /\ Transition(o, "rejected")
    /\ UNCHANGED <<chainVars, creating, scanVars, verify, moneyVars, historyVars>>

GrowOld(o) ==
    /\ status[o] = "pending" /\ ~aged[o]
    /\ aged' = [aged EXCEPT ![o] = TRUE]
    /\ UNCHANGED <<chainVars, status, creating, scanVars, verify, moneyVars, historyVars>>

\* A fault: an order is expired only when its scan is not over.
ExpireOrders_Scanned ==
    /\ \E o \in Orders : status[o] = "pending" /\ aged[o] /\ scan[o] # "over"
    /\ status' = [o \in Orders |->
                    IF status[o] = "pending" /\ aged[o] /\ scan[o] # "over"
                    THEN "expired" ELSE status[o]]
    /\ aged' = [o \in Orders |-> aged[o] /\ status'[o] = "pending"]
    /\ UNCHANGED <<chainVars, creating, scanVars, verify, moneyVars, historyVars>>

ExpireOrders ==
    /\ \E o \in Orders : status[o] = "pending" /\ aged[o]
    /\ status' = [o \in Orders |->
                    IF status[o] = "pending" /\ aged[o] THEN "expired" ELSE status[o]]
    /\ aged' = [o \in Orders |-> aged[o] /\ status'[o] = "pending"]
    /\ UNCHANGED <<chainVars, creating, scanVars, verify, moneyVars, historyVars>>

------------------------------------------------------------------------------
Create(o) == CheckPending(o) \/ CreateOrder(o) \/ EnqueueScan(o)
Scan(o) == \/ ScanStops(o) \/ ScanBlind(o) \/ ScanPoll(o) \/ ScanConfirm(o)
           \/ ScanInsert(o) \/ ScanCredit(o) \/ ScanBreaks(o)
Verify(v) == \/ VerifyCheck(v) \/ VerifyCredit(v) \/ VerifyInsert(v)
             \/ VerifyConfirm(v) \/ VerifyBreaks(v)
Admin(o) == AdminConfirm(o) \/ AdminSettle(o) \/ AdminReject(o)

Next ==
    \/ MineBlock
    \/ \E o \in Orders : Create(o) \/ Scan(o) \/ Admin(o) \/ GrowOld(o)
    \/ \E v \in Verifies : Verify(v)
    \/ ExpireOrders

Spec == Init /\ [][Next]_vars

(* Time passes and the expiry job is repeatable (every 10 minutes).         *)
FairSpec == Spec /\ WF_vars(ExpireOrders) /\ \A o \in Orders : WF_vars(GrowOld(o))

------------------------------------------------------------------------------
TypeOK ==
    /\ head \in Nat
    /\ minedAt \in [Transfers -> Nat]
    /\ status \in [Orders -> Terminal \union {"none", "pending"}]
    /\ aged \in [Orders -> BOOLEAN]
    /\ creating \in [Orders -> {"idle", "checked", "created", "over"}]
    /\ scan \in [Orders -> ScanPlaces]
    /\ start \in [Orders -> Nat]
    /\ last \in [Orders -> Nat]
    /\ todo \in [Orders -> SUBSET Transfers]
    /\ batch \in [Orders -> SUBSET Transfers]
    /\ verify \in [Verifies -> VerifyPlaces]
    /\ recorded \in SUBSET Transfers
    /\ credits \in [Transfers -> Nat]
    /\ settled \in SUBSET Orders
    /\ stranded \in SUBSET Transfers
    /\ since \in [Orders -> Nat]
    /\ blind \in [Orders -> BOOLEAN]
    /\ unread \in [Orders -> SUBSET Transfers]

(* The books balance for every transfer: its credits are its row, unless a  *)
(* scan still holds the row or died with it, plus the verification calls    *)
(* that credited before their row was refused or never written.             *)
InHand(t) == \E o \in Orders : t \in batch[o]
Unbooked(t) == {v \in Verifies : TransferOf[v] = t /\ verify[v] \in {"credited", "burnt"}}
CreditEquation ==
    \A t \in Transfers :
        credits[t] = (IF t \in recorded /\ ~InHand(t) /\ t \notin stranded THEN 1 ELSE 0)
                     + Cardinality(Unbooked(t))

(* What keeps the books: a row in the hands of a scan is in no other's, is  *)
(* not lost, and is held only between the insert and the credit.            *)
HandsDisjoint ==
    \A o \in Orders :
        /\ batch[o] \subseteq recorded \ stranded
        /\ batch[o] # {} => scan[o] \in {"inserting", "crediting"}
        /\ \A p \in Orders \ {o} : batch[o] \cap batch[p] = {}

\* The order is there before its scan, and confirmed before the scan writes.
OrderPrecedesScan ==
    \A o \in Orders :
        /\ creating[o] \in {"idle", "checked"} => status[o] = "none"
        /\ creating[o] # "over" => scan[o] = "none"
        /\ scan[o] \in {"inserting", "crediting"} => status[o] = "confirmed"

(* What the jobs of a scan hand to each other: the start or the cursor, and  *)
(* neither only when the start was lost.                                    *)
Alive(o) == scan[o] \notin {"none", "over"}
CursorTells ==
    /\ \A t \in Transfers : minedAt[t] <= head
    /\ \A o \in Orders :
        /\ since[o] <= head /\ last[o] <= head
        /\ start[o] > 0 => start[o] = since[o] + 1
        /\ Alive(o) /\ start[o] = 0 /\ last[o] = 0 => blind[o]

DepositInvariant ==
    /\ TypeOK
    /\ stranded \subseteq recorded
    /\ OrderPrecedesScan
    /\ HandsDisjoint
    /\ CreditEquation
    /\ CursorTells

(* However many orders are pending at once and however often their jobs are *)
(* run again, the scans alone credit a transfer at most once: the unique    *)
(* txHash makes the second insert throw before its credit.                  *)
ScansCreditOnce ==
    \A t \in Transfers :
        (\A v \in Verifies : TransferOf[v] = t => verify[v] \in {"idle", "checked", "refused"})
            => credits[t] <= 1

(* A scan answers for every block mined since it was ordered, over all the  *)
(* jobs that carry it on: a transfer in a block its next job will not read  *)
(* is recorded, or its chunk failed, or the start was lost to the RPC and   *)
(* the block is out of the lookback's reach.                                *)
CursorCovers ==
    \A o \in Orders, t \in Transfers :
        Alive(o) /\ since[o] < minedAt[t] /\ minedAt[t] < FromBlock(o)
            => \/ t \in recorded \union unread[o]
               \/ blind[o] /\ minedAt[t] + Lookback < head

(* An order leaves the pending state once, whichever of the scan, the       *)
(* verification, the administrator and the expiry job gets there first.     *)
OneTransition ==
    [][\A o \in Orders : status[o] \in Terminal => status'[o] = status[o]]_vars

(* A pending order, which blocks the next one, does not stay pending.       *)
PendingEnds == \A o \in Orders : status[o] = "pending" ~> status[o] \in Terminal

(* A deposit is credited once: the scan skips an order "already             *)
(* transitioned by another path (race)", the verification a transaction     *)
(* "already verified".                                                      *)
CreditedOnce == \A t \in Transfers : credits[t] <= 1
------------------------------------------------------------------------------
(* The three paths keep the promise of Deposits together.                   *)

\* What became of the row of a transfer, and of a call's credit.
RowOf(t) ==
    CASE t \notin recorded -> "none"
      [] InHand(t)         -> "held"
      [] t \in stranded    -> "lost"
      [] OTHER             -> "credited"

CallOf(v) ==
    CASE verify[v] \in {"idle", "checked", "refused"} -> "open"
      [] verify[v] \in {"credited", "burnt"}          -> "loose"
      [] OTHER                                        -> "booked"

Implements == INSTANCE Deposits WITH
    outcome <- status,
    row <- [t \in Transfers |-> RowOf(t)],
    call <- [v \in Verifies |-> CallOf(v)]

DepositPromise == Implements!DepositsSpec
==============================================================================
