----------------------- MODULE DepositSettlementProofs -----------------------
(***************************************************************************)
(* For any number of orders, transfers and verification calls: the books   *)
(* of the deposits (CreditEquation), what the scans alone can credit, the  *)
(* single transition of an order, and what a scan leaves behind its        *)
(* cursor over all the jobs that carry it on.  The refinement of           *)
(* Deposits rests on them: a row in the hand of a scan is in no other, so  *)
(* a step of one scan moves the rows of that scan and nothing else.        *)
(***************************************************************************)
EXTENDS DepositSettlement, FiniteSetTheorems, TLAPS

USE OrdersAssumption, VerifiesAssumption, EnoughAssumption, BlocksAssumption
USE DEF chainVars, orderVars, scanVars, moneyVars, historyVars, Terminal, ScanPlaces, VerifyPlaces,
        watchVars, Transition, Finish, VerifyGoes

\* The part of the invariant the books rest on.
Books ==
    /\ TypeOK
    /\ stranded \subseteq recorded
    /\ OrderPrecedesScan
    /\ HandsDisjoint
    /\ CreditEquation

LEMMA UnbookedFinite ==
    ASSUME NEW t \in Transfers
    PROVE  IsFiniteSet(Unbooked(t)) /\ Cardinality(Unbooked(t)) \in Nat
<1>1. Unbooked(t) \subseteq Verifies
  BY DEF Unbooked
<1> QED
  BY <1>1, FS_Subset, FS_CardinalityType

LEMMA InitInvariant == Init => DepositInvariant
<1> SUFFICES ASSUME Init PROVE DepositInvariant
  OBVIOUS
<1>1. TypeOK /\ stranded \subseteq recorded /\ HandsDisjoint /\ OrderPrecedesScan /\ CursorTells
  BY DEF Init, TypeOK, HandsDisjoint, OrderPrecedesScan, CursorTells, Alive
<1>2. ASSUME NEW t \in Transfers PROVE Unbooked(t) = {} /\ credits[t] = 0 /\ t \notin recorded
  BY DEF Init, Unbooked
<1>3. CreditEquation
  BY <1>2, FS_EmptySet DEF CreditEquation
<1> QED
  BY <1>1, <1>3 DEF DepositInvariant

DataTyped ==
    /\ scan \in [Orders -> ScanPlaces] /\ start \in [Orders -> Nat]
    /\ last \in [Orders -> Nat] /\ since \in [Orders -> Nat]
    /\ blind \in [Orders -> BOOLEAN] /\ unread \in [Orders -> SUBSET Transfers]

\* The data of a scan keeps its types when the job ends or hands it on.
LEMMA CursorTyped ==
    ASSUME TypeOK, NEW o \in Orders,
           \/ Finish(o)
           \/ \E cursor \in Nat, missed \in SUBSET Transfers : Reschedule(o, cursor, missed)
    PROVE  /\ DataTyped'
           /\ \A p \in Orders \ {o} : scan'[p] = scan[p]
           /\ scan'[o] \in {"waiting", "over"}
<1> USE DEF TypeOK, DataTyped
<1>1. CASE Finish(o)
  BY <1>1
<1>2. ASSUME NEW cursor \in Nat, NEW missed \in SUBSET Transfers, ~Finish(o),
             Reschedule(o, cursor, missed)
      PROVE  /\ scan' = [scan EXCEPT ![o] = "waiting"]
             /\ start' = [start EXCEPT ![o] = 0]
             /\ last' = [last EXCEPT ![o] = cursor]
             /\ blind' = [blind EXCEPT ![o] = @ \/ cursor = 0]
             /\ unread' = [unread EXCEPT ![o] = @ \union missed]
             /\ since' = since
  BY <1>2 DEF Reschedule
<1>3. ASSUME NEW cursor \in Nat, blind' = [blind EXCEPT ![o] = @ \/ cursor = 0]
      PROVE  blind' \in [Orders -> BOOLEAN]
  BY <1>3
<1>4. CASE ~Finish(o)
  <2>1. PICK cursor \in Nat, missed \in SUBSET Transfers :
          /\ scan' = [scan EXCEPT ![o] = "waiting"]
          /\ start' = [start EXCEPT ![o] = 0]
          /\ last' = [last EXCEPT ![o] = cursor]
          /\ blind' = [blind EXCEPT ![o] = @ \/ cursor = 0]
          /\ unread' = [unread EXCEPT ![o] = @ \union missed]
          /\ since' = since
    BY <1>2, <1>4
  <2>2. blind' \in [Orders -> BOOLEAN]
    BY <1>3, <2>1
  <2> QED
    BY <2>1, <2>2
<1> QED
  BY <1>1, <1>4

\* Steps that leave the books alone.
LEMMA BooksKept ==
    ASSUME CreditEquation, UNCHANGED <<recorded, batch, stranded, credits, verify>>
    PROVE  CreditEquation'
  BY DEF CreditEquation, InHand, Unbooked

\* The chain, the creation of orders, the administrator and the clock.
LEMMA OutsideInvariant ==
    ASSUME DepositInvariant,
           \/ MineBlock
           \/ ExpireOrders
           \/ \E o \in Orders : Create(o) \/ Admin(o) \/ GrowOld(o)
    PROVE  Books'
<1>1. /\ UNCHANGED <<recorded, batch, stranded, credits, verify>>
      /\ TypeOK'
      /\ HandsDisjoint' /\ OrderPrecedesScan'
  <2> USE DEF DepositInvariant, TypeOK, HandsDisjoint, OrderPrecedesScan
  <2>1. CASE MineBlock
    BY <2>1 DEF MineBlock
  <2>2. CASE ExpireOrders
    BY <2>2 DEF ExpireOrders
  <2>3. ASSUME NEW o \in Orders, Create(o) \/ Admin(o) \/ GrowOld(o)
        PROVE  /\ UNCHANGED <<recorded, batch, stranded, credits, verify>>
               /\ TypeOK' /\ HandsDisjoint' /\ OrderPrecedesScan'
    <3>1. CASE CheckPending(o)
      BY <3>1 DEF CheckPending
    <3>2. CASE CreateOrder(o)
      BY <3>2 DEF CreateOrder
    <3>3. CASE EnqueueScan(o)
      <4>1. blind' \in [Orders -> BOOLEAN]
        BY <3>3 DEF EnqueueScan
      <4>2. /\ scan' \in [Orders -> ScanPlaces] /\ start' \in [Orders -> Nat]
            /\ since' \in [Orders -> Nat] /\ scan[o] = "none"
            /\ \A p \in Orders \ {o} : scan'[p] = scan[p]
            /\ scan'[o] \in {"waiting", "over"}
        BY <3>3 DEF EnqueueScan
      <4>3. TypeOK'
        BY <3>3, <4>1, <4>2 DEF EnqueueScan
      <4> QED
        BY <3>3, <4>2, <4>3 DEF EnqueueScan
    <3>4. CASE AdminConfirm(o)
      BY <3>4 DEF AdminConfirm
    <3>5. CASE AdminSettle(o)
      BY <3>5 DEF AdminSettle
    <3>6. CASE AdminReject(o)
      BY <3>6 DEF AdminReject
    <3>7. CASE GrowOld(o)
      BY <3>7 DEF GrowOld
    <3> QED
      BY <2>3, <3>1, <3>2, <3>3, <3>4, <3>5, <3>6, <3>7 DEF Create, Admin
  <2> QED
    BY <2>1, <2>2, <2>3
<1> QED
  BY <1>1, BooksKept DEF DepositInvariant, Books

\* The scan up to its first insert.
LEMMA ScanReadsInvariant ==
    ASSUME DepositInvariant, NEW o \in Orders,
           ScanStops(o) \/ ScanBlind(o) \/ ScanPoll(o) \/ ScanConfirm(o)
    PROVE  Books'
<1>1. /\ UNCHANGED <<recorded, batch, stranded, credits, verify>>
      /\ TypeOK'
      /\ HandsDisjoint' /\ OrderPrecedesScan'
  <2> USE DEF DepositInvariant, TypeOK, HandsDisjoint, OrderPrecedesScan
  <2>1. CASE ScanStops(o)
    BY <2>1 DEF ScanStops
  <2>2. CASE ScanBlind(o)
    <3>1. \E cursor \in Nat, missed \in SUBSET Transfers : Reschedule(o, cursor, missed)
      BY <2>2 DEF ScanBlind
    <3>2. TypeOK'
      BY <2>2, <3>1, CursorTyped DEF DataTyped, ScanBlind
    <3> QED
      BY <2>2, <3>1, <3>2, CursorTyped DEF DataTyped, ScanBlind
  <2>3. CASE ScanPoll(o)
    <3>1. PICK blocks \in SUBSET (FromBlock(o)..head) :
            \/ /\ todo' = [todo EXCEPT ![o] = InRange(o) \ ({t \in Transfers : minedAt[t] \in blocks} \union recorded)]
               /\ scan' = [scan EXCEPT ![o] = "found"]
               /\ UNCHANGED <<start, last, watchVars>>
            \/ /\ Reschedule(o, head, {t \in Transfers : minedAt[t] \in blocks})
               /\ UNCHANGED todo
      BY <2>3 DEF ScanPoll
    <3>2. InRange(o) \subseteq Transfers
      BY DEF InRange
    <3>3. batch[o] = {}
      BY <2>3 DEF ScanPoll
    <3>4. CASE \E cursor \in Nat, missed \in SUBSET Transfers : Reschedule(o, cursor, missed)
      <4>1. TypeOK'
        BY <2>3, <3>1, <3>2, <3>4, CursorTyped DEF DataTyped, ScanPoll
      <4> QED
        BY <2>3, <3>3, <3>4, <4>1, CursorTyped DEF DataTyped, ScanPoll
    <3>5. CASE ~ \E cursor \in Nat, missed \in SUBSET Transfers : Reschedule(o, cursor, missed)
      <4>1. /\ todo' = [todo EXCEPT ![o] = InRange(o) \ ({t \in Transfers : minedAt[t] \in blocks} \union recorded)]
            /\ scan' = [scan EXCEPT ![o] = "found"]
            /\ UNCHANGED <<start, last, watchVars>>
        BY <3>1, <3>5
      <4>2. TypeOK'
        BY <2>3, <3>2, <4>1 DEF ScanPoll
      <4> QED
        BY <2>3, <3>3, <4>1, <4>2 DEF ScanPoll
    <3> QED
      BY <3>4, <3>5
  <2>4. CASE ScanConfirm(o)
    <3>1. CASE status[o] = "pending"
      <4>1. TypeOK'
        BY <2>4, <3>1 DEF ScanConfirm
      <4>2. batch[o] = {} /\ scan'[o] = "inserting" /\ status'[o] = "confirmed"
        BY <2>4, <3>1 DEF ScanConfirm
      <4>3. UNCHANGED <<recorded, batch, stranded, credits, verify, creating>>
        BY <2>4 DEF ScanConfirm
      <4>4. \A p \in Orders \ {o} : scan'[p] = scan[p] /\ status'[p] = status[p]
        BY <2>4, <3>1 DEF ScanConfirm
      <4>5. HandsDisjoint'
        BY <4>2, <4>3, <4>4
      <4>6. OrderPrecedesScan'
        BY <2>4, <3>1, <4>2, <4>3, <4>4 DEF ScanConfirm
      <4> QED
        BY <4>1, <4>3, <4>5, <4>6
    <3>2. CASE status[o] # "pending"
      <4>1. Finish(o) /\ todo' = [todo EXCEPT ![o] = {}] /\ UNCHANGED <<status, aged>>
        BY <2>4, <3>2 DEF ScanConfirm
      <4>2. TypeOK'
        BY <2>4, <4>1, CursorTyped DEF DataTyped, ScanConfirm
      <4>3. /\ \A p \in Orders \ {o} : scan'[p] = scan[p]
            /\ scan'[o] \in {"waiting", "over"} /\ batch[o] = {} /\ creating[o] = "over"
        BY <2>4, <4>1, CursorTyped DEF ScanConfirm
      <4>4. UNCHANGED <<recorded, batch, stranded, credits, verify, creating, status>>
        BY <2>4, <4>1 DEF ScanConfirm
      <4>5. HandsDisjoint' /\ OrderPrecedesScan'
        BY <4>3, <4>4
      <4> QED
        BY <4>2, <4>4, <4>5
    <3> QED
      BY <3>1, <3>2
  <2> QED
    BY <2>1, <2>2, <2>3, <2>4
<1> QED
  BY <1>1, BooksKept DEF DepositInvariant, Books

\* The scan from its first insert on.
LEMMA ScanWritesInvariant ==
    ASSUME DepositInvariant, NEW o \in Orders,
           ScanInsert(o) \/ ScanCredit(o) \/ ScanBreaks(o)
    PROVE  Books'
<1> USE DEF Books, DepositInvariant, TypeOK, HandsDisjoint, OrderPrecedesScan
<1>1. verify' = verify /\ \A t \in Transfers : Unbooked(t)' = Unbooked(t)
  BY DEF ScanInsert, ScanCredit, ScanBreaks, Unbooked
<1>2. CASE ScanInsert(o)
  <2>1. PICK t \in todo[o] :
          IF t \in recorded
          THEN /\ Finish(o)
               /\ todo' = [todo EXCEPT ![o] = {}]
               /\ batch' = [batch EXCEPT ![o] = {}]
               /\ stranded' = stranded \union batch[o]
               /\ UNCHANGED recorded
          ELSE /\ recorded' = recorded \union {t}
               /\ todo' = [todo EXCEPT ![o] = @ \ {t}]
               /\ batch' = [batch EXCEPT ![o] = @ \union {t}]
               /\ scan' = [scan EXCEPT ![o] = IF todo[o] = {t} THEN "crediting" ELSE "inserting"]
               /\ UNCHANGED <<start, last, historyVars>>
    BY <1>2 DEF ScanInsert
  <2>2. t \in Transfers /\ credits' = credits
    BY <1>2, <2>1 DEF ScanInsert
  <2>3. TypeOK'
    <3>1. CASE t \in recorded
      <4>1. DataTyped'
        BY <2>1, <3>1, CursorTyped
      <4>2. /\ todo' \in [Orders -> SUBSET Transfers] /\ batch' \in [Orders -> SUBSET Transfers]
            /\ stranded' \subseteq Transfers /\ recorded' = recorded
        BY <2>1, <3>1
      <4> QED
        BY <1>2, <2>2, <4>1, <4>2 DEF ScanInsert, DataTyped
    <3>2. CASE t \notin recorded
      BY <1>2, <2>1, <2>2, <3>2 DEF ScanInsert
    <3> QED
      BY <3>1, <3>2
  <2>4. stranded' \subseteq recorded' /\ HandsDisjoint' /\ OrderPrecedesScan'
    BY <1>2, <2>1, <2>2 DEF ScanInsert
  <2>5. ASSUME NEW u \in Transfers
        PROVE  (u \in recorded /\ ~InHand(u) /\ u \notin stranded)
                 <=> (u \in recorded' /\ ~InHand(u)' /\ u \notin stranded')
    BY <1>2, <2>1, <2>2 DEF ScanInsert, InHand
  <2>6. CreditEquation'
    BY <1>1, <2>2, <2>5 DEF CreditEquation
  <2> QED
    BY <2>3, <2>4, <2>6
<1>3. CASE ScanCredit(o)
  <2>1. TypeOK' /\ stranded' \subseteq recorded' /\ HandsDisjoint' /\ OrderPrecedesScan'
    BY <1>3 DEF ScanCredit
  <2>2. ASSUME NEW u \in Transfers PROVE CreditEquation!(u)'
    <3>1. recorded' = recorded /\ stranded' = stranded
      BY <1>3 DEF ScanCredit
    <3>2. CASE u \in batch[o]
      <4>1. u \in recorded /\ InHand(u) /\ u \notin stranded /\ ~InHand(u)'
        BY <1>3, <3>2 DEF ScanCredit, InHand
      <4>2. credits'[u] = credits[u] + 1
        BY <1>3, <3>2 DEF ScanCredit
      <4> QED
        BY <1>1, <3>1, <4>1, <4>2, UnbookedFinite DEF CreditEquation
    <3>3. CASE u \notin batch[o]
      <4>1. InHand(u)' <=> InHand(u)
        BY <1>3, <3>3 DEF ScanCredit, InHand
      <4>2. credits'[u] = credits[u]
        BY <1>3, <3>3 DEF ScanCredit
      <4> QED
        BY <1>1, <3>1, <4>1, <4>2 DEF CreditEquation
    <3> QED
      BY <3>2, <3>3
  <2>3. CreditEquation'
    BY <2>2 DEF CreditEquation
  <2> QED
    BY <2>1, <2>3
<1>4. CASE ScanBreaks(o)
  <2>1. TypeOK' /\ stranded' \subseteq recorded' /\ HandsDisjoint' /\ OrderPrecedesScan'
    <3>1. CASE Finish(o)
      <4>1. /\ DataTyped' /\ scan'[o] \in {"waiting", "over"} /\ creating[o] = "over"
            /\ \A p \in Orders \ {o} : scan'[p] = scan[p]
        BY <1>4, <3>1, CursorTyped DEF ScanBreaks
      <4>2. /\ todo' = [todo EXCEPT ![o] = {}]
            /\ batch' = [batch EXCEPT ![o] = {}]
            /\ stranded' = stranded \union batch[o]
            /\ UNCHANGED <<chainVars, orderVars, verify, moneyVars>>
        BY <1>4 DEF ScanBreaks
      <4>3. TypeOK'
        BY <4>1, <4>2 DEF DataTyped
      <4> QED
        BY <4>1, <4>2, <4>3
    <3>2. CASE ~Finish(o)
      BY <1>4, <3>2 DEF ScanBreaks
    <3> QED
      BY <3>1, <3>2
  <2>2. credits' = credits /\ recorded' = recorded
    BY <1>4 DEF ScanBreaks
  <2>3. ASSUME NEW u \in Transfers
        PROVE  (~InHand(u) /\ u \notin stranded) <=> (~InHand(u)' /\ u \notin stranded')
    BY <1>4 DEF ScanBreaks, InHand
  <2>4. CreditEquation'
    BY <1>1, <2>2, <2>3 DEF CreditEquation
  <2> QED
    BY <2>1, <2>4
<1> QED
  BY <1>2, <1>3, <1>4

LEMMA VerifyInvariant ==
    ASSUME DepositInvariant, NEW v \in Verifies, Verify(v)
    PROVE  Books'
<1> USE DEF Books, DepositInvariant, TypeOK, HandsDisjoint, OrderPrecedesScan
<1> DEFINE t == TransferOf[v]
<1>0. t \in Transfers
  OBVIOUS
<1>1. ASSUME VerifyCheck(v) \/ VerifyConfirm(v) \/ VerifyBreaks(v)
      PROVE  Books'
  <2>1. TypeOK' /\ stranded' \subseteq recorded' /\ HandsDisjoint' /\ OrderPrecedesScan'
    BY <1>1 DEF VerifyCheck, VerifyConfirm, VerifyBreaks
  <2>2. /\ UNCHANGED <<recorded, batch, stranded, credits>>
        /\ \A u \in Transfers : Unbooked(u)' = Unbooked(u)
    BY <1>1 DEF VerifyCheck, VerifyConfirm, VerifyBreaks, Unbooked
  <2>3. CreditEquation'
    BY <2>2 DEF CreditEquation, InHand
  <2> QED
    BY <2>1, <2>3
<1>2. CASE VerifyCredit(v)
  <2>1. TypeOK' /\ stranded' \subseteq recorded' /\ HandsDisjoint' /\ OrderPrecedesScan'
    BY <1>0, <1>2 DEF VerifyCredit
  <2>2. /\ UNCHANGED <<recorded, batch, stranded>>
        /\ Unbooked(t)' = Unbooked(t) \union {v} /\ v \notin Unbooked(t)
        /\ \A u \in Transfers \ {t} : Unbooked(u)' = Unbooked(u) /\ credits'[u] = credits[u]
        /\ credits'[t] = credits[t] + 1
    BY <1>0, <1>2 DEF VerifyCredit, Unbooked
  <2>3. Cardinality(Unbooked(t)') = Cardinality(Unbooked(t)) + 1
    <3>1. IsFiniteSet(Unbooked(t))
      BY <1>0, UnbookedFinite
    <3>2. Cardinality(Unbooked(t) \union {v}) = Cardinality(Unbooked(t)) + 1
      BY <2>2, <3>1, FS_AddElement
    <3> QED
      BY <2>2, <3>2
  <2>4. CreditEquation!(t)'
    <3>1. InHand(t)' <=> InHand(t)
      BY <2>2 DEF InHand
    <3>2. Cardinality(Unbooked(t)) \in Nat
      BY <1>0, UnbookedFinite
    <3>3. CreditEquation!(t)
      BY <1>0 DEF CreditEquation
    <3> QED
      BY <2>2, <2>3, <3>1, <3>2, <3>3
  <2>5. ASSUME NEW u \in Transfers \ {t} PROVE CreditEquation!(u)'
    <3>1. InHand(u)' <=> InHand(u)
      BY <2>2 DEF InHand
    <3> QED
      BY <2>2, <3>1 DEF CreditEquation
  <2>6. CreditEquation'
    BY <2>4, <2>5 DEF CreditEquation
  <2> QED
    BY <2>1, <2>6
<1>3. CASE VerifyInsert(v)
  <2>1. TypeOK' /\ stranded' \subseteq recorded' /\ HandsDisjoint' /\ OrderPrecedesScan'
    BY <1>0, <1>3 DEF VerifyInsert
  <2>2. UNCHANGED <<batch, stranded, credits>>
    BY <1>3 DEF VerifyInsert
  <2>3. CASE t \in recorded
    <3>1. recorded' = recorded /\ \A u \in Transfers : Unbooked(u)' = Unbooked(u)
      BY <1>3, <2>3 DEF VerifyInsert, Unbooked
    <3> QED
      BY <2>1, <2>2, <3>1 DEF CreditEquation, InHand
  <2>4. CASE t \notin recorded
    <3>1. /\ recorded' = recorded \union {t}
          /\ Unbooked(t)' = Unbooked(t) \ {v} /\ v \in Unbooked(t)
          /\ \A u \in Transfers \ {t} : Unbooked(u)' = Unbooked(u)
      BY <1>0, <1>3, <2>4 DEF VerifyInsert, Unbooked
    <3>2. ~InHand(t)' /\ t \notin stranded'
      BY <2>2, <2>4 DEF InHand
    <3>3. Cardinality(Unbooked(t)') = Cardinality(Unbooked(t)) - 1
      <4>1. IsFiniteSet(Unbooked(t)) /\ v \in Unbooked(t)
        BY <1>0, <3>1, UnbookedFinite
      <4>2. Cardinality(Unbooked(t) \ {v}) = Cardinality(Unbooked(t)) - 1
        BY ONLY <4>1, FS_RemoveElement
      <4> QED
        BY <3>1, <4>2
    <3>4. CreditEquation!(t)'
      <4>1. Cardinality(Unbooked(t)) \in Nat
        BY <1>0, UnbookedFinite
      <4>2. credits[t] = Cardinality(Unbooked(t))
        BY <1>0, <2>4, <4>1 DEF CreditEquation
      <4> QED
        BY <2>2, <3>1, <3>2, <3>3, <4>1, <4>2
    <3>5. ASSUME NEW u \in Transfers \ {t} PROVE CreditEquation!(u)'
      <4>1. InHand(u)' <=> InHand(u)
        BY <2>2 DEF InHand
      <4> QED
        BY <2>2, <3>1, <4>1 DEF CreditEquation
    <3>6. CreditEquation'
      BY <3>4, <3>5 DEF CreditEquation
    <3> QED
      BY <2>1, <3>6
  <2> QED
    BY <2>3, <2>4
<1> QED
  BY <1>1, <1>2, <1>3 DEF Verify

\* A scan's data comes from the order's creation or from its last job.
LEMMA CursorStep ==
    ASSUME DepositInvariant, [Next]_vars
    PROVE  CursorTells'
<1> USE DEF DepositInvariant, TypeOK, CursorTells, Alive
<1>1. CASE UNCHANGED <<head, minedAt, scan, start, last, since, blind>>
  BY <1>1
<1>2. CASE MineBlock
  BY <1>2 DEF MineBlock
<1>3. ASSUME NEW o \in Orders, EnqueueScan(o) PROVE CursorTells'
  <2>1. CASE scan'[o] = "over"
    BY <1>3, <2>1 DEF EnqueueScan
  <2>2. CASE scan'[o] # "over"
    <3>1. PICK first \in {0, head + 1} :
            /\ start' = [start EXCEPT ![o] = first]
            /\ blind' = [blind EXCEPT ![o] = (first = 0)]
            /\ since' = [since EXCEPT ![o] = head]
            /\ scan' = [scan EXCEPT ![o] = "waiting"]
      BY <1>3, <2>2 DEF EnqueueScan
    <3>2. UNCHANGED <<head, minedAt, last>>
      BY <1>3 DEF EnqueueScan
    <3>3. first = 0 => blind'[o]
      BY <3>1
    <3> QED
      BY <3>1, <3>2, <3>3
  <2> QED
    BY <2>1, <2>2
<1>4. ASSUME UNCHANGED <<head, minedAt>>, NEW o \in Orders,
             \/ Finish(o)
             \/ \E cursor \in {last[o], head}, missed \in SUBSET Transfers :
                    Reschedule(o, cursor, missed)
      PROVE  CursorTells'
  <2>1. CASE Finish(o)
    BY <1>4, <2>1
  <2>2. CASE ~Finish(o)
    <3>1. PICK cursor \in {last[o], head} :
            /\ scan' = [scan EXCEPT ![o] = "waiting"]
            /\ start' = [start EXCEPT ![o] = 0]
            /\ last' = [last EXCEPT ![o] = cursor]
            /\ blind' = [blind EXCEPT ![o] = @ \/ cursor = 0]
            /\ since' = since
      BY <1>4, <2>2 DEF Reschedule
    <3>2. cursor = 0 => blind'[o]
      BY <3>1
    <3>3. \A p \in Orders \ {o} : blind'[p] = blind[p]
      BY <3>1
    <3> QED
      BY <1>4, <3>1, <3>2, <3>3
  <2> QED
    BY <2>1, <2>2
<1>5. ASSUME UNCHANGED <<head, minedAt, start, last, watchVars>>, NEW o \in Orders,
             Alive(o), \E place : scan' = [scan EXCEPT ![o] = place]
      PROVE  CursorTells'
  BY <1>5
<1>6. ASSUME NEW o \in Orders, Scan(o) PROVE CursorTells'
  <2>1. UNCHANGED <<head, minedAt>>
    BY <1>6 DEF Scan, ScanStops, ScanBlind, ScanPoll, ScanConfirm, ScanInsert, ScanCredit, ScanBreaks
  <2>2. CASE ScanStops(o) \/ ScanCredit(o)
    BY <1>4, <2>1, <2>2 DEF ScanStops, ScanCredit
  <2>3. CASE ScanBlind(o)
    BY <1>4, <2>1, <2>3 DEF ScanBlind
  <2>5. CASE ScanPoll(o)
    <3>1. PICK blocks \in SUBSET (FromBlock(o)..head) :
            \/ UNCHANGED <<start, last, watchVars>> /\ scan' = [scan EXCEPT ![o] = "found"]
            \/ Reschedule(o, head, {t \in Transfers : minedAt[t] \in blocks})
      BY <2>5 DEF ScanPoll
    <3>2. {t \in Transfers : minedAt[t] \in blocks} \in SUBSET Transfers /\ Alive(o)
      BY <2>5 DEF ScanPoll
    <3> QED
      BY <1>4, <1>5, <2>1, <3>1, <3>2
  <2>4. CASE ScanConfirm(o) \/ ScanInsert(o) \/ ScanBreaks(o)
    BY <1>4, <1>5, <2>1, <2>4 DEF ScanConfirm, ScanInsert, ScanBreaks
  <2> QED
    BY <1>6, <2>2, <2>3, <2>4, <2>5 DEF Scan
<1>7. CASE UNCHANGED vars \/ ExpireOrders
  BY <1>1, <1>7 DEF vars, ExpireOrders
<1>8. ASSUME NEW v \in Verifies, Verify(v) PROVE CursorTells'
  BY <1>1, <1>8 DEF Verify, VerifyCheck, VerifyCredit, VerifyInsert, VerifyConfirm, VerifyBreaks
<1>9. ASSUME NEW o \in Orders, CheckPending(o) \/ CreateOrder(o) \/ Admin(o) \/ GrowOld(o)
      PROVE  CursorTells'
  BY <1>1, <1>9 DEF CheckPending, CreateOrder, Admin, AdminConfirm, AdminSettle, AdminReject, GrowOld
<1> QED
  BY <1>2, <1>3, <1>6, <1>7, <1>8, <1>9 DEF Next, Create

LEMMA StepInvariant == DepositInvariant /\ [Next]_vars => DepositInvariant'
<1> SUFFICES ASSUME DepositInvariant, [Next]_vars PROVE DepositInvariant'
  OBVIOUS
<1>1. CASE UNCHANGED vars
  <2>1. UNCHANGED <<recorded, batch, stranded, credits, verify>> /\ TypeOK' /\ HandsDisjoint' /\ OrderPrecedesScan'
    BY <1>1 DEF vars, DepositInvariant, TypeOK, HandsDisjoint, OrderPrecedesScan
  <2> QED
    BY <2>1, BooksKept, CursorStep DEF DepositInvariant
<1>2. CASE Next
  <2>1. Books'
    BY <1>2, OutsideInvariant, ScanReadsInvariant, ScanWritesInvariant, VerifyInvariant DEF Next, Scan
  <2> QED
    BY <2>1, CursorStep DEF Books, DepositInvariant
<1> QED
  BY <1>1, <1>2

(* The inductive invariant holds of every state of the specification.       *)
THEOREM DepositsSound == Spec => []DepositInvariant
  BY InitInvariant, StepInvariant, PTL DEF Spec

(* Every credit of a transfer is explained by its row or by a verification  *)
(* call whose row is missing.                                               *)
THEOREM BooksBalance == Spec => []CreditEquation
<1>1. DepositInvariant => CreditEquation
  BY DEF DepositInvariant
<1> QED
  BY DepositsSound, <1>1, PTL

(* The scans alone credit a transfer at most once.                          *)
THEOREM ScansSafe == Spec => []ScansCreditOnce
<1>1. DepositInvariant => ScansCreditOnce
  <2> SUFFICES ASSUME DepositInvariant, NEW t \in Transfers,
                      \A v \in Verifies : TransferOf[v] = t => verify[v] \in {"idle", "checked", "refused"}
               PROVE  credits[t] <= 1
    BY DEF ScansCreditOnce
  <2>1. Unbooked(t) = {}
    BY DEF Unbooked
  <2> QED
    BY <2>1, FS_EmptySet DEF DepositInvariant, CreditEquation
<1> QED
  BY DepositsSound, <1>1, PTL

(* CreditedOnce fails only through a verification call: a transfer that was *)
(* credited twice names a call that credited it and has no row for that.    *)
THEOREM SecondCreditIsACalls == Spec => [](\A t \in Transfers : credits[t] > 1 => Unbooked(t) # {})
<1>1. DepositInvariant => \A t \in Transfers : credits[t] > 1 => Unbooked(t) # {}
  BY FS_EmptySet DEF DepositInvariant, CreditEquation
<1> QED
  BY DepositsSound, <1>1, PTL

(* An order leaves the pending state once.                                  *)
THEOREM OrdersMoveOnce == Spec => OneTransition
<1>1. DepositInvariant /\ [Next]_vars
        => [\A o \in Orders : status[o] \in Terminal => status'[o] = status[o]]_vars
  <2> SUFFICES ASSUME DepositInvariant, Next, NEW o \in Orders, status[o] \in Terminal
               PROVE  status'[o] = status[o]
    BY DEF vars
  <2> USE DEF DepositInvariant, TypeOK, OrderPrecedesScan
  <2>1. CASE MineBlock
    BY <2>1 DEF MineBlock
  <2>2. CASE ExpireOrders
    BY <2>2 DEF ExpireOrders
  <2>3. ASSUME NEW v \in Verifies, Verify(v) PROVE status'[o] = status[o]
    BY <2>3 DEF Verify, VerifyCheck, VerifyCredit, VerifyInsert, VerifyConfirm, VerifyBreaks
  <2>4. ASSUME NEW p \in Orders, Create(p) \/ Admin(p) \/ GrowOld(p)
        PROVE  status'[o] = status[o]
    BY <2>4 DEF Create, CheckPending, CreateOrder, EnqueueScan,
                Admin, AdminConfirm, AdminSettle, AdminReject, GrowOld
  <2>5. ASSUME NEW p \in Orders, Scan(p) PROVE status'[o] = status[o]
    BY <2>5 DEF Scan, ScanStops, ScanBlind, ScanPoll, ScanConfirm, ScanInsert, ScanCredit, ScanBreaks
  <2> QED
    BY <2>1, <2>2, <2>3, <2>4, <2>5 DEF Next
<1> QED
  BY DepositsSound, <1>1, PTL DEF Spec, OneTransition
------------------------------------------------------------------------------
(* What no job of a scan will read is recorded, was unreadable, or excused. *)

\* A transfer in the range of a poll that finds nothing new is recorded or was
\* in a chunk that failed, so the cursor may move to the head.
LEMMA PollCovers ==
    ASSUME DepositInvariant, CursorCovers, NEW o \in Orders, ScanPoll(o)
    PROVE  CursorCovers'
<1> USE DEF DepositInvariant, TypeOK
<1>1. PICK blocks \in SUBSET (FromBlock(o)..head) :
        \/ scan[o] = "waiting" /\ UNCHANGED <<start, last, watchVars>>
        \/ /\ InRange(o) \subseteq {t \in Transfers : minedAt[t] \in blocks} \union recorded
           /\ Reschedule(o, head, {t \in Transfers : minedAt[t] \in blocks})
  BY DEF ScanPoll
<1>2. /\ UNCHANGED <<head, minedAt, recorded>>
      /\ scan[o] = "waiting" /\ \A p \in Orders \ {o} : scan'[p] = scan[p]
  BY DEF ScanPoll, Reschedule
<1>3. CASE UNCHANGED <<start, last, watchVars>>
  BY <1>2, <1>3 DEF CursorCovers, FromBlock, Alive
<1>4. CASE /\ InRange(o) \subseteq {t \in Transfers : minedAt[t] \in blocks} \union recorded
           /\ Reschedule(o, head, {t \in Transfers : minedAt[t] \in blocks})
  <2> SUFFICES ASSUME NEW p \in Orders, NEW t \in Transfers,
                      Alive(p)', since'[p] < minedAt'[t], minedAt'[t] < FromBlock(p)'
               PROVE  \/ t \in recorded' \union unread'[p]
                      \/ blind'[p] /\ minedAt'[t] + Lookback < head'
    BY DEF CursorCovers
  <2>1. CASE p # o
    BY <1>2, <1>4, <2>1 DEF CursorCovers, Reschedule, FromBlock, Alive
  <2>2. CASE p = o
    <3>1. /\ Alive(o) /\ since'[o] = since[o]
          /\ blind[o] => blind'[o]
          /\ unread'[o] = unread[o] \union {u \in Transfers : minedAt[u] \in blocks}
      BY <1>2, <1>4, <2>2 DEF Reschedule, Alive
    <3>2. CASE minedAt[t] < FromBlock(o)
      BY <1>2, <2>2, <3>1, <3>2 DEF CursorCovers
    <3>3. CASE t \in InRange(o)
      BY <1>2, <1>4, <2>2, <3>1, <3>3
    <3>4. minedAt[t] \in Nat /\ minedAt[t] > 0 /\ FromBlock(o) \in Int
      <4>1. minedAt[t] > since[o] /\ since[o] \in Nat /\ minedAt[t] \in Nat
        BY <1>2, <2>2, <3>1
      <4> QED
        BY <4>1 DEF FromBlock
    <3> QED
      BY <3>2, <3>3, <3>4 DEF InRange
  <2> QED
    BY <2>1, <2>2
<1> QED
  BY <1>1, <1>3, <1>4

\* A new block is ahead of every scan; only a lookback moves with the head.
LEMMA MineCovers ==
    ASSUME DepositInvariant, CursorCovers, MineBlock
    PROVE  CursorCovers'
<1> SUFFICES ASSUME NEW o \in Orders, NEW t \in Transfers,
                    Alive(o)', since'[o] < minedAt'[t], minedAt'[t] < FromBlock(o)'
             PROVE  \/ t \in recorded' \union unread'[o]
                    \/ blind'[o] /\ minedAt'[t] + Lookback < head'
  BY DEF CursorCovers
<1> USE DEF DepositInvariant, TypeOK, CursorTells
<1>0. last[o] \in Nat /\ start[o] \in Nat
  OBVIOUS
<1>1. /\ head' = head + 1 /\ UNCHANGED <<scan, start, last, since, blind, unread, recorded>>
      /\ minedAt'[t] = minedAt[t] \/ minedAt'[t] = head + 1
  BY DEF MineBlock
<1>2. CASE last[o] > 0 \/ start[o] > 0
  <2>1. FromBlock(o)' = FromBlock(o) /\ FromBlock(o) <= head + 1
    BY <1>1, <1>2 DEF FromBlock
  <2>2. minedAt'[t] = minedAt[t]
    <3>1. FromBlock(o) \in Int
      BY DEF FromBlock
    <3> QED
      BY <1>1, <2>1, <3>1
  <2> QED
    BY <1>1, <2>1, <2>2 DEF CursorCovers, Alive
<1>3. CASE last[o] = 0 /\ start[o] = 0
  <2>1. blind'[o] /\ FromBlock(o)' = head' - Lookback
    BY <1>1, <1>3 DEF FromBlock, Alive
  <2>2. minedAt'[t] \in Nat /\ head' \in Nat
    BY <1>1
  <2> QED
    BY <2>1, <2>2
<1> QED
  BY <1>0, <1>2, <1>3

LEMMA CoversStep ==
    ASSUME DepositInvariant, CursorCovers, [Next]_vars
    PROVE  CursorCovers'
<1> USE DEF DepositInvariant, TypeOK
<1>1. ASSUME UNCHANGED <<head, minedAt, start, last, watchVars>>, recorded \subseteq recorded',
             \A o \in Orders : Alive(o)' => Alive(o)
      PROVE  CursorCovers'
  BY <1>1 DEF CursorCovers, FromBlock
<1>2. ASSUME UNCHANGED <<head, minedAt>>, recorded \subseteq recorded', NEW o \in Orders, Finish(o)
      PROVE  CursorCovers'
  BY <1>2 DEF CursorCovers, FromBlock, Alive
<1>3. ASSUME NEW o \in Orders, ScanBlind(o) PROVE CursorCovers'
  <2>1. CASE Finish(o)
    BY <1>2, <1>3, <2>1 DEF ScanBlind
  <2>2. CASE ~Finish(o)
    <3>1. /\ last' = [last EXCEPT ![o] = last[o]]
          /\ unread' = [unread EXCEPT ![o] = @ \union {}]
          /\ start' = [start EXCEPT ![o] = 0]
          /\ blind' = [blind EXCEPT ![o] = @ \/ last[o] = 0]
          /\ scan' = [scan EXCEPT ![o] = "waiting"]
          /\ since' = since
      BY <1>3, <2>2 DEF ScanBlind, Reschedule
    <3>2. UNCHANGED <<head, minedAt, recorded, last, since, unread>> /\ Alive(o)
      BY <1>3, <3>1 DEF ScanBlind, Alive
    <3>3. /\ \A p \in Orders \ {o} : blind'[p] = blind[p] /\ scan'[p] = scan[p] /\ start'[p] = start[p]
          /\ blind[o] \/ last[o] = 0 => blind'[o]
      BY <3>1
    <3> SUFFICES ASSUME NEW p \in Orders, NEW t \in Transfers,
                        Alive(p)', since'[p] < minedAt'[t], minedAt'[t] < FromBlock(p)'
                 PROVE  \/ t \in recorded' \union unread'[p]
                        \/ blind'[p] /\ minedAt'[t] + Lookback < head'
      BY DEF CursorCovers
    <3>4. CASE p # o
      BY <3>2, <3>3, <3>4 DEF CursorCovers, FromBlock, Alive
    <3>5. CASE p = o /\ last[o] > 0
      BY <3>2, <3>3, <3>5 DEF CursorCovers, FromBlock
    <3>6. CASE p = o /\ last[o] = 0
      <4>1. FromBlock(o)' = head - Lookback /\ blind'[o]
        BY <3>1, <3>2, <3>3, <3>6 DEF FromBlock
      <4>2. minedAt[t] \in Nat /\ head \in Nat
        OBVIOUS
      <4> QED
        BY <3>2, <3>6, <4>1, <4>2
    <3> QED
      BY <3>4, <3>5, <3>6
  <2> QED
    BY <2>1, <2>2
<1>4. ASSUME NEW o \in Orders, Scan(o) PROVE CursorCovers'
  <2>1. UNCHANGED <<head, minedAt>> /\ recorded \subseteq recorded'
    BY <1>4 DEF Scan, ScanStops, ScanBlind, ScanPoll, ScanConfirm, ScanInsert, ScanCredit, ScanBreaks
  <2>2. CASE Finish(o)
    BY <1>2, <2>1, <2>2
  <2>3. CASE ~Finish(o) /\ (ScanConfirm(o) \/ ScanInsert(o) \/ ScanBreaks(o))
    BY <1>1, <2>1, <2>3 DEF ScanConfirm, ScanInsert, ScanBreaks, Alive
  <2> QED
    BY <1>3, <1>4, <2>2, <2>3, PollCovers DEF Scan, ScanStops, ScanCredit
<1>5. ASSUME NEW o \in Orders, EnqueueScan(o) PROVE CursorCovers'
  BY <1>5 DEF EnqueueScan, CursorCovers, CursorTells, FromBlock, Alive
<1>6. ASSUME NEW o \in Orders, CheckPending(o) \/ CreateOrder(o) \/ Admin(o) \/ GrowOld(o)
      PROVE  CursorCovers'
  BY <1>1, <1>6 DEF CheckPending, CreateOrder, Admin, AdminConfirm, AdminSettle, AdminReject, GrowOld, Alive
<1>7. ASSUME NEW v \in Verifies, Verify(v) PROVE CursorCovers'
  BY <1>1, <1>7 DEF Verify, VerifyCheck, VerifyCredit, VerifyInsert, VerifyConfirm, VerifyBreaks, Alive
<1>8. CASE UNCHANGED vars \/ ExpireOrders
  BY <1>1, <1>8 DEF vars, ExpireOrders, Alive
<1> QED
  BY <1>4, <1>5, <1>6, <1>7, <1>8, MineCovers DEF Next, Create

(* A scan loses no transfer mined since it was ordered, whatever becomes of *)
(* its jobs, but in a chunk that failed or beyond the lookback after its    *)
(* start was lost (processScan, reschedule and chunkedGetLogs).             *)
THEOREM CursorSkipsNothing == Spec => []CursorCovers
<1>1. Init => CursorCovers
  BY DEF Init, CursorCovers, Alive
<1>2. DepositInvariant /\ CursorCovers /\ [Next]_vars => CursorCovers'
  BY CoversStep
<1> QED
  BY <1>1, <1>2, DepositsSound, PTL DEF Spec
------------------------------------------------------------------------------
(* The refinement of Deposits: an insert is a Record, the credit of a batch  *)
(* a Credit, its loss a Lose; a call's credit and its row are CreditCall and *)
(* BookCall; every change of an order's status is an Open, a Decide or a     *)
(* Settle; the rest stutters.                                                *)

Rows == [t \in Transfers |-> RowOf(t)]
Called == [v \in Verifies |-> CallOf(v)]

LEMMA RowIs ==
    ASSUME DepositInvariant, NEW t \in Transfers
    PROVE  /\ RowOf(t) = "none" <=> t \notin recorded
           /\ RowOf(t) = "held" <=> t \in recorded /\ InHand(t)
           /\ RowOf(t) = "lost" <=> t \in stranded
           /\ RowOf(t) = "credited" <=> t \in recorded /\ ~InHand(t) /\ t \notin stranded
  BY DEF RowOf, InHand, DepositInvariant, HandsDisjoint

\* A row that nobody holds and no scan has lost is credited.
LEMMA FreshRow ==
    ASSUME NEW t \in Transfers, t \in recorded', ~InHand(t)', t \notin stranded'
    PROVE  RowOf(t)' = "credited"
  BY DEF RowOf

LEMMA CallIs ==
    ASSUME NEW v \in Verifies
    PROVE  /\ CallOf(v) = "open" <=> verify[v] \in {"idle", "checked", "refused"}
           /\ CallOf(v) = "loose" <=> verify[v] \in {"credited", "burnt"}
           /\ CallOf(v) = "booked" <=> verify[v] \notin {"idle", "checked", "refused", "credited", "burnt"}
  BY DEF CallOf

\* Rows and calls change only where a scan or a call writes.
LEMMA RowsKept ==
    ASSUME UNCHANGED <<recorded, batch, stranded>> PROVE Rows' = Rows
  BY DEF Rows, RowOf, InHand

LEMMA CallsKept == ASSUME UNCHANGED verify PROVE Called' = Called
  BY DEF Called, CallOf

\* Orders are opened and decided; nothing else of the promise changes.
LEMMA OrdersRefine ==
    ASSUME DepositInvariant, UNCHANGED <<recorded, batch, stranded, credits, settled>>, Called' = Called,
           \/ \E o \in Orders : status[o] = "none" /\ status' = [status EXCEPT ![o] = "pending"]
           \/ \E S \in SUBSET Implements!Pending, how \in {"confirmed", "rejected", "expired"} :
                 status' = [o \in Orders |-> IF o \in S THEN how ELSE status[o]]
    PROVE  Implements!DepositsNext
<1>1. Rows' = Rows
  BY RowsKept
<1>2. CASE \E o \in Orders : status[o] = "none" /\ status' = [status EXCEPT ![o] = "pending"]
  <2>1. \E o \in Orders : Implements!Open(o)
    BY <1>1, <1>2 DEF Implements!Open, Rows, Called
  <2> QED
    BY <2>1 DEF Implements!DepositsNext
<1>3. CASE \E S \in SUBSET Implements!Pending, how \in {"confirmed", "rejected", "expired"} :
             status' = [o \in Orders |-> IF o \in S THEN how ELSE status[o]]
  <2>1. \E S \in SUBSET Implements!Pending, how \in {"confirmed", "rejected", "expired"} :
          Implements!Decide(S, how)
    BY <1>1, <1>3 DEF Implements!Decide, Rows, Called
  <2> QED
    BY <2>1 DEF Implements!DepositsNext
<1> QED
  BY <1>2, <1>3

\* One order is decided.
LEMMA TransitionRefines ==
    ASSUME DepositInvariant, NEW o \in Orders, NEW how \in {"confirmed", "rejected", "expired"},
           Transition(o, how), UNCHANGED <<recorded, batch, stranded, credits, settled>>,
           Called' = Called
    PROVE  Implements!DepositsNext
<1>1. {o} \in SUBSET Implements!Pending
  BY DEF Implements!Pending
<1>2. status' = [p \in Orders |-> IF p \in {o} THEN how ELSE status[p]]
  BY DEF DepositInvariant, TypeOK
<1> QED
  BY <1>1, <1>2, OrdersRefine

LEMMA OutsideRefines ==
    ASSUME DepositInvariant,
           \/ MineBlock
           \/ ExpireOrders
           \/ \E o \in Orders : Create(o) \/ Admin(o) \/ GrowOld(o)
    PROVE  [Implements!DepositsNext]_(Implements!deposits)
<1>1. UNCHANGED <<recorded, batch, stranded, credits, verify>> /\ Called' = Called /\ Rows' = Rows
  <2>1. UNCHANGED <<recorded, batch, stranded, credits, verify>>
    BY DEF MineBlock, ExpireOrders, Create, CheckPending, CreateOrder, EnqueueScan,
           Admin, AdminConfirm, AdminSettle, AdminReject, GrowOld
  <2> QED
    BY <2>1, RowsKept, CallsKept
<1>2. ASSUME UNCHANGED <<status, settled>> PROVE UNCHANGED Implements!deposits
  BY <1>1, <1>2 DEF Implements!deposits, Rows, Called
<1>3. CASE MineBlock
  BY <1>2, <1>3 DEF MineBlock
<1>4. CASE ExpireOrders
  <2> DEFINE S == {o \in Orders : status[o] = "pending" /\ aged[o]}
  <2>1. S \in SUBSET Implements!Pending
    BY DEF Implements!Pending
  <2>2. settled' = settled /\ status' = [o \in Orders |-> IF o \in S THEN "expired" ELSE status[o]]
    BY <1>4 DEF ExpireOrders
  <2> HIDE DEF S
  <2> QED
    BY <1>1, <2>1, <2>2, OrdersRefine
<1>5. ASSUME NEW o \in Orders, Create(o) \/ Admin(o) \/ GrowOld(o)
      PROVE  [Implements!DepositsNext]_(Implements!deposits)
  <2>1. CASE CheckPending(o) \/ EnqueueScan(o) \/ GrowOld(o)
    BY <1>2, <2>1 DEF CheckPending, EnqueueScan, GrowOld
  <2>2. CASE CreateOrder(o)
    <3>1. status[o] = "none" /\ status' = [status EXCEPT ![o] = "pending"] /\ settled' = settled
      BY <2>2 DEF CreateOrder, DepositInvariant, OrderPrecedesScan
    <3> QED
      BY <1>1, <3>1, OrdersRefine
  <2>3. CASE AdminConfirm(o) \/ AdminReject(o)
    <3>1. settled' = settled /\ (Transition(o, "confirmed") \/ Transition(o, "rejected"))
      BY <2>3 DEF AdminConfirm, AdminReject
    <3> HIDE DEF Transition
    <3> QED
      BY <1>1, <3>1, TransitionRefines
  <2>4. CASE AdminSettle(o)
    <3>1. o \in Implements!Pending
      BY <2>4 DEF AdminSettle, Implements!Pending
    <3>2. Implements!Settle(o)
      BY <1>1, <2>4 DEF AdminSettle, Implements!Settle, Rows, Called
    <3> QED
      BY <3>1, <3>2 DEF Implements!DepositsNext
  <2> QED
    BY <1>5, <2>1, <2>2, <2>3, <2>4 DEF Create, Admin
<1> QED
  BY <1>3, <1>4, <1>5

\* The rows a scan holds are held, and no other scan holds them.
LEMMA BatchIsHeld ==
    ASSUME DepositInvariant, NEW o \in Orders
    PROVE  batch[o] \in SUBSET Implements!Held
<1>1. \A t \in batch[o] : t \in Transfers /\ t \in recorded /\ InHand(t)
  BY DEF DepositInvariant, TypeOK, HandsDisjoint, InHand
<1> QED
  BY <1>1, RowIs DEF Implements!Held

\* A scan that ends in between loses the rows it holds.
LEMMA BatchIsLost ==
    ASSUME DepositInvariant, NEW o \in Orders,
           batch' = [batch EXCEPT ![o] = {}], stranded' = stranded \union batch[o],
           UNCHANGED <<recorded, status, settled, credits>>, Called' = Called
    PROVE  Implements!DepositsNext
<1> USE DEF DepositInvariant, TypeOK, HandsDisjoint
<1>1. ASSUME NEW t \in Transfers
      PROVE  RowOf(t)' = IF t \in batch[o] THEN "lost" ELSE RowOf(t)
  <2>1. CASE t \in batch[o]
    <3>1. t \in recorded' /\ t \in stranded' /\ ~InHand(t)'
      BY <2>1 DEF InHand
    <3> QED
      BY <2>1, <3>1 DEF RowOf
  <2>2. CASE t \notin batch[o]
    <3>1. (InHand(t)' <=> InHand(t)) /\ (t \in stranded' <=> t \in stranded)
      BY <2>2 DEF InHand
    <3> QED
      BY <2>2, <3>1 DEF RowOf
  <2> QED
    BY <2>1, <2>2
<1>2. Rows' = [t \in Transfers |-> IF t \in batch[o] THEN "lost" ELSE Rows[t]]
  BY <1>1 DEF Rows
<1>3. Implements!Lose(batch[o])
  BY <1>2 DEF Implements!Lose, Rows, Called
<1> QED
  BY <1>3, BatchIsHeld DEF Implements!DepositsNext

LEMMA ScanRefines ==
    ASSUME DepositInvariant, DepositInvariant', NEW o \in Orders, Scan(o)
    PROVE  [Implements!DepositsNext]_(Implements!deposits)
<1>1. Called' = Called /\ settled' = settled
  <2>1. UNCHANGED <<verify, settled>>
    BY DEF Scan, ScanStops, ScanBlind, ScanPoll, ScanConfirm, ScanInsert, ScanCredit, ScanBreaks
  <2> QED
    BY <2>1, CallsKept
<1>2. CASE ScanStops(o) \/ ScanBlind(o) \/ ScanPoll(o) \/ ScanConfirm(o)
  <2>1. UNCHANGED <<recorded, batch, stranded, credits>>
    BY <1>2 DEF ScanStops, ScanBlind, ScanPoll, ScanConfirm
  <2>2. CASE UNCHANGED status
    <3>1. Rows' = Rows
      BY <2>1, RowsKept
    <3> QED
      BY <1>1, <2>1, <2>2, <3>1 DEF Implements!deposits, Rows, Called
  <2>3. CASE Transition(o, "confirmed")
    BY <1>1, <2>1, <2>3, TransitionRefines
  <2> QED
    BY <1>2, <2>2, <2>3 DEF ScanStops, ScanBlind, ScanPoll, ScanConfirm
<1>3. CASE ScanInsert(o)
  <2>1. PICK t \in todo[o] :
          IF t \in recorded
          THEN /\ batch' = [batch EXCEPT ![o] = {}]
               /\ stranded' = stranded \union batch[o]
               /\ UNCHANGED recorded
          ELSE /\ recorded' = recorded \union {t}
               /\ batch' = [batch EXCEPT ![o] = @ \union {t}]
               /\ UNCHANGED stranded
    BY <1>3 DEF ScanInsert
  <2>2. /\ t \in Transfers /\ status[o] = "confirmed"
        /\ UNCHANGED <<status, credits>>
    BY <1>3 DEF ScanInsert, DepositInvariant, TypeOK, OrderPrecedesScan
  <2>3. CASE t \in recorded
    BY <1>1, <2>1, <2>2, <2>3, BatchIsLost
  <2>4. CASE t \notin recorded
    <3>1. \A u \in Transfers : RowOf(u)' = IF u = t THEN "held" ELSE RowOf(u)
      <4>1. \A u \in Transfers \ {t} : RowOf(u)' = RowOf(u)
        <5>1. ASSUME NEW u \in Transfers \ {t}
              PROVE  /\ u \in recorded' <=> u \in recorded
                     /\ InHand(u)' <=> InHand(u)
                     /\ u \in stranded' <=> u \in stranded
          BY <2>1, <2>4 DEF InHand, DepositInvariant, TypeOK
        <5> QED
          BY <5>1 DEF RowOf
      <4>2. RowOf(t)' = "held"
        BY <2>1, <2>2, <2>4 DEF RowOf, InHand, DepositInvariant, TypeOK
      <4> QED
        BY <4>1, <4>2
    <3>2. Rows' = [Rows EXCEPT ![t] = "held"] /\ Rows[t] = "none"
      BY <2>2, <2>4, <3>1, RowIs DEF Rows
    <3>3. Implements!Record(t)
      BY <1>1, <2>2, <3>2 DEF Implements!Record, Rows, Called
    <3> QED
      BY <2>2, <3>3 DEF Implements!DepositsNext
  <2> QED
    BY <2>3, <2>4
<1>4. CASE ScanCredit(o)
  <2>1. /\ credits' = [t \in Transfers |-> IF t \in batch[o] THEN credits[t] + 1 ELSE credits[t]]
        /\ batch' = [batch EXCEPT ![o] = {}]
        /\ UNCHANGED <<status, recorded, stranded>>
    BY <1>4 DEF ScanCredit
  <2>2. ASSUME NEW t \in Transfers
        PROVE  RowOf(t)' = IF t \in batch[o] THEN "credited" ELSE RowOf(t)
    <3> USE DEF DepositInvariant, TypeOK, HandsDisjoint
    <3>1. CASE t \in batch[o]
      <4>1. t \in recorded' /\ t \notin stranded' /\ ~InHand(t)'
        BY <2>1, <3>1 DEF InHand
      <4> QED
        BY <3>1, <4>1 DEF RowOf
    <3>2. CASE t \notin batch[o]
      <4>1. InHand(t)' <=> InHand(t)
        BY <2>1, <3>2 DEF InHand
      <4> QED
        BY <2>1, <3>2, <4>1 DEF RowOf
    <3> QED
      BY <3>1, <3>2
  <2>3. Rows' = [t \in Transfers |-> IF t \in batch[o] THEN "credited" ELSE Rows[t]]
    BY <2>2 DEF Rows
  <2>4. Implements!Credit(batch[o])
    BY <1>1, <2>1, <2>3 DEF Implements!Credit, Rows, Called
  <2> QED
    BY <2>4, BatchIsHeld DEF Implements!DepositsNext
<1>5. CASE ScanBreaks(o)
  BY <1>1, <1>5, BatchIsLost DEF ScanBreaks
<1> QED
  BY <1>2, <1>3, <1>4, <1>5 DEF Scan

LEMMA VerifyRefines ==
    ASSUME DepositInvariant, NEW v \in Verifies, Verify(v)
    PROVE  [Implements!DepositsNext]_(Implements!deposits)
<1> USE DEF DepositInvariant, TypeOK
<1> DEFINE t == TransferOf[v]
<1>0. t \in Transfers
  OBVIOUS
<1>1. settled' = settled /\ batch' = batch /\ stranded' = stranded
  BY DEF Verify, VerifyCheck, VerifyCredit, VerifyInsert, VerifyConfirm, VerifyBreaks
<1>2. ASSUME NEW place \in VerifyPlaces, VerifyGoes(v, place)
      PROVE  /\ \A w \in Verifies \ {v} : CallOf(w)' = CallOf(w)
             /\ verify'[v] = place
  BY <1>2 DEF CallOf
<1>3. ASSUME verify'[v] \in VerifyPlaces, VerifyGoes(v, verify'[v]), CallOf(v)' = CallOf(v)
      PROVE  Called' = Called
  BY <1>2, <1>3 DEF Called
<1>4. CASE VerifyCheck(v)
  <2>1. CallOf(v)' = CallOf(v) /\ VerifyGoes(v, verify'[v])
    BY <1>4 DEF VerifyCheck, CallOf
  <2>2. Called' = Called /\ Rows' = Rows
    BY <1>1, <1>3, <1>4, <2>1, RowsKept DEF VerifyCheck
  <2> QED
    BY <1>1, <1>4, <2>2 DEF VerifyCheck, Implements!deposits, Rows, Called
<1>5. CASE VerifyCredit(v)
  <2>1. CallOf(v) = "open" /\ CallOf(v)' = "loose"
    BY <1>5 DEF VerifyCredit, CallOf
  <2>2. Called' = [Called EXCEPT ![v] = "loose"] /\ Called[v] = "open"
    BY <1>2, <1>5, <2>1 DEF VerifyCredit, Called
  <2>3. Rows' = Rows
    BY <1>1, <1>5, RowsKept DEF VerifyCredit
  <2>4. Implements!CreditCall(v)
    BY <1>1, <1>5, <2>2, <2>3 DEF VerifyCredit, Implements!CreditCall, Rows, Called
  <2> QED
    BY <2>4 DEF Implements!DepositsNext
<1>6. CASE VerifyInsert(v)
  <2>1. CASE t \in recorded
    <3>1. CallOf(v)' = CallOf(v) /\ VerifyGoes(v, verify'[v])
      BY <1>6, <2>1 DEF VerifyInsert, CallOf
    <3>2. Called' = Called /\ Rows' = Rows
      BY <1>1, <1>3, <1>6, <2>1, <3>1, RowsKept DEF VerifyInsert
    <3> QED
      BY <1>1, <1>6, <3>2 DEF VerifyInsert, Implements!deposits, Rows, Called
  <2>2. CASE t \notin recorded
    <3>1. CallOf(v) = "loose" /\ CallOf(v)' = "booked"
      BY <1>6, <2>2 DEF VerifyInsert, CallOf
    <3>2. Called' = [Called EXCEPT ![v] = "booked"] /\ Called[v] = "loose"
      BY <1>2, <1>6, <2>2, <3>1 DEF VerifyInsert, Called
    <3>3. recorded' = recorded \union {t}
      BY <1>6, <2>2 DEF VerifyInsert
    <3>4. \A u \in Transfers \ {t} : RowOf(u)' = RowOf(u)
      BY <1>1, <3>3 DEF RowOf, InHand
    <3>5. RowOf(t) = "none" /\ RowOf(t)' = "credited"
      <4>1. ~InHand(t)' /\ t \notin stranded'
        BY <1>1, <2>2 DEF HandsDisjoint, InHand
      <4>2. t \in recorded'
        BY <3>3
      <4> HIDE DEF t
      <4>3. RowOf(t) = "none"
        BY <1>0, <2>2, RowIs
      <4>4. RowOf(t)' = "credited"
        BY <1>0, <4>1, <4>2, FreshRow
      <4> QED
        BY <4>3, <4>4
    <3>6. Rows' = [Rows EXCEPT ![t] = "credited"] /\ Rows[t] = "none"
      BY <1>0, <3>4, <3>5 DEF Rows
    <3>7. Implements!BookCall(v)
      BY <1>1, <1>6, <3>2, <3>6 DEF VerifyInsert, Implements!BookCall, Rows, Called
    <3> QED
      BY <3>7 DEF Implements!DepositsNext
  <2> QED
    BY <2>1, <2>2
<1>7. CASE VerifyConfirm(v) \/ VerifyBreaks(v)
  <2>1. CallOf(v)' = CallOf(v) /\ VerifyGoes(v, verify'[v])
    BY <1>7 DEF VerifyConfirm, VerifyBreaks, CallOf
  <2>2. UNCHANGED <<recorded, credits>>
    BY <1>7 DEF VerifyConfirm, VerifyBreaks
  <2>3. Called' = Called /\ Rows' = Rows
    BY <1>1, <1>3, <1>7, <2>1, <2>2, RowsKept DEF VerifyConfirm, VerifyBreaks
  <2>4. CASE UNCHANGED status
    BY <1>1, <2>2, <2>3, <2>4 DEF Implements!deposits, Rows, Called
  <2>5. CASE \E o \in Orders : Transition(o, "confirmed")
    BY <1>1, <2>2, <2>3, <2>5, TransitionRefines
  <2> QED
    BY <1>7, <2>4, <2>5 DEF VerifyConfirm, VerifyBreaks
<1> QED
  BY <1>4, <1>5, <1>6, <1>7 DEF Verify

(* The scans, the verification, the administrator and the expiry job, in    *)
(* any interleaving and with deaths between any two writes, keep the        *)
(* promise of Deposits.                                                     *)
THEOREM Refinement == Spec => DepositPromise
<1>1. Init => Implements!DepositsInit
  <2>1. Init => /\ \A t \in Transfers : RowOf(t) = "none"
                /\ \A v \in Verifies : CallOf(v) = "open"
    BY InitInvariant, RowIs, CallIs DEF Init
  <2> QED
    BY <2>1 DEF Init, Implements!DepositsInit
<1>2. DepositInvariant /\ DepositInvariant' /\ [Next]_vars
        => [Implements!DepositsNext]_(Implements!deposits)
  <2>1. ASSUME UNCHANGED vars PROVE UNCHANGED Implements!deposits
    <3>1. Rows' = Rows /\ Called' = Called
      BY <2>1, RowsKept, CallsKept DEF vars
    <3> QED
      BY <2>1, <3>1 DEF vars, Implements!deposits, Rows, Called
  <2> QED
    BY <2>1, OutsideRefines, ScanRefines, VerifyRefines DEF Next
<1> QED
  BY <1>1, <1>2, DepositsSound, PTL DEF Spec, DepositPromise, Implements!DepositsSpec
==============================================================================
