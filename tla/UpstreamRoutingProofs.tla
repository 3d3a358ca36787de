------------------------ MODULE UpstreamRoutingProofs ------------------------
(***************************************************************************)
(* For any deployment, any number of checks and requests and any threshold.*)
(* The caches and the counts are separate arguments over the same steps:   *)
(* whatever changes a row owes the API process an invalidation, and only   *)
(* hearing one, which empties the cache and marks what is under way into   *)
(* it, settles that; a count is no larger than the failures recorded until *)
(* a reset crosses a check.                                                *)
(***************************************************************************)
EXTENDS UpstreamRouting, TLAPS

USE ThresholdAssumption, DeathsAssumption

CachesAgree ==
    /\ pool \notin {"none", Pooled} => "pool" \in owed
    /\ targets \notin {"none", Listed} => "targets" \in owed \/ fromOvertaken

Inv == RoutingInvariant /\ CachesAgree

LEMMA CountedType == \A n \in 0..Threshold : Counted(n) \in 0..Threshold
  BY DEF Counted

LEMMA CountedGrows == \A m, n \in 0..Threshold :
    /\ n <= Counted(n)
    /\ m <= n => Counted(m) <= Counted(n)
    /\ n >= Threshold => Counted(n) >= Threshold
  BY DEF Counted

LEMMA ContentsType == Listed \in Contents /\ Pooled \in Contents
  BY DEF Listed, Pooled, Contents

LEMMA InitInv == Init => Inv
<1> SUFFICES ASSUME Init PROVE Inv
  OBVIOUS
<1>1. TypeOK
  <2>1. up \subseteq Processes
    BY DeploymentAssumption DEF Init
  <2>2. /\ at \in [Checks -> Places] /\ seen \in [Checks -> 0..Threshold]
        /\ pc \in [Requests -> {"idle", "reading", "fill"}]
        /\ have \in [Requests -> Contents] /\ overtaken \in [Requests -> BOOLEAN]
    BY DEF Init, Places, Contents
  <2>3. /\ telling \subseteq Kinds /\ inbox \subseteq Kinds
        /\ owed \subseteq Kinds /\ lost \subseteq Kinds
    BY DEF Init
  <2>4. /\ enabled \in BOOLEAN /\ autoDisabled \in BOOLEAN /\ gone \in BOOLEAN
        /\ removing \in BOOLEAN /\ keyOn \in BOOLEAN /\ reachable \in BOOLEAN
        /\ fromOvertaken \in BOOLEAN /\ current \in BOOLEAN /\ crossed \in BOOLEAN
    BY DEF Init
  <2>5. failures \in 0..Threshold /\ bad \in 0..Threshold /\ deaths \in 0..MaxDeaths
    BY DEF Init
  <2>6. /\ targets \in Contents \union {"none"} /\ pool \in Contents \union {"none"}
        /\ load \in Contents \union {"none", "reading"}
    BY DEF Init
  <2> QED
    BY <2>1, <2>2, <2>3, <2>4, <2>5, <2>6 DEF TypeOK
<1>2. ProcessesUp /\ OwedIsTold /\ ReadsTellRow /\ CachesAgree
  BY DEF Init, ProcessesUp, OwedIsTold, ReadsTellRow, CachesAgree, Contents
<1>3. CountsAreTrue
  BY DEF Init, CountsAreTrue
<1> QED
  BY <1>1, <1>2, <1>3 DEF Inv, RoutingInvariant

------------------------------------------------------------------------------
(* Types *)

LEMMA ChangedType == ASSUME TypeOK, NEW ms \in SUBSET Kinds, Changed(ms)
                     PROVE  /\ telling' \subseteq Kinds /\ inbox' \subseteq Kinds
                            /\ owed' \subseteq Kinds /\ lost' \subseteq Kinds
  BY DEF Changed, Cached, TypeOK

LEMMA ResetType == Reset => /\ failures' \in 0..Threshold /\ bad' \in 0..Threshold
                            /\ crossed' \in BOOLEAN
  BY DEF Reset

LEMMA CheckType == ASSUME TypeOK, NEW k \in Checks, Check(k) \/ CheckDies(k) PROVE TypeOK'
<1> USE DEF TypeOK, Goto, CheckOnly, Places, rowVars, busVars, targetVars, poolVars, evidence
<1>1. Changed({"targets"}) => /\ telling' \subseteq Kinds /\ inbox' \subseteq Kinds
                               /\ owed' \subseteq Kinds /\ lost' \subseteq Kinds
  BY ChangedType, {"targets"} \in SUBSET Kinds DEF Kinds
<1>2. CASE Begin(k)
  BY <1>2 DEF Begin
<1>3. CASE Ping(k)
  BY <1>3 DEF Ping
<1>4. CASE ReadGood(k)
  BY <1>4 DEF ReadGood
<1>5. CASE RecordSuccess(k)
  BY <1>5 DEF RecordSuccess, Reset
<1>6. CASE Reenable(k)
  BY <1>6, <1>1, ResetType DEF Reenable
<1>7. CASE ReadBad(k)
  BY <1>7 DEF ReadBad
<1>8. CASE ClearWindow(k)
  BY <1>8 DEF ClearWindow
<1>9. CASE ReadCount(k)
  BY <1>9, CountedType DEF ReadCount
<1>10. CASE WriteCount(k)
  BY <1>10, CountedType DEF WriteCount
<1>11. CASE Reread(k)
  BY <1>11 DEF Reread
<1>12. CASE Disable(k)
  BY <1>12, <1>1 DEF Disable
<1>13. CASE CheckDies(k)
  BY <1>13 DEF CheckDies
<1> QED
  BY <1>2, <1>3, <1>4, <1>5, <1>6, <1>7, <1>8, <1>9, <1>10, <1>11, <1>12, <1>13 DEF Check

LEMMA NextType == ASSUME TypeOK, [Next]_vars PROVE TypeOK'
<1>1. CASE \E k \in Checks : Check(k) \/ CheckDies(k)
  BY <1>1, CheckType
<1>2. \A ms \in SUBSET Kinds :
        Changed(ms) => /\ telling' \subseteq Kinds /\ inbox' \subseteq Kinds
                       /\ owed' \subseteq Kinds /\ lost' \subseteq Kinds
  BY ChangedType
<1>3. Listed \in Contents /\ Pooled \in Contents
  BY ContentsType
<1> USE DEF TypeOK, rowVars, checkVars, busVars, targetVars, poolVars, evidence, ElseTargets, ElsePool
<1>4. CASE SetEnabled
  BY <1>2, <1>4, ResetType, Kinds \in SUBSET Kinds DEF SetEnabled
<1>5. CASE SetKey
  BY <1>2, <1>5 DEF SetKey, Kinds
<1>6. CASE BeginDelete
  BY <1>6 DEF BeginDelete, Cached
<1>7. CASE Delete
  BY <1>7 DEF Delete, Cached, Kinds
<1>8. CASE Flip
  BY <1>8 DEF Flip
<1>9. ASSUME NEW m \in Kinds, Invalidate(m)
      PROVE  /\ targets' \in Contents \union {"none"} /\ overtaken' \in [Requests -> BOOLEAN]
             /\ fromOvertaken' \in BOOLEAN /\ pool' \in Contents \union {"none"}
             /\ current' \in BOOLEAN
             /\ UNCHANGED <<pc, have, load>>
  BY <1>9 DEF Invalidate, DropTargets, DropPool
<1>10. ASSUME NEW m \in Kinds, Tell(m) PROVE TypeOK'
  BY <1>9, <1>10 DEF Tell, Heard
<1>11. ASSUME NEW m \in Kinds, TellerDies(m) PROVE TypeOK'
  BY <1>11 DEF TellerDies
<1>12. ASSUME NEW m \in Kinds, Deliver(m) PROVE TypeOK'
  BY <1>9, <1>12 DEF Deliver, Heard
<1>13. ASSUME NEW r \in Requests, Miss(r) PROVE TypeOK'
  BY <1>13 DEF Miss
<1>14. ASSUME NEW r \in Requests, ReadTargets(r) PROVE TypeOK'
  BY <1>3, <1>14 DEF ReadTargets
<1>15. ASSUME NEW r \in Requests, Fill(r) PROVE TypeOK'
  BY <1>15 DEF Fill, Contents
<1>16. CASE ExpireTargets
  BY <1>16 DEF ExpireTargets
<1>17. CASE BeginLoad \/ EndLoad
  BY <1>17 DEF BeginLoad, EndLoad
<1>18. CASE ReadPool
  BY <1>3, <1>18 DEF ReadPool
<1>19. CASE LoadFails \/ ExpirePool
  BY <1>19 DEF LoadFails, ExpirePool
<1>20. CASE UNCHANGED vars
  BY <1>20 DEF vars
<1> HIDE DEF TypeOK
<1> QED
  BY <1>1, <1>4, <1>5, <1>6, <1>7, <1>8, <1>10, <1>11, <1>12, <1>13, <1>14, <1>15, <1>16, <1>17,
     <1>18, <1>19, <1>20 DEF Next, Request, Pool
------------------------------------------------------------------------------
(* The caches *)

Caches == ProcessesUp /\ OwedIsTold /\ ReadsTellRow /\ CachesAgree

\* A step that touches neither the rows the caches come from, nor the bus, nor
\* a cache.
LEMMA QuietCaches ==
    ASSUME Caches,
           UNCHANGED <<up, Listed, Pooled, gone, busVars, targetVars, poolVars>>
    PROVE  Caches'
<1>1. Cached' = Cached
  BY DEF Cached
<1>2. UNCHANGED <<up, Listed, Pooled, gone, telling, inbox, owed, lost, targets, pc, have,
                  overtaken, fromOvertaken, pool, load, current>>
  BY DEF busVars, targetVars, poolVars
<1>3. ProcessesUp'
  BY <1>2 DEF Caches, ProcessesUp
<1>4. OwedIsTold'
  BY <1>1, <1>2 DEF Caches, OwedIsTold
<1>5. ReadsTellRow' /\ CachesAgree'
  BY <1>2 DEF Caches, ReadsTellRow, CachesAgree
<1> QED
  BY <1>3, <1>4, <1>5 DEF Caches

\* A change that is told: what a running process has read or kept is owed.
LEMMA ChangeCaches ==
    ASSUME TypeOK, Caches, NEW ms \in SUBSET Kinds, Changed(ms),
           UNCHANGED <<up, gone, targetVars, poolVars>>,
           "targets" \in ms \/ Listed' = Listed,
           "pool" \in ms \/ Pooled' = Pooled
    PROVE  Caches'
<1>1. UNCHANGED <<Cached, up, gone, inbox, lost, targets, pc, have, overtaken, fromOvertaken,
                  pool, load, current>>
  BY DEF Cached, Changed, targetVars, poolVars
<1>2. owed \subseteq owed' /\ telling \subseteq telling' /\ owed' \subseteq Cached
  BY DEF Caches, OwedIsTold, Changed
<1>3. /\ "targets" \in owed' => "targets" \in owed \/ "targets" \in telling'
      /\ "pool" \in owed' => "pool" \in owed \/ "pool" \in telling'
  BY DEF Changed
<1>4. ProcessesUp'
  BY <1>1 DEF Caches, ProcessesUp
<1>5. OwedIsTold'
  BY <1>1, <1>2, <1>3 DEF Caches, OwedIsTold
<1>6. /\ up \intersect Requests # {} => "targets" \in Cached
      /\ up \intersect Loads # {} => "pool" \in Cached
  BY DEF Cached, Kinds
<1>7. /\ up \intersect Requests # {} => "targets" \in owed' \/ Listed' = Listed
      /\ up \intersect Loads # {} => "pool" \in owed' \/ Pooled' = Pooled
  BY <1>6 DEF Changed
<1>8. ReadsTellRow'
  <2>1. ASSUME NEW r \in Requests, pc'[r] = "fill", have'[r] # Listed'
        PROVE  "targets" \in owed' \/ overtaken'[r]
    BY <1>1, <1>2, <1>7, <2>1 DEF Caches, ProcessesUp, ReadsTellRow
  <2>2. load' \in Contents /\ current' /\ load' # Pooled' => "pool" \in owed'
    BY <1>1, <1>2, <1>7 DEF Caches, ProcessesUp, ReadsTellRow, Contents
  <2> QED
    BY <2>1, <2>2 DEF ReadsTellRow
<1>9. CachesAgree'
  BY <1>1, <1>2, <1>7 DEF Caches, ProcessesUp, CachesAgree
<1> QED
  BY <1>4, <1>5, <1>8, <1>9 DEF Caches

LEMMA CheckCaches ==
    ASSUME TypeOK, Caches, NEW k \in Checks, Check(k) \/ CheckDies(k)
    PROVE  Caches'
<1>1. CASE Reenable(k) \/ Disable(k)
  <2>1. Changed({"targets"}) /\ UNCHANGED <<up, gone, keyOn, targetVars, poolVars>>
    BY <1>1 DEF Reenable, Disable
  <2>2. Pooled' = Pooled
    BY <2>1 DEF Pooled
  <2> QED
    BY <2>1, <2>2, ChangeCaches, {"targets"} \in SUBSET Kinds DEF Kinds
<1>2. CASE ~(Reenable(k) \/ Disable(k))
  <2>1. UNCHANGED <<up, enabled, autoDisabled, gone, keyOn, busVars, targetVars, poolVars>>
    BY <1>2 DEF Check, Begin, Ping, ReadGood, RecordSuccess, ReadBad, ClearWindow, ReadCount,
                WriteCount, Reread, CheckDies, CheckOnly, rowVars
  <2>2. UNCHANGED <<Listed, Pooled>>
    BY <2>1 DEF Listed, Pooled
  <2> QED
    BY <2>1, <2>2, QuietCaches
<1> QED
  BY <1>1, <1>2

\* Hearing of a change empties the cache and settles what is owed of it.
LEMMA HeardCaches ==
    ASSUME TypeOK, Caches, NEW m \in Kinds, Heard(m),
           UNCHANGED <<up, Listed, Pooled, gone>>,
           \A n \in Kinds \ {m} :
               /\ n \in telling => n \in telling'
               /\ n \in inbox => n \in inbox'
    PROVE  Caches'
<1>1. Cached' = Cached
  BY DEF Cached
<1>2. owed' = owed \ {m} /\ lost' = lost \ {m}
  BY DEF Heard
<1>3. OwedIsTold'
  BY <1>1, <1>2 DEF Caches, OwedIsTold, Kinds
<1>4. CASE m = "targets"
  <2>1. DropTargets
    BY <1>4 DEF Heard, Invalidate
  <2> QED
    BY <1>2, <1>3, <1>4, <2>1
       DEF Caches, ProcessesUp, ReadsTellRow, CachesAgree, DropTargets, poolVars
<1>5. CASE m = "pool"
  <2>1. DropPool
    BY <1>5 DEF Heard, Invalidate
  <2>2. UNCHANGED <<load, targets, pc, have, overtaken, fromOvertaken>>
        /\ pool' = "none" /\ current' = FALSE
    BY <2>1 DEF DropPool, targetVars
  <2>3. ProcessesUp' /\ CachesAgree'
    BY <1>2, <1>5, <2>2 DEF Caches, ProcessesUp, CachesAgree
  <2>4. ReadsTellRow'
    BY <1>2, <1>5, <2>2 DEF Caches, ReadsTellRow
  <2> QED
    BY <1>3, <2>3, <2>4 DEF Caches
<1> QED
  BY <1>4, <1>5 DEF Kinds
LEMMA BusCaches ==
    ASSUME TypeOK, Caches, NEW m \in Kinds, Tell(m) \/ TellerDies(m) \/ Deliver(m)
    PROVE  Caches'
<1>1. UNCHANGED <<up, enabled, autoDisabled, gone, keyOn>>
  BY DEF Tell, TellerDies, Deliver, rowVars
<1>2. UNCHANGED <<Listed, Pooled, Cached>>
  BY <1>1 DEF Listed, Pooled, Cached
<1>3. CASE /\ m \in telling /\ telling' \in {telling, telling \ {m}}
           /\ Heard(m) /\ inbox' = inbox \union {m}
  BY <1>1, <1>2, <1>3, HeardCaches
<1>4. CASE /\ telling' \in {telling, telling \ {m}}
           /\ inbox' = inbox \union {m} /\ UNCHANGED <<owed, lost, targetVars, poolVars>>
  <2>1. OwedIsTold'
    BY <1>1, <1>2, <1>4 DEF Caches, OwedIsTold
  <2> QED
    BY <1>1, <1>2, <1>4, <2>1
       DEF Caches, ProcessesUp, ReadsTellRow, CachesAgree, targetVars, poolVars
<1>5. CASE /\ telling' \in {telling, telling \ {m}}
           /\ lost' = lost \union ({m} \intersect owed)
           /\ UNCHANGED <<inbox, owed, targetVars, poolVars>>
  <2>1. OwedIsTold'
    BY <1>1, <1>2, <1>5 DEF Caches, OwedIsTold
  <2> QED
    BY <1>1, <1>2, <1>5, <2>1
       DEF Caches, ProcessesUp, ReadsTellRow, CachesAgree, targetVars, poolVars
<1>6. CASE Deliver(m)
  BY <1>1, <1>2, <1>6, HeardCaches DEF Deliver
<1> QED
  BY <1>3, <1>4, <1>5, <1>6 DEF Tell, TellerDies

LEMMA RequestCaches ==
    ASSUME TypeOK, Caches, NEW r \in Requests, Request(r)
    PROVE  Caches'
<1>1. ElseTargets
  BY DEF Request, Miss, ReadTargets, Fill
<1>2. UNCHANGED <<up, Listed, Pooled, Cached, gone, telling, inbox, owed, lost, pool, load, current>>
  BY <1>1 DEF ElseTargets, Listed, Pooled, Cached, rowVars, busVars, poolVars
<1>3. OwedIsTold'
  BY <1>2 DEF Caches, OwedIsTold
<1>4. CASE Miss(r)
  BY <1>2, <1>3, <1>4 DEF Caches, ProcessesUp, ReadsTellRow, CachesAgree, Miss, TypeOK
<1>5. CASE ReadTargets(r)
  BY <1>2, <1>3, <1>5 DEF Caches, ProcessesUp, ReadsTellRow, CachesAgree, ReadTargets, TypeOK
<1>6. CASE Fill(r)
  BY <1>2, <1>3, <1>6 DEF Caches, ProcessesUp, ReadsTellRow, CachesAgree, Fill, TypeOK
<1> QED
  BY <1>4, <1>5, <1>6 DEF Request

LEMMA PoolCaches ==
    ASSUME TypeOK, Caches, Pool \/ LoadFails \/ ExpirePool
    PROVE  Caches'
<1>1. ElsePool
  BY DEF Pool, BeginLoad, ReadPool, EndLoad, LoadFails, ExpirePool
<1>2. UNCHANGED <<up, Listed, Pooled, Cached, gone, telling, inbox, owed, lost, targets, pc, have,
                  overtaken, fromOvertaken>>
  BY <1>1 DEF ElsePool, Listed, Pooled, Cached, rowVars, busVars, targetVars
<1>3. OwedIsTold'
  BY <1>2 DEF Caches, OwedIsTold
<1> USE <1>2, <1>3 DEF Caches, ProcessesUp, ReadsTellRow, CachesAgree, Contents
<1>4. CASE BeginLoad
  BY <1>4 DEF BeginLoad
<1>5. CASE ReadPool
  BY <1>5 DEF ReadPool
<1>6. CASE EndLoad
  BY <1>6 DEF EndLoad
<1>7. CASE LoadFails \/ ExpirePool
  BY <1>7 DEF LoadFails, ExpirePool
<1> QED
  BY <1>4, <1>5, <1>6, <1>7 DEF Pool

LEMMA NextCaches == ASSUME TypeOK, Caches, [Next]_vars PROVE Caches'
<1>1. CASE SetEnabled
  <2>1. Changed(Kinds) /\ UNCHANGED <<up, gone, keyOn, targetVars, poolVars>>
    BY <1>1 DEF SetEnabled
  <2> QED
    BY <2>1, ChangeCaches, Kinds \in SUBSET Kinds DEF Kinds, Pooled
<1>2. CASE SetKey
  <2>1. Changed({"pool"}) /\ UNCHANGED <<up, enabled, autoDisabled, gone, targetVars, poolVars>>
    BY <1>2 DEF SetKey, rowVars
  <2>2. Listed' = Listed
    BY <2>1 DEF Listed
  <2> QED
    BY <2>1, <2>2, ChangeCaches, {"pool"} \in SUBSET Kinds DEF Kinds
<1>3. CASE BeginDelete
  <2>1. UNCHANGED <<up, enabled, autoDisabled, gone, keyOn, inbox, owed, lost, targetVars, poolVars>>
        /\ telling \subseteq telling'
    BY <1>3 DEF BeginDelete
  <2>2. UNCHANGED <<Listed, Pooled, Cached>>
    BY <2>1 DEF Listed, Pooled, Cached
  <2> QED
    BY <2>1, <2>2
       DEF Caches, ProcessesUp, OwedIsTold, ReadsTellRow, CachesAgree, targetVars, poolVars
<1>4. CASE Delete
  <2>1. /\ UNCHANGED <<up, keyOn, telling, inbox, lost, targetVars, poolVars>>
        /\ gone' /\ owed' = owed \union ({"targets"} \intersect Cached)
    BY <1>4 DEF Delete
  <2>2. UNCHANGED <<Pooled, Cached>>
    BY <2>1 DEF Pooled, Cached
  <2>3. up \intersect Requests # {} => "targets" \in owed'
    BY <2>1 DEF Cached, Kinds
  <2>4. ProcessesUp'
    BY <2>1 DEF Caches, ProcessesUp, targetVars, poolVars
  <2>5. OwedIsTold'
    BY <2>1, <2>2 DEF Caches, OwedIsTold
  <2>6. ReadsTellRow' /\ CachesAgree'
    BY <2>1, <2>2, <2>3 DEF Caches, ProcessesUp, ReadsTellRow, CachesAgree, targetVars, poolVars
  <2> QED
    BY <2>4, <2>5, <2>6 DEF Caches
<1>5. CASE Flip \/ UNCHANGED vars
  <2>1. UNCHANGED <<up, enabled, autoDisabled, gone, keyOn, busVars, targetVars, poolVars>>
    BY <1>5 DEF Flip, vars, rowVars
  <2> QED
    BY <2>1, QuietCaches DEF Listed, Pooled
<1>6. CASE ExpireTargets
  <2>1. UNCHANGED <<up, Listed, Pooled, Cached, gone, telling, inbox, owed, lost, pool, load, current>>
    BY <1>6 DEF ExpireTargets, ElseTargets, Listed, Pooled, Cached, rowVars, busVars, poolVars
  <2> QED
    BY <1>6, <2>1 DEF ExpireTargets, Caches, ProcessesUp, OwedIsTold, ReadsTellRow, CachesAgree
<1> QED
  BY <1>1, <1>2, <1>3, <1>4, <1>5, <1>6, CheckCaches, BusCaches, RequestCaches, PoolCaches DEF Next
------------------------------------------------------------------------------
(* The evidence *)

\* After a reset that crossed no check, nobody is about to count or to disable.
LEMMA ResetCounts ==
    ASSUME TypeOK, Reset, NEW k \in Checks,
           at' \in {at, [at EXCEPT ![k] = "idle"]}
    PROVE  CountsAreTrue'
<1>1. failures' = 0 /\ bad' = 0
  BY DEF Reset
<1>2. ~crossed' => \A c \in Checks : at'[c] \notin {"write", "reread", "disable"}
  BY DEF Reset, Counting, TypeOK
<1> QED
  BY <1>1, <1>2 DEF CountsAreTrue

LEMMA CheckCounts ==
    ASSUME TypeOK, CountsAreTrue, NEW k \in Checks, Check(k) \/ CheckDies(k)
    PROVE  CountsAreTrue'
<1>1. CASE RecordSuccess(k) \/ Reenable(k)
  <2>1. Reset /\ at' \in {at, [at EXCEPT ![k] = "idle"]}
    BY <1>1 DEF RecordSuccess, Reenable, Goto
  <2> QED
    BY <2>1, ResetCounts
<1>2. CASE ClearWindow(k)
  BY <1>2 DEF ClearWindow, Goto, evidence, CountsAreTrue, TypeOK
<1>3. CASE ReadCount(k)
  <2>1. /\ seen' = [seen EXCEPT ![k] = Counted(failures)] /\ at' = [at EXCEPT ![k] = "write"]
        /\ UNCHANGED <<failures, bad, crossed>>
    BY <1>3 DEF ReadCount, Goto, CheckOnly, rowVars, evidence
  <2>2. failures <= bad => Counted(failures) <= Counted(bad)
    BY CountedGrows DEF TypeOK
  <2> QED
    BY <2>1, <2>2 DEF CountsAreTrue, TypeOK, Counted
<1>4. CASE WriteCount(k)
  <2>1. /\ failures' = seen[k] /\ bad' = Counted(bad)
        /\ seen' = [seen EXCEPT ![k] = 0] /\ at' = [at EXCEPT ![k] = "reread"]
        /\ at[k] = "write" /\ UNCHANGED crossed
    BY <1>4 DEF WriteCount, Goto
  <2>2. /\ Counted(bad) \in 0..Threshold /\ bad <= Counted(bad)
        /\ Counted(bad) <= Counted(Counted(bad))
        /\ bad >= Threshold => Counted(bad) >= Threshold
    BY CountedType, CountedGrows DEF TypeOK
  <2>3. \A c \in Checks : at'[c] = "write" => at[c] = "write" /\ seen'[c] = seen[c]
    BY <2>1 DEF TypeOK
  <2>4. \A c \in Checks : at'[c] = "disable" => at[c] = "disable"
    BY <2>1 DEF TypeOK
  <2>5. CASE crossed
    BY <2>1, <2>5 DEF CountsAreTrue
  <2>6. CASE ~crossed
    <3>1. \A c \in Checks : at'[c] = "write" => seen'[c] <= Counted(bad')
      <4>1. SUFFICES ASSUME NEW c \in Checks, at'[c] = "write" PROVE seen'[c] <= Counted(bad')
        OBVIOUS
      <4>2. seen'[c] <= Counted(bad)
        BY <2>3, <2>6, <4>1 DEF CountsAreTrue
      <4>3. seen'[c] \in 0..Threshold
        BY <2>3, <4>1 DEF TypeOK
      <4>4. Counted(bad) \in Int /\ Counted(Counted(bad)) \in Int
        BY <2>2, CountedType
      <4> QED
        BY <2>1, <2>2, <4>2, <4>3, <4>4
    <3>2. failures' <= bad'
      BY <2>1, <2>6 DEF CountsAreTrue
    <3>3. \A c \in Checks : at'[c] = "disable" => bad' >= Threshold
      BY <2>1, <2>2, <2>4, <2>6 DEF CountsAreTrue
    <3> QED
      BY <3>1, <3>2, <3>3 DEF CountsAreTrue
  <2> QED
    BY <2>5, <2>6
<1>5. CASE Reread(k)
  <2>1. /\ at' = [at EXCEPT ![k] = IF failures >= Threshold /\ ~autoDisabled /\ ~gone
                                   THEN "disable" ELSE "idle"]
        /\ UNCHANGED <<seen, failures, bad, crossed>>
    BY <1>5 DEF Reread, Goto, CheckOnly, rowVars, evidence
  <2>2. failures <= bad /\ failures >= Threshold => bad >= Threshold
    BY DEF TypeOK
  <2> QED
    BY <2>1, <2>2 DEF CountsAreTrue, TypeOK, Counted
<1>6. CASE CheckDies(k)
  BY <1>6 DEF CheckDies, Goto, CountsAreTrue, TypeOK, rowVars, evidence, Counted
<1>7. CASE Disable(k)
  BY <1>7 DEF Disable, Goto, CountsAreTrue, TypeOK, evidence, Counted
<1>8. CASE Begin(k) \/ Ping(k) \/ ReadGood(k) \/ ReadBad(k)
  <2>1. /\ UNCHANGED <<seen, failures, bad, crossed>>
        /\ \A c \in Checks : at'[c] \in {"write", "disable"} => at'[c] = at[c]
    BY <1>8 DEF Begin, Ping, ReadGood, ReadBad, Goto, CheckOnly, TypeOK, rowVars, evidence
  <2> QED
    BY <2>1 DEF CountsAreTrue, Counted
<1> QED
  BY <1>1, <1>2, <1>3, <1>4, <1>5, <1>6, <1>7, <1>8 DEF Check

LEMMA NextCounts == ASSUME TypeOK, CountsAreTrue, [Next]_vars PROVE CountsAreTrue'
<1>1. CASE \E k \in Checks : Check(k) \/ CheckDies(k)
  BY <1>1, CheckCounts
<1>2. CASE SetEnabled
  <2>1. failures' = 0 /\ bad' = 0 /\ UNCHANGED <<at, seen>>
    BY <1>2 DEF SetEnabled, Reset, checkVars
  <2>2. ~crossed' => \A c \in Checks : at[c] \notin {"write", "reread", "disable"}
    BY <1>2 DEF SetEnabled, Reset, Counting
  <2> QED
    BY <2>1, <2>2 DEF CountsAreTrue
<1>3. CASE UNCHANGED <<failures, checkVars, evidence>>
  BY <1>3 DEF CountsAreTrue, Counted, checkVars, evidence
<1>4. SetKey \/ BeginDelete \/ Delete \/ Flip \/ ExpireTargets \/ LoadFails \/ ExpirePool
        \/ UNCHANGED vars => UNCHANGED <<failures, checkVars, evidence>>
  BY DEF SetKey, BeginDelete, Delete, Flip, ExpireTargets, LoadFails, ExpirePool, ElseTargets,
         ElsePool, rowVars, vars
<1>5. (\E m \in Kinds : Tell(m) \/ TellerDies(m) \/ Deliver(m)) => UNCHANGED <<failures, checkVars, evidence>>
  BY DEF Tell, TellerDies, Deliver, rowVars
<1>6. (\E r \in Requests : Request(r)) => UNCHANGED <<failures, checkVars, evidence>>
  BY DEF Request, Miss, ReadTargets, Fill, ElseTargets, rowVars
<1>7. Pool => UNCHANGED <<failures, checkVars, evidence>>
  BY DEF Pool, BeginLoad, ReadPool, EndLoad, ElsePool, rowVars
<1> QED
  BY <1>1, <1>2, <1>3, <1>4, <1>5, <1>6, <1>7 DEF Next

------------------------------------------------------------------------------
LEMMA NextInv == Inv /\ [Next]_vars => Inv'
<1> SUFFICES ASSUME Inv, [Next]_vars PROVE Inv'
  OBVIOUS
<1>1. TypeOK /\ Caches /\ CountsAreTrue
  BY DEF Inv, RoutingInvariant, Caches
<1>2. TypeOK' /\ Caches' /\ CountsAreTrue'
  BY <1>1, NextType, NextCaches, NextCounts
<1> QED
  BY <1>2 DEF Inv, RoutingInvariant, Caches

LEMMA InvAlways == Spec => []Inv
  BY InitInv, NextInv, PTL DEF Spec

(* Counts, and what is under way into a cache, in every reachable state.     *)
THEOREM RoutingInvariantHolds == Spec => []RoutingInvariant
<1>1. Inv => RoutingInvariant
  BY DEF Inv
<1> QED
  BY <1>1, InvAlways, PTL

(* A load of the pool that an invalidation overtakes is never kept.          *)
THEOREM PoolsAgree == Spec => []PoolTellsRow
<1>1. Inv => PoolTellsRow
  BY DEF Inv, RoutingInvariant, OwedIsTold, CachesAgree, PoolTellsRow
<1> QED
  BY <1>1, InvAlways, PTL

(* A stale target list has one of the causes that TargetsTellRow names.      *)
THEOREM TargetsAgree == Spec => []TargetsTellRow
<1>1. Inv => TargetsTellRow
  BY DEF Inv, RoutingInvariant, OwedIsTold, CachesAgree, TargetsTellRow
<1> QED
  BY <1>1, InvAlways, PTL

(* The job disables on Threshold failures, or a reset crossed it.            *)
THEOREM EvidenceForDisabling == Spec => DisabledOnEvidence
<1>1. Inv /\ [Next]_vars => [~autoDisabled /\ autoDisabled' => bad >= Threshold \/ crossed]_vars
  <2> SUFFICES ASSUME Inv, [Next]_vars, ~autoDisabled, autoDisabled'
               PROVE  bad >= Threshold \/ crossed
    OBVIOUS
  <2>1. CASE \E k \in Checks : Disable(k)
    BY <2>1 DEF Inv, RoutingInvariant, CountsAreTrue, Disable
  <2>2. CASE \E k \in Checks : RecordSuccess(k) \/ Reenable(k) \/ ClearWindow(k) \/ WriteCount(k)
    BY <2>2 DEF RecordSuccess, Reenable, ClearWindow, WriteCount
  <2>3. CASE \E k \in Checks : \/ Begin(k) \/ Ping(k) \/ ReadGood(k) \/ ReadBad(k)
                               \/ ReadCount(k) \/ Reread(k) \/ CheckDies(k)
    BY <2>3 DEF Begin, Ping, ReadGood, ReadBad, ReadCount, Reread, CheckDies, CheckOnly, rowVars
  <2>4. CASE SetEnabled \/ SetKey \/ BeginDelete \/ Delete \/ Flip \/ UNCHANGED vars
    BY <2>4 DEF SetEnabled, SetKey, BeginDelete, Delete, Flip, vars, rowVars
  <2>5. CASE \E m \in Kinds : Tell(m) \/ TellerDies(m) \/ Deliver(m)
    BY <2>5 DEF Tell, TellerDies, Deliver, rowVars
  <2>6. CASE (\E r \in Requests : Request(r)) \/ ExpireTargets
    BY <2>6 DEF Request, Miss, ReadTargets, Fill, ExpireTargets, ElseTargets, rowVars
  <2>7. CASE Pool \/ LoadFails \/ ExpirePool
    BY <2>7 DEF Pool, BeginLoad, ReadPool, EndLoad, LoadFails, ExpirePool, ElsePool, rowVars
  <2> QED
    BY <2>1, <2>2, <2>3, <2>4, <2>5, <2>6, <2>7 DEF Next, Check
<1> QED
  BY <1>1, InvAlways, PTL DEF Spec, DisabledOnEvidence
==============================================================================
