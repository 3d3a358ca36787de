--------------------------- MODULE WriteQueueProofs ---------------------------
(***************************************************************************)
(* QueueInvariant is inductive; what was promised of rows and losses       *)
(* follows from it.  The lemmas about HeldBy say what each way of changing *)
(* buffers and batches does to the entries a worker holds.  In the         *)
(* refinement of BestEffortLog the end of a batch, or of a worker with all *)
(* it held, is one Settle of the entries whose place it tells.             *)
(***************************************************************************)
EXTENDS WriteQueue, TLAPS

\* The disjointness of a worker's buffer and batches, and that of workers.
Apart(w) ==
    /\ \A b, c \in flight[w] : b # c => b \intersect c = {}
    /\ \A b \in flight[w] : b \intersect buffer[w] = {}

Exclusive ==
    \A w \in Workers : \A v \in Workers \ {w} :
        HeldBy(v) \intersect HeldBy(w) = {} /\ running[v] \intersect running[w] = {}

LEMMA HeldOnceParts == HeldOnce <=> Exclusive /\ \A w \in Workers : Apart(w)
BY DEF HeldOnce, Exclusive, Apart

LEMMA HeldOnceParts2 == HeldOnce' <=> Exclusive' /\ \A w \in Workers : Apart(w)'
BY DEF HeldOnce, Exclusive, Apart

LEMMA InitInvariant == Init => QueueInvariant
<1> SUFFICES ASSUME Init PROVE QueueInvariant
  OBVIOUS
<1>1. TypeOK
  BY DEF Init, TypeOK, InRedis, Ended, Lost, Registered
<1>2. HeldOnce /\ PlaceTellsJob
  BY DEF Init, HeldOnce, PlaceTellsJob, HeldBy
<1>3. \A e \in Entries : JobTellsRows(e)
  BY RetryAssumption, SizeAssumption DEF Init, JobTellsRows, InRedis
<1> QED
  BY <1>1, <1>2, <1>3 DEF QueueInvariant

------------------------------------------------------------------------------
(* What happens to the entries a worker holds *)

\* An entry nobody holds joins a buffer.
LEMMA PushHolds ==
    ASSUME TypeOK, NEW w \in Workers, NEW e \in Entries, Push(w, e),
           \A v \in Workers : Apart(v), e \notin HeldBy(w)
    PROVE  /\ \A v \in Workers : HeldBy(v)' = IF v = w THEN HeldBy(w) \union {e} ELSE HeldBy(v)
           /\ \A v \in Workers : Apart(v)'
<1>1. CASE Cardinality(buffer[w] \union {e}) >= MaxSize
  <2>1. /\ buffer' = [buffer EXCEPT ![w] = {}]
        /\ flight' = [flight EXCEPT ![w] = @ \union {buffer[w] \union {e}}]
    BY <1>1 DEF Push
  <2>2. /\ buffer[w]' = {} /\ flight[w]' = flight[w] \union {buffer[w] \union {e}}
        /\ \A v \in Workers \ {w} : buffer[v]' = buffer[v] /\ flight[v]' = flight[v]
    BY <2>1 DEF TypeOK
  <2>3. HeldBy(w)' = HeldBy(w) \union {e}
    BY <2>2 DEF HeldBy
  <2>4. \A v \in Workers \ {w} : HeldBy(v)' = HeldBy(v) /\ Apart(v)'
    BY <2>2 DEF HeldBy, Apart
  <2>5. \A b \in flight[w] : e \notin b /\ b \intersect buffer[w] = {}
    BY DEF HeldBy, Apart
  <2>6. \A b \in flight[w] : b \intersect (buffer[w] \union {e}) = {}
    BY <2>5
  <2>7. \A b, c \in flight[w]' : b # c => b \intersect c = {}
    BY <2>2, <2>6 DEF Apart
  <2> QED
    BY <2>2, <2>3, <2>4, <2>7 DEF Apart
<1>2. CASE ~(Cardinality(buffer[w] \union {e}) >= MaxSize)
  BY <1>2 DEF Push, TypeOK, HeldBy, Apart
<1> QED
  BY <1>1, <1>2

LEMMA SpliceHolds ==
    ASSUME TypeOK, NEW w \in Workers, Splice(w), \A v \in Workers : Apart(v)
    PROVE  /\ \A v \in Workers : HeldBy(v)' = HeldBy(v)
           /\ \A v \in Workers : Apart(v)'
BY DEF Splice, TypeOK, HeldBy, Apart

\* A batch ends.
LEMMA BatchLeaves ==
    ASSUME TypeOK, NEW w \in Workers, \A v \in Workers : Apart(v), NEW b \in flight[w],
           flight' = [flight EXCEPT ![w] = @ \ {b}], buffer' = buffer
    PROVE  /\ \A v \in Workers : HeldBy(v)' = IF v = w THEN HeldBy(w) \ b ELSE HeldBy(v)
           /\ \A v \in Workers : Apart(v)'
           /\ b \subseteq HeldBy(w)
BY DEF TypeOK, HeldBy, Apart

------------------------------------------------------------------------------
(* Types *)

LEMMA AfterFailureType ==
    \A e \in Entries : AfterFailure(e) \in {"lost", "waiting", "dead"}
BY DEF AfterFailure

LEMMA PushType ==
    ASSUME TypeOK, NEW w \in Workers, NEW e \in Entries, Push(w, e)
    PROVE  /\ buffer' \in [Workers -> SUBSET Entries]
           /\ flight' \in [Workers -> SUBSET SUBSET Entries]
BY DEF Push, TypeOK

LEMMA SpliceType ==
    ASSUME TypeOK, NEW w \in Workers, Splice(w)
    PROVE  /\ buffer' \in [Workers -> SUBSET Entries]
           /\ flight' \in [Workers -> SUBSET SUBSET Entries]
BY DEF Splice, TypeOK

LEMMA ExitType ==
    ASSUME TypeOK, NEW w \in Workers, Exit(w)
    PROVE  TypeOK'
<1>1. PICK committed \in SUBSET {b \in flight[w] : b \intersect Poison = {}} :
        /\ rows' = [e \in Entries |-> IF e \in UNION committed THEN rows[e] + 1 ELSE rows[e]]
        /\ job' = [e \in Entries |->
                      CASE e \in running[w] -> "orphaned"
                        [] e \in HeldBy(w) \ running[w] ->
                               IF e \in UNION committed THEN "kept" ELSE "lost"
                        [] OTHER -> job[e]]
  BY DEF Exit
<1>2. rows' \in [Entries -> Nat]
  BY <1>1 DEF TypeOK
<1>3. job' \in [Entries -> InRedis \union Ended \union {"new", "local"}]
  BY <1>1 DEF TypeOK, InRedis, Ended, Lost
<1>4. state' \in [Workers -> Registered \union {"starting", "off"}]
  BY DEF Exit, Enter, TypeOK
<1>5. /\ buffer' \in [Workers -> SUBSET Entries]
      /\ flight' \in [Workers -> SUBSET SUBSET Entries]
      /\ running' \in [Workers -> SUBSET Entries]
      /\ awaited' \in [Workers -> SUBSET Entries]
  BY DEF Exit, TypeOK
<1> QED
  BY <1>2, <1>3, <1>4, <1>5 DEF Exit, TypeOK

LEMMA EntryType ==
    ASSUME TypeOK, NEW e \in Entries, Produce(e) \/ Take(e) \/ Stalled(e)
    PROVE  TypeOK'
<1> USE DEF TypeOK, InRedis, Ended, Lost, workerVars
<1>1. CASE Enqueue(e)
  BY <1>1 DEF Enqueue
<1>2. CASE \E w \in Workers : EnqueueLocal(w, e)
  BY <1>2, PushType DEF EnqueueLocal
<1>3. CASE \E w \in Workers : TakeJob(w, e)
  BY <1>3, PushType DEF TakeJob
<1>4. CASE \E w \in Workers : TakeUnregistered(w, e)
  BY <1>4, AfterFailureType DEF TakeUnregistered
<1>5. CASE Stalled(e)
  BY <1>5 DEF Stalled
<1> QED
  BY <1>1, <1>2, <1>3, <1>4, <1>5 DEF Produce, Take

LEMMA WorkerType ==
    ASSUME TypeOK, NEW w \in Workers,
           FlushTimer(w) \/ FlushEnds(w) \/ Live(w) \/ \E e \in Entries : Acknowledge(w, e)
    PROVE  TypeOK'
<1>1. CASE Closed(w) \/ Crash(w)
  BY <1>1, ExitType DEF Closed, Crash
<1>2. \A s \in Registered \union {"starting", "off"} :
        Enter(w, s) => state' \in [Workers -> Registered \union {"starting", "off"}]
  BY DEF Enter, TypeOK
<1>3. CASE FlushSucceeds(w)
  <2>1. PICK b \in flight[w] :
          /\ flight' = [flight EXCEPT ![w] = @ \ {b}]
          /\ rows' = [e \in Entries |-> IF e \in b THEN rows[e] + 1 ELSE rows[e]]
          /\ job' = [e \in Entries |-> IF e \notin b THEN job[e]
                                       ELSE IF job[e] = "local" THEN "kept" ELSE "written"]
          /\ UNCHANGED <<attempts, stalls, full, state, buffer, running, awaited>>
    BY <1>3 DEF FlushSucceeds
  <2> QED
    BY <2>1 DEF TypeOK, InRedis, Ended, Lost
<1>4. CASE FlushFails(w)
  <2>1. PICK b \in flight[w] :
        /\ flight' = [flight EXCEPT ![w] = @ \ {b}]
        /\ \/ UNCHANGED rows
           \/ /\ b \intersect Poison = {}
              /\ rows' = [e \in Entries |-> IF e \in b THEN rows[e] + 1 ELSE rows[e]]
        /\ job' = [e \in Entries |-> IF e \in b THEN AfterFailure(e) ELSE job[e]]
        /\ attempts' = [e \in Entries |-> IF e \in b THEN attempts[e] + 1 ELSE attempts[e]]
        /\ running' = [running EXCEPT ![w] = @ \ b]
        /\ UNCHANGED <<stalls, full, state, buffer, awaited>>
    BY <1>4 DEF FlushFails
  <2>2. rows' \in [Entries -> Nat] /\ attempts' \in [Entries -> Nat]
    BY <2>1 DEF TypeOK
  <2>3. job' \in [Entries -> InRedis \union Ended \union {"new", "local"}]
    BY <2>1, AfterFailureType DEF TypeOK, InRedis, Ended, Lost
  <2> QED
    BY <2>1, <2>2, <2>3 DEF TypeOK
<1>5. CASE \E e \in Entries : Acknowledge(w, e)
  BY <1>5 DEF Acknowledge, TypeOK, InRedis, Ended, Lost
<1>6. CASE FlushTimer(w)
  BY <1>6, SpliceType DEF FlushTimer, TypeOK, jobVars
<1>7. CASE Register(w)
  BY <1>7, <1>2 DEF Register, TypeOK, jobVars, Registered
<1>8. CASE BeginShutdown(w)
  BY <1>8, <1>2, SpliceType DEF BeginShutdown, TypeOK, jobVars, Registered
<1>9. CASE StopTimers(w)
  <2>1. state' \in [Workers -> Registered \union {"starting", "off"}]
    BY <1>9, <1>2 DEF StopTimers, Registered
  <2> QED
    BY <1>9, <2>1, SpliceType DEF StopTimers, TypeOK, jobVars
<1>10. CASE CloseWorker(w)
  BY <1>10, <1>2 DEF CloseWorker, TypeOK, jobVars, Registered
<1>11. CASE Restart(w)
  BY <1>11, <1>2 DEF Restart, TypeOK, jobVars
<1> QED
  BY <1>1, <1>3, <1>4, <1>5, <1>6, <1>7, <1>8, <1>9, <1>10, <1>11 DEF FlushEnds, Live

LEMMA NextType == ASSUME TypeOK, [Next]_vars PROVE TypeOK'
<1>1. CASE SampleDepth
  BY <1>1 DEF SampleDepth, TypeOK, jobVars, workerVars
<1>2. CASE UNCHANGED vars
  BY <1>2 DEF vars, TypeOK, jobVars, workerVars
<1> QED
  BY <1>1, <1>2, EntryType, WorkerType DEF Next

------------------------------------------------------------------------------
(* Places and rows *)

Told == PlaceTellsJob /\ \A e \in Entries : JobTellsRows(e)

LEMMA NobodyHolds ==
    ASSUME PlaceTellsJob, NEW e \in Entries, job[e] \notin {"active", "local", "written"},
           NEW w \in Workers
    PROVE  e \notin HeldBy(w) /\ e \notin running[w]
BY DEF PlaceTellsJob

\* A step that leaves what is held, and the jobs that are held, as they are.
LEMMA HeldKept ==
    ASSUME HeldOnce, PlaceTellsJob, UNCHANGED <<buffer, flight, running>>,
           \A w \in Workers : \A e \in HeldBy(w) \union running[w] : job'[e] = job[e]
    PROVE  HeldOnce' /\ PlaceTellsJob'
<1>1. \A w \in Workers : HeldBy(w)' = HeldBy(w)
  BY DEF HeldBy
<1> QED
  BY <1>1 DEF HeldOnce, PlaceTellsJob

\* The entry of a job fails, unless it is held.
LEMMA FailureTells ==
    ASSUME TypeOK, NEW e \in Entries, JobTellsRows(e), job[e] \in {"waiting", "active", "local"},
           job'[e] = AfterFailure(e), attempts'[e] = attempts[e] + 1, stalls'[e] = stalls[e],
           rows'[e] \in {rows[e], rows[e] + 1}, e \in Poison => rows'[e] = rows[e],
           job[e] = "waiting" => rows'[e] = rows[e]
    PROVE  JobTellsRows(e)'
<1>1. attempts[e] \in Nat /\ stalls[e] \in Nat /\ rows[e] \in Nat
  BY DEF TypeOK
<1>2. MaxAttempts \in Nat \ {0} /\ MaxStalls \in Nat
  BY RetryAssumption
<1>3. CASE job[e] = "local"
  BY <1>1, <1>2, <1>3 DEF JobTellsRows, AfterFailure, InRedis
<1>4. CASE job[e] # "local"
  <2>1. attempts[e] < MaxAttempts /\ stalls[e] <= MaxStalls
    BY <1>4 DEF JobTellsRows, InRedis
  <2>2. rows[e] <= attempts[e] + stalls[e]
    BY <1>4 DEF JobTellsRows
  <2> QED
    BY <1>1, <1>2, <1>4, <2>1, <2>2 DEF JobTellsRows, AfterFailure, InRedis
<1> QED
  BY <1>3, <1>4

LEMMA EntryStep ==
    ASSUME QueueInvariant, NEW e \in Entries, Produce(e) \/ Take(e) \/ Stalled(e)
    PROVE  HeldOnce' /\ Told'
<1> USE DEF QueueInvariant
<1>1. job[e] \in {"new", "waiting", "orphaned"}
  BY DEF Produce, Take, Enqueue, EnqueueLocal, TakeJob, TakeUnregistered, Stalled
<1>2. \A w \in Workers : e \notin HeldBy(w) /\ e \notin running[w]
  BY <1>1, NobodyHolds
<1>3. /\ job \in [Entries -> InRedis \union Ended \union {"new", "local"}]
      /\ attempts \in [Entries -> Nat] /\ stalls \in [Entries -> Nat] /\ rows \in [Entries -> Nat]
      /\ MaxAttempts \in Nat \ {0} /\ MaxStalls \in Nat
  BY RetryAssumption DEF TypeOK
<1>4. CASE Enqueue(e)
  <2>0. /\ \A f \in Entries \ {e} : job'[f] = job[f]
        /\ UNCHANGED <<buffer, flight, running>>
    BY <1>3, <1>4 DEF Enqueue, workerVars
  <2>1. HeldOnce' /\ PlaceTellsJob'
    <3>1. \A w \in Workers : HeldBy(w) \subseteq Entries /\ running[w] \subseteq Entries
      BY DEF HeldBy, TypeOK
    <3>2. \A w \in Workers : \A f \in HeldBy(w) \union running[w] : job'[f] = job[f]
      BY <1>2, <2>0, <3>1
    <3> QED
      BY <2>0, <3>2, HeldKept
  <2>2. \A f \in Entries \ {e} : JobTellsRows(f)'
    BY <1>3, <1>4 DEF Enqueue, JobTellsRows
  <2>3. JobTellsRows(e)'
    BY <1>3, <1>4 DEF Enqueue, JobTellsRows, InRedis
  <2> QED
    BY <2>1, <2>2, <2>3 DEF Told
<1>5. ASSUME NEW w \in Workers, EnqueueLocal(w, e) \/ TakeJob(w, e)
      PROVE  HeldOnce' /\ Told'
  <2> DEFINE mine == IF EnqueueLocal(w, e) THEN {} ELSE {e}
  <2>1. /\ Push(w, e)
        /\ UNCHANGED <<attempts, stalls, rows>>
    BY <1>5 DEF EnqueueLocal, TakeJob
  <2>2. /\ \A v \in Workers : Apart(v)
        /\ Exclusive
    BY HeldOnceParts
  <2>3. /\ \A v \in Workers : HeldBy(v)' = IF v = w THEN HeldBy(w) \union {e} ELSE HeldBy(v)
        /\ \A v \in Workers : Apart(v)'
    BY <1>2, <2>1, <2>2, PushHolds
  <2>4. CASE EnqueueLocal(w, e)
    <3>1. job' = [job EXCEPT ![e] = "local"] /\ running' = running /\ job[e] = "new"
      BY <2>4 DEF EnqueueLocal
    <3>2. Exclusive'
      BY <1>2, <2>2, <2>3, <3>1 DEF Exclusive
    <3>3. PlaceTellsJob'
      BY <1>2, <1>3, <2>3, <3>1 DEF PlaceTellsJob
    <3>4. \A f \in Entries : JobTellsRows(f)'
      BY <1>3, <2>1, <3>1 DEF JobTellsRows, InRedis
    <3> QED
      BY <2>3, <3>2, <3>3, <3>4, HeldOnceParts2 DEF Told
  <2>5. CASE TakeJob(w, e)
    <3>1. /\ job' = [job EXCEPT ![e] = "active"] /\ job[e] = "waiting"
          /\ running' = [running EXCEPT ![w] = @ \union {e}]
      BY <2>5 DEF TakeJob
    <3>2. \A v \in Workers : running'[v] = IF v = w THEN running[w] \union {e} ELSE running[v]
      BY <3>1 DEF TypeOK
    <3>3. Exclusive'
      BY <1>2, <2>2, <2>3, <3>2 DEF Exclusive
    <3>4. PlaceTellsJob'
      BY <1>2, <1>3, <2>3, <3>1, <3>2 DEF PlaceTellsJob
    <3>5. \A f \in Entries : JobTellsRows(f)'
      BY <1>3, <2>1, <3>1 DEF JobTellsRows, InRedis
    <3> QED
      BY <2>3, <3>3, <3>4, <3>5, HeldOnceParts2 DEF Told
  <2> QED
    BY <1>5, <2>4, <2>5
<1>6. CASE \E w \in Workers : TakeUnregistered(w, e)
  <2>1. /\ job' = [job EXCEPT ![e] = AfterFailure(e)] /\ job[e] = "waiting"
        /\ attempts' = [attempts EXCEPT ![e] = @ + 1]
        /\ UNCHANGED <<stalls, rows, buffer, flight, running>>
    BY <1>6 DEF TakeUnregistered, workerVars
  <2>2. HeldOnce' /\ PlaceTellsJob'
    BY <1>2, <1>3, <2>1, HeldKept
  <2>3. \A f \in Entries \ {e} : JobTellsRows(f)'
    BY <1>3, <2>1 DEF JobTellsRows
  <2>4. JobTellsRows(e)'
    BY <1>3, <2>1, FailureTells
  <2> QED
    BY <2>2, <2>3, <2>4 DEF Told
<1>7. CASE Stalled(e)
  <2>1. /\ job' = [job EXCEPT ![e] = IF stalls[e] < MaxStalls THEN "waiting" ELSE "dead"]
        /\ stalls' = [stalls EXCEPT ![e] = @ + 1]
        /\ UNCHANGED <<attempts, rows, buffer, flight, running>> /\ job[e] = "orphaned"
    BY <1>7 DEF Stalled, workerVars
  <2>2. HeldOnce' /\ PlaceTellsJob'
    BY <1>2, <1>3, <2>1, HeldKept
  <2>3. \A f \in Entries \ {e} : JobTellsRows(f)'
    BY <1>3, <2>1 DEF JobTellsRows
  <2>4. JobTellsRows(e)'
    BY <1>3, <2>1 DEF JobTellsRows, InRedis
  <2> QED
    BY <2>2, <2>3, <2>4 DEF Told
<1> QED
  BY <1>4, <1>5, <1>6, <1>7 DEF Produce, Take


LEMMA ExitStep ==
    ASSUME QueueInvariant, NEW w \in Workers, Exit(w)
    PROVE  HeldOnce' /\ Told'
<1> USE DEF QueueInvariant
<1>1. PICK committed \in SUBSET {b \in flight[w] : b \intersect Poison = {}} :
        /\ rows' = [e \in Entries |-> IF e \in UNION committed THEN rows[e] + 1 ELSE rows[e]]
        /\ job' = [e \in Entries |->
                      CASE e \in running[w] -> "orphaned"
                        [] e \in HeldBy(w) \ running[w] ->
                               IF e \in UNION committed THEN "kept" ELSE "lost"
                        [] OTHER -> job[e]]
  BY DEF Exit
<1>2. \A v \in Workers :
        /\ HeldBy(v)' = IF v = w THEN {} ELSE HeldBy(v)
        /\ running'[v] = IF v = w THEN {} ELSE running[v]
        /\ Apart(v)'
  <2>1. /\ buffer' = [buffer EXCEPT ![w] = {}]
        /\ flight' = [flight EXCEPT ![w] = {}]
        /\ running' = [running EXCEPT ![w] = {}]
    BY DEF Exit
  <2> QED
    BY <2>1, HeldOnceParts DEF TypeOK, HeldBy, Apart
<1>3. HeldOnce'
  <2>1. Exclusive'
    BY <1>2, HeldOnceParts DEF Exclusive
  <2> QED
    BY <1>2, <2>1, HeldOnceParts2
<1>4. \A v \in Workers \ {w} : \A e \in HeldBy(v) \union running[v] :
        e \notin HeldBy(w) /\ e \notin running[w]
  <2> SUFFICES ASSUME NEW v \in Workers \ {w}, NEW e \in HeldBy(v) \union running[v]
               PROVE  e \notin HeldBy(w) /\ e \notin running[w]
    OBVIOUS
  <2>1. HeldBy(v) \intersect HeldBy(w) = {} /\ running[v] \intersect running[w] = {}
    BY DEF HeldOnce
  <2>2. /\ \A u \in Workers : /\ \A f \in running[u] : job[f] \in {"active", "written"}
                              /\ \A f \in HeldBy(u) \ running[u] : job[f] = "local"
                              /\ \A f \in running[u] \ HeldBy(u) : job[f] = "written"
                              /\ \A f \in running[u] : f \in HeldBy(u) => job[f] = "active"
    BY DEF PlaceTellsJob
  <2> QED
    BY <2>1, <2>2
<1>5. \A v \in Workers : HeldBy(v) \subseteq Entries /\ running[v] \subseteq Entries
  BY DEF HeldBy, TypeOK
<1>6. PlaceTellsJob'
  <2>1. \A v \in Workers \ {w} : \A e \in HeldBy(v) \union running[v] : job'[e] = job[e]
    BY <1>1, <1>4, <1>5
  <2> QED
    BY <1>2, <2>1 DEF PlaceTellsJob
<1>7. ASSUME NEW e \in Entries PROVE JobTellsRows(e)'
  <2>1. /\ attempts[e] \in Nat /\ stalls[e] \in Nat /\ rows[e] \in Nat
        /\ attempts'[e] = attempts[e] /\ stalls'[e] = stalls[e]
    BY DEF TypeOK, Exit
  <2>2. /\ e \in UNION committed => e \in HeldBy(w) /\ e \notin Poison
        /\ rows'[e] = IF e \in UNION committed THEN rows[e] + 1 ELSE rows[e]
    BY <1>1 DEF HeldBy
  <2>3. CASE e \in running[w]
    <3>1. job'[e] = "orphaned"
      BY <1>1, <2>3
    <3>2. e \in HeldBy(w) => job[e] = "active"
      BY <2>3 DEF PlaceTellsJob
    <3>3. job[e] \in {"active", "written"}
      BY <2>3 DEF PlaceTellsJob
    <3> QED
      BY <2>1, <2>2, <3>1, <3>2, <3>3 DEF JobTellsRows, InRedis
  <2>4. CASE e \in HeldBy(w) \ running[w]
    <3>1. job'[e] = IF e \in UNION committed THEN "kept" ELSE "lost"
      BY <1>1, <2>4
    <3>2. job[e] = "local"
      BY <2>4 DEF PlaceTellsJob
    <3> QED
      BY <2>1, <2>2, <3>1, <3>2 DEF JobTellsRows, InRedis
  <2>5. CASE e \notin running[w] /\ e \notin HeldBy(w)
    <3>1. job'[e] = job[e]
      BY <1>1, <2>5
    <3> QED
      BY <2>1, <2>2, <2>5, <3>1 DEF JobTellsRows
  <2> QED
    BY <2>3, <2>4, <2>5
<1> QED
  BY <1>3, <1>6, <1>7 DEF Told

LEMMA WorkerStep ==
    ASSUME QueueInvariant, NEW w \in Workers,
           FlushTimer(w) \/ FlushEnds(w) \/ Live(w) \/ \E e \in Entries : Acknowledge(w, e)
    PROVE  HeldOnce' /\ Told'
<1> USE DEF QueueInvariant
<1>1. /\ job \in [Entries -> InRedis \union Ended \union {"new", "local"}]
      /\ attempts \in [Entries -> Nat] /\ stalls \in [Entries -> Nat] /\ rows \in [Entries -> Nat]
      /\ running \in [Workers -> SUBSET Entries]
  BY DEF TypeOK
<1>2. Exclusive /\ \A v \in Workers : Apart(v)
  BY HeldOnceParts
<1>3. CASE Closed(w) \/ Crash(w)
  BY <1>3, ExitStep DEF Closed, Crash
<1>4. ASSUME UNCHANGED <<job, attempts, stalls, rows, running>>,
             UNCHANGED <<buffer, flight>> \/ Splice(w)
      PROVE  HeldOnce' /\ Told'
  <2>1. \A v \in Workers : HeldBy(v)' = HeldBy(v) /\ Apart(v)'
    <3>1. CASE UNCHANGED <<buffer, flight>>
      BY <1>2, <3>1 DEF HeldBy, Apart
    <3>2. CASE Splice(w)
      BY <1>2, <3>2, SpliceHolds
    <3> QED
      BY <1>4, <3>1, <3>2
  <2>2. HeldOnce'
    BY <1>2, <1>4, <2>1, HeldOnceParts2 DEF Exclusive
  <2>3. PlaceTellsJob'
    BY <1>4, <2>1 DEF PlaceTellsJob
  <2>4. \A e \in Entries : JobTellsRows(e)'
    BY <1>4 DEF JobTellsRows
  <2> QED
    BY <2>2, <2>3, <2>4 DEF Told
<1>5. CASE FlushTimer(w) \/ Register(w) \/ BeginShutdown(w) \/ StopTimers(w)
           \/ CloseWorker(w) \/ Restart(w)
  BY <1>4, <1>5 DEF FlushTimer, Register, BeginShutdown, StopTimers, CloseWorker, Restart, jobVars
<1>6. CASE FlushSucceeds(w)
  <2>1. PICK b \in flight[w] :
          /\ b \intersect Poison = {}
          /\ flight' = [flight EXCEPT ![w] = @ \ {b}]
          /\ rows' = [e \in Entries |-> IF e \in b THEN rows[e] + 1 ELSE rows[e]]
          /\ job' = [e \in Entries |-> IF e \notin b THEN job[e]
                                       ELSE IF job[e] = "local" THEN "kept" ELSE "written"]
          /\ UNCHANGED <<attempts, stalls, full, state, buffer, running, awaited>>
    BY <1>6 DEF FlushSucceeds
  <2>2. /\ \A v \in Workers : HeldBy(v)' = IF v = w THEN HeldBy(w) \ b ELSE HeldBy(v)
        /\ \A v \in Workers : Apart(v)'
        /\ b \subseteq HeldBy(w)
    BY <1>2, <2>1, BatchLeaves
  <2>3. HeldOnce'
    BY <1>2, <2>1, <2>2, HeldOnceParts2 DEF Exclusive
  <2>4. \A v \in Workers : HeldBy(v) \subseteq Entries /\ running[v] \subseteq Entries
    BY DEF HeldBy, TypeOK
  <2>5. PlaceTellsJob'
    BY <1>1, <1>2, <2>1, <2>2, <2>4 DEF PlaceTellsJob, Exclusive
  <2>6. \A e \in b : job[e] \in {"active", "local"}
    BY <2>2 DEF PlaceTellsJob
  <2>7. \A e \in Entries : JobTellsRows(e)'
    BY <1>1, <2>1, <2>6 DEF JobTellsRows, InRedis
  <2> QED
    BY <2>3, <2>5, <2>7 DEF Told
<1>7. CASE FlushFails(w)
  <2>1. PICK b \in flight[w] :
        /\ flight' = [flight EXCEPT ![w] = @ \ {b}]
        /\ \/ UNCHANGED rows
           \/ /\ b \intersect Poison = {}
              /\ rows' = [e \in Entries |-> IF e \in b THEN rows[e] + 1 ELSE rows[e]]
        /\ job' = [e \in Entries |-> IF e \in b THEN AfterFailure(e) ELSE job[e]]
        /\ attempts' = [e \in Entries |-> IF e \in b THEN attempts[e] + 1 ELSE attempts[e]]
        /\ running' = [running EXCEPT ![w] = @ \ b]
        /\ UNCHANGED <<stalls, full, state, buffer, awaited>>
    BY <1>7 DEF FlushFails
  <2>2. /\ \A v \in Workers : HeldBy(v)' = IF v = w THEN HeldBy(w) \ b ELSE HeldBy(v)
        /\ \A v \in Workers : Apart(v)'
        /\ b \subseteq HeldBy(w)
    BY <1>2, <2>1, BatchLeaves
  <2>3. \A v \in Workers : running'[v] = IF v = w THEN running[w] \ b ELSE running[v]
    BY <1>1, <2>1
  <2>4. HeldOnce'
    BY <1>2, <2>2, <2>3, HeldOnceParts2 DEF Exclusive
  <2>5. \A v \in Workers : HeldBy(v) \subseteq Entries /\ running[v] \subseteq Entries
    BY DEF HeldBy, TypeOK
  <2>6. \A e \in b : job[e] \in {"active", "local"} /\ e \in Entries
    BY <2>2, <2>5 DEF PlaceTellsJob
  <2>7. \A v \in Workers \ {w} : \A e \in HeldBy(v) \union running[v] : e \notin b
    <3>1. \A v \in Workers : /\ \A e \in running[v] \ HeldBy(v) : job[e] = "written"
      BY DEF PlaceTellsJob
    <3> QED
      BY <1>2, <2>2, <2>6, <3>1 DEF Exclusive
  <2>8. PlaceTellsJob'
    BY <2>1, <2>2, <2>3, <2>5, <2>7 DEF PlaceTellsJob
  <2>9. ASSUME NEW e \in Entries PROVE JobTellsRows(e)'
    <3>1. CASE e \in b
      <4>1. /\ job'[e] = AfterFailure(e) /\ attempts'[e] = attempts[e] + 1
            /\ stalls'[e] = stalls[e] /\ rows'[e] \in {rows[e], rows[e] + 1}
            /\ e \in Poison => rows'[e] = rows[e]
        BY <1>1, <2>1, <3>1
      <4> QED
        BY <2>6, <3>1, <4>1, FailureTells
    <3>2. CASE e \notin b
      <4>1. /\ job'[e] = job[e] /\ attempts'[e] = attempts[e]
            /\ stalls'[e] = stalls[e] /\ rows'[e] = rows[e]
        BY <1>1, <2>1, <3>2
      <4> QED
        BY <4>1 DEF JobTellsRows
    <3> QED
      BY <3>1, <3>2
  <2> QED
    BY <2>4, <2>8, <2>9 DEF Told
<1>8. ASSUME NEW e \in Entries, Acknowledge(w, e)
      PROVE  HeldOnce' /\ Told'
  <2>1. /\ e \in running[w] /\ job[e] = "written"
        /\ job' = [job EXCEPT ![e] = "done"]
        /\ running' = [running EXCEPT ![w] = @ \ {e}]
        /\ UNCHANGED <<attempts, stalls, rows, full, state, buffer, flight, awaited>>
    BY <1>8 DEF Acknowledge
  <2>2. \A v \in Workers : /\ HeldBy(v)' = HeldBy(v) /\ Apart(v)'
                           /\ running'[v] = IF v = w THEN running[w] \ {e} ELSE running[v]
                           /\ e \notin HeldBy(v)
    <3>1. \A v \in Workers : e \notin HeldBy(v)
      BY <2>1 DEF PlaceTellsJob
    <3> QED
      BY <1>1, <1>2, <2>1, <3>1 DEF HeldBy, Apart
  <2>3. HeldOnce'
    BY <1>2, <2>2, HeldOnceParts2 DEF Exclusive
  <2>4. \A v \in Workers \ {w} : e \notin running[v]
    BY <1>2, <2>1 DEF Exclusive
  <2>5. PlaceTellsJob'
    BY <1>1, <2>1, <2>2, <2>4 DEF PlaceTellsJob
  <2>6. \A f \in Entries : JobTellsRows(f)'
    BY <1>1, <2>1 DEF JobTellsRows, InRedis
  <2> QED
    BY <2>3, <2>5, <2>6 DEF Told
<1> QED
  BY <1>3, <1>5, <1>6, <1>7, <1>8 DEF FlushEnds, Live

LEMMA Induction == QueueInvariant /\ [Next]_vars => QueueInvariant'
<1> SUFFICES ASSUME QueueInvariant, [Next]_vars PROVE QueueInvariant'
  OBVIOUS
<1>1. TypeOK'
  BY NextType DEF QueueInvariant
<1>2. CASE SampleDepth \/ UNCHANGED vars
  <2>1. UNCHANGED <<job, attempts, stalls, rows, buffer, flight, running>>
    BY <1>2 DEF SampleDepth, vars, jobVars, workerVars
  <2>2. HeldOnce' /\ PlaceTellsJob'
    BY <2>1, HeldKept DEF QueueInvariant
  <2>3. \A e \in Entries : JobTellsRows(e)'
    BY <2>1 DEF QueueInvariant, JobTellsRows
  <2> QED
    BY <1>1, <2>2, <2>3 DEF QueueInvariant
<1>3. HeldOnce' /\ Told' => QueueInvariant'
  BY <1>1 DEF QueueInvariant, Told
<1> QED
  BY <1>2, <1>3, EntryStep, WorkerStep DEF Next

------------------------------------------------------------------------------
(* For any entries, workers, batch size and retry bounds: an entry is held   *)
(* by one worker in one place, and that place tells its job and its rows.    *)
THEOREM QueueSound == Spec => []QueueInvariant
BY InitInvariant, Induction, PTL DEF Spec

(* What enqueueJob accepted and lost was lost in one of the ways the code    *)
(* has, and an acknowledged job has its row.                                 *)
THEOREM LossesNamed == Spec => []LossIsNamed
<1>1. QueueInvariant => LossIsNamed
  BY DEF QueueInvariant, JobTellsRows, LossIsNamed
<1> QED
  BY <1>1, QueueSound, PTL

(* A refused row is never written, and a good one again only when a run of   *)
(* its job failed or its worker died.                                        *)
THEOREM RowsTraced == Spec => []RowsTraceRuns
<1>1. QueueInvariant => RowsTraceRuns
  BY DEF QueueInvariant, JobTellsRows, RowsTraceRuns
<1> QED
  BY <1>1, QueueSound, PTL
------------------------------------------------------------------------------
(* The refinement of BestEffortLog: enqueueing accepts or loses an entry;    *)
(* an INSERT, a failed run, a stalled job, an acknowledgement and the end of *)
(* a process settle some; the rest stutters.                                 *)

LogFate == [e \in Entries |-> Fate(e)]

LEMMA FateIsFate ==
    ASSUME NEW e \in Entries
    PROVE  /\ Fate(e) = "new" <=> job[e] = "new"
           /\ Fate(e) = "lost" <=> job[e] \in Lost
           /\ Fate(e) = "kept" <=> job[e] \in {"done", "kept"}
           /\ Fate(e) = "open" <=> job[e] \notin Lost \union {"new", "done", "kept"}
  BY DEF Fate, Lost

\* An INSERT may still be tried for an entry that is held.
LEMMA TriesLeft ==
    ASSUME QueueInvariant, NEW e \in Entries, job[e] \in {"active", "local"}
    PROVE  rows[e] < MaxAttempts + MaxStalls
<1>1. attempts[e] \in Nat /\ stalls[e] \in Nat /\ rows[e] \in Nat
  BY DEF QueueInvariant, TypeOK
<1>2. MaxAttempts \in Nat \ {0} /\ MaxStalls \in Nat
  BY RetryAssumption
<1> QED
  BY <1>1, <1>2 DEF QueueInvariant, JobTellsRows, InRedis

\* What a step must do to the entries for it to be a Settle.
SettlesBy(W, K, G) ==
    /\ \A e \in W \union K \union G : e \in Entries /\ Fate(e) = "open"
    /\ K \intersect G = {}
    /\ \A e \in W : e \notin Poison /\ rows[e] < MaxAttempts + MaxStalls
    /\ \A e \in K : e \in W \/ rows[e] > 0
    /\ rows' = [e \in Entries |-> IF e \in W THEN rows[e] + 1 ELSE rows[e]]
    /\ LogFate' = [e \in Entries |->
                      IF e \in K THEN "kept" ELSE IF e \in G THEN "lost" ELSE LogFate[e]]

LEMMA Settles ==
    ASSUME NEW W, NEW K, NEW G, SettlesBy(W, K, G)
    PROVE  Implements!LogNext
<1>1. W \in SUBSET Implements!Open /\ K \in SUBSET Implements!Open /\ G \in SUBSET Implements!Open
  BY DEF SettlesBy, Implements!Open
<1>2. Implements!Settle(W, K, G)
  BY DEF SettlesBy, Implements!Settle, LogFate
<1> QED
  BY <1>1, <1>2, Zenon DEF Implements!LogNext

\* A step of one job that writes nothing: it stutters, or settles that job.
LEMMA JobEnds ==
    ASSUME QueueInvariant, NEW e \in Entries, UNCHANGED rows, NEW where, job' = [job EXCEPT ![e] = where],
           Fate(e) = "open", where \in Lost \union {"done"} \union InRedis,
           where = "done" => rows[e] > 0
    PROVE  [Implements!LogNext]_(Implements!log)
<1>1. Fate(e)' = IF where = "done" THEN "kept" ELSE IF where \in Lost THEN "lost" ELSE "open"
  BY DEF QueueInvariant, TypeOK, Fate, Lost, InRedis
<1>2. \A f \in Entries \ {e} : Fate(f)' = Fate(f)
  BY DEF QueueInvariant, TypeOK, Fate
<1>3. rows' = [f \in Entries |-> IF f \in {} THEN rows[f] + 1 ELSE rows[f]]
  BY DEF QueueInvariant, TypeOK
<1>4. CASE where = "done"
  <2>1. LogFate' = [f \in Entries |-> IF f \in {e} THEN "kept"
                                      ELSE IF f \in {} THEN "lost" ELSE LogFate[f]]
    BY <1>1, <1>2, <1>4 DEF LogFate
  <2>2. SettlesBy({}, {e}, {})
    BY <1>3, <1>4, <2>1 DEF SettlesBy
  <2> QED
    BY <2>2, Settles
<1>5. CASE where \in Lost
  <2>1. LogFate' = [f \in Entries |-> IF f \in {} THEN "kept"
                                      ELSE IF f \in {e} THEN "lost" ELSE LogFate[f]]
    BY <1>1, <1>2, <1>5 DEF LogFate, Lost
  <2>2. SettlesBy({}, {}, {e})
    BY <1>3, <2>1 DEF SettlesBy
  <2> QED
    BY <2>2, Settles
<1>6. CASE where \notin Lost \union {"done"}
  BY <1>1, <1>2, <1>6 DEF Implements!log
<1> QED
  BY <1>4, <1>5, <1>6

LEMMA EntryRefines ==
    ASSUME QueueInvariant, NEW e \in Entries, Produce(e) \/ Take(e) \/ Stalled(e)
    PROVE  [Implements!LogNext]_(Implements!log)
<1> USE DEF QueueInvariant, TypeOK
<1>1. ASSUME job[e] = "new", NEW where \in Lost \union {"waiting", "local"},
             job' = [job EXCEPT ![e] = where], UNCHANGED rows
      PROVE  [Implements!LogNext]_(Implements!log)
  <2>1. \E how \in {"open", "lost"} : LogFate' = [LogFate EXCEPT ![e] = how]
    <3>1. Fate(e)' \in {"open", "lost"}
      BY <1>1 DEF Fate, Lost
    <3>2. \A f \in Entries \ {e} : Fate(f)' = Fate(f)
      BY <1>1 DEF Fate
    <3> QED
      BY <3>1, <3>2 DEF LogFate
  <2>2. LogFate[e] = "new"
    BY <1>1, FateIsFate DEF LogFate
  <2>3. Implements!Accept(e)
    BY <1>1, <2>1, <2>2 DEF Implements!Accept, LogFate
  <2> QED
    BY <2>3 DEF Implements!LogNext
<1>2. CASE Enqueue(e)
  BY <1>1, <1>2 DEF Enqueue, Lost
<1>3. CASE \E w \in Workers : EnqueueLocal(w, e)
  BY <1>1, <1>3 DEF EnqueueLocal
<1>4. CASE \E w \in Workers : TakeJob(w, e)
  <2>1. job[e] = "waiting" /\ job' = [job EXCEPT ![e] = "active"] /\ UNCHANGED rows
    BY <1>4 DEF TakeJob
  <2>2. Fate(e) = "open"
    BY <2>1 DEF Fate, Lost
  <2> QED
    BY <2>1, <2>2, JobEnds DEF InRedis
<1>5. CASE \E w \in Workers : TakeUnregistered(w, e)
  <2>1. job[e] = "waiting" /\ job' = [job EXCEPT ![e] = AfterFailure(e)] /\ UNCHANGED rows
    BY <1>5 DEF TakeUnregistered
  <2>2. Fate(e) = "open" /\ AfterFailure(e) \in Lost \union InRedis /\ AfterFailure(e) # "done"
    BY <2>1, AfterFailureType DEF Fate, Lost, InRedis
  <2> QED
    BY <2>1, <2>2, JobEnds
<1>6. CASE Stalled(e)
  <2> DEFINE where == IF stalls[e] < MaxStalls THEN "waiting" ELSE "dead"
  <2>1. job[e] = "orphaned" /\ job' = [job EXCEPT ![e] = where] /\ UNCHANGED rows
    BY <1>6 DEF Stalled
  <2>2. Fate(e) = "open" /\ where \in Lost \union InRedis /\ where # "done"
    BY <2>1 DEF Fate, Lost, InRedis
  <2> HIDE DEF where
  <2> QED
    BY <2>1, <2>2, JobEnds
<1> QED
  BY <1>2, <1>3, <1>4, <1>5, <1>6 DEF Produce, Take

\* The entries of a worker's buffer and batches may all be settled.
LEMMA HeldIsOpen ==
    ASSUME QueueInvariant, NEW w \in Workers, NEW e \in HeldBy(w)
    PROVE  /\ e \in Entries /\ job[e] \in {"active", "local"} /\ Fate(e) = "open"
           /\ rows[e] < MaxAttempts + MaxStalls
<1>1. e \in Entries /\ job[e] \in {"active", "local"}
  BY DEF QueueInvariant, TypeOK, PlaceTellsJob, HeldBy
<1> QED
  BY <1>1, TriesLeft DEF Fate, Lost

LEMMA FlushRefines ==
    ASSUME QueueInvariant, NEW w \in Workers, FlushEnds(w)
    PROVE  Implements!LogNext
<1> USE DEF QueueInvariant, TypeOK
<1>1. CASE FlushSucceeds(w)
  <2>1. PICK b \in flight[w] :
          /\ b \intersect Poison = {}
          /\ rows' = [e \in Entries |-> IF e \in b THEN rows[e] + 1 ELSE rows[e]]
          /\ job' = [e \in Entries |-> IF e \notin b THEN job[e]
                                       ELSE IF job[e] = "local" THEN "kept" ELSE "written"]
    BY <1>1 DEF FlushSucceeds
  <2> DEFINE K == {e \in b : job[e] = "local"}
  <2>2. \A e \in b : e \in HeldBy(w)
    BY DEF HeldBy
  <2>3. \A e \in b \union K \union {} : e \in Entries /\ Fate(e) = "open"
    BY <2>2, HeldIsOpen
  <2>4. \A e \in b : e \notin Poison /\ rows[e] < MaxAttempts + MaxStalls
    BY <2>1, <2>2, HeldIsOpen
  <2>5. \A e \in Entries : Fate(e)' = IF e \in K THEN "kept" ELSE Fate(e)
    BY <2>1, <2>3 DEF Fate, Lost
  <2>6. LogFate' = [e \in Entries |-> IF e \in K THEN "kept"
                                      ELSE IF e \in {} THEN "lost" ELSE LogFate[e]]
    BY <2>5 DEF LogFate
  <2>7. SettlesBy(b, K, {})
    BY <2>1, <2>3, <2>4, <2>6 DEF SettlesBy
  <2> HIDE DEF K
  <2> QED
    BY <2>7, Settles
<1>2. CASE FlushFails(w)
  <2>1. PICK b \in flight[w] :
          /\ \/ UNCHANGED rows
             \/ /\ b \intersect Poison = {}
                /\ rows' = [e \in Entries |-> IF e \in b THEN rows[e] + 1 ELSE rows[e]]
          /\ job' = [e \in Entries |-> IF e \in b THEN AfterFailure(e) ELSE job[e]]
    BY <1>2 DEF FlushFails
  <2> DEFINE G == {e \in b : AfterFailure(e) # "waiting"}
  <2>2. \A e \in b : e \in HeldBy(w)
    BY DEF HeldBy
  <2>3. \A e \in b : e \in Entries /\ Fate(e) = "open" /\ rows[e] < MaxAttempts + MaxStalls
    BY <2>2, HeldIsOpen
  <2>4. \A e \in Entries : Fate(e)' = IF e \in G THEN "lost" ELSE Fate(e)
    BY <2>1, <2>3, AfterFailureType DEF Fate, Lost
  <2>5. PICK W \in {b, {}} : /\ W \intersect Poison = {}
                             /\ rows' = [e \in Entries |-> IF e \in W THEN rows[e] + 1 ELSE rows[e]]
    <3>1. CASE UNCHANGED rows
      <4>1. rows' = [e \in Entries |-> IF e \in {} THEN rows[e] + 1 ELSE rows[e]]
        BY <3>1
      <4> QED
        BY <4>1
    <3> QED
      BY <2>1, <3>1
  <2>6. LogFate' = [e \in Entries |-> IF e \in {} THEN "kept"
                                      ELSE IF e \in G THEN "lost" ELSE LogFate[e]]
    BY <2>4 DEF LogFate
  <2>7. SettlesBy(W, {}, G)
    BY <2>3, <2>5, <2>6 DEF SettlesBy
  <2> HIDE DEF G
  <2> QED
    BY <2>7, Settles
<1> QED
  BY <1>1, <1>2 DEF FlushEnds

\* The end of a process settles every local entry it held; its jobs stay open.
LEMMA ExitRefines ==
    ASSUME QueueInvariant, NEW w \in Workers, Exit(w)
    PROVE  Implements!LogNext
<1> USE DEF QueueInvariant, TypeOK
<1>1. PICK committed \in SUBSET {b \in flight[w] : b \intersect Poison = {}} :
        /\ rows' = [e \in Entries |-> IF e \in UNION committed THEN rows[e] + 1 ELSE rows[e]]
        /\ job' = [e \in Entries |->
                      CASE e \in running[w] -> "orphaned"
                        [] e \in HeldBy(w) \ running[w] ->
                               IF e \in UNION committed THEN "kept" ELSE "lost"
                        [] OTHER -> job[e]]
  BY DEF Exit
<1> DEFINE W == UNION committed
           mine == HeldBy(w) \ running[w]
           K == mine \intersect W
           G == mine \ W
<1>2. W \subseteq HeldBy(w) /\ W \intersect Poison = {}
  BY <1>1 DEF HeldBy
<1>3. \A e \in HeldBy(w) : /\ e \in Entries /\ Fate(e) = "open"
                           /\ rows[e] < MaxAttempts + MaxStalls
  BY HeldIsOpen
<1>4. \A e \in running[w] : Fate(e) = "open"
  BY DEF PlaceTellsJob, Fate, Lost
<1>5. ASSUME NEW e \in Entries
      PROVE  Fate(e)' = IF e \in K THEN "kept" ELSE IF e \in G THEN "lost" ELSE Fate(e)
  <2>1. CASE e \in running[w]
    <3>1. job'[e] = "orphaned" /\ e \notin K /\ e \notin G
      BY <1>1, <2>1
    <3> QED
      BY <1>4, <2>1, <3>1 DEF Fate, Lost
  <2>2. CASE e \in mine
    <3>1. job'[e] = IF e \in W THEN "kept" ELSE "lost"
      BY <1>1, <2>2
    <3> QED
      BY <2>2, <3>1 DEF Fate, Lost
  <2>3. CASE e \notin running[w] /\ e \notin mine
    <3>1. job'[e] = job[e]
      BY <1>1, <2>3
    <3> QED
      BY <2>3, <3>1 DEF Fate
  <2> QED
    BY <2>1, <2>2, <2>3
<1>6. /\ \A e \in W \union K \union G : e \in Entries /\ Fate(e) = "open"
      /\ \A e \in W : e \notin Poison /\ rows[e] < MaxAttempts + MaxStalls
      /\ K \intersect G = {} /\ \A e \in K : e \in W \/ rows[e] > 0
  BY <1>2, <1>3
<1>7. rows' = [e \in Entries |-> IF e \in W THEN rows[e] + 1 ELSE rows[e]]
  BY <1>1
<1> HIDE DEF W, K, G
<1>8. LogFate' = [e \in Entries |-> IF e \in K THEN "kept"
                                    ELSE IF e \in G THEN "lost" ELSE LogFate[e]]
  BY <1>5 DEF LogFate
<1>9. SettlesBy(W, K, G)
  BY <1>6, <1>7, <1>8 DEF SettlesBy
<1> QED
  BY <1>9, Settles

LEMMA WorkerRefines ==
    ASSUME QueueInvariant, NEW w \in Workers,
           FlushTimer(w) \/ FlushEnds(w) \/ Live(w) \/ \E e \in Entries : Acknowledge(w, e)
    PROVE  [Implements!LogNext]_(Implements!log)
<1>1. CASE Closed(w) \/ Crash(w)
  BY <1>1, ExitRefines DEF Closed, Crash
<1>2. CASE FlushEnds(w)
  BY <1>2, FlushRefines
<1>3. ASSUME NEW e \in Entries, Acknowledge(w, e)
      PROVE  [Implements!LogNext]_(Implements!log)
  <2>1. job[e] = "written" /\ job' = [job EXCEPT ![e] = "done"] /\ UNCHANGED rows
    BY <1>3 DEF Acknowledge
  <2>2. Fate(e) = "open" /\ rows[e] > 0
    BY <2>1 DEF Fate, Lost, QueueInvariant, JobTellsRows
  <2> QED
    BY <2>1, <2>2, JobEnds
<1>4. CASE FlushTimer(w) \/ Register(w) \/ BeginShutdown(w) \/ StopTimers(w)
           \/ CloseWorker(w) \/ Restart(w)
  BY <1>4 DEF FlushTimer, Register, BeginShutdown, StopTimers, CloseWorker, Restart,
              jobVars, Implements!log, Fate
<1> QED
  BY <1>1, <1>2, <1>3, <1>4 DEF Live

(* The queue implements the best-effort log: whatever fails, stalls, crashes *)
(* or shuts down, an entry is written only while it is open and only as      *)
(* often as it may be tried, is kept only with its row, and ends once.       *)
THEOREM Refinement == Spec => LogPromise
<1>1. Init => Implements!LogInit
  <2>1. Init => \A e \in Entries : Fate(e) = "new"
    BY FateIsFate DEF Init
  <2> QED
    BY <2>1 DEF Init, Implements!LogInit
<1>2. QueueInvariant /\ [Next]_vars => [Implements!LogNext]_(Implements!log)
  <2>1. ASSUME SampleDepth \/ UNCHANGED vars PROVE UNCHANGED Implements!log
    BY <2>1 DEF SampleDepth, vars, jobVars, Implements!log, Fate
  <2> QED
    BY <2>1, EntryRefines, WorkerRefines DEF Next
<1> QED
  BY <1>1, <1>2, QueueSound, PTL DEF Spec, LogPromise, Implements!LogSpec
===============================================================================
