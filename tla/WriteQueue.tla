------------------------------ MODULE WriteQueue ------------------------------
(***************************************************************************)
(* The micro-batched half of the write queue as the usage logs use it:     *)
(* "ai-usage-log", whose handler is one multi-row INSERT and rejects when  *)
(* that fails.  Request logs share the buffers and jobs, but their handler *)
(* swallows what fails and returns (Promise.allSettled over a save that    *)
(* catches): they are acknowledged with or without a row, and what is said *)
(* of rows here is not said of them.                                       *)
(*                                                                         *)
(* A process that has registered the batch handler buffers what it         *)
(* enqueues itself; any other process sends it to the batch queue in       *)
(* Redis, whose workers buffer the job and keep it active until the        *)
(* multi-row INSERT of its batch has ended.  Batches are flushed by size,  *)
(* by a timer and twice during a graceful shutdown; workers crash, restart *)
(* before their handlers are registered, and are replaced.                 *)
(*                                                                         *)
(* One batch name and one queue are modelled.  The order of a buffer is    *)
(* data: a buffer is the set of its entries, a batch in flight too.        *)
(*                                                                         *)
(* A definition with an underscore is a fault the properties must catch.   *)
(***************************************************************************)
EXTENDS Integers, FiniteSets

CONSTANTS
    Entries,        \* payloads of enqueueJob
    Poison,         \* entries whose row the database refuses
    Workers,        \* processes that consume the batch queue
    MaxSize,        \* BatchConfig.maxSize
    MaxDepth,       \* queue depth above which a job is dropped
    MaxAttempts,    \* BullMQ attempts of a job (3 in the code)
    MaxStalls       \* BullMQ maxStalledCount (1 by default)

ASSUME EntriesAssumption == IsFiniteSet(Entries) /\ Poison \subseteq Entries
ASSUME SizeAssumption == MaxSize \in Nat \ {0} /\ MaxDepth \in Nat
ASSUME RetryAssumption == MaxAttempts \in Nat \ {0} /\ MaxStalls \in Nat

VARIABLES
    job,        \* what became of each entry
    attempts,   \* failed runs of the job
    stalls,     \* times the job was taken from a dead worker
    rows,       \* rows inserted for the entry
    full,       \* the producers' sample of the depth is above MaxDepth
    state,      \* life of each worker process
    buffer,     \* BatchConfig.buffer of each
    flight,     \* batches whose handler is running
    running,    \* jobs the BullMQ worker of each has taken and not ended
    awaited     \* the batch a shutdown waits for

jobVars == <<job, attempts, stalls, rows>>
workerVars == <<state, buffer, flight, running, awaited>>
vars == <<jobVars, full, workerVars>>

InRedis == {"waiting", "active", "written", "orphaned"}
                        \* written: its promise is resolved; orphaned: its worker died
Lost    == {"dropped", "unqueued", "dead", "lost"}
Ended   == Lost \union {"done", "kept"}         \* kept: a local entry with its row

Registered == {"up", "draining", "closing", "waiting"}  \* batchConfigs has the name
Taking     == {"starting", "up", "draining", "closing"} \* the BullMQ worker fetches jobs
Timed      == {"up", "draining"}                        \* the flush timer is set

Init ==
    /\ job = [e \in Entries |-> "new"]
    /\ attempts = [e \in Entries |-> 0]
    /\ stalls = [e \in Entries |-> 0]
    /\ rows = [e \in Entries |-> 0]
    /\ full = FALSE
    /\ state = [w \in Workers |-> "starting"]
    /\ buffer = [w \in Workers |-> {}]
    /\ flight = [w \in Workers |-> {}]
    /\ running = [w \in Workers |-> {}]
    /\ awaited = [w \in Workers |-> {}]

\* The entries in a process, waiting for an INSERT.
HeldBy(w) == buffer[w] \union UNION flight[w]

------------------------------------------------------------------------------
(* Producers *)

\* The sampler of a producer: waiting, active and delayed jobs.
SampleDepth ==
    /\ full' = (Cardinality({e \in Entries : job[e] \in InRedis}) > MaxDepth)
    /\ UNCHANGED <<jobVars, workerVars>>

\* enqueueJob where no handler is registered: RedisJobQueue.enqueue drops the
\* job when the sample was too deep, and the add may fail behind it.
Enqueue(e) ==
    /\ job[e] = "new"
    /\ IF full
       THEN job' = [job EXCEPT ![e] = "dropped"]
       ELSE \E outcome \in {"waiting", "unqueued"} : job' = [job EXCEPT ![e] = outcome]
    /\ UNCHANGED <<attempts, stalls, rows, full, workerVars>>

\* The entry joins w's buffer, whose whole content leaves as one batch when it
\* has reached maxSize: flushBatch splices before it awaits the handler.
Push(w, e) ==
    LET batch == buffer[w] \union {e} IN
    IF Cardinality(batch) >= MaxSize
    THEN /\ buffer' = [buffer EXCEPT ![w] = {}]
         /\ flight' = [flight EXCEPT ![w] = @ \union {batch}]
    ELSE /\ buffer' = [buffer EXCEPT ![w] = batch]
         /\ UNCHANGED flight

\* enqueueJob where the handler is registered: nobody waits for the row.
EnqueueLocal(w, e) ==
    /\ job[e] = "new"
    /\ state[w] \in Registered
    /\ Push(w, e)
    /\ job' = [job EXCEPT ![e] = "local"]
    /\ UNCHANGED <<attempts, stalls, rows, full, state, running, awaited>>

------------------------------------------------------------------------------
(* The worker's jobs *)

\* A fault: one run more than the attempts.
AfterFailure_OneMore(e) ==
    IF job[e] = "local" THEN "lost"
    ELSE IF attempts[e] < MaxAttempts THEN "waiting" ELSE "dead"

\* A job that failed is tried again until its attempts are used up; a local
\* entry has no promise to reject and is gone.
AfterFailure(e) ==
    IF job[e] = "local" THEN "lost"
    ELSE IF attempts[e] + 1 < MaxAttempts THEN "waiting" ELSE "dead"

\* A fault: the handler returns once the entry is buffered.
TakeJob_Early(w, e) ==
    /\ job[e] = "waiting"
    /\ state[w] \in Taking \ {"starting"}
    /\ Push(w, e)
    /\ job' = [job EXCEPT ![e] = "written"]
    /\ running' = [running EXCEPT ![w] = @ \union {e}]
    /\ UNCHANGED <<attempts, stalls, rows, full, state, awaited>>

\* The worker runs the job: enqueueBatchEntry buffers it and its promise stays
\* open.
TakeJob(w, e) ==
    /\ job[e] = "waiting"
    /\ state[w] \in Taking \ {"starting"}
    /\ Push(w, e)
    /\ job' = [job EXCEPT ![e] = "active"]
    /\ running' = [running EXCEPT ![w] = @ \union {e}]
    /\ UNCHANGED <<attempts, stalls, rows, full, state, awaited>>

\* The BullMQ worker starts with the queue, before the handlers are there: a
\* job it takes meanwhile throws "No handler registered".
TakeUnregistered(w, e) ==
    /\ job[e] = "waiting"
    /\ state[w] = "starting"
    /\ job' = [job EXCEPT ![e] = AfterFailure(e)]
    /\ attempts' = [attempts EXCEPT ![e] = @ + 1]
    /\ UNCHANGED <<stalls, rows, full, workerVars>>

\* A fault: the batch is a copy, and the buffer keeps its entries.
Splice_Copies(w) ==
    /\ flight' = [flight EXCEPT ![w] = IF buffer[w] = {} THEN @ ELSE @ \union {buffer[w]}]
    /\ UNCHANGED buffer

Splice(w) ==
    /\ buffer' = [buffer EXCEPT ![w] = {}]
    /\ flight' = [flight EXCEPT ![w] = IF buffer[w] = {} THEN @ ELSE @ \union {buffer[w]}]

FlushTimer(w) ==
    /\ state[w] \in Timed
    /\ buffer[w] # {}
    /\ Splice(w)
    /\ UNCHANGED <<jobVars, full, state, running, awaited>>

\* One INSERT for the batch: all its rows or none.
FlushSucceeds(w) ==
    \E b \in flight[w] :
        /\ b \intersect Poison = {}
        /\ flight' = [flight EXCEPT ![w] = @ \ {b}]
        /\ rows' = [e \in Entries |-> IF e \in b THEN rows[e] + 1 ELSE rows[e]]
        /\ job' = [e \in Entries |-> IF e \notin b THEN job[e]
                                     ELSE IF job[e] = "local" THEN "kept" ELSE "written"]
        /\ UNCHANGED <<attempts, stalls, full, state, buffer, running, awaited>>

\* The INSERT throws: for a row it cannot take, or for the connection, whether
\* or not it committed.  Every entry of the batch is rejected.
FlushFails(w) ==
    \E b \in flight[w] :
        /\ flight' = [flight EXCEPT ![w] = @ \ {b}]
        /\ \/ UNCHANGED rows
           \/ /\ b \intersect Poison = {}
              /\ rows' = [e \in Entries |-> IF e \in b THEN rows[e] + 1 ELSE rows[e]]
        /\ job' = [e \in Entries |-> IF e \in b THEN AfterFailure(e) ELSE job[e]]
        /\ attempts' = [e \in Entries |-> IF e \in b THEN attempts[e] + 1 ELSE attempts[e]]
        /\ running' = [running EXCEPT ![w] = @ \ b]
        /\ UNCHANGED <<stalls, full, state, buffer, awaited>>

\* BullMQ completes a job whose handler has returned.
Acknowledge(w, e) ==
    /\ e \in running[w] /\ job[e] = "written"
    /\ job' = [job EXCEPT ![e] = "done"]
    /\ running' = [running EXCEPT ![w] = @ \ {e}]
    /\ UNCHANGED <<attempts, stalls, rows, full, state, buffer, flight, awaited>>

\* A fault: a stalled job is moved back however often it stalls.
Stalled_Forever(e) ==
    /\ job[e] = "orphaned"
    /\ job' = [job EXCEPT ![e] = "waiting"]
    /\ UNCHANGED <<attempts, stalls, rows, full, workerVars>>

\* The lock of a dead worker's job has run out: a worker moves the job back, or
\* fails it the time after.
Stalled(e) ==
    /\ job[e] = "orphaned"
    /\ stalls' = [stalls EXCEPT ![e] = @ + 1]
    /\ job' = [job EXCEPT ![e] = IF stalls[e] < MaxStalls THEN "waiting" ELSE "dead"]
    /\ UNCHANGED <<attempts, rows, full, workerVars>>

------------------------------------------------------------------------------
(* The life of a worker process *)

Enter(w, s) == state' = [state EXCEPT ![w] = s]

\* initAiWriteHandlers: batchConfigs, its timer and the queue's handler.
Register(w) ==
    /\ state[w] = "starting"
    /\ Enter(w, "up")
    /\ UNCHANGED <<jobVars, full, buffer, flight, running, awaited>>

\* shutdown: flushWriteQueue takes what is buffered and waits for it; timer and
\* worker go on.
BeginShutdown(w) ==
    /\ state[w] = "up"
    /\ Enter(w, "draining")
    /\ awaited' = [awaited EXCEPT ![w] = buffer[w]]
    /\ Splice(w)
    /\ UNCHANGED <<jobVars, full, running>>

\* closeWriteQueue: the timers stop and what is buffered by now is flushed; the
\* worker takes jobs until that flush has ended.
StopTimers(w) ==
    /\ state[w] = "draining"
    /\ awaited[w] \notin flight[w]
    /\ Enter(w, IF buffer[w] = {} THEN "waiting" ELSE "closing")
    /\ awaited' = [awaited EXCEPT ![w] = buffer[w]]
    /\ Splice(w)
    /\ UNCHANGED <<jobVars, full, running>>

\* worker.close(): no more jobs; it waits for those that run.
CloseWorker(w) ==
    /\ state[w] = "closing"
    /\ awaited[w] \notin flight[w]
    /\ Enter(w, "waiting")
    /\ UNCHANGED <<jobVars, full, buffer, flight, running, awaited>>

\* The process is gone, with its buffers; an INSERT that it had sent may still
\* commit.
Exit(w) ==
    /\ Enter(w, "off")
    /\ buffer' = [buffer EXCEPT ![w] = {}]
    /\ flight' = [flight EXCEPT ![w] = {}]
    /\ running' = [running EXCEPT ![w] = {}]
    /\ awaited' = [awaited EXCEPT ![w] = {}]
    /\ \E committed \in SUBSET {b \in flight[w] : b \intersect Poison = {}} :
        /\ rows' = [e \in Entries |-> IF e \in UNION committed THEN rows[e] + 1 ELSE rows[e]]
        /\ job' = [e \in Entries |->
                      CASE e \in running[w] -> "orphaned"
                        [] e \in HeldBy(w) \ running[w] ->
                               IF e \in UNION committed THEN "kept" ELSE "lost"
                        [] OTHER -> job[e]]
    /\ UNCHANGED <<attempts, stalls, full>>

\* The shutdown is through: process.exit.
Closed(w) == state[w] = "waiting" /\ running[w] = {} /\ Exit(w)

\* A crash, or the SIGKILL of the supervisor.
Crash(w) == state[w] # "off" /\ Exit(w)

Restart(w) ==
    /\ state[w] = "off"
    /\ Enter(w, "starting")
    /\ UNCHANGED <<jobVars, full, buffer, flight, running, awaited>>

------------------------------------------------------------------------------
Produce(e) == Enqueue(e) \/ \E w \in Workers : EnqueueLocal(w, e)

Take(e) == \E w \in Workers : TakeJob(w, e) \/ TakeUnregistered(w, e)

FlushEnds(w) == FlushSucceeds(w) \/ FlushFails(w)

Live(w) ==
    \/ Register(w) \/ BeginShutdown(w) \/ StopTimers(w) \/ CloseWorker(w)
    \/ Closed(w) \/ Crash(w) \/ Restart(w)

Next ==
    \/ \E e \in Entries : Produce(e) \/ Take(e) \/ Stalled(e)
    \/ \E w \in Workers : \/ FlushTimer(w) \/ FlushEnds(w) \/ Live(w)
                          \/ \E e \in Entries : Acknowledge(w, e)
    \/ SampleDepth

Spec == Init /\ [][Next]_vars

(* Timers fire, an INSERT returns or throws, BullMQ acknowledges, finds what *)
(* a dead worker held and offers a waiting job to the workers that come up   *)
(* again and again; a shutdown goes on where it can, and a supervisor kills  *)
(* a process whose shutdown does not end, and starts it again.               *)
Fairness ==
    /\ \A e \in Entries : SF_vars(Take(e)) /\ WF_vars(Stalled(e))
    /\ \A w \in Workers :
        /\ WF_vars(FlushTimer(w)) /\ WF_vars(FlushEnds(w))
        /\ WF_vars(Register(w)) /\ WF_vars(Restart(w))
        /\ WF_vars(StopTimers(w)) /\ WF_vars(CloseWorker(w))
        /\ WF_vars(state[w] = "waiting" /\ Crash(w))
        /\ \A e \in Entries : WF_vars(Acknowledge(w, e))

FairSpec == Spec /\ Fairness

------------------------------------------------------------------------------
TypeOK ==
    /\ job \in [Entries -> InRedis \union Ended \union {"new", "local"}]
    /\ attempts \in [Entries -> Nat]
    /\ stalls \in [Entries -> Nat]
    /\ rows \in [Entries -> Nat]
    /\ full \in BOOLEAN
    /\ state \in [Workers -> Registered \union {"starting", "off"}]
    /\ buffer \in [Workers -> SUBSET Entries]
    /\ flight \in [Workers -> SUBSET SUBSET Entries]
    /\ running \in [Workers -> SUBSET Entries]
    /\ awaited \in [Workers -> SUBSET Entries]

(* What is enqueued has a row in the end or is lost in one of the ways the   *)
(* code has: the sample was too deep, the add failed, all runs of the job    *)
(* failed or stalled, or it was buffered by the process that enqueued it     *)
(* and that died or whose INSERT failed.  An acknowledged job has its row.   *)
LossIsNamed ==
    \A e \in Entries :
        /\ job[e] \in {"written", "done", "kept"} => rows[e] > 0
        /\ job[e] = "dead" => attempts[e] = MaxAttempts \/ stalls[e] > MaxStalls

(* A row the database refuses is never written, and a good one twice only    *)
(* when a run of its job failed or its worker died: its batch is not         *)
(* inserted again for a neighbour's sake.                                    *)
RowsTraceRuns ==
    \A e \in Entries :
        /\ e \in Poison => rows[e] = 0
        /\ rows[e] <= 1 + attempts[e] + stalls[e]

(* The strengthening: an entry is in one buffer or batch of one worker, a    *)
(* job is run by one worker, and the place of an entry bounds its rows.      *)
HeldOnce ==
    \A w \in Workers :
        /\ \A b, c \in flight[w] : b # c => b \intersect c = {}
        /\ \A b \in flight[w] : b \intersect buffer[w] = {}
        /\ \A v \in Workers \ {w} : /\ HeldBy(v) \intersect HeldBy(w) = {}
                                   /\ running[v] \intersect running[w] = {}

PlaceTellsJob ==
    \A w \in Workers :
        /\ \A e \in running[w] : job[e] = IF e \in HeldBy(w) THEN "active" ELSE "written"
        /\ \A e \in HeldBy(w) \ running[w] : job[e] = "local"

JobTellsRows(e) ==
    /\ job[e] \in {"new", "dropped", "unqueued", "local"} => rows[e] = 0
    /\ job[e] \in {"waiting", "active", "dead"} => rows[e] <= attempts[e] + stalls[e]
    /\ job[e] \in {"written", "done", "kept"} => rows[e] > 0
    /\ rows[e] <= 1 + attempts[e] + stalls[e]
    /\ e \in Poison => rows[e] = 0
    /\ job[e] \in InRedis => attempts[e] < MaxAttempts /\ stalls[e] <= MaxStalls
    /\ job[e] \in {"new", "local"} => attempts[e] = 0 /\ stalls[e] = 0
    /\ job[e] = "dead" => attempts[e] = MaxAttempts \/ stalls[e] > MaxStalls

QueueInvariant ==
    /\ TypeOK
    /\ HeldOnce
    /\ PlaceTellsJob
    /\ \A e \in Entries : JobTellsRows(e)

(* Whatever is accepted, by Redis or into a buffer, is settled, although     *)
(* workers crash, restart and shut down in any order.                        *)
EveryEntryEnds ==
    \A e \in Entries : job[e] \in InRedis \union {"local"} ~> job[e] \in Ended

(* registerBatchHandler lists "Graceful shutdown via flushAllBatches()" as a *)
(* trigger of the flush: when the worker only waits for its jobs any more,   *)
(* none of them sits in a buffer that nothing will flush.                    *)
ShutdownFlushes ==
    \A w \in Workers : state[w] = "waiting" => buffer[w] \intersect running[w] = {}
------------------------------------------------------------------------------
(* The queue keeps the promise of a best-effort log: dropped, unqueued, dead *)
(* and lost are one fate, and an entry anywhere between is open.             *)
Fate(e) ==
    CASE job[e] = "new"              -> "new"
      [] job[e] \in Lost             -> "lost"
      [] job[e] \in {"done", "kept"} -> "kept"
      [] OTHER                       -> "open"

Implements == INSTANCE BestEffortLog WITH
    Tries <- MaxAttempts + MaxStalls,
    fate <- [e \in Entries |-> Fate(e)]

LogPromise == Implements!LogSpec
==============================================================================
