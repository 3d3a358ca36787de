---------------------------- MODULE BestEffortLog ----------------------------
(***************************************************************************)
(* What the write queue promises of a usage log, apart from buffers, jobs  *)
(* and workers: it is accepted or lost at the door; only an accepted entry *)
(* gets rows, no more of them than it may be tried; it ends once, kept     *)
(* only with a row, and nothing is written for it after its end.           *)
(* WriteQueue is the queue that is shown to implement it.                  *)
(***************************************************************************)
EXTENDS Naturals

CONSTANTS
    Entries,    \* what is enqueued
    Poison,     \* entries whose row the database refuses
    Tries       \* how often an entry may be written

VARIABLES
    fate,       \* of each entry: new, open, kept or lost
    rows        \* the rows each entry has

log == <<fate, rows>>

LogInit ==
    /\ fate = [e \in Entries |-> "new"]
    /\ rows = [e \in Entries |-> 0]

Open == {e \in Entries : fate[e] = "open"}

\* Best effort: an entry may be lost before anything was tried.
Accept(e) ==
    /\ fate[e] = "new"
    /\ \E how \in {"open", "lost"} : fate' = [fate EXCEPT ![e] = how]
    /\ UNCHANGED rows

\* A batch ends, or a process with several of them: what was Written has its
\* rows together, what is Kept has one, what is GivenUp may have one that
\* nobody heard of.
Settle(Written, Kept, GivenUp) ==
    /\ Kept \intersect GivenUp = {}
    /\ \A e \in Written : e \notin Poison /\ rows[e] < Tries
    /\ \A e \in Kept : e \in Written \/ rows[e] > 0
    /\ rows' = [e \in Entries |-> IF e \in Written THEN rows[e] + 1 ELSE rows[e]]
    /\ fate' = [e \in Entries |-> IF e \in Kept THEN "kept"
                                  ELSE IF e \in GivenUp THEN "lost" ELSE fate[e]]

LogNext ==
    \/ \E e \in Entries : Accept(e)
    \/ \E Written, Kept, GivenUp \in SUBSET Open : Settle(Written, Kept, GivenUp)

LogSpec == LogInit /\ [][LogNext]_log
==============================================================================
