----------------------------- MODULE MCWriteQueue -----------------------------
(***************************************************************************)
(* Good entries and a poisoned one, which a batch may bring together, and  *)
(* a worker that crashes, restarts and shuts down.                         *)
(***************************************************************************)
EXTENDS WriteQueue

CONSTANTS good, bad, w1

MCEntries == {good, bad}
MCPoison == {bad}
MCWorkers == {w1}
===============================================================================
