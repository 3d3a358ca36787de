------------------------ MODULE MCUpstreamConcurrency ------------------------
(***************************************************************************)
(* Three requests for one slot.                                            *)
(***************************************************************************)
EXTENDS UpstreamConcurrency

MCRequests == 1..3
==============================================================================
