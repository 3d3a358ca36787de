-------------------------- MODULE MCConsumerBilling --------------------------
(***************************************************************************)
(* A small instance of ConsumerBilling: a non-stream request and a stream  *)
(* with the same cache key, whose response an earlier request may have     *)
(* stored.  Each alone is within the limit and the balance, together not.  *)
(***************************************************************************)
EXTENDS ConsumerBilling, TLC

CONSTANTS first, second

MCRequests == {first, second}
SecondStreams == {second}
MCCost == (first :> 1) @@ (second :> 2)
MCPromptOf == [r \in MCRequests |-> "prompt"]
==============================================================================
