------------------------ MODULE MCDepositSettlement ------------------------
(***************************************************************************)
(* Two orders whose creations race, a transfer that is verified by the     *)
(* user and one that only the scans see.                                   *)
(***************************************************************************)
EXTENDS DepositSettlement

CONSTANTS paid, gift, call

MCOrders == 1..2
MCTransfers == {paid, gift}
MCBlockOf == [t \in MCTransfers |-> IF t = paid THEN 2 ELSE 3]
MCVerifies == {call}
MCTransferOf == [v \in MCVerifies |-> paid]
============================================================================
