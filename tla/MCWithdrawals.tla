---------------------------- MODULE MCWithdrawals ----------------------------
(***************************************************************************)
(* A crypto order that two administrators handle at once and a fiat order  *)
(* that competes with it for the balance.                                  *)
(***************************************************************************)
EXTENDS Withdrawals, TLC

CONSTANTS coin, wire, one, two, other

MCOrders == {coin, wire}
MCFiat == {wire}
MCAmount == (coin :> 1) @@ (wire :> 2)
MCCalls == {one, two, other}
MCOrderOf == (one :> coin) @@ (two :> coin) @@ (other :> wire)
==============================================================================
