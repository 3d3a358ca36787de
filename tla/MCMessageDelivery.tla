-------------------------- MODULE MCMessageDelivery --------------------------
(***************************************************************************)
(* The webhook and the notification of one event.                          *)
(***************************************************************************)
EXTENDS MessageDelivery, TLC

CONSTANTS hook, note, endpoint, config

MCWebhooks == {hook}
MCNotices == {note}
MCTargets == {endpoint, config}
MCTargetOf == (hook :> endpoint) @@ (note :> config)
==============================================================================
