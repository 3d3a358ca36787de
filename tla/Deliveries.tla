------------------------------ MODULE Deliveries ------------------------------
(***************************************************************************)
(* What the rows of an event's messages promise, apart from the jobs that  *)
(* carry them.  A receiver takes a message, and its answer is heard or     *)
(* lost.  Unless a run was cut short, it takes one only while the row is   *)
(* open and no success has been heard, so that one success is heard at     *)
(* most; the row ends as a success if one was and as a failure if none     *)
(* was.  A row whose run was cut short may be sent again, but is still no  *)
(* success unless one was heard.  MessageDelivery is the system that is    *)
(* shown to implement it.                                                  *)
(*                                                                         *)
(* It is not promised that a row ends, that a failed message was not       *)
(* taken, nor that a notification's end is not overwritten by a late       *)
(* "pending".                                                              *)
(***************************************************************************)
EXTENDS Naturals

CONSTANTS
    Webhooks,   \* messages to webhook endpoints
    Notices     \* messages to notification channels

Rows == Webhooks \union Notices

VARIABLES
    told,       \* what the row says: none, open, success, failed
    heard,      \* how often the receiver took it and its answer arrived
    unheard,    \* how often it took it and its answer did not
    disturbed   \* a run was cut short

deliveries == <<told, heard, unheard, disturbed>>

DeliveriesInit ==
    /\ told = [d \in Rows |-> "none"]
    /\ heard = [d \in Rows |-> 0]
    /\ unheard = [d \in Rows |-> 0]
    /\ disturbed = [d \in Rows |-> FALSE]

Begin(d) ==
    /\ told[d] = "none"
    /\ told' = [told EXCEPT ![d] = "open"]
    /\ UNCHANGED <<heard, unheard, disturbed>>

\* No success was heard and nobody was told an end.
Unanswered(d) == told[d] = "open" /\ heard[d] = 0

Take(d) ==
    /\ disturbed[d] \/ Unanswered(d)
    /\ \/ heard' = [heard EXCEPT ![d] = @ + 1] /\ UNCHANGED unheard
       \/ unheard' = [unheard EXCEPT ![d] = @ + 1] /\ UNCHANGED heard
    /\ UNCHANGED <<told, disturbed>>

Succeed(d) ==
    /\ disturbed[d] \/ told[d] = "open"
    /\ heard[d] > 0
    /\ told' = [told EXCEPT ![d] = "success"]
    /\ UNCHANGED <<heard, unheard, disturbed>>

Fail(d) ==
    /\ disturbed[d] \/ Unanswered(d)
    /\ told' = [told EXCEPT ![d] = "failed"]
    /\ UNCHANGED <<heard, unheard, disturbed>>

Reopen(d) ==
    /\ disturbed[d] \/ d \in Notices
    /\ told' = [told EXCEPT ![d] = "open"]
    /\ UNCHANGED <<heard, unheard, disturbed>>

CutShort(d) ==
    /\ disturbed' = [disturbed EXCEPT ![d] = TRUE]
    /\ UNCHANGED <<told, heard, unheard>>

DeliveriesNext == \E d \in Rows :
    Begin(d) \/ Take(d) \/ Succeed(d) \/ Fail(d) \/ Reopen(d) \/ CutShort(d)

DeliveriesSpec == DeliveriesInit /\ [][DeliveriesNext]_deliveries
==============================================================================
