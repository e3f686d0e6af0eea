--------------------------- MODULE EventDelivery ---------------------------
(***************************************************************************)
(* What the outbox promises to the rest of the control plane, with no      *)
(* lease, worker or clock in sight: an event that was published is tried   *)
(* again and again until it is delivered or, once it had MaxAttempts tries,*)
(* dead-lettered; a settled event is never tried again; the number of      *)
(* tries is bounded; and every published event is settled in the end.      *)
(***************************************************************************)
EXTENDS Integers

CONSTANTS
    Events,
    MaxAttempts,  \* tries an event gets before it may be dead-lettered
    MaxTries      \* tries an event gets at most

VARIABLES fate, tries

vars == <<fate, tries>>

Init ==
    /\ fate = [e \in Events |-> "absent"]
    /\ tries = [e \in Events |-> 0]

Appear(e) ==
    /\ fate[e] = "absent"
    /\ fate' = [fate EXCEPT ![e] = "pending"]
    /\ UNCHANGED tries

Try(e) ==
    /\ fate[e] = "pending"
    /\ tries[e] < MaxTries
    /\ tries' = [tries EXCEPT ![e] = @ + 1]
    /\ UNCHANGED fate

Deliver(e) ==
    /\ fate[e] = "pending"
    /\ tries[e] > 0
    /\ fate' = [fate EXCEPT ![e] = "delivered"]
    /\ UNCHANGED tries

GiveUp(e) ==
    /\ fate[e] = "pending"
    /\ tries[e] >= MaxAttempts
    /\ fate' = [fate EXCEPT ![e] = "dead"]
    /\ UNCHANGED tries

Progress(e) == Try(e) \/ Deliver(e) \/ GiveUp(e)

Next == \E e \in Events : Appear(e) \/ Progress(e)

SafeSpec == Init /\ [][Next]_vars

Spec == SafeSpec /\ \A e \in Events : WF_vars(Progress(e))

=============================================================================
