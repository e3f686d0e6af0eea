------------------------------- MODULE Rental -------------------------------
(***************************************************************************)
(* What the reference API promises to who rents a GPU resource and to who  *)
(* runs the platform, with no handler, lock, document or sweep in sight: a *)
(* resource is rented by one order at a time, an order that has ended      *)
(* stays as it ended, it is paid at most once, after it was booked, and    *)
(* repaid at most once, at most what was paid.                             *)
(***************************************************************************)
EXTENDS Integers

CONSTANTS Orders, Resources, NoResource, Price

VARIABLES
    rental,  \* the status of each order and what it rents
    paid,    \* the orders that were paid
    repaid   \* what came back of each order

vars == <<rental, paid, repaid>>

Init ==
    /\ rental = [o \in Orders |-> [status |-> "none", resource |-> NoResource]]
    /\ paid = {}
    /\ repaid = [o \in Orders |-> 0]

Active == {o \in Orders : rental[o].status = "active"}

Begin(o, r) ==
    /\ rental[o].status = "none"
    /\ \A other \in Active : rental[other].resource # r
    /\ rental' = [rental EXCEPT ![o] = [status |-> "active", resource |-> r]]
    /\ UNCHANGED <<paid, repaid>>

\* One order ends, or several whose time is up.
End(S, status) ==
    /\ S # {}
    /\ rental' = [o \in Orders |-> IF o \in S THEN [rental[o] EXCEPT !.status = status]
                                             ELSE rental[o]]
    /\ UNCHANGED <<paid, repaid>>

Pay(o) ==
    /\ rental[o].status # "none"
    /\ o \notin paid
    /\ paid' = paid \cup {o}
    /\ UNCHANGED <<rental, repaid>>

Repay(o, n) ==
    /\ o \in paid
    /\ repaid[o] = 0
    /\ repaid' = [repaid EXCEPT ![o] = n]
    /\ UNCHANGED <<rental, paid>>

Next ==
    \/ \E S \in SUBSET Active, status \in {"returned", "expired", "cancelled"} : End(S, status)
    \/ \E o \in Orders :
         \/ \E r \in Resources : Begin(o, r)
         \/ Pay(o)
         \/ \E n \in 1..Price : Repay(o, n)

Spec == Init /\ [][Next]_vars

=============================================================================
