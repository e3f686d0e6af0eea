------------------------------ MODULE MCOutbox ------------------------------
(* A small instance of Outbox for TLC. *)
EXTENDS Outbox

CONSTANTS w1, w2, e1, e2

MCWorkers == {w1, w2}

MCEvents == {e1, e2}

=============================================================================
