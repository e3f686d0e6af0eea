------------------------------ MODULE MCLeases ------------------------------
(***************************************************************************)
(* Two handlers and the sweep of one API instance, over one resource, one  *)
(* lease and one wallet: with a crash or a failed call; with a top-up; and *)
(* with listings that change and locks that lapse, where the wallet cannot *)
(* pay the lease, so that every create is undone.                          *)
(***************************************************************************)
EXTENDS Leases

MCScenarios ==
    {[opening |-> 1, faults |-> 1, topUps |-> 0, listings |-> FALSE],
     [opening |-> 1, faults |-> 0, topUps |-> 1, listings |-> FALSE],
     [opening |-> 0, faults |-> 1, topUps |-> 0, listings |-> TRUE]}
=============================================================================
