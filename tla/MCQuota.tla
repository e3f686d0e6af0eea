------------------------------- MODULE MCQuota -------------------------------
(* A small instance of Quota for TLC. *)
EXTENDS Quota, TLC

CONSTANTS c1, c2, r1, r2, x1, x2

MCClients == {c1, c2}

MCReservations == {r1, r2}

MCWorkspaces == {x1, x2}

Symmetry == Permutations(MCClients) \cup Permutations(MCReservations)
              \cup Permutations(MCWorkspaces)

=============================================================================
