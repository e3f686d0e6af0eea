------------------------------ MODULE MCLedger ------------------------------
(* A small instance of Ledger for TLC. *)
EXTENDS Ledger, TLC

CONSTANTS k1, k2

MCKeys == {k1, k2}

Fact(n, d, from, to) == [kind |-> "fact", quantity |-> <<n, d>>, interval |-> <<from, to>>]

\* Facts of 4 and 2 (from 3/2) minor units, and one whose numerator is too
\* large; a credit; a budget in either currency; a period with one of the facts.
MCContents ==
    {Fact(4, 1, 1, 2), Fact(3, 2, 0, 1), Fact(5, 2, 0, 1)} \cup
    {[kind |-> "credit", amount |-> 1, currency |-> "CNY"],
     [kind |-> "budget", limit |-> 5, currency |-> "CNY"],
     [kind |-> "budget", limit |-> 5, currency |-> "USD"],
     [kind |-> "invoice", interval |-> <<1, 3>>]}

Symmetry == Permutations(MCKeys)

=============================================================================
