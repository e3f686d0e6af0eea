---------------------------- MODULE MCAuditTrail ----------------------------
(***************************************************************************)
(* Three requests with two keys on the tokens of two workspaces, before,   *)
(* in and after the month that two runs of the archive export, overlapping *)
(* and repeated.  Transactions stay open for up to one moment.             *)
(***************************************************************************)
EXTENDS AuditTrail, FiniteSets, TLC

MCAttempts == 1..3

MCMonthStart == [m \in 0..2 |-> 2 ^ m]

MCContents == [kind : {"issue"}, workspace : {"w1"}]
              \cup [kind : {"revoke"}, workspace : {"w1", "w2"}, token : {1}]

\* Bound: two runs overlap while there are at most two requests, a third request
\* meets one run at a time.
MCBound == Cardinality({a \in Attempts : phase[a] # "new"})
             + Cardinality({r \in Runs : run[r].pc # "idle"}) <= 4

MCSymmetry == Permutations(Keys) \cup Permutations(Runs)
=============================================================================
