-------------------------- MODULE MCSharedIsolation --------------------------
(* Small instances of SharedIsolation for TLC. *)
EXTENDS SharedIsolation

CONSTANTS w1, w2

MCWorkers == {w1, w2}

\* One replica, whose runner may be stalled past its lease, and two updates.
OneReplica == [replicas |-> {w1}, updates |-> 2, stalls |-> TRUE, latePatches |-> FALSE]

\* Two replicas and one update: its event and project.created may be
\* reconciled at the same time, retried, and their PATCHes may come late.
TwoReplicas == [replicas |-> MCWorkers, updates |-> 1, stalls |-> FALSE, latePatches |-> TRUE]

MCScenarios == {OneReplica, TwoReplicas}

\* One replica and one update without a fault.
PlainScenario == {[OneReplica EXCEPT !.updates = 1, !.stalls = FALSE]}

=============================================================================
