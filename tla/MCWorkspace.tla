----------------------------- MODULE MCWorkspace -----------------------------
(* Small instances of Workspace for TLC. *)
EXTENDS Workspace

CONSTANTS w1, w2

MCWorkers == {w1, w2}

\* One replica, whose runner may be stalled past its lease; a termination and a
\* snapshot arrive at any moment of the reconciles of the events before them.
OneReplica == [replicas |-> {w1}, targets |-> {"terminated"}, snapshots |-> TRUE,
               stalls |-> TRUE, latePatches |-> FALSE]

\* Two replicas; the event of a desired-state change and workspace.created are
\* reconciled at the same time, retried, and their PATCHes may come late.
TwoReplicas == [replicas |-> MCWorkers, targets |-> {"stopped"}, snapshots |-> FALSE,
                stalls |-> FALSE, latePatches |-> TRUE]

MCScenarios == {OneReplica, TwoReplicas}

\* Two replicas and a termination, without a fault.
Termination == {[TwoReplicas EXCEPT !.targets = {"terminated"}, !.latePatches = FALSE]}

=============================================================================
