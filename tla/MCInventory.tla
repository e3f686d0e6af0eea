----------------------------- MODULE MCInventory -----------------------------
(* A small instance of Inventory for TLC. *)
EXTENDS Inventory, TLC

CONSTANTS e1, e2, pair, pool

\* The first agent lives for two reports, the second for one.
MCMaxReports == [e \in Epochs |-> IF e = e1 THEN 2 ELSE 1]

MCPoolOf == [n \in Nodes |-> pool]

\* Units of pair are two GPUs, those of any other profile one.
MCGPUCount == [p \in Profiles |-> IF p = pair THEN 2 ELSE 1]

\* Bound: pools come and fill where one agent reports; what a pool gets depends
\* on the stored rows and not on the agent that sent them.
MCBound ==
    (\E c \in DOMAIN capacity : capacity[c] # None \/ creating[c] # None) =>
      agent[e2].phase = "new"

Symmetry == Permutations(Replicas) \cup Permutations(Nodes)

=============================================================================
