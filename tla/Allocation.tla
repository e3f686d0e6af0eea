----------------------------- MODULE Allocation -----------------------------
(***************************************************************************)
(* What a project's GPU quota promises to its users, with no transaction,  *)
(* lock or counter in sight: operations take effect one at a time, each on *)
(* what the ones before it left.  A reservation or a workspace that asks   *)
(* for more GPUs gets them only if all that is in use then stays within    *)
(* the limit, and a limit is never set below what is in use.               *)
(***************************************************************************)
EXTENDS Integers, FiniteSets

CONSTANTS Reservations, Workspaces, MaxAmount, Limits

VARIABLES
    limit,  \* 0 before an administrator has set one
    held    \* the status and the GPUs of each reservation and workspace

vars == <<limit, held>>

Owners == Reservations \cup Workspaces

\* The statuses in which GPUs are in use.
Using == {"pending", "committed", "running"}

\* The GPUs in use, one by one.
InUse(hs) == Cardinality({u \in Owners \X (1..MaxAmount) :
                            hs[u[1]].status \in Using /\ u[2] <= hs[u[1]].amount})

Init ==
    /\ limit = 0
    /\ held = [h \in Owners |-> [status |-> "absent", amount |-> 0]]

SetLimit(l) ==
    /\ InUse(held) <= l
    /\ limit' = l
    /\ UNCHANGED held

\* h changes its status; what it takes must fit.
Becomes(h, status, n) ==
    /\ held' = [held EXCEPT ![h] = [status |-> status, amount |-> n]]
    /\ InUse(held') > InUse(held) => InUse(held') <= limit
    /\ UNCHANGED limit

Reserve(r, n) == held[r].status = "absent" /\ Becomes(r, "pending", n)

\* A reservation that was settled as released or expired stays so, and a
\* committed one is only released.
Settle(r, status) ==
    /\ \/ held[r].status = "pending" /\ status \in {"committed", "released", "expired"}
       \/ held[r].status = "committed" /\ status = "released"
    /\ Becomes(r, status, held[r].amount)

Create(x, n) == held[x].status = "absent" /\ Becomes(x, "running", n)

SetState(x, desired) == held[x].status # "absent" /\ Becomes(x, desired, held[x].amount)

Next ==
    \/ \E l \in Limits : SetLimit(l)
    \/ \E r \in Reservations :
         \/ \E n \in 1..MaxAmount : Reserve(r, n)
         \/ \E status \in {"committed", "released", "expired"} : Settle(r, status)
    \/ \E x \in Workspaces :
         \/ \E n \in 1..MaxAmount : Create(x, n)
         \/ \E desired \in {"running", "stopped", "terminated"} : SetState(x, desired)

Spec == Init /\ [][Next]_vars

=============================================================================
