-------------------------------- MODULE Quota --------------------------------
(***************************************************************************)
(* The GPU quota of one project: the project_quotas row and everything     *)
(* that charges it.  Reservations charge `reserved' while pending and      *)
(* `allocated' once committed (internal/storage/postgres/tenancy.go); a    *)
(* workspace charges `allocated' while its desired state is running        *)
(* (internal/storage/postgres/workspace.go).                               *)
(*                                                                         *)
(* Transactions run in READ COMMITTED mode, so their interleaving matters: *)
(* a transaction first locks the row it charges the quota for and decides  *)
(* from what it reads, then it locks and updates the quota row, and then   *)
(* it commits or is rolled back.  What it writes shows at its commit; the  *)
(* locks are held until then.                                              *)
(***************************************************************************)
EXTENDS Integers, FiniteSets

CONSTANTS
    Clients,       \* transactions that may be open at the same time
    NoClient,      \* a row is not locked
    NoHolder,      \* an idle client's row
    Reservations,  \* identities of quota_reservations rows
    Workspaces,    \* identities of workspaces rows
    MaxAmount,     \* bound: GPUs of one reservation or workspace
    Limits         \* hard limits an administrator may set

Holders == Reservations \cup Workspaces

ASSUME QuotaAssumption ==
    /\ NoClient \notin Clients
    /\ NoHolder \notin Holders
    /\ IsFiniteSet(Reservations) /\ IsFiniteSet(Workspaces)
    /\ Reservations \cap Workspaces = {}
    /\ MaxAmount \in Nat
    /\ Limits \subseteq Nat

VARIABLES
    quota,      \* the project_quotas row
    rows,       \* status (desired state of a workspace) and GPUs of each holder
    locks,      \* which open transaction locks each holder's row
    quotaLock,  \* which open transaction locks the quota row
    tx          \* what each open transaction is going to write

vars == <<quota, rows, locks, quotaLock, tx>>

-----------------------------------------------------------------------------
(* Types *)

ReservationStatus == {"pending", "committed", "released", "expired"}

DesiredState == {"running", "stopped", "terminated"}

Status == {"absent"} \cup ReservationStatus \cup DesiredState

Amounts == 1..MaxAmount

\* The row a transaction charges the quota for, its new status and GPUs, and
\* what the transaction adds to reserved and allocated.
Transaction == [row : Holders, status : Status, amount : 0..MaxAmount, dr : Int, da : Int]

NoTransaction == [row |-> NoHolder, status |-> "absent", amount |-> 0, dr |-> 0, da |-> 0]

TypeOK ==
    /\ quota \in [exists : BOOLEAN, hard : Nat, reserved : Nat, allocated : Nat]
    /\ rows \in [Holders -> [status : Status, amount : 0..MaxAmount]]
    /\ \A r \in Reservations : rows[r].status \in {"absent"} \cup ReservationStatus
    /\ \A x \in Workspaces : rows[x].status \in {"absent"} \cup DesiredState
    /\ locks \in [Holders -> Clients \cup {NoClient}]
    /\ quotaLock \in Clients \cup {NoClient}
    /\ tx \in [Clients -> Transaction \cup {NoTransaction}]

Init ==
    /\ quota = [exists |-> FALSE, hard |-> 0, reserved |-> 0, allocated |-> 0]
    /\ rows = [h \in Holders |-> [status |-> "absent", amount |-> 0]]
    /\ locks = [h \in Holders |-> NoClient]
    /\ quotaLock = NoClient
    /\ tx = [c \in Clients |-> NoTransaction]

-----------------------------------------------------------------------------
(* SetQuota: one INSERT ... ON CONFLICT DO UPDATE ... WHERE *)

\* The WHERE clause: the limit is refused when usage exceeds it.
Covers(limit) == quota.reserved + quota.allocated <= limit

SetQuota(limit) ==
    /\ quotaLock = NoClient
    /\ Covers(limit)
    /\ quota' = [quota EXCEPT !.exists = TRUE, !.hard = limit]
    /\ UNCHANGED <<rows, locks, quotaLock, tx>>

-----------------------------------------------------------------------------
(* Transactions: first step *)

\* Mutant of Opens: SELECT without FOR UPDATE.
OpensUnlocked(c, h, status, amount, dr, da) ==
    /\ tx[c] = NoTransaction
    /\ locks' = [locks EXCEPT ![h] = c]
    /\ tx' = [tx EXCEPT ![c] = [row |-> h, status |-> status, amount |-> amount,
                                dr |-> dr, da |-> da]]

\* Client c locks the row of h and decides what it will write.
Opens(c, h, status, amount, dr, da) ==
    /\ tx[c] = NoTransaction
    /\ locks[h] = NoClient
    /\ locks' = [locks EXCEPT ![h] = c]
    /\ tx' = [tx EXCEPT ![c] = [row |-> h, status |-> status, amount |-> amount,
                                dr |-> dr, da |-> da]]

\* Mutant of Allowed: also a committed reservation may expire.
AllowedWhileHeld(was, target) ==
    was \in {"pending", "committed"} /\ target \in {"committed", "released", "expired"} \ {was}

\* transitionQuotaReservation allows pending to anything, and committed to
\* released; a reservation already in the target status is a replay.
Allowed(was, target) ==
    \/ was = "pending" /\ target \in {"committed", "released", "expired"}
    \/ was = "committed" /\ target = "released"

\* The two columns of its three quota updates.
ReservedDelta(was, amount) == IF was = "pending" THEN -amount ELSE 0

AllocatedDelta(was, target, amount) ==
    CASE was = "pending" /\ target = "committed" -> amount
      [] was = "committed" -> -amount
      [] OTHER -> 0

TransitionReservation(c, r, target) ==
    LET was == rows[r].status
        n == rows[r].amount
    IN /\ Allowed(was, target)
       /\ Opens(c, r, target, n, ReservedDelta(was, n), AllocatedDelta(was, target, n))
       /\ UNCHANGED <<quota, rows, quotaLock>>

\* workspaceQuotaDelta: only entering and leaving `running' counts.
WorkspaceQuotaDelta(current, desired, gpus) ==
    CASE current # "running" /\ desired = "running" -> gpus
      [] current = "running" /\ desired # "running" -> -gpus
      [] OTHER -> 0

SetDesiredState(c, x, desired) ==
    LET current == rows[x].status
        n == rows[x].amount
    IN /\ current # "absent"
       /\ Opens(c, x, desired, n, 0, WorkspaceQuotaDelta(current, desired, n))
       /\ UNCHANGED <<quota, rows, quotaLock>>

-----------------------------------------------------------------------------
(* Transactions: the quota row *)

\* What asks for more GPUs must fit: the check of ReserveQuota under FOR
\* UPDATE, and the WHERE clause of adjustWorkspaceQuota.
Fits(dr, da) ==
    dr + da > 0 => /\ quota.exists
                   /\ quota.reserved + quota.allocated + dr + da <= quota.hard

\* ReserveQuota locks the quota row first and then inserts its new row;
\* CreateWorkspace updates the quota row first and then inserts its new row.
ReserveQuota(c, r, n) ==
    /\ rows[r].status = "absent"
    /\ quotaLock = NoClient
    /\ Fits(n, 0)
    /\ quotaLock' = c
    /\ Opens(c, r, "pending", n, n, 0)
    /\ UNCHANGED <<quota, rows>>

CreateWorkspace(c, x, n) ==
    /\ rows[x].status = "absent"
    /\ quotaLock = NoClient
    /\ Fits(0, n)
    /\ quotaLock' = c
    /\ Opens(c, x, "running", n, 0, n)
    /\ UNCHANGED <<quota, rows>>

\* The quota UPDATE of an open transaction waits for the row lock; when its
\* WHERE clause does not hold, the transaction is rolled back (see Rollback).
UpdateQuota(c) ==
    /\ tx[c] # NoTransaction
    /\ tx[c].dr # 0 \/ tx[c].da # 0
    /\ quotaLock = NoClient
    /\ Fits(tx[c].dr, tx[c].da)
    /\ quotaLock' = c
    /\ UNCHANGED <<quota, rows, locks, tx>>

-----------------------------------------------------------------------------
(* Transactions: the end *)

Closes(c) ==
    /\ locks' = [locks EXCEPT ![tx[c].row] = NoClient]
    /\ quotaLock' = IF quotaLock = c THEN NoClient ELSE quotaLock
    /\ tx' = [tx EXCEPT ![c] = NoTransaction]

AtLeastZero(n) == IF n >= 0 THEN n ELSE 0

\* GREATEST(allocated + delta, 0) where a workspace gives GPUs back.
NewAllocated(t) ==
    IF t.row \in Workspaces /\ t.da < 0 THEN AtLeastZero(quota.allocated + t.da)
                                        ELSE quota.allocated + t.da

Commit(c) ==
    LET t == tx[c] IN
    /\ t # NoTransaction
    /\ quotaLock = c \/ (t.dr = 0 /\ t.da = 0)
    /\ quota' = [quota EXCEPT !.reserved = @ + t.dr, !.allocated = NewAllocated(t)]
    /\ rows' = [rows EXCEPT ![t.row] = [status |-> t.status, amount |-> t.amount]]
    /\ Closes(c)

\* A refused UPDATE, an error of a later statement, a lost connection.
Rollback(c) ==
    /\ tx[c] # NoTransaction
    /\ Closes(c)
    /\ UNCHANGED <<quota, rows>>

-----------------------------------------------------------------------------

Next ==
    \/ \E limit \in Limits : SetQuota(limit)
    \/ \E c \in Clients :
         \/ \E r \in Reservations, n \in Amounts : ReserveQuota(c, r, n)
         \/ \E r \in Reservations, target \in ReservationStatus : TransitionReservation(c, r, target)
         \/ \E x \in Workspaces, n \in Amounts : CreateWorkspace(c, x, n)
         \/ \E x \in Workspaces, desired \in DesiredState : SetDesiredState(c, x, desired)
         \/ UpdateQuota(c) \/ Commit(c) \/ Rollback(c)

Spec == Init /\ [][Next]_vars

-----------------------------------------------------------------------------
(* Properties *)

\* The GPUs, one by one, that the rows with a status in S hold.
Units(rs, S) ==
    {u \in Holders \X Amounts : rs[u[1]].status \in S /\ u[2] <= rs[u[1]].amount}

Reserving == {"pending"}

Allocating == {"committed", "running"}

\* The counters never drift from the rows they summarise: reserved is what
\* the pending reservations hold, allocated what the committed reservations
\* and the running workspaces hold, in whatever order transactions overlap.
Accounting ==
    /\ quota.reserved = Cardinality(Units(rows, Reserving))
    /\ quota.allocated = Cardinality(Units(rows, Allocating))

\* No statement ever runs into CHECK (reserved + allocated <= hard_limit) of
\* project_quotas: the checks of the code refuse the request before.
WithinLimit == quota.reserved + quota.allocated <= quota.hard

\* A reservation moves along its lifecycle and stops at its end, even when two
\* clients commit, release or expire it at the same time: no GPU is returned
\* twice and no released reservation comes back.
ReservationLifecycle ==
    [][\A r \in Reservations :
         LET was == rows[r].status
             is == rows'[r].status
         IN was # is => (was = "absent" /\ is = "pending") \/ Allowed(was, is)]_vars

\* However transactions overlap, wait and are rolled back, the limit and the rows
\* change as if the operations were executed one at a time, in the order of their
\* commits: what a transaction decided from the row it read first, and from the
\* counters it was checked against later, is still right when it commits.
Promise == INSTANCE Allocation WITH limit <- quota.hard, held <- rows

AllocationKept == Promise!Spec

=============================================================================
