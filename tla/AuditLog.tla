------------------------------ MODULE AuditLog ------------------------------
(***************************************************************************)
(* The audit events of the control plane and the clock that dates them.    *)
(* A mutation reads the clock once, inside its transaction, and writes     *)
(* that time into its rows and its audit event (insertAuditEventInTx); the *)
(* event shows when the transaction commits, later by that clock.          *)
(***************************************************************************)
EXTENDS Integers

CONSTANTS
    Attempts,    \* requests: each one's audit event has its identity
    LastTime,    \* bound: the clock stops here
    LongestOpen, \* a transaction ends within this time of reading the clock
    None

ASSUME AuditLogAssumption ==
    /\ LastTime \in Nat
    /\ LongestOpen \in Nat
    /\ None \notin Nat

VARIABLES
    now,    \* the clock of the replicas and of the archive command
    stamp,  \* the time an attempt's transaction has read
    audit   \* the rows of audit_events: the attempts whose event is committed

auditVars == <<now, stamp, audit>>

AuditTypeOK ==
    /\ now \in 0..LastTime
    /\ stamp \in [Attempts -> 0..LastTime \cup {None}]
    /\ audit \subseteq Attempts

AuditInit ==
    /\ now = 0
    /\ stamp = [a \in Attempts |-> None]
    /\ audit = {}

\* now := repository.now() in the transaction of attempt a.
ReadClock(a) == stamp' = [stamp EXCEPT ![a] = now]

\* The event becomes visible with the rest of its transaction, or never.
CommitEvent(a) == audit' = audit \cup {a} /\ UNCHANGED stamp

DropEvent(a) == stamp' = [stamp EXCEPT ![a] = None] /\ UNCHANGED audit

Pending == {a \in Attempts : stamp[a] # None /\ a \notin audit}

\* Time passes.  That transactions end within LongestOpen of the clock they
\* read is an assumption on requests and on PostgreSQL, not in this code.
Tick ==
    /\ now < LastTime
    /\ \A a \in Pending : now - stamp[a] < LongestOpen
    /\ now' = now + 1

=============================================================================
