------------------------------- MODULE Outbox -------------------------------
(***************************************************************************)
(* The transactional outbox of the control plane and the runners that      *)
(* drain it: Claim, MarkDelivered, MarkFailed and MarkDeadLettered of      *)
(* internal/storage/postgres/repository.go, and the claim/process loop of  *)
(* the shared-isolation and workspace runners.                             *)
(*                                                                         *)
(* Every statement of the repository is one atomic action (one SQL         *)
(* statement in READ COMMITTED mode; SKIP LOCKED makes two concurrent      *)
(* claims pick different rows).  The database clock appears only through   *)
(* the two comparisons the statements make: `due' is available_at <=       *)
(* now(), and `lease' compares locked_until with now().  What a reconcile  *)
(* does is left open here: it returns nil or an error.  SharedIsolation    *)
(* and Workspace extend this module and say what it does.                  *)
(***************************************************************************)
EXTENDS Integers

CONSTANTS
    Events,       \* identities of the rows of outbox_events
    Workers,      \* runner processes: one per replica of the Deployment
    NoWorker,     \* locked_by IS NULL
    NoEvent,      \* what an idle runner works on
    MaxAttempts,  \* OCM_MAX_ATTEMPTS
    MaxFaults     \* bound: crashes, stalls and lost statements in a behaviour

ASSUME OutboxAssumption ==
    /\ NoWorker \notin Workers
    /\ NoEvent \notin Events
    /\ MaxAttempts \in Nat \ {0}
    /\ MaxFaults \in Nat

VARIABLES
    outbox,       \* the table: one row per event
    runner,       \* the local state of each runner
    sent,         \* mark statements of dead processes that may still execute
    faults,       \* how many faults happened so far
    reconciled    \* history: the claims whose reconcile returned nil

outboxVars == <<outbox, runner, sent, faults, reconciled>>

-----------------------------------------------------------------------------
(* Types *)

Row == [exists    : BOOLEAN,
        due       : BOOLEAN,                     \* available_at <= now()
        lease     : {"none", "live", "past"},    \* locked_until: NULL, > now(), <= now()
        holder    : Workers \cup {NoWorker},     \* locked_by
        attempts  : Nat,
        delivered : BOOLEAN,                     \* delivered_at IS NOT NULL
        dead      : BOOLEAN]                     \* dead_lettered_at IS NOT NULL

\* What a runner knows of the event it processes: outbox.Event as Claim
\* returned it (`gen' is Event.Attempts) and the result of Reconcile.
Local == [pc  : {"idle", "reconciling", "marking"},
          ev  : Events \cup {NoEvent},
          gen : Nat,
          ok  : BOOLEAN]

Idle == [pc |-> "idle", ev |-> NoEvent, gen |-> 0, ok |-> FALSE]

\* A mark statement: the event, the worker ID and the claim generation it
\* names, and which of the three marks it is.
Statement == [ev : Events, by : Workers, gen : Nat,
              kind : {"deliver", "fail", "dead"}]

TypeOK ==
    /\ outbox \in [Events -> Row]
    /\ runner \in [Workers -> Local]
    /\ sent \subseteq Statement
    /\ faults \in 0..MaxFaults
    /\ reconciled \subseteq Events \X Nat

-----------------------------------------------------------------------------
(* Initial state *)

NoRow == [exists |-> FALSE, due |-> FALSE, lease |-> "none", holder |-> NoWorker,
          attempts |-> 0, delivered |-> FALSE, dead |-> FALSE]

OutboxInit ==
    /\ outbox = [e \in Events |-> NoRow]
    /\ runner = [w \in Workers |-> Idle]
    /\ sent = {}
    /\ faults = 0
    /\ reconciled = {}

-----------------------------------------------------------------------------
(* Producers and the database clock *)

\* The INSERT INTO outbox_events of a mutation's transaction: attempts 0,
\* available immediately.
Inserted == [NoRow EXCEPT !.exists = TRUE, !.due = TRUE]

Insert(e) ==
    /\ ~outbox[e].exists
    /\ outbox' = [outbox EXCEPT ![e] = Inserted]

\* available_at passes: the back-off of a failed attempt is over.
BackoffElapses(e) ==
    /\ outbox[e].exists
    /\ ~outbox[e].due
    /\ outbox' = [outbox EXCEPT ![e].due = TRUE]

\* Runner w still works on the claim that row e records.
HoldsClaim(w, e) ==
    /\ runner[w].pc # "idle"
    /\ runner[w].ev = e
    /\ outbox[e].holder = w
    /\ outbox[e].attempts = runner[w].gen

\* locked_until passes.  A claim lasts ReconcileTimeout + 30s and a reconcile
\* at most ReconcileTimeout, so a runner outlives its own lease only when it
\* is stalled (paused process, statement waiting on the database): a fault.
LeaseExpires(e) ==
    /\ outbox[e].lease = "live"
    /\ outbox' = [outbox EXCEPT ![e].lease = "past"]

AbandonedLeaseExpires(e) ==
    /\ \A w \in Workers : ~HoldsClaim(w, e)
    /\ LeaseExpires(e)
    /\ UNCHANGED faults

StalledPastLease(e) ==
    /\ faults < MaxFaults
    /\ \E w \in Workers : HoldsClaim(w, e)
    /\ LeaseExpires(e)
    /\ faults' = faults + 1

-----------------------------------------------------------------------------
(* Claim *)

Settled(e) == outbox[e].delivered \/ outbox[e].dead

\* Mutants of Claimable: no lease test; a lease that is never treated as
\* expired.
ClaimableLeased(e) ==
    /\ outbox[e].exists
    /\ ~outbox[e].delivered
    /\ ~outbox[e].dead
    /\ outbox[e].due

ClaimableUnlocked(e) ==
    /\ outbox[e].exists
    /\ ~outbox[e].delivered
    /\ ~outbox[e].dead
    /\ outbox[e].due
    /\ outbox[e].lease = "none"

\* The WHERE clause of Claim.
Claimable(e) ==
    /\ outbox[e].exists
    /\ ~outbox[e].delivered
    /\ ~outbox[e].dead
    /\ outbox[e].due
    /\ outbox[e].lease \in {"none", "past"}

\* The SET clause of Claim: a new lease, and attempts numbers the claim.
ClaimedBy(w, row) ==
    [row EXCEPT !.holder = w, !.lease = "live", !.attempts = @ + 1]

Claim(w, e) ==
    /\ runner[w].pc = "idle"
    /\ Claimable(e)
    /\ outbox' = [outbox EXCEPT ![e] = ClaimedBy(w, @)]
    /\ runner' = [runner EXCEPT ![w] = [pc |-> "reconciling", ev |-> e,
                                        gen |-> outbox[e].attempts + 1, ok |-> FALSE]]
    /\ UNCHANGED <<sent, faults, reconciled>>

\* The claim commits but its answer is lost with the connection: nobody works
\* on the row until the lease expires.
ClaimLost(w, e) ==
    /\ faults < MaxFaults
    /\ runner[w].pc = "idle"
    /\ Claimable(e)
    /\ outbox' = [outbox EXCEPT ![e] = ClaimedBy(w, @)]
    /\ faults' = faults + 1
    /\ UNCHANGED <<runner, sent, reconciled>>

-----------------------------------------------------------------------------
(* process: reconcile, then mark *)

\* Mutant of Terminal: off by one.
TerminalEarly(w) == runner[w].gen >= MaxAttempts - 1

\* terminal := event.Attempts >= MaxAttempts
Terminal(w) == runner[w].gen >= MaxAttempts

\* Reconcile returned: nil (ok) or an error.
Return(w, ok) ==
    /\ runner[w].pc = "reconciling"
    /\ runner' = [runner EXCEPT ![w].pc = "marking", ![w].ok = ok]
    /\ reconciled' = IF ok THEN reconciled \cup {<<runner[w].ev, runner[w].gen>>}
                           ELSE reconciled

\* Which mark process() issues: delivered on success, dead-lettered on an
\* error of a terminal attempt, failed with a back-off otherwise.
MarkOf(w) ==
    [ev |-> runner[w].ev, by |-> w, gen |-> runner[w].gen,
     kind |-> IF runner[w].ok THEN "deliver"
              ELSE IF Terminal(w) THEN "dead"
              ELSE "fail"]

\* Mutant of OwnsClaim: the claim generation is not compared.
OwnsLease(s) ==
    LET row == outbox[s.ev] IN
    /\ row.exists
    /\ ~row.delivered
    /\ ~row.dead
    /\ row.holder = s.by
    /\ row.lease = "live"

\* The WHERE clause the three marks share: the row is not settled and the
\* caller still owns an unexpired lease of the claim it names.
OwnsClaim(s) ==
    LET row == outbox[s.ev] IN
    /\ row.exists
    /\ ~row.delivered
    /\ ~row.dead
    /\ row.holder = s.by
    /\ row.lease = "live"
    /\ row.attempts = s.gen

Released(row) == [row EXCEPT !.holder = NoWorker, !.lease = "none"]

MarkDelivered(s) == outbox' = [outbox EXCEPT ![s.ev] = [Released(@) EXCEPT !.delivered = TRUE]]

MarkDeadLettered(s) == outbox' = [outbox EXCEPT ![s.ev] = [Released(@) EXCEPT !.dead = TRUE]]

\* available_at = now() + backoff, and the back-off is at least 1ms.
MarkFailed(s) == outbox' = [outbox EXCEPT ![s.ev] = [Released(@) EXCEPT !.due = FALSE]]

\* One mark statement: when no row matches, requireAffectedOutboxEvent turns
\* it into ErrNotFound, which process() only logs.
Execute(s) ==
    \/ /\ OwnsClaim(s)
       /\ \/ s.kind = "deliver" /\ MarkDelivered(s)
          \/ s.kind = "dead" /\ MarkDeadLettered(s)
          \/ s.kind = "fail" /\ MarkFailed(s)
    \/ /\ ~OwnsClaim(s)
       /\ UNCHANGED outbox

Mark(w) ==
    /\ runner[w].pc = "marking"
    /\ Execute(MarkOf(w))
    /\ runner' = [runner EXCEPT ![w] = Idle]
    /\ UNCHANGED <<sent, faults, reconciled>>

\* The statement never reaches the database (connection lost, pool error):
\* process() logs the error and the runner goes on polling.
MarkLost(w) ==
    /\ faults < MaxFaults
    /\ runner[w].pc = "marking"
    /\ runner' = [runner EXCEPT ![w] = Idle]
    /\ faults' = faults + 1
    /\ UNCHANGED <<outbox, sent, reconciled>>

\* The process dies and is restarted under the same worker ID (the container
\* restarts in its Pod).  A mark it had already sent may execute later.
Crash(w) ==
    /\ faults < MaxFaults
    /\ runner[w].pc # "idle"
    /\ runner' = [runner EXCEPT ![w] = Idle]
    /\ sent' \in IF runner[w].pc = "marking" THEN {sent, sent \cup {MarkOf(w)}} ELSE {sent}
    /\ faults' = faults + 1
    /\ UNCHANGED <<outbox, reconciled>>

LateMark(s) ==
    /\ s \in sent
    /\ Execute(s)
    /\ sent' = sent \ {s}
    /\ UNCHANGED <<runner, faults, reconciled>>

-----------------------------------------------------------------------------
(* The specification: producers and reconcilers are arbitrary *)

Publish(e) == Insert(e) /\ UNCHANGED <<runner, sent, faults, reconciled>>

BackoffOver(e) == BackoffElapses(e) /\ UNCHANGED <<runner, sent, faults, reconciled>>

LeaseOver(e) == AbandonedLeaseExpires(e) /\ UNCHANGED <<runner, sent, reconciled>>

Stall(e) == StalledPastLease(e) /\ UNCHANGED <<runner, sent, reconciled>>

Reconcile(w) == (\E ok \in BOOLEAN : Return(w, ok)) /\ UNCHANGED <<outbox, sent, faults>>

Next ==
    \/ \E e \in Events : Publish(e) \/ BackoffOver(e) \/ LeaseOver(e) \/ Stall(e)
    \/ \E w \in Workers, e \in Events : Claim(w, e) \/ ClaimLost(w, e)
    \/ \E w \in Workers : Reconcile(w) \/ Mark(w) \/ MarkLost(w) \/ Crash(w)
    \/ \E s \in sent : LateMark(s)

\* A live replica keeps polling, context.WithTimeout ends every reconcile, and
\* the database clock advances.  Producers and faults owe nothing.
Fairness ==
    /\ \A e \in Events : WF_outboxVars(BackoffOver(e)) /\ WF_outboxVars(LeaseOver(e))
    /\ \A w \in Workers :
          /\ WF_outboxVars(\E e \in Events : Claim(w, e))
          /\ WF_outboxVars(Reconcile(w))
          /\ WF_outboxVars(Mark(w))

SafeSpec == OutboxInit /\ [][Next]_outboxVars

Spec == SafeSpec /\ Fairness

-----------------------------------------------------------------------------
(* Properties *)

\* MarkDelivered's fence: an event counts as delivered only because the
\* reconcile of its latest claim returned nil.  A late mark of an earlier
\* claim, even one made under the same worker ID, never settles it.
DeliveredBySuccess ==
    \A e \in Events :
        outbox[e].delivered => <<e, outbox[e].attempts>> \in reconciled

\* MarkDeadLettered: only an event that used up its attempts is dead-lettered,
\* and never one whose latest reconcile succeeded.
DeadLetteredByExhaustion ==
    \A e \in Events :
        outbox[e].dead => /\ outbox[e].attempts >= MaxAttempts
                          /\ <<e, outbox[e].attempts>> \notin reconciled

\* OCM_MAX_ATTEMPTS bounds the work spent on an event: every claim beyond it
\* was made possible by a fault that lost an earlier claim.
RetryBudget ==
    \A e \in Events : outbox[e].attempts <= MaxAttempts + faults

\* Two runners never work on the same claim of an event, so at most one of
\* them can still settle it.
ClaimsAreDistinct ==
    \A v, w \in Workers :
        (v # w /\ runner[v].pc # "idle" /\ runner[v].ev = runner[w].ev)
            => runner[v].gen # runner[w].gen

\* A settled event is final: no claim, retry or late mark touches its row.
SettledIsFinal ==
    [][\A e \in Events : Settled(e) => outbox'[e] = outbox[e]]_outboxVars

\* While a runner goes on working, nothing but its own stall takes its claim
\* away: no other claim, no mark of a dead process.
RunnerKeepsClaim ==
    [][\A w \in Workers, e \in Events :
         (/\ HoldsClaim(w, e) /\ outbox[e].lease = "live"
          /\ runner'[w].pc # "idle")
            => /\ outbox'[e].holder = w
               /\ outbox'[e].attempts = runner'[w].gen
               /\ outbox'[e].lease = "live" \/ faults' = faults + 1]_outboxVars

\* The outbox implements at-least-once delivery with bounded retries: what
\* EventDelivery promises, with an event's fate read off its row.
Fate(e) == IF ~outbox[e].exists THEN "absent"
           ELSE IF outbox[e].delivered THEN "delivered"
           ELSE IF outbox[e].dead THEN "dead"
           ELSE "pending"

Delivery == INSTANCE EventDelivery WITH
    MaxTries <- MaxAttempts + MaxFaults,
    fate <- [e \in Events |-> Fate(e)],
    tries <- [e \in Events |-> outbox[e].attempts]

DeliverySpec == Delivery!Spec

DeliverySafeSpec == Delivery!SafeSpec

=============================================================================
