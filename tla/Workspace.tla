------------------------------ MODULE Workspace ------------------------------
(***************************************************************************)
(* The life of one GPU Workspace: the owner changes its desired state and  *)
(* takes snapshots (internal/storage/postgres/workspace.go), the outbox    *)
(* hands each change to a workspace runner, Reconcile of                   *)
(* internal/workspace/reconciler.go builds the ManifestWork from the row   *)
(* and applies it, and the result is written back, fenced by generation.   *)
(*                                                                         *)
(* Event 0 is workspace.created, events 1..Changes are the workspace.      *)
(* desired-state.updated events in their order, and the remaining Snapshots*)
(* events are workspace.snapshot.created; a snapshot is named by its event.*)
(* Only the project quota is left out: see Quota.                          *)
(***************************************************************************)
EXTENDS Integers

CONSTANTS
    Workers, NoWorker, NoEvent, MaxAttempts, NoSpec,
    MaxFaults,    \* bound: crashes, stalls, lost statements and requests
    Changes,      \* bound: desired-state updates in a behaviour
    Snapshots,    \* bound: snapshots in a behaviour
    Targets,      \* the desired states the owner asks for
    Scenarios     \* bound: which replicas run, and what they may meet

DesiredStates == {"running", "stopped", "terminated"}

ASSUME WorkspaceAssumption ==
    /\ Changes \in Nat /\ Snapshots \in Nat
    /\ Targets \subseteq DesiredStates
    /\ Scenarios \subseteq
         [replicas    : SUBSET Workers,
          targets     : SUBSET Targets,
          snapshots   : BOOLEAN,
          stalls      : BOOLEAN,    \* may a runner outlive its lease?
          latePatches : BOOLEAN]    \* may a PATCH take effect after its caller gave up?

Events == 0..(Changes + Snapshots)

SnapshotEvents == (Changes + 1)..(Changes + Snapshots)

ASSUME RunnersAssumption ==     \* see Outbox
    /\ NoWorker \notin Workers /\ NoEvent \notin Events
    /\ MaxAttempts \in Nat \ {0} /\ MaxFaults \in Nat

VARIABLES
    outbox, runner, sent, faults, reconciled,   \* see Outbox
    hub, late,    \* see Fleet: the workspace's ManifestWork
    row,          \* the workspaces row
    snaps,        \* workspace_snapshots.state, by event
    checked,      \* snapshot requests between their two statements
    local,        \* per runner: where Reconcile is and what it loaded
    scenario      \* one of Scenarios, for the whole behaviour

\* The manifests BuildWork generates: the volume and its policies, the pod
\* with its service and routes, and the VolumeSnapshots.
Manifests == [volume : BOOLEAN, pod : BOOLEAN, snaps : SUBSET SnapshotEvents]

ASSUME ManifestsAssumption == NoSpec \notin Manifests

OB == INSTANCE Outbox

FL == INSTANCE Fleet WITH Specs <- Manifests

outboxVars == <<outbox, runner, sent, faults, reconciled>>

databaseVars == <<row, snaps, checked>>

vars == <<outboxVars, hub, late, databaseVars, local>>

-----------------------------------------------------------------------------
(* Types *)

Workspace == [desired  : DesiredStates,
              gen      : Nat \ {0},
              observed : DesiredStates \cup {"pending", "unknown"},
              prov     : {"pending", "provisioning", "succeeded", "failed"},
              obsGen   : Nat]

Steps == {"idle", "load", "list", "start", "patch", "wait", "fail", "expired",
          "complete", "snapshots"}

TypeOK ==
    /\ OB!TypeOK
    /\ FL!TypeOK
    /\ row \in Workspace
    /\ snaps \in [SnapshotEvents -> {"absent", "pending", "succeeded"}]
    /\ checked \subseteq SnapshotEvents
    /\ local \in [Workers -> [step : Steps, seen : Workspace, snaps : SUBSET SnapshotEvents]]
    /\ scenario \in Scenarios

-----------------------------------------------------------------------------
(* Initial state: CreateWorkspace has just committed *)

NewWorkspace == [desired |-> "running", gen |-> 1, observed |-> "pending",
                 prov |-> "pending", obsGen |-> 0]

Resting == [step |-> "idle", seen |-> NewWorkspace, snaps |-> {}]

Init ==
    /\ outbox = [e \in Events |-> IF e = 0 THEN OB!Inserted ELSE OB!NoRow]
    /\ runner = [w \in Workers |-> OB!Idle]
    /\ sent = {}
    /\ faults = 0
    /\ reconciled = {}
    /\ FL!Init
    /\ row = NewWorkspace
    /\ snaps = [s \in SnapshotEvents |-> "absent"]
    /\ checked = {}
    /\ local = [w \in Workers |-> Resting]
    /\ scenario \in Scenarios

-----------------------------------------------------------------------------
(* The owner *)

\* SetWorkspaceDesiredState: one transaction under the lock of the row.  Any
\* state may be asked for in any state, the current one included.
SetDesiredState(e, target) ==
    /\ e \in 1..Changes
    /\ target \in scenario.targets
    /\ outbox[e-1].exists
    /\ OB!Insert(e)
    /\ row' = [row EXCEPT !.desired = target, !.gen = @ + 1]
    /\ UNCHANGED <<runner, sent, faults, reconciled, hub, late, snaps, checked, local>>

\* CreateSnapshot checks that the workspace is not terminated ...
CheckSnapshot(s) ==
    /\ scenario.snapshots
    /\ snaps[s] = "absent"
    /\ s \notin checked
    /\ row.desired # "terminated"
    /\ checked' = checked \cup {s}
    /\ UNCHANGED <<outboxVars, hub, late, row, snaps, local>>

\* ... without locking it, and inserts the snapshot and its event.
CreateSnapshot(s) ==
    /\ s \in checked
    /\ OB!Insert(s)
    /\ checked' = checked \ {s}
    /\ snaps' = [snaps EXCEPT ![s] = "pending"]
    /\ UNCHANGED <<runner, sent, faults, reconciled, hub, late, row, local>>

-----------------------------------------------------------------------------
(* Reconcile: load, decide, start *)

At(w, step) == runner[w].pc = "reconciling" /\ local[w].step = step

Goto(w, step) == local' = [local EXCEPT ![w].step = step]

\* Reconcile returns to process().
Returns(w, ok) ==
    /\ OB!Return(w, ok)
    /\ local' = [local EXCEPT ![w] = Resting]

Begin(w, e) ==
    /\ OB!Claim(w, e)
    /\ Goto(w, "load")
    /\ UNCHANGED <<hub, late, databaseVars>>

\* LoadWorkspace: the row first ...
LoadWorkspace(w) ==
    /\ At(w, "load")
    /\ local' = [local EXCEPT ![w].seen = row, ![w].step = "list"]
    /\ UNCHANGED <<outboxVars, hub, late, databaseVars>>

\* Mutants of Ready: snapshot events take the shortcut too; the generation is
\* not compared.
ReadySnapshotToo(e, seen) ==
    /\ seen.obsGen = seen.gen
    /\ seen.prov = "succeeded"
    /\ seen.observed = seen.desired

ReadyAnyGeneration(e, seen) ==
    /\ e \notin SnapshotEvents
    /\ seen.prov = "succeeded"

\* The shortcut of Reconcile: this generation was already provisioned.
Ready(e, seen) ==
    /\ e \notin SnapshotEvents
    /\ seen.obsGen = seen.gen
    /\ seen.prov = "succeeded"
    /\ seen.observed = seen.desired

\* ... then its snapshots (none is ever marked failed).
ListSnapshots(w) ==
    /\ At(w, "list")
    /\ local' = [local EXCEPT
         ![w].snaps = {s \in SnapshotEvents : snaps[s] # "absent"},
         ![w].step = IF Ready(runner[w].ev, local[w].seen) THEN "complete" ELSE "start"]
    /\ UNCHANGED <<outboxVars, hub, late, databaseVars>>

\* Mutant of Current: the write-backs are not fenced.
CurrentAlways(w) == TRUE

\* WHERE generation = $n of the three write-backs.
Current(w) == row.gen = local[w].seen.gen

\* StartWorkspace; when no row matches, Reconcile returns ErrConflict.
StartWorkspace(w) ==
    /\ At(w, "start")
    /\ Current(w)
    /\ row' = [row EXCEPT !.prov = "provisioning", !.observed = "unknown"]
    /\ Goto(w, "patch")
    /\ UNCHANGED <<outboxVars, hub, late, snaps, checked>>

StartConflict(w) ==
    /\ At(w, "start")
    /\ ~Current(w)
    /\ Returns(w, FALSE)
    /\ UNCHANGED <<outbox, sent, faults, hub, late, databaseVars>>

-----------------------------------------------------------------------------
(* Reconcile: apply *)

BuildWork(seen, ss) ==
    [volume |-> seen.desired # "terminated",
     pod    |-> seen.desired = "running",
     snaps  |-> IF seen.desired = "terminated" THEN {} ELSE ss]

Work(w) == BuildWork(local[w].seen, local[w].snaps)

ApplyWork(w) ==
    /\ At(w, "patch")
    /\ FL!Accept(Work(w))
    /\ Goto(w, "wait")
    /\ UNCHANGED <<outboxVars, late, databaseVars>>

ApplyRefused(w) ==
    /\ At(w, "patch")
    /\ Goto(w, "fail")
    /\ UNCHANGED <<outboxVars, hub, late, databaseVars>>

\* The client's timeout or the deadline passes while the PATCH is under way.
ApplyUnanswered(w) ==
    /\ scenario.latePatches
    /\ faults < MaxFaults
    /\ At(w, "patch")
    /\ FL!Abandon(Work(w))
    /\ \E step \in {"fail", "expired"} : Goto(w, step)
    /\ faults' = faults + 1
    /\ UNCHANGED <<outbox, runner, sent, reconciled, hub, databaseVars>>

LateApply ==
    /\ \E s \in late : FL!AcceptLate(s)
    /\ UNCHANGED <<outboxVars, databaseVars, local>>

Poll(w) ==
    /\ At(w, "wait")
    /\ Goto(w, FL!Verdict)
    /\ UNCHANGED <<outboxVars, hub, late, databaseVars>>

\* A status request fails, or the last one is cut off by the deadline.
PollFails(w) ==
    /\ At(w, "wait")
    /\ \E step \in {"fail", "expired"} : Goto(w, step)
    /\ UNCHANGED <<outboxVars, hub, late, databaseVars>>

Agent ==
    /\ FL!AgentApplies \/ FL!AgentDegrades
    /\ UNCHANGED <<outboxVars, databaseVars, local>>

-----------------------------------------------------------------------------
(* Reconcile: write back *)

Completed == [row EXCEPT !.observed = row.desired, !.prov = "succeeded", !.obsGen = row.gen]

\* Mutants of CompleteWorkspace: only a newer generation than the observed one
\* is written; a row that does not match ends the reconcile.
CompleteNewer(w) ==
    /\ At(w, "complete")
    /\ row' = IF Current(w) /\ row.obsGen < local[w].seen.gen THEN Completed ELSE row
    /\ Goto(w, "snapshots")
    /\ UNCHANGED <<outboxVars, hub, late, snaps, checked>>

CompleteOrReturn(w) ==
    /\ At(w, "complete")
    /\ \/ /\ Current(w)
          /\ row' = Completed
          /\ Goto(w, "snapshots")
          /\ UNCHANGED outboxVars
       \/ /\ ~Current(w)
          /\ Returns(w, TRUE)
          /\ UNCHANGED <<outbox, sent, faults, row>>
    /\ UNCHANGED <<hub, late, snaps, checked>>

\* CompleteWorkspace's first statement.  No row matching is not an error.
CompleteWorkspace(w) ==
    /\ At(w, "complete")
    /\ row' = IF Current(w) THEN Completed ELSE row
    /\ Goto(w, "snapshots")
    /\ UNCHANGED <<outboxVars, hub, late, snaps, checked>>

\* Its second statement: every pending snapshot, whatever was applied.
CompleteSnapshots(w) ==
    /\ At(w, "snapshots")
    /\ snaps' = [s \in SnapshotEvents |-> IF snaps[s] = "pending" THEN "succeeded" ELSE snaps[s]]
    /\ Returns(w, TRUE)
    /\ UNCHANGED <<outbox, sent, faults, hub, late, row, checked>>

FailWorkspace(w) ==
    /\ At(w, "fail")
    /\ row' = IF Current(w)
                THEN [row EXCEPT !.prov = IF OB!Terminal(w) THEN "failed" ELSE "provisioning"]
                ELSE row
    /\ Returns(w, FALSE)
    /\ UNCHANGED <<outbox, sent, faults, hub, late, snaps, checked>>

\* The reconcile context has ended: FailWorkspace's statement, which is run
\* with that context, is refused.
FailAfterDeadline(w) ==
    /\ At(w, "expired")
    /\ Returns(w, FALSE)
    /\ UNCHANGED <<outbox, sent, faults, hub, late, databaseVars>>

\* A statement fails (database unavailable): Reconcile returns the error.
\* CompleteWorkspace may fail between its two statements.
StatementFails(w) ==
    /\ faults < MaxFaults
    /\ \E step \in {"load", "list", "start", "fail", "complete", "snapshots"} : At(w, step)
    /\ Returns(w, FALSE)
    /\ faults' = faults + 1
    /\ UNCHANGED <<outbox, sent, hub, late, databaseVars>>

-----------------------------------------------------------------------------
(* The runner's other steps, and time *)

Others == <<hub, late, databaseVars>>

Process(w) == (OB!Mark(w) \/ OB!MarkLost(w)) /\ UNCHANGED <<Others, local>>

Crash(w) ==
    /\ OB!Crash(w)
    /\ local' = [local EXCEPT ![w] = Resting]
    /\ UNCHANGED Others

Time(e) ==
    /\ \/ OB!BackoffOver(e)
       \/ OB!LeaseOver(e)
       \/ scenario.stalls /\ OB!Stall(e)
    /\ UNCHANGED <<Others, local>>

Unobserved ==
    /\ \/ \E w \in scenario.replicas, e \in Events : OB!ClaimLost(w, e)
       \/ \E s \in sent : OB!LateMark(s)
    /\ UNCHANGED <<Others, local>>

Reconcile(w) ==
    \/ LoadWorkspace(w) \/ ListSnapshots(w)
    \/ StartWorkspace(w) \/ StartConflict(w)
    \/ ApplyWork(w) \/ Poll(w)
    \/ CompleteWorkspace(w) \/ CompleteSnapshots(w)
    \/ FailWorkspace(w) \/ FailAfterDeadline(w)

Mishap(w) == StatementFails(w) \/ ApplyRefused(w) \/ ApplyUnanswered(w) \/ PollFails(w)

Next ==
    \/ \E e \in Events, target \in Targets : SetDesiredState(e, target)
    \/ \E s \in SnapshotEvents : CheckSnapshot(s) \/ CreateSnapshot(s)
    \/ \E w \in scenario.replicas, e \in Events : Begin(w, e)
    \/ \E w \in scenario.replicas : Reconcile(w) \/ Mishap(w) \/ Process(w) \/ Crash(w)
    \/ \E e \in Events : Time(e)
    \/ LateApply
    \/ Agent
    \/ Unobserved

\* Replicas keep polling and finish what they start, time passes, and the
\* work agent keeps acting on the ManifestWork.
Fairness ==
    /\ \A w \in Workers :
         /\ WF_vars(w \in scenario.replicas /\ \E e \in Events : Begin(w, e))
         /\ WF_vars(Reconcile(w))
         /\ WF_vars(OB!Mark(w) /\ UNCHANGED <<Others, local>>)
    /\ \A e \in Events :
         WF_vars((OB!BackoffOver(e) \/ OB!LeaseOver(e)) /\ UNCHANGED <<Others, local>>)
    /\ WF_vars(FL!AgentApplies /\ UNCHANGED <<outboxVars, databaseVars, local>>)

Spec == Init /\ [][Next /\ UNCHANGED scenario]_<<vars, scenario>>

FairSpec == Spec /\ Fairness

-----------------------------------------------------------------------------
(* Properties *)

SingleReplica == \E w \in Workers : scenario.replicas = {w}

\* Only one replica, and every PATCH is over when its caller goes on.
Alone == SingleReplica /\ ~scenario.latePatches

\* No two runners work on one event: that takes a runner that outlives its
\* lease, and another replica.
Exclusive == scenario.stalls => SingleReplica

\* With one replica, a workspace that shows its latest generation as
\* succeeded has a ManifestWork built for its desired state: a change made
\* while Reconcile was applying the previous one is not lost in the write-back.
SucceededIsAccurate ==
    (Alone /\ row.prov = "succeeded" /\ row.obsGen = row.gen)
        => /\ hub.spec.pod = (row.desired = "running")
           /\ hub.spec.volume = (row.desired # "terminated")

\* Nothing is left to do, and nothing was given up.
AllDelivered ==
    /\ \A e \in Events : outbox[e].exists => outbox[e].delivered
    /\ \A w \in Workers : runner[w].pc = "idle"
    /\ late = {}

Wanted == BuildWork(row, {s \in SnapshotEvents : snaps[s] # "absent"})

\* With one replica, when every event was delivered, the ManifestWork is the one
\* the database asks for: the pod of the desired state and every snapshot
\* accepted so far.
WorkConverged == Alone /\ AllDelivered => hub.spec = Wanted

\* docs/control-plane-v2.md: the terminated state cleans up the compute, volume
\* and policy resources, with any number of replicas.
TerminatedIsCleanedUp ==
    AllDelivered /\ row.desired = "terminated" => ~hub.spec.pod /\ ~hub.spec.volume

\* With one replica, the owner's last change reaches the cluster unless an
\* event is dead-lettered on the way.
DesiredReachesCluster ==
    Alone => (<>[](hub.enforced = Wanted)) \/ <>(\E e \in Events : outbox[e].dead)

\* Whatever the replicas do to each other, observed_generation never goes back,
\* however late a reconcile of an older generation completes.
ObservedNeverRegresses == [][row'.obsGen >= row.obsGen]_vars

\* ... and unless another replica takes over from a runner that outlives its
\* lease, when every event was delivered the row shows the latest generation as
\* provisioned, whichever event's reconcile came last.
StatusConverged ==
    Exclusive /\ AllDelivered =>
        /\ row.prov = "succeeded"
        /\ row.obsGen = row.gen
        /\ row.observed = row.desired

\* The snapshot of a delivered event is recorded as succeeded, even when the
\* workspace changed generation under its reconcile.
DeliveredSnapshotRecorded ==
    \A s \in SnapshotEvents : outbox[s].delivered => snaps[s] = "succeeded"

=============================================================================
