--------------------------- MODULE SharedIsolation ---------------------------
(***************************************************************************)
(* Shared-project isolation: the GPU quota of one project travels from the *)
(* project_quotas row through the outbox and the reconciler of             *)
(* internal/sharedisolation into the ManifestWork on the OCM hub, and the  *)
(* result is written back by internal/storage/postgres/shared_isolation.go.*)
(*                                                                         *)
(* Event 0 is project.created; event i is the i-th project.gpu-quota.      *)
(* updated.  Operation i belongs to event i.  Every replica runs one       *)
(* isolation runner and they share the database, so two events of the same *)
(* project may be reconciled at the same time.                             *)
(***************************************************************************)
EXTENDS Integers

CONSTANTS
    Workers, NoWorker, NoEvent, MaxAttempts,
    MaxFaults,    \* bound: crashes, stalls, lost statements and requests
    Updates,      \* bound: GPU quota updates in a behaviour
    Quotas,       \* hard limits an administrator may set
    Scenarios     \* bound: which replicas run, and what they may meet

ASSUME IsolationAssumption ==
    /\ Updates \in Nat
    /\ Quotas \subseteq Nat
    /\ Scenarios \subseteq
         [replicas    : SUBSET Workers,
          updates     : 0..Updates,
          stalls      : BOOLEAN,    \* may a runner outlive its lease?
          latePatches : BOOLEAN]    \* may a PATCH take effect after its caller gave up?

Events == 0..Updates

ASSUME RunnersAssumption ==     \* see Outbox
    /\ NoWorker \notin Workers /\ NoEvent \notin Events
    /\ MaxAttempts \in Nat \ {0} /\ MaxFaults \in Nat

VARIABLES
    outbox, runner, sent, faults, reconciled,   \* see Outbox
    hardLimit,    \* project_quotas.hard_limit for gpu.nvidia.full; 0 without a row
    project,      \* the isolation columns of the projects row
    operations,   \* operations.status and .retryable, by event
    hub, late,    \* see Fleet: the project's ManifestWork, told by its GPU quota
    local,        \* per runner: where Reconcile is and what it loaded
    scenario      \* one of Scenarios, for the whole behaviour

OB == INSTANCE Outbox

NoSpec == -1      \* the ManifestWork does not exist yet

FL == INSTANCE Fleet WITH Specs <- Nat

outboxVars == <<outbox, runner, sent, faults, reconciled>>

vars == <<outboxVars, hardLimit, project, operations, hub, local, late>>

-----------------------------------------------------------------------------
(* Types *)

Project == [target   : BOOLEAN,      \* target_cluster_id and manifest_work_name are set
            observed : {"pending", "active", "unknown"},
            prov     : {"pending", "provisioning", "succeeded", "failed"},
            obsGen   : {0, 1},       \* the project's own generation is always 1
            applied  : Nat]          \* applied_gpu_quota

Operation == [status : {"absent", "queued", "running", "succeeded", "failed"},
              retryable : BOOLEAN]

Steps == {"idle", "load", "quota", "start", "patch", "wait", "fail", "expired", "complete"}

TypeOK ==
    /\ OB!TypeOK
    /\ hardLimit \in Nat
    /\ project \in Project
    /\ operations \in [Events -> Operation]
    /\ FL!TypeOK
    /\ local \in [Workers -> [step : Steps, seen : Project, quota : Nat]]
    /\ scenario \in Scenarios

-----------------------------------------------------------------------------
(* Initial state: the project was just created *)

NewProject == [target |-> FALSE, observed |-> "pending", prov |-> "pending",
               obsGen |-> 0, applied |-> 0]

Queued == [status |-> "queued", retryable |-> TRUE]

NoOperation == [status |-> "absent", retryable |-> FALSE]

Resting == [step |-> "idle", seen |-> NewProject, quota |-> 0]

Init ==
    /\ outbox = [e \in Events |-> IF e = 0 THEN OB!Inserted ELSE OB!NoRow]
    /\ runner = [w \in Workers |-> OB!Idle]
    /\ sent = {}
    /\ faults = 0
    /\ reconciled = {}
    /\ hardLimit = 0
    /\ project = NewProject
    /\ operations = [e \in Events |-> IF e = 0 THEN Queued ELSE NoOperation]
    /\ FL!Init
    /\ local = [w \in Workers |-> Resting]
    /\ scenario \in Scenarios

-----------------------------------------------------------------------------
(* The administrator: PUT /projects/{id}/quotas/gpu.nvidia.full *)

\* SetQuota's transaction: the quota row, the operation and the event.
SetQuota(e, q) ==
    /\ e \in 1..scenario.updates
    /\ operations[e-1].status # "absent"
    /\ OB!Insert(e)
    /\ hardLimit' = q
    /\ operations' = [operations EXCEPT ![e] = Queued]
    /\ UNCHANGED <<runner, sent, faults, reconciled, project, hub, local, late>>

-----------------------------------------------------------------------------
(* Reconcile *)

At(w, step) == runner[w].pc = "reconciling" /\ local[w].step = step

Goto(w, step) == local' = [local EXCEPT ![w].step = step]

Event(w) == runner[w].ev

\* Reconcile returns to process().
Returns(w, ok) ==
    /\ OB!Return(w, ok)
    /\ local' = [local EXCEPT ![w] = Resting]

Begin(w, e) ==
    /\ OB!Claim(w, e)
    /\ Goto(w, "load")
    /\ UNCHANGED <<hardLimit, project, operations, hub, late>>

\* LoadProjectForIsolation: two statements, the project first.
LoadProject(w) ==
    /\ At(w, "load")
    /\ local' = [local EXCEPT ![w].seen = project, ![w].step = "quota"]
    /\ UNCHANGED <<outboxVars, hardLimit, project, operations, hub, late>>

\* Mutant of Ready: the applied quota is not compared.
ReadyAnyQuota(seen, quota) ==
    /\ seen.target
    /\ seen.observed = "active"
    /\ seen.prov = "succeeded"
    /\ seen.obsGen = 1

\* The shortcut of Reconcile: the project already shows this quota as applied.
Ready(seen, quota) ==
    /\ seen.target
    /\ seen.observed = "active"
    /\ seen.prov = "succeeded"
    /\ seen.obsGen = 1
    /\ seen.applied = quota

LoadQuota(w) ==
    /\ At(w, "quota")
    /\ local' = [local EXCEPT ![w] =
         [step |-> IF Ready(@.seen, hardLimit) THEN "complete" ELSE "start",
          seen |-> NewProject, quota |-> hardLimit]]
    /\ UNCHANGED <<outboxVars, hardLimit, project, operations, hub, late>>

\* writeSharedIsolationState: the project and the operation in one
\* transaction, whatever they held before.
WriteState(w, observed, prov, op) ==
    /\ project' = [project EXCEPT !.target = TRUE, !.observed = observed, !.prov = prov]
    /\ operations' = [operations EXCEPT ![Event(w)] = op]

\* Mutant of StartSharedIsolation: the project row is left as it was.
StartOperationOnly(w) ==
    /\ At(w, "start")
    /\ operations' = [operations EXCEPT ![Event(w)] = [status |-> "running", retryable |-> TRUE]]
    /\ Goto(w, "patch")
    /\ UNCHANGED <<outboxVars, hardLimit, project, hub, late>>

StartSharedIsolation(w) ==
    /\ At(w, "start")
    /\ WriteState(w, "pending", "provisioning", [status |-> "running", retryable |-> TRUE])
    /\ Goto(w, "patch")
    /\ UNCHANGED <<outboxVars, hardLimit, hub, late>>

CompleteSharedIsolation(w) ==
    /\ At(w, "complete")
    /\ project' = [target |-> TRUE, observed |-> "active", prov |-> "succeeded",
                   obsGen |-> 1, applied |-> local[w].quota]
    /\ operations' = [operations EXCEPT ![Event(w)] =
                        [status |-> "succeeded", retryable |-> FALSE]]
    /\ Returns(w, TRUE)
    /\ UNCHANGED <<outbox, sent, faults, hardLimit, hub, late>>

FailSharedIsolation(w) ==
    /\ At(w, "fail")
    /\ WriteState(w, "unknown", "failed",
                  [status |-> "failed", retryable |-> ~OB!Terminal(w)])
    /\ Returns(w, FALSE)
    /\ UNCHANGED <<outbox, sent, faults, hardLimit, hub, late>>

\* The reconcile context has ended: FailSharedIsolation begins its
\* transaction with that context, so nothing is written.
FailAfterDeadline(w) ==
    /\ At(w, "expired")
    /\ Returns(w, FALSE)
    /\ UNCHANGED <<outbox, sent, faults, hardLimit, project, operations, hub, late>>

\* A statement of Reconcile fails (database unavailable): it returns the error.
StatementFails(w) ==
    /\ faults < MaxFaults
    /\ \E step \in {"load", "quota", "start", "fail", "complete"} : At(w, step)
    /\ Returns(w, FALSE)
    /\ faults' = faults + 1
    /\ UNCHANGED <<outbox, sent, hardLimit, project, operations, hub, late>>

-----------------------------------------------------------------------------
(* ApplyWork: the PATCH, then polling the ManifestWork's conditions *)

\* BuildWork: the manifests of the project, told apart by the quota they carry.
Work(w) == local[w].quota

Patch(w) ==
    /\ At(w, "patch")
    /\ FL!Accept(Work(w))
    /\ Goto(w, "wait")
    /\ UNCHANGED <<outboxVars, hardLimit, project, operations, late>>

PatchRefused(w) ==
    /\ At(w, "patch")
    /\ Goto(w, "fail")
    /\ UNCHANGED <<outboxVars, hardLimit, project, operations, hub, late>>

\* The client's timeout or the deadline passes while the request is under way.
PatchUnanswered(w) ==
    /\ scenario.latePatches
    /\ faults < MaxFaults
    /\ At(w, "patch")
    /\ FL!Abandon(Work(w))
    /\ \E step \in {"fail", "expired"} : Goto(w, step)
    /\ faults' = faults + 1
    /\ UNCHANGED <<outbox, runner, sent, reconciled, hardLimit, project, operations, hub>>

LatePatch(q) ==
    /\ FL!AcceptLate(q)
    /\ UNCHANGED <<outboxVars, hardLimit, project, operations, local>>

Poll(w) ==
    /\ At(w, "wait")
    /\ Goto(w, FL!Verdict)
    /\ UNCHANGED <<outboxVars, hardLimit, project, operations, hub, late>>

\* A status request fails, or the last one is cut off by the deadline.
PollFails(w) ==
    /\ At(w, "wait")
    /\ \E step \in {"fail", "expired"} : Goto(w, step)
    /\ UNCHANGED <<outboxVars, hardLimit, project, operations, hub, late>>

Agent ==
    /\ FL!AgentApplies \/ FL!AgentDegrades
    /\ UNCHANGED <<outboxVars, hardLimit, project, operations, local>>

-----------------------------------------------------------------------------
(* The runner's other steps, and time *)

Others == <<hardLimit, project, operations, hub, late>>

Process(w) == (OB!Mark(w) \/ OB!MarkLost(w)) /\ UNCHANGED <<Others, local>>

Crash(w) ==
    /\ OB!Crash(w)
    /\ local' = [local EXCEPT ![w] = Resting]
    /\ UNCHANGED Others

Time(e) ==
    /\ \/ OB!BackoffOver(e)
       \/ OB!LeaseOver(e)
       \/ scenario.stalls /\ OB!Stall(e)
    /\ UNCHANGED <<Others, local>>

Unobserved ==
    /\ \/ \E w \in scenario.replicas, e \in Events : OB!ClaimLost(w, e)
       \/ \E s \in sent : OB!LateMark(s)
    /\ UNCHANGED <<Others, local>>

Reconcile(w) ==
    \/ LoadProject(w) \/ LoadQuota(w)
    \/ StartSharedIsolation(w) \/ CompleteSharedIsolation(w)
    \/ FailSharedIsolation(w) \/ FailAfterDeadline(w)
    \/ Patch(w) \/ Poll(w)

Mishap(w) == StatementFails(w) \/ PatchRefused(w) \/ PatchUnanswered(w) \/ PollFails(w)

Next ==
    \/ \E e \in Events, q \in Quotas : SetQuota(e, q)
    \/ \E w \in scenario.replicas, e \in Events : Begin(w, e)
    \/ \E w \in scenario.replicas : Reconcile(w) \/ Mishap(w) \/ Process(w) \/ Crash(w)
    \/ \E e \in Events : Time(e)
    \/ \E q \in late : LatePatch(q)
    \/ Agent
    \/ Unobserved

\* Replicas keep polling and finish what they start, time passes, and the
\* work agent keeps acting on the ManifestWork.
Fairness ==
    /\ \A w \in Workers :
         /\ WF_vars(w \in scenario.replicas /\ \E e \in Events : Begin(w, e))
         /\ WF_vars(Reconcile(w))
         /\ WF_vars(OB!Mark(w) /\ UNCHANGED <<Others, local>>)
    /\ \A e \in Events :
         WF_vars((OB!BackoffOver(e) \/ OB!LeaseOver(e)) /\ UNCHANGED <<Others, local>>)
    /\ WF_vars(FL!AgentApplies /\ UNCHANGED <<outboxVars, hardLimit, project, operations, local>>)

Spec == Init /\ [][Next /\ UNCHANGED scenario]_<<vars, scenario>>

FairSpec == Spec /\ Fairness

-----------------------------------------------------------------------------
(* Properties *)

SingleReplica == \E w \in Workers : scenario.replicas = {w}

\* Only one replica, and every PATCH is over when its caller goes on.
Alone == SingleReplica /\ ~scenario.latePatches

\* No two runners work on one event: that takes a runner that outlives its
\* lease, and another replica.
Exclusive == scenario.stalls => SingleReplica

\* StartSharedIsolation marks the project before the ManifestWork is touched,
\* and Ready compares applied_gpu_quota: with one replica, a project that
\* shows `succeeded' shows the quota the ManifestWork carries.
SucceededIsAccurate ==
    Alone /\ project.prov = "succeeded" => hub.spec = project.applied

\* Nothing is left to do, and nothing was given up.
AllDelivered ==
    /\ \A e \in Events : outbox[e].exists => outbox[e].delivered
    /\ \A w \in Workers : runner[w].pc = "idle"
    /\ late = {}

\* README: "Quota changes reapply the same ManifestWork."  With one replica,
\* when every event was delivered, the ManifestWork and the project show the
\* current limit.
QuotaConverged ==
    Alone /\ AllDelivered => hub.spec = hardLimit /\ project.applied = hardLimit

\* With one replica, an administrator's last quota reaches the cluster unless
\* an event is dead-lettered on the way.
QuotaReachesCluster ==
    Alone => (<>[](hub.enforced = hardLimit)) \/ <>(\E e \in Events : outbox[e].dead)

\* Unless another replica takes over from a runner that outlives its lease, the
\* operation of a delivered event has succeeded, and no replica takes that back.
DeliveredOperationSucceeded ==
    Exclusive =>
        \A e \in Events : outbox[e].delivered => operations[e].status = "succeeded"

\* ... and once an event is settled its operation is final.
SettledOperationIsFinal ==
    [][\A e \in Events : Exclusive /\ OB!Settled(e) => operations'[e] = operations[e]]_vars

\* "waits for `Applied` and `Available` before it marks the Project and
\* Operation succeeded": a project turns succeeded when its quota is enforced.
SucceededMeansEnforced ==
    [][(project.prov # "succeeded" /\ project'.prov = "succeeded")
         => hub.enforced = project'.applied]_vars

\* A terminal failure is recorded: the operation of a dead-lettered event
\* failed, for good.
DeadLetterRecorded ==
    \A e \in Events :
        outbox[e].dead => operations[e] = [status |-> "failed", retryable |-> FALSE]

=============================================================================
