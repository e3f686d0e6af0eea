--------------------------- MODULE WorkspaceProofs ---------------------------
(***************************************************************************)
(* The safety properties of Workspace for any number of replicas, changes, *)
(* snapshots, attempts and faults.  The runners are those of Outbox, so    *)
(* what OutboxProofs proves of them is used as it stands.                  *)
(***************************************************************************)
EXTENDS Workspace, TLAPS

OP == INSTANCE OutboxProofs

-----------------------------------------------------------------------------
(* The runners are those of Outbox *)

Step == Next /\ UNCHANGED scenario

LEMMA ScenarioType ==
    ASSUME scenario \in Scenarios
    PROVE  /\ scenario.replicas \in SUBSET Workers
           /\ scenario.stalls \in BOOLEAN
           /\ scenario.targets \in SUBSET Targets
  BY WorkspaceAssumption

LEMMA EventsType == /\ SnapshotEvents \subseteq Events
                    /\ 0 \in Events /\ 0 \notin SnapshotEvents
                    /\ \A e \in 1..Changes : e \in Events /\ e \notin SnapshotEvents
  BY WorkspaceAssumption DEF Events, SnapshotEvents

\* A step of Reconcile is a step of its runner.
LEMMA RunnerProceeds ==
    ASSUME OP!Inv, NEW w \in Workers, Reconcile(w) \/ Mishap(w)
    PROVE  OP!Proceeds(w)
<1> USE DEF OP!Proceeds, Returns
<1>0. /\ faults \in Nat /\ faults <= MaxFaults
      /\ faults < MaxFaults => faults + 1 <= MaxFaults
  BY RunnersAssumption DEF OP!Inv, OP!TypeOK
<1>1. CASE LoadWorkspace(w) \/ ListSnapshots(w) \/ StartWorkspace(w) \/ ApplyWork(w) \/ Poll(w)
           \/ CompleteWorkspace(w) \/ ApplyRefused(w) \/ PollFails(w)
  <2>1. UNCHANGED outboxVars
    BY <1>1, Zenon DEF LoadWorkspace, ListSnapshots, StartWorkspace, ApplyWork, Poll,
                       CompleteWorkspace, ApplyRefused, PollFails
  <2> QED
    BY <1>0, <2>1, Zenon DEF outboxVars
<1>2. CASE StartConflict(w) \/ CompleteSnapshots(w) \/ FailWorkspace(w) \/ FailAfterDeadline(w)
           \/ StatementFails(w)
  <2>1. (\E ok \in BOOLEAN : OB!Return(w, ok)) /\ UNCHANGED <<outbox, sent>>
    BY <1>2, Zenon DEF StartConflict, CompleteSnapshots, FailWorkspace, FailAfterDeadline,
                       StatementFails
  <2>2. faults' = faults \/ (faults < MaxFaults /\ faults' = faults + 1)
    BY <1>2, Zenon DEF StartConflict, CompleteSnapshots, FailWorkspace, FailAfterDeadline,
                       StatementFails
  <2>3. faults' \in {faults, faults + 1} /\ faults' <= MaxFaults
    BY <1>0, <2>2
  <2>4. \E ok \in BOOLEAN : OP!Return(w, ok)
    BY <2>1, Zenon DEF OB!Return, OP!Return
  <2> QED
    BY <2>1, <2>3, <2>4, Zenon
<1>3. CASE ApplyUnanswered(w)
  <2>1. faults < MaxFaults /\ faults' = faults + 1 /\ UNCHANGED <<outbox, runner, sent, reconciled>>
    BY <1>3, Zenon DEF ApplyUnanswered
  <2>2. faults' \in {faults, faults + 1} /\ faults' <= MaxFaults
    BY <1>0, <2>1
  <2> QED
    BY <2>1, <2>2, Zenon
<1> QED
  BY <1>1, <1>2, <1>3 DEF Reconcile, Mishap

\* The steps that publish nothing.
Unpublished ==
    \/ \E s \in SnapshotEvents : CheckSnapshot(s)
    \/ \E w \in scenario.replicas, e \in Events : Begin(w, e)
    \/ \E w \in scenario.replicas : Reconcile(w) \/ Mishap(w) \/ Process(w) \/ Crash(w)
    \/ \E e \in Events : Time(e)
    \/ LateApply
    \/ Agent
    \/ Unobserved
    \/ UNCHANGED <<vars, scenario>>

\* Every step is a step of the outbox, or leaves it alone.
LEMMA UnpublishedSteps ==
    ASSUME OP!Inv, scenario \in Scenarios, Unpublished,
           NEW R, R = scenario.replicas, NEW stalls, stalls = scenario.stalls
    PROVE  OP!RunsOf(R, stalls) \/ UNCHANGED OP!outboxVars
<1> USE DEF OP!RunsOf
<1>0. R \in SUBSET Workers
  BY ScenarioType
<1>2. ASSUME NEW w \in R, NEW e \in Events, Begin(w, e)
      PROVE  OP!Claim(w, e)
  BY <1>2, Zenon DEF Begin, OB!Claim, OB!Claimable, OB!ClaimedBy,
                     OP!Claim, OP!Claimable, OP!ClaimedBy
<1>3. ASSUME NEW w \in R, Reconcile(w) \/ Mishap(w)
      PROVE  OP!Proceeds(w)
  BY <1>0, <1>3, RunnerProceeds
<1>4. ASSUME NEW w \in R, Process(w) \/ Crash(w)
      PROVE  OP!Mark(w) \/ OP!MarkLost(w) \/ OP!Crash(w)
  BY <1>4, Zenon DEF Process, Crash, OB!Mark, OB!MarkLost, OB!Crash, OB!Execute,
       OB!OwnsClaim, OB!MarkOf, OB!MarkDelivered, OB!MarkFailed, OB!MarkDeadLettered,
       OB!Released, OB!Terminal, OB!Idle,
       OP!Mark, OP!MarkLost, OP!Crash, OP!Execute, OP!OwnsClaim, OP!MarkOf,
       OP!MarkDelivered, OP!MarkFailed, OP!MarkDeadLettered, OP!Released, OP!Terminal, OP!Idle
<1>5. ASSUME NEW e \in Events, Time(e)
      PROVE  OP!BackoffOver(e) \/ OP!LeaseOver(e) \/ (stalls /\ OP!Stall(e))
  BY <1>5, Zenon DEF Time, OB!BackoffOver, OB!BackoffElapses, OB!LeaseOver,
       OB!AbandonedLeaseExpires, OB!Stall, OB!StalledPastLease, OB!LeaseExpires, OB!HoldsClaim,
       OP!BackoffOver, OP!BackoffElapses, OP!LeaseOver, OP!AbandonedLeaseExpires, OP!Stall,
       OP!StalledPastLease, OP!LeaseExpires, OP!HoldsClaim
<1>6. ASSUME Unobserved
      PROVE  \/ \E w \in R, e \in Events : OP!ClaimLost(w, e)
             \/ \E s \in sent : OP!LateMark(s)
  BY <1>6, Zenon DEF Unobserved, OB!ClaimLost, OB!Claimable, OB!ClaimedBy, OB!LateMark,
       OB!Execute, OB!OwnsClaim, OB!MarkDelivered, OB!MarkFailed, OB!MarkDeadLettered,
       OB!Released, OP!ClaimLost, OP!Claimable, OP!ClaimedBy, OP!LateMark, OP!Execute,
       OP!OwnsClaim, OP!MarkDelivered, OP!MarkFailed, OP!MarkDeadLettered, OP!Released
<1>7. ASSUME \/ \E s \in SnapshotEvents : CheckSnapshot(s)
             \/ LateApply \/ Agent \/ UNCHANGED <<vars, scenario>>
      PROVE  UNCHANGED OP!outboxVars
  BY <1>7, Zenon DEF CheckSnapshot, LateApply, Agent, vars, outboxVars, OP!outboxVars
<1> QED
  BY <1>2, <1>3, <1>4, <1>5, <1>6, <1>7 DEF Unpublished

LEMMA Published ==
    ASSUME NEW e, OB!Insert(e), UNCHANGED <<runner, sent, faults, reconciled>>
    PROVE  OP!Publish(e)
  BY Zenon DEF OB!Insert, OB!Inserted, OB!NoRow, OP!Publish, OP!Insert, OP!Inserted, OP!NoRow

\* Next, as the lemmas below take it apart.
LEMMA NextCases ==
    ASSUME Step \/ UNCHANGED <<vars, scenario>>
    PROVE  \/ \E e \in Events, target \in Targets : SetDesiredState(e, target)
           \/ \E s \in SnapshotEvents : CreateSnapshot(s)
           \/ Unpublished
  BY Zenon DEF Step, Next, Unpublished

LEMMA OutboxSteps ==
    ASSUME OP!Inv, scenario \in Scenarios, Step \/ UNCHANGED <<vars, scenario>>,
           NEW R, R = scenario.replicas, NEW stalls, stalls = scenario.stalls
    PROVE  OP!NextOf(R, stalls) \/ UNCHANGED OP!outboxVars
<1> USE DEF OP!NextOf
<1>1. ASSUME NEW e \in Events, NEW target \in Targets, SetDesiredState(e, target)
      PROVE  OP!Publish(e)
  BY <1>1, Published DEF SetDesiredState
<1>2. ASSUME NEW s \in SnapshotEvents, CreateSnapshot(s)
      PROVE  s \in Events /\ OP!Publish(s)
  BY <1>2, Published, EventsType DEF CreateSnapshot
<1> QED
  BY <1>1, <1>2, NextCases, UnpublishedSteps

-----------------------------------------------------------------------------
(* Types *)

LocalTyped == local \in [Workers -> [step : Steps, seen : Workspace, snaps : SUBSET SnapshotEvents]]

OwnTypes ==
    /\ FL!TypeOK
    /\ row \in Workspace
    /\ snaps \in [SnapshotEvents -> {"absent", "pending", "succeeded"}]
    /\ checked \subseteq SnapshotEvents
    /\ LocalTyped
    /\ scenario \in Scenarios

LEMMA TypesOfAll == TypeOK <=> OP!TypeOK /\ OwnTypes
  BY Zenon DEF TypeOK, OwnTypes, LocalTyped, OB!TypeOK, OB!Row, OB!Local, OB!Statement,
               OP!TypeOK, OP!Row, OP!Local, OP!Statement

LEMMA GotoType ==
    ASSUME LocalTyped, NEW w \in Workers, NEW step \in Steps, Goto(w, step)
    PROVE  LocalTyped'
<1>1. [local[w] EXCEPT !.step = step] \in [step : Steps, seen : Workspace, snaps : SUBSET SnapshotEvents]
  BY DEF LocalTyped
<1> QED
  BY <1>1 DEF LocalTyped, Goto

LEMMA RestingType == Resting \in [step : Steps, seen : Workspace, snaps : SUBSET SnapshotEvents]
  BY DEF Resting, NewWorkspace, Workspace, Steps, DesiredStates

LEMMA ReturnsType ==
    ASSUME LocalTyped, NEW w \in Workers, local' = [local EXCEPT ![w] = Resting]
    PROVE  LocalTyped'
  BY RestingType DEF LocalTyped

\* The rows the owner and the reconciler write, column by column.
LEMMA DesiredChange ==
    ASSUME row \in Workspace, NEW e, NEW target \in DesiredStates, SetDesiredState(e, target)
    PROVE  /\ row' \in Workspace
           /\ row'.desired = target /\ row'.gen = row.gen + 1
           /\ row'.observed = row.observed /\ row'.prov = row.prov
           /\ row'.obsGen = row.obsGen
<1>1. PICK n \in Nat \ {0} : n = row.gen + 1
  BY DEF Workspace
<1>2. row' = [row EXCEPT !.desired = target, !.gen = n]
  BY <1>1, Zenon DEF SetDesiredState
<1> QED
  BY <1>1, <1>2 DEF Workspace

LEMMA StartedRow ==
    ASSUME NEW r \in Workspace
    PROVE  LET q == [r EXCEPT !.prov = "provisioning", !.observed = "unknown"] IN
           /\ q \in Workspace
           /\ q.desired = r.desired /\ q.gen = r.gen /\ q.obsGen = r.obsGen
           /\ q.prov = "provisioning"
  BY DEF Workspace

LEMMA FailedRow ==
    ASSUME NEW r \in Workspace, NEW prov \in {"failed", "provisioning"}
    PROVE  LET q == [r EXCEPT !.prov = prov] IN
           /\ q \in Workspace
           /\ q.desired = r.desired /\ q.gen = r.gen /\ q.obsGen = r.obsGen
           /\ q.prov = prov
  BY DEF Workspace

LEMMA CompletedRow ==
    ASSUME row \in Workspace
    PROVE  /\ Completed \in Workspace
           /\ Completed.desired = row.desired /\ Completed.gen = row.gen
           /\ Completed.obsGen = row.gen /\ Completed.prov = "succeeded"
           /\ Completed.observed = row.desired
  BY DEF Workspace, Completed

LEMMA WorkType ==
    ASSUME NEW r, NEW ss \in SUBSET SnapshotEvents
    PROVE  /\ BuildWork(r, ss) \in Manifests
           /\ BuildWork(r, ss).volume = (r.desired # "terminated")
           /\ BuildWork(r, ss).pod = (r.desired = "running")
           /\ r.desired # "terminated" => BuildWork(r, ss).snaps = ss
<1> DEFINE kept == IF r.desired = "terminated" THEN {} ELSE ss
<1>1. \A v, p \in BOOLEAN : [volume |-> v, pod |-> p, snaps |-> kept] \in Manifests
  BY DEF Manifests
<1>2. BuildWork(r, ss) =
        [volume |-> r.desired # "terminated", pod |-> r.desired = "running", snaps |-> kept]
  BY DEF BuildWork
<1>3. (r.desired # "terminated") \in BOOLEAN /\ (r.desired = "running") \in BOOLEAN
  OBVIOUS
<1>4. BuildWork(r, ss) \in Manifests
  BY <1>1, <1>2, <1>3, Zenon
<1> QED
  BY <1>4 DEF BuildWork

LEMMA OwnTypesStep ==
    ASSUME OwnTypes, Step \/ UNCHANGED <<vars, scenario>>
    PROVE  OwnTypes'
<1> USE DEF OwnTypes
<1>0. scenario' = scenario /\ \A w \in scenario.replicas : w \in Workers
  BY ScenarioType DEF Step
<1>1. ASSUME NEW e \in Events, NEW target \in Targets, SetDesiredState(e, target)
      PROVE  OwnTypes'
  <2>1. target \in DesiredStates
    BY WorkspaceAssumption
  <2>2. row' \in Workspace
    BY <1>1, <2>1, DesiredChange
  <2> QED
    BY <1>0, <1>1, <2>2 DEF SetDesiredState, FL!TypeOK, LocalTyped
<1>2. ASSUME NEW s \in SnapshotEvents, CheckSnapshot(s) \/ CreateSnapshot(s)
      PROVE  OwnTypes'
  BY <1>0, <1>2 DEF CheckSnapshot, CreateSnapshot, FL!TypeOK, LocalTyped
<1>3. ASSUME NEW w \in Workers, NEW e \in Events, Begin(w, e)
      PROVE  OwnTypes'
  BY <1>0, <1>3, GotoType DEF Begin, Steps, databaseVars, FL!TypeOK
<1>4. ASSUME NEW w \in Workers, LoadWorkspace(w)
      PROVE  OwnTypes'
  <2>1. local' = [local EXCEPT ![w] = [local[w] EXCEPT !.seen = row, !.step = "list"]]
    BY <1>4 DEF LoadWorkspace, LocalTyped
  <2>2. [local[w] EXCEPT !.seen = row, !.step = "list"]
          \in [step : Steps, seen : Workspace, snaps : SUBSET SnapshotEvents]
    BY DEF LocalTyped, Steps
  <2>3. LocalTyped'
    BY <2>1, <2>2 DEF LocalTyped
  <2> QED
    BY <1>0, <1>4, <2>3 DEF LoadWorkspace, databaseVars, FL!TypeOK
<1>5. ASSUME NEW w \in Workers, ListSnapshots(w)
      PROVE  OwnTypes'
  <2> DEFINE L == {s \in SnapshotEvents : snaps[s] # "absent"}
  <2>1. PICK next \in {"complete", "start"} :
          local' = [local EXCEPT ![w] = [local[w] EXCEPT !.snaps = L, !.step = next]]
    BY <1>5 DEF ListSnapshots, LocalTyped
  <2>2. L \in SUBSET SnapshotEvents
    OBVIOUS
  <2> HIDE DEF L
  <2>3. [local[w] EXCEPT !.snaps = L, !.step = next]
          \in [step : Steps, seen : Workspace, snaps : SUBSET SnapshotEvents]
    BY <2>2 DEF LocalTyped, Steps
  <2>4. LocalTyped'
    BY <2>1, <2>3 DEF LocalTyped
  <2> QED
    BY <1>0, <1>5, <2>4 DEF ListSnapshots, databaseVars, FL!TypeOK
<1>6. ASSUME NEW w \in Workers, StartWorkspace(w)
      PROVE  OwnTypes'
  <2>1. row' \in Workspace
    BY <1>6, StartedRow DEF StartWorkspace
  <2> QED
    BY <1>0, <1>6, <2>1, GotoType DEF StartWorkspace, Steps, FL!TypeOK
<1>7. ASSUME NEW w \in Workers, CompleteWorkspace(w)
      PROVE  OwnTypes'
  <2>1. row' \in Workspace
    BY <1>7, CompletedRow DEF CompleteWorkspace
  <2> QED
    BY <1>0, <1>7, <2>1, GotoType DEF CompleteWorkspace, Steps, FL!TypeOK
<1>8. ASSUME NEW w \in Workers, CompleteSnapshots(w)
      PROVE  OwnTypes'
  <2>1. snaps' \in [SnapshotEvents -> {"absent", "pending", "succeeded"}]
    BY <1>8 DEF CompleteSnapshots
  <2> QED
    BY <1>0, <1>8, <2>1, ReturnsType DEF CompleteSnapshots, Returns, FL!TypeOK
<1>9. ASSUME NEW w \in Workers, FailWorkspace(w)
      PROVE  OwnTypes'
  <2>1. row' \in Workspace
    BY <1>9, FailedRow DEF FailWorkspace
  <2> QED
    BY <1>0, <1>9, <2>1, ReturnsType DEF FailWorkspace, Returns, FL!TypeOK
<1>10. ASSUME NEW w \in Workers,
              StartConflict(w) \/ FailAfterDeadline(w) \/ StatementFails(w) \/ Crash(w)
       PROVE  OwnTypes'
  BY <1>0, <1>10, ReturnsType
     DEF StartConflict, FailAfterDeadline, StatementFails, Crash, Returns, Others,
         databaseVars, FL!TypeOK
<1>11. ASSUME NEW w \in Workers, ApplyWork(w)
       PROVE  OwnTypes'
  <2>1. Work(w) \in Manifests
    BY WorkType DEF Work, LocalTyped
  <2>2. FL!TypeOK'
    BY <1>11, <2>1 DEF ApplyWork, FL!TypeOK, FL!Accept
  <2> QED
    BY <1>0, <1>11, <2>2, GotoType DEF ApplyWork, Steps, databaseVars
<1>12. ASSUME NEW w \in Workers, ApplyRefused(w) \/ PollFails(w) \/ Poll(w)
       PROVE  OwnTypes'
  <2>1. PICK step \in Steps : Goto(w, step)
    BY <1>12 DEF ApplyRefused, PollFails, Poll, FL!Verdict, FL!TypeOK, Steps
  <2> QED
    BY <1>0, <1>12, <2>1, GotoType DEF ApplyRefused, PollFails, Poll, databaseVars, FL!TypeOK
<1>13. ASSUME NEW w \in Workers, ApplyUnanswered(w)
       PROVE  OwnTypes'
  <2>1. PICK step \in Steps : Goto(w, step)
    BY <1>13 DEF ApplyUnanswered, Steps
  <2>2. Work(w) \in Manifests
    BY WorkType DEF Work, LocalTyped
  <2>3. FL!TypeOK'
    BY <1>13, <2>2 DEF ApplyUnanswered, FL!TypeOK, FL!Abandon
  <2> QED
    BY <1>0, <1>13, <2>1, <2>3, GotoType DEF ApplyUnanswered, databaseVars
<1>14. CASE LateApply
  BY <1>0, <1>14 DEF LateApply, databaseVars, FL!TypeOK, FL!AcceptLate, FL!Accept, LocalTyped
<1>15. CASE Agent
  BY <1>0, <1>15 DEF Agent, databaseVars, FL!TypeOK, FL!AgentApplies, FL!AgentDegrades, LocalTyped
<1>16. ASSUME (\E w \in Workers : Process(w)) \/ (\E e \in Events : Time(e)) \/ Unobserved
       PROVE  OwnTypes'
  BY <1>0, <1>16 DEF Process, Time, Unobserved, Others, databaseVars, FL!TypeOK, LocalTyped
<1>17. CASE UNCHANGED <<vars, scenario>>
  BY <1>17 DEF vars, databaseVars, FL!TypeOK, LocalTyped
<1> QED
  BY <1>0, <1>1, <1>2, <1>3, <1>4, <1>5, <1>6, <1>7, <1>8, <1>9, <1>10, <1>11, <1>12,
     <1>13, <1>14, <1>15, <1>16, <1>17 DEF Step, Next, Reconcile, Mishap

-----------------------------------------------------------------------------
(* Any runners: generations and snapshots *)

\* Generations only grow, and one generation has one desired state.
Generations ==
    /\ row.obsGen <= row.gen
    /\ row.gen = 1 => row.desired = "running"
    /\ \A w \in Workers :
         /\ local[w].seen.gen <= row.gen
         /\ local[w].seen.gen = row.gen => local[w].seen.desired = row.desired

\* A published snapshot is in the table, a listed one was, and a reconcile that
\* succeeded left the snapshot of its event as succeeded.
SnapshotsKnown ==
    /\ \A s \in SnapshotEvents : outbox[s].exists => snaps[s] # "absent"
    /\ \A w \in Workers : \A s \in local[w].snaps : snaps[s] # "absent"
    /\ \A s \in SnapshotEvents, g \in Nat : <<s, g>> \in reconciled => snaps[s] = "succeeded"

LEMMA OutboxInvStep ==
    ASSUME OP!Inv, OwnTypes, Step \/ UNCHANGED <<vars, scenario>>
    PROVE  OP!Inv'
<1>1. PICK R, stalls : R = scenario.replicas /\ stalls = scenario.stalls
  OBVIOUS
<1>2. R \in SUBSET Workers
  BY <1>1, ScenarioType DEF OwnTypes
<1>3. OP!NextOf(R, stalls) \/ UNCHANGED OP!outboxVars
  BY <1>1, OutboxSteps DEF OwnTypes
<1> QED
  BY <1>2, <1>3, OP!NextOfInv, RunnersAssumption

\* Who writes the row: nobody else leaves a trace in it.
LEMMA RowWrites ==
    ASSUME OwnTypes, Step \/ UNCHANGED <<vars, scenario>>
    PROVE  \/ row' = row
           \/ \E e \in Events, target \in Targets : SetDesiredState(e, target)
           \/ \E w \in scenario.replicas :
                \/ StartWorkspace(w)
                \/ CompleteWorkspace(w) /\ Current(w) /\ row' = Completed
                \/ FailWorkspace(w) /\ Current(w)
<1> USE DEF databaseVars
<1>1. ASSUME NEW s \in SnapshotEvents, CheckSnapshot(s) \/ CreateSnapshot(s)
      PROVE  row' = row
  BY <1>1, Zenon DEF CheckSnapshot, CreateSnapshot
<1>2. ASSUME NEW w \in scenario.replicas, Reconcile(w)
      PROVE  \/ row' = row
             \/ StartWorkspace(w)
             \/ CompleteWorkspace(w) /\ Current(w) /\ row' = Completed
             \/ FailWorkspace(w) /\ Current(w)
  <2>1. CASE CompleteWorkspace(w)
    BY <2>1 DEF CompleteWorkspace
  <2>2. CASE FailWorkspace(w)
    BY <2>2 DEF FailWorkspace
  <2>3. CASE \/ LoadWorkspace(w) \/ ListSnapshots(w) \/ StartConflict(w) \/ ApplyWork(w)
             \/ Poll(w) \/ CompleteSnapshots(w) \/ FailAfterDeadline(w)
    BY <2>3, Zenon DEF LoadWorkspace, ListSnapshots, StartConflict, ApplyWork, Poll,
                       CompleteSnapshots, FailAfterDeadline
  <2> QED
    BY <1>2, <2>1, <2>2, <2>3 DEF Reconcile
<1>3. ASSUME NEW w \in scenario.replicas,
             Mishap(w) \/ Process(w) \/ Crash(w) \/ \E e \in Events : Begin(w, e)
      PROVE  row' = row
  BY <1>3, Zenon DEF Mishap, StatementFails, ApplyRefused, ApplyUnanswered, PollFails, Process,
                     Crash, Begin, Others
<1>4. ASSUME \/ \E e \in Events : Time(e)
             \/ LateApply \/ Agent \/ Unobserved \/ UNCHANGED <<vars, scenario>>
      PROVE  row' = row
  BY <1>4, Zenon DEF Time, LateApply, Agent, Unobserved, Others, vars
<1> QED
  BY <1>1, <1>2, <1>3, <1>4 DEF Step, Next

\* What a write does to the columns the invariants speak of.
LEMMA RowColumns ==
    ASSUME OwnTypes, Step \/ UNCHANGED <<vars, scenario>>
    PROVE  \/ /\ row'.gen = row.gen + 1 /\ row'.obsGen = row.obsGen
              /\ \E e \in Events, target \in Targets : SetDesiredState(e, target)
           \/ /\ row'.gen = row.gen /\ row'.desired = row.desired
              /\ row'.obsGen \in {row.obsGen, row.gen}
<1> USE DEF OwnTypes
<1>1. ASSUME NEW e \in Events, NEW target \in Targets, SetDesiredState(e, target)
      PROVE  row'.gen = row.gen + 1 /\ row'.obsGen = row.obsGen
  <2>1. target \in DesiredStates
    BY WorkspaceAssumption
  <2> QED
    BY <1>1, <2>1, DesiredChange
<1>2. ASSUME NEW w, StartWorkspace(w) \/ FailWorkspace(w)
      PROVE  row'.gen = row.gen /\ row'.desired = row.desired /\ row'.obsGen = row.obsGen
  <2>1. CASE StartWorkspace(w)
    BY <2>1, StartedRow DEF StartWorkspace
  <2>2. CASE FailWorkspace(w)
    <3>1. \/ row' = row
          \/ \E prov \in {"failed", "provisioning"} : row' = [row EXCEPT !.prov = prov]
      BY <2>2 DEF FailWorkspace
    <3>2. ASSUME NEW prov \in {"failed", "provisioning"}, row' = [row EXCEPT !.prov = prov]
          PROVE  row'.gen = row.gen /\ row'.desired = row.desired /\ row'.obsGen = row.obsGen
      BY <3>2, FailedRow
    <3> QED
      BY <3>1, <3>2
  <2> QED
    BY <1>2, <2>1, <2>2
<1>3. ASSUME row' = Completed
      PROVE  row'.gen = row.gen /\ row'.desired = row.desired /\ row'.obsGen = row.gen
  BY <1>3, CompletedRow
<1> QED
  BY <1>1, <1>2, <1>3, RowWrites

\* What a runner remembers is the row it loaded.
LEMMA SeenWrites ==
    ASSUME OwnTypes, Step \/ UNCHANGED <<vars, scenario>>, NEW w \in Workers
    PROVE  /\ \/ local'[w].seen = local[w].seen
              \/ local'[w].seen = row /\ row' = row
              \/ local'[w] = Resting
           /\ \/ local'[w].snaps = local[w].snaps
              \/ local'[w].snaps = {} /\ local'[w] = Resting
              \/ /\ local'[w].snaps = {s \in SnapshotEvents : snaps[s] # "absent"}
                 /\ snaps' = snaps
<1> USE DEF OwnTypes, LocalTyped
<1> DEFINE Same == local'[w].seen = local[w].seen /\ local'[w].snaps = local[w].snaps
<1>0. \A v \in scenario.replicas : v \in Workers
  BY ScenarioType
<1>1. ASSUME local' = local
      PROVE  Same
  BY <1>1
<1>2. ASSUME NEW v \in Workers, NEW step, Goto(v, step)
      PROVE  Same
  BY <1>2 DEF Goto
<1>3. ASSUME NEW v \in Workers, local' = [local EXCEPT ![v] = Resting]
      PROVE  Same \/ (local'[w] = Resting /\ local'[w].snaps = {})
  BY <1>3 DEF Resting
<1>4. ASSUME NEW v \in Workers, LoadWorkspace(v)
      PROVE  /\ local'[w].seen = local[w].seen \/ (local'[w].seen = row /\ row' = row)
             /\ local'[w].snaps = local[w].snaps
  BY <1>4 DEF LoadWorkspace, databaseVars
<1>5. ASSUME NEW v \in Workers, ListSnapshots(v)
      PROVE  /\ local'[w].seen = local[w].seen
             /\ \/ local'[w].snaps = local[w].snaps
                \/ /\ local'[w].snaps = {s \in SnapshotEvents : snaps[s] # "absent"}
                   /\ snaps' = snaps
  BY <1>5 DEF ListSnapshots, databaseVars
<1>6. ASSUME NEW v \in Workers,
             \/ StartWorkspace(v) \/ ApplyWork(v) \/ Poll(v) \/ CompleteWorkspace(v)
             \/ ApplyRefused(v) \/ ApplyUnanswered(v) \/ PollFails(v)
             \/ \E e \in Events : Begin(v, e)
      PROVE  \E step : Goto(v, step)
  BY <1>6, Zenon DEF StartWorkspace, ApplyWork, Poll, CompleteWorkspace, ApplyRefused,
                     ApplyUnanswered, PollFails, Begin
<1>7. ASSUME NEW v \in Workers,
             \/ StartConflict(v) \/ CompleteSnapshots(v) \/ FailWorkspace(v)
             \/ FailAfterDeadline(v) \/ StatementFails(v) \/ Crash(v)
      PROVE  local' = [local EXCEPT ![v] = Resting]
  BY <1>7, Zenon DEF StartConflict, CompleteSnapshots, FailWorkspace, FailAfterDeadline,
                     StatementFails, Crash, Returns
<1>8. ASSUME \/ \E e \in Events, target \in Targets : SetDesiredState(e, target)
             \/ \E s \in SnapshotEvents : CheckSnapshot(s) \/ CreateSnapshot(s)
             \/ \E v \in Workers : Process(v)
             \/ \E e \in Events : Time(e)
             \/ LateApply \/ Agent \/ Unobserved \/ UNCHANGED <<vars, scenario>>
      PROVE  local' = local
  BY <1>8, Zenon DEF SetDesiredState, CheckSnapshot, CreateSnapshot, Process, Time, LateApply,
                     Agent, Unobserved, vars
<1> HIDE DEF OwnTypes, LocalTyped
<1> QED
  BY <1>0, <1>1, <1>2, <1>3, <1>4, <1>5, <1>6, <1>7, <1>8 DEF Step, Next, Reconcile, Mishap

LEMMA GenerationsStep ==
    ASSUME OwnTypes, Generations, Step \/ UNCHANGED <<vars, scenario>>
    PROVE  Generations'
<1>1. /\ row.gen \in Nat \ {0} /\ row.obsGen \in Nat
      /\ \A w \in Workers : local[w].seen.gen \in Nat
  BY DEF OwnTypes, LocalTyped, Workspace
<1>2. /\ row'.gen \in Nat /\ row'.gen >= row.gen
      /\ row'.gen = row.gen => row'.desired = row.desired
      /\ row'.obsGen <= row'.gen
      /\ row'.gen = 1 => row'.gen = row.gen
  BY <1>1, RowColumns DEF Generations
<1>3. ASSUME NEW w \in Workers
      PROVE  /\ local'[w].seen.gen <= row'.gen
             /\ local'[w].seen.gen = row'.gen => local'[w].seen.desired = row'.desired
  <2>1. CASE local'[w].seen = local[w].seen
    <3>1. /\ local[w].seen.gen \in Nat /\ local[w].seen.gen <= row.gen
          /\ local[w].seen.gen = row.gen => local[w].seen.desired = row.desired
      BY <1>1 DEF Generations
    <3> QED
      BY <1>1, <1>2, <2>1, <3>1
  <2>2. CASE local'[w].seen = row /\ row' = row
    BY <1>1, <2>2
  <2>3. CASE local'[w] = Resting
    <3>1. local'[w].seen.gen = 1 /\ local'[w].seen.desired = "running"
      BY <2>3 DEF Resting, NewWorkspace
    <3>2. row.gen = 1 => row.desired = "running"
      BY DEF Generations
    <3> QED
      BY <1>1, <1>2, <3>1, <3>2
  <2> QED
    BY <2>1, <2>2, <2>3, SeenWrites
<1> QED
  BY <1>2, <1>3 DEF Generations

\* A claim's success is recorded by the last statement of CompleteWorkspace.
LEMMA ReconciledWrites ==
    ASSUME OP!Inv, OwnTypes, Step \/ UNCHANGED <<vars, scenario>>
    PROVE  \/ UNCHANGED <<reconciled, snaps>>
           \/ reconciled' = reconciled /\ \E s \in SnapshotEvents : CreateSnapshot(s)
           \/ \E w \in scenario.replicas :
                /\ CompleteSnapshots(w) /\ outbox' = outbox
                /\ runner[w].pc = "reconciling" /\ runner'[w].pc = "marking"
                /\ runner[w].ev \in Events
                /\ reconciled' = reconciled \cup {<<runner[w].ev, runner[w].gen>>}
<1>1. ASSUME NEW w \in scenario.replicas, CompleteSnapshots(w)
      PROVE  /\ outbox' = outbox
             /\ runner[w].pc = "reconciling" /\ runner'[w].pc = "marking"
             /\ runner[w].ev \in Events
             /\ reconciled' = reconciled \cup {<<runner[w].ev, runner[w].gen>>}
  <2>1. w \in Workers
    BY ScenarioType DEF OwnTypes
  <2>2. /\ outbox' = outbox /\ runner[w].pc = "reconciling"
        /\ runner' = [runner EXCEPT ![w].pc = "marking", ![w].ok = TRUE]
        /\ reconciled' = reconciled \cup {<<runner[w].ev, runner[w].gen>>}
    BY <1>1 DEF CompleteSnapshots, Returns, OB!Return
  <2> QED
    BY <2>1, <2>2 DEF OP!Inv, OP!TypeOK, OP!Local, OP!ClaimsCounted
<1>2. ASSUME NEW w \in scenario.replicas,
             \/ StartConflict(w) \/ FailWorkspace(w) \/ FailAfterDeadline(w) \/ StatementFails(w)
      PROVE  UNCHANGED <<reconciled, snaps>>
  BY <1>2 DEF StartConflict, FailWorkspace, FailAfterDeadline, StatementFails, Returns,
              OB!Return, databaseVars
<1>3. ASSUME NEW w \in scenario.replicas,
             \/ LoadWorkspace(w) \/ ListSnapshots(w) \/ StartWorkspace(w) \/ ApplyWork(w)
             \/ Poll(w) \/ CompleteWorkspace(w) \/ ApplyRefused(w) \/ PollFails(w)
             \/ ApplyUnanswered(w)
      PROVE  UNCHANGED <<reconciled, snaps>>
  BY <1>3, Zenon DEF LoadWorkspace, ListSnapshots, StartWorkspace, ApplyWork, Poll,
              CompleteWorkspace, ApplyRefused, PollFails, ApplyUnanswered, outboxVars, databaseVars
<1>4. ASSUME NEW w \in scenario.replicas, (\E e \in Events : Begin(w, e)) \/ Process(w) \/ Crash(w)
      PROVE  UNCHANGED <<reconciled, snaps>>
  BY <1>4, Zenon DEF Begin, OB!Claim, Process, OB!Mark, OB!MarkLost, Crash, OB!Crash, Others,
              databaseVars
<1>5. ASSUME \/ \E e \in Events, target \in Targets : SetDesiredState(e, target)
             \/ \E s \in SnapshotEvents : CheckSnapshot(s)
             \/ \E e \in Events : Time(e)
             \/ LateApply \/ Agent \/ Unobserved \/ UNCHANGED <<vars, scenario>>
      PROVE  UNCHANGED <<reconciled, snaps>>
  BY <1>5, Zenon DEF SetDesiredState, CheckSnapshot, Time, OB!BackoffOver, OB!LeaseOver, OB!Stall,
              LateApply, Agent, Unobserved, OB!ClaimLost, OB!LateMark, Others, vars, outboxVars,
              databaseVars
<1>6. ASSUME NEW s \in SnapshotEvents, CreateSnapshot(s)
      PROVE  reconciled' = reconciled
  BY <1>6 DEF CreateSnapshot
<1> QED
  BY <1>1, <1>2, <1>3, <1>4, <1>5, <1>6 DEF Step, Next, Reconcile, Mishap

\* Only CreateSnapshot publishes the event of a snapshot.
LEMMA SnapshotPublished ==
    ASSUME OP!Inv, OwnTypes, Step \/ UNCHANGED <<vars, scenario>>, NEW s \in SnapshotEvents
    PROVE  outbox'[s].exists => outbox[s].exists \/ CreateSnapshot(s)
<1>1. PICK R, stalls : R = scenario.replicas /\ stalls = scenario.stalls
  OBVIOUS
<1>2. R \in SUBSET Workers /\ s \in Events
  BY <1>1, ScenarioType, EventsType DEF OwnTypes
<1>3. CASE Unpublished
  <2>1. OP!RunsOf(R, stalls) \/ UNCHANGED OP!outboxVars
    BY <1>1, <1>3, UnpublishedSteps DEF OwnTypes
  <2> QED
    BY <1>2, <2>1, OP!ExistsKept, RunnersAssumption
<1>4. ASSUME NEW e \in Events, NEW target \in Targets, SetDesiredState(e, target)
      PROVE  outbox'[s] = outbox[s]
  <2>1. e # s
    BY <1>4, EventsType DEF SetDesiredState
  <2> QED
    BY <1>2, <1>4, <2>1 DEF SetDesiredState, OB!Insert, OP!Inv, OP!TypeOK
<1>5. ASSUME NEW x \in SnapshotEvents, CreateSnapshot(x), x # s
      PROVE  outbox'[s] = outbox[s]
  BY <1>2, <1>5 DEF CreateSnapshot, OB!Insert, OP!Inv, OP!TypeOK
<1> QED
  BY <1>3, <1>4, <1>5, NextCases

LEMMA SnapshotsKnownStep ==
    ASSUME OP!Inv, OwnTypes, SnapshotsKnown, Step \/ UNCHANGED <<vars, scenario>>
    PROVE  SnapshotsKnown'
<1>1. ASSUME NEW s \in SnapshotEvents, CreateSnapshot(s)
      PROVE  /\ ~outbox[s].exists /\ snaps' = [snaps EXCEPT ![s] = "pending"]
             /\ \A g \in Nat : <<s, g>> \notin reconciled
  <2>1. ~outbox[s].exists /\ s \in Events /\ snaps' = [snaps EXCEPT ![s] = "pending"]
    BY <1>1, EventsType DEF CreateSnapshot, OB!Insert
  <2>2. outbox[s].attempts = 0
    BY <2>1 DEF OP!Inv, OP!RowsConsistent
  <2> QED
    BY <2>1, <2>2 DEF OP!Inv, OP!ClaimsCounted
<1>2. ASSUME NEW w, CompleteSnapshots(w), NEW s \in SnapshotEvents
      PROVE  snaps'[s] = IF snaps[s] = "pending" THEN "succeeded" ELSE snaps[s]
  BY <1>2 DEF CompleteSnapshots
<1>3. \A s \in SnapshotEvents : snaps[s] # "absent" => snaps'[s] # "absent"
  BY <1>1, <1>2, ReconciledWrites DEF OwnTypes
<1>4. ASSUME NEW s \in SnapshotEvents, outbox'[s].exists
      PROVE  snaps'[s] # "absent"
  BY <1>1, <1>3, <1>4, SnapshotPublished DEF SnapshotsKnown, OwnTypes
<1>5. ASSUME NEW w \in Workers, NEW s \in local'[w].snaps
      PROVE  snaps'[s] # "absent"
  BY <1>3, <1>5, SeenWrites DEF SnapshotsKnown, OwnTypes, LocalTyped
<1>6. ASSUME NEW s \in SnapshotEvents, NEW g \in Nat, <<s, g>> \in reconciled'
      PROVE  snaps'[s] = "succeeded"
  <2>1. CASE <<s, g>> \in reconciled
    BY <1>1, <1>2, <2>1, ReconciledWrites DEF SnapshotsKnown, OwnTypes
  <2>2. CASE <<s, g>> \notin reconciled
    <3>1. PICK w \in scenario.replicas :
            /\ CompleteSnapshots(w) /\ runner[w].ev = s /\ runner[w].pc = "reconciling"
      BY <1>6, <2>2, ReconciledWrites
    <3>2. w \in Workers /\ s \in Events
      BY ScenarioType, EventsType DEF OwnTypes
    <3>3. runner[w].gen >= 1 /\ runner[w].gen <= outbox[s].attempts
      BY <3>1, <3>2 DEF OP!Inv, OP!ClaimsCounted
    <3>4. runner[w].gen \in Nat /\ outbox[s].attempts \in Nat
      BY <3>2 DEF OP!Inv, OP!TypeOK, OP!Local, OP!Row
    <3>5. ~outbox[s].exists => outbox[s].attempts = 0
      BY <3>2 DEF OP!Inv, OP!RowsConsistent
    <3>6. outbox[s].exists
      BY <3>3, <3>4, <3>5
    <3> QED
      BY <1>2, <3>1, <3>6 DEF SnapshotsKnown, OwnTypes
  <2> QED
    BY <2>1, <2>2
<1> QED
  BY <1>4, <1>5, <1>6 DEF SnapshotsKnown

-----------------------------------------------------------------------------
(* Exclusive runners: the status is owed a write *)

ClaimsHeld == Exclusive => OP!Held(scenario.replicas, scenario.stalls)

\* No claim of e was tried yet; its latest claim has not succeeded.
Fresh(e) == outbox[e].exists /\ outbox[e].attempts = 0

Owed(e) == outbox[e].exists /\ <<e, outbox[e].attempts>> \notin reconciled

\* The reconcile of runner w may still write the status of this generation.
OnTrack(w) == At(w, "load") \/ (Current(w) /\ ~At(w, "snapshots"))

\* Event e is to be reconciled, by a claim that is on track or still to come.
WillProvision(e) ==
    /\ Owed(e)
    /\ \A w \in Workers : runner[w].pc = "reconciling" /\ runner[w].ev = e => OnTrack(w)

Provisioned ==
    row.prov = "succeeded" /\ row.obsGen = row.gen /\ row.observed = row.desired

StatusOwed == Exclusive => Provisioned \/ \E e \in Events : WillProvision(e)

LEMMA ClaimsHeldStep ==
    ASSUME OP!Inv, OwnTypes, ClaimsHeld, Step \/ UNCHANGED <<vars, scenario>>
    PROVE  ClaimsHeld'
<1> SUFFICES ASSUME Exclusive
             PROVE  OP!Held(scenario.replicas, scenario.stalls)'
  BY DEF ClaimsHeld, Step, Exclusive, SingleReplica
<1>1. PICK R, stalls : R = scenario.replicas /\ stalls = scenario.stalls
  OBVIOUS
<1>2. /\ R \in SUBSET Workers /\ stalls \in BOOLEAN
      /\ stalls => \E w \in Workers : R = {w}
  BY <1>1, ScenarioType DEF OwnTypes, Exclusive, SingleReplica
<1>3. OP!NextOf(R, stalls) \/ UNCHANGED OP!outboxVars
  BY <1>1, OutboxSteps DEF OwnTypes
<1>4. OP!Held(R, stalls)
  BY <1>1 DEF ClaimsHeld
<1>5. OP!Held(R, stalls)'
  BY <1>2, <1>3, <1>4, OP!HeldStep, RunnersAssumption
<1>6. R = scenario'.replicas /\ stalls = scenario'.stalls
  BY <1>1 DEF Step
<1> QED
  BY <1>5, <1>6

\* A runner inside Reconcile works, alone, on the latest claim of an event, and
\* that claim has no result yet.
LEMMA Working ==
    ASSUME OP!Inv, OwnTypes, ClaimsHeld, Exclusive, NEW w \in Workers,
           runner[w].pc = "reconciling"
    PROVE  /\ runner[w].ev \in Events
           /\ w \in scenario.replicas
           /\ runner[w].gen = outbox[runner[w].ev].attempts
           /\ runner[w].gen >= 1
           /\ Owed(runner[w].ev)
           /\ \A v \in Workers : runner[v].pc # "idle" /\ runner[v].ev = runner[w].ev => v = w
<1> DEFINE e == runner[w].ev
<1>1. OP!Held(scenario.replicas, scenario.stalls)
  BY DEF ClaimsHeld
<1>2. e \in Events /\ runner[w].gen >= 1
  BY Zenon DEF OP!Inv, OP!ClaimsCounted
<1>3. w \in scenario.replicas /\ outbox[e].holder = w /\ runner[w].gen = outbox[e].attempts
  BY <1>1 DEF OP!Held, OP!HoldsClaim
<1>4. outbox[e].lease # "none"
  BY <1>2, <1>3, RunnersAssumption DEF OP!Inv, OP!RowsConsistent
<1>5. outbox[e].exists
  BY <1>2, <1>4 DEF OP!Inv, OP!RowsConsistent
<1>6. <<e, runner[w].gen>> \notin reconciled
  BY DEF OP!Inv, OP!ResultsRecorded
<1>7. \A v \in Workers : runner[v].pc # "idle" /\ runner[v].ev = e => v = w
  BY <1>1, <1>3 DEF OP!Held, OP!HoldsClaim
<1> QED
  BY <1>2, <1>3, <1>5, <1>6, <1>7 DEF Owed

LEMMA FreshIsOwed ==
    ASSUME OP!Inv, NEW e \in Events, Fresh(e)
    PROVE  Owed(e)
  BY DEF Fresh, Owed, OP!Inv, OP!ClaimsCounted

LEMMA OwedKept ==
    ASSUME OP!Inv, OwnTypes, Step \/ UNCHANGED <<vars, scenario>>, NEW e \in Events, Owed(e),
           reconciled' = reconciled
    PROVE  Owed(e)'
<1>1. PICK R, stalls : R = scenario.replicas /\ stalls = scenario.stalls
  OBVIOUS
<1>2. R \in SUBSET Workers
  BY <1>1, ScenarioType DEF OwnTypes
<1>3. OP!NextOf(R, stalls) \/ UNCHANGED OP!outboxVars
  BY <1>1, OutboxSteps DEF OwnTypes
<1>4. /\ outbox[e].exists => outbox'[e].exists
      /\ \/ outbox'[e].attempts = outbox[e].attempts
         \/ <<e, outbox'[e].attempts>> \notin reconciled
  BY <1>2, <1>3, OP!RowStep, RunnersAssumption
<1> QED
  BY <1>4 DEF Owed

\* A reconcile that succeeds does so for the event of its runner only.
LEMMA OwedByOthers ==
    ASSUME OP!Inv, OwnTypes, Step \/ UNCHANGED <<vars, scenario>>, NEW e \in Events, Owed(e),
           \A w \in scenario.replicas :
             CompleteSnapshots(w) /\ runner[w].pc = "reconciling" => runner[w].ev # e
    PROVE  Owed(e)'
<1>1. CASE reconciled' = reconciled
  BY <1>1, OwedKept
<1>2. ASSUME NEW w \in scenario.replicas, CompleteSnapshots(w), outbox' = outbox,
             runner[w].pc = "reconciling",
             reconciled' = reconciled \cup {<<runner[w].ev, runner[w].gen>>}
      PROVE  Owed(e)'
  BY <1>2 DEF Owed
<1> QED
  BY <1>1, <1>2, ReconciledWrites

LEMMA PublishedIsFresh ==
    ASSUME OP!Inv, NEW e \in Events, OB!Insert(e)
    PROVE  Fresh(e)'
  BY DEF OB!Insert, OB!Inserted, OB!NoRow, Fresh, OP!Inv, OP!TypeOK

\* A runner leaves the track only with CompleteWorkspace.
LEMMA OnTrackStep ==
    ASSUME OP!Inv, OwnTypes, Step \/ UNCHANGED <<vars, scenario>>, NEW w \in Workers,
           runner'[w].pc = "reconciling", row'.gen = row.gen
    PROVE  \/ OnTrack(w)'
           \/ /\ runner[w].pc = "reconciling" /\ runner'[w].ev = runner[w].ev
              /\ ~OnTrack(w) \/ CompleteWorkspace(w)
<1> DEFINE Was == runner[w].pc = "reconciling" /\ runner'[w].ev = runner[w].ev
           Goal == OnTrack(w)' \/ (Was /\ (~OnTrack(w) \/ CompleteWorkspace(w)))
<1> USE DEF OwnTypes, LocalTyped
<1>0. runner \in [Workers -> OP!Local] /\ \A v \in scenario.replicas : v \in Workers
  BY ScenarioType DEF OP!Inv, OP!TypeOK
<1>1. ASSUME runner'[w] = runner[w], local'[w] = local[w]
      PROVE  Goal
  BY <1>1 DEF OnTrack, At, Current
<1>2. ASSUME runner'[w] = runner[w], local'[w].seen = local[w].seen,
             local'[w].step # "snapshots", ~At(w, "load")
      PROVE  Goal
  BY <1>2 DEF OnTrack, At, Current
<1>3. ASSUME NEW v \in Workers, v # w, NEW step, Goto(v, step), runner' = runner
      PROVE  Goal
  <2>1. local'[w] = local[w]
    BY <1>3 DEF Goto
  <2> QED
    BY <1>1, <1>3, <2>1
<1>4. ASSUME NEW step, step # "snapshots", Goto(w, step), runner' = runner, ~At(w, "load")
      PROVE  Goal
  <2>1. local'[w].seen = local[w].seen /\ local'[w].step = step
    BY <1>4 DEF Goto
  <2> QED
    BY <1>2, <1>4, <2>1
<1>5. ASSUME NEW v \in Workers, NEW e \in Events, Begin(v, e)
      PROVE  Goal
  <2>1. CASE v = w
    <3>1. local'[w].step = "load"
      BY <1>5, <2>1 DEF Begin, Goto
    <3> QED
      BY <3>1 DEF OnTrack, At
  <2>2. CASE v # w
    <3>1. runner'[w] = runner[w] /\ local'[w] = local[w]
      BY <1>0, <1>5, <2>2 DEF Begin, Goto, OB!Claim
    <3> QED
      BY <1>1, <3>1
  <2> QED
    BY <2>1, <2>2
<1>6. ASSUME NEW v \in Workers, LoadWorkspace(v)
      PROVE  Goal
  <2>1. CASE v = w
    <3>1. local'[w].seen = row /\ local'[w].step = "list" /\ row' = row
      BY <1>6, <2>1 DEF LoadWorkspace, databaseVars
    <3> QED
      BY <3>1 DEF OnTrack, At, Current
  <2>2. CASE v # w
    BY <1>1, <1>6, <2>2 DEF LoadWorkspace, outboxVars
  <2> QED
    BY <2>1, <2>2
<1>7. ASSUME NEW v \in Workers, ListSnapshots(v)
      PROVE  Goal
  <2>1. CASE v = w
    <3>1. /\ local'[w].seen = local[w].seen /\ local'[w].step # "snapshots"
          /\ runner' = runner
      BY <1>7, <2>1 DEF ListSnapshots, outboxVars
    <3> QED
      BY <1>2, <1>7, <2>1, <3>1 DEF ListSnapshots, At
  <2>2. CASE v # w
    BY <1>1, <1>7, <2>2 DEF ListSnapshots, outboxVars
  <2> QED
    BY <2>1, <2>2
<1>8. ASSUME NEW v \in Workers,
             \/ StartWorkspace(v) \/ ApplyWork(v) \/ Poll(v)
             \/ ApplyRefused(v) \/ ApplyUnanswered(v) \/ PollFails(v)
      PROVE  Goal
  <2>1. ~At(v, "load") /\ runner' = runner
    BY <1>8 DEF StartWorkspace, ApplyWork, Poll, ApplyRefused, ApplyUnanswered, PollFails,
                At, outboxVars
  <2>2. \E step : step # "snapshots" /\ Goto(v, step)
    BY <1>8 DEF StartWorkspace, ApplyWork, Poll, ApplyRefused, ApplyUnanswered, PollFails,
                FL!Verdict, FL!TypeOK
  <2> QED
    BY <1>3, <1>4, <2>1, <2>2
<1>9. ASSUME NEW v \in Workers, CompleteWorkspace(v)
      PROVE  Goal
  <2>1. CASE v # w
    BY <1>3, <1>9, <2>1 DEF CompleteWorkspace, outboxVars
  <2>2. CASE v = w
    BY <1>9, <2>2 DEF CompleteWorkspace, outboxVars, At
  <2> QED
    BY <2>1, <2>2
<1>10. ASSUME NEW v \in Workers,
             \/ StartConflict(v) \/ CompleteSnapshots(v) \/ FailWorkspace(v)
             \/ FailAfterDeadline(v) \/ StatementFails(v)
       PROVE  Goal
  <2>1. /\ local' = [local EXCEPT ![v] = Resting]
        /\ \E ok : runner' = [runner EXCEPT ![v].pc = "marking", ![v].ok = ok]
    BY <1>10, Zenon DEF StartConflict, CompleteSnapshots, FailWorkspace, FailAfterDeadline,
                        StatementFails, Returns, OB!Return
  <2>2. v # w
    BY <1>0, <2>1 DEF OP!Local
  <2>3. runner'[w] = runner[w] /\ local'[w] = local[w]
    BY <1>0, <2>1, <2>2
  <2> QED
    BY <1>1, <2>3
<1>11. ASSUME NEW v \in Workers, Process(v) \/ Crash(v)
       PROVE  Goal
  <2>1. /\ runner' = [runner EXCEPT ![v] = OB!Idle]
        /\ local' = local \/ local' = [local EXCEPT ![v] = Resting]
    BY <1>11, Zenon DEF Process, Crash, OB!Mark, OB!MarkLost, OB!Crash
  <2>2. v # w
    BY <1>0, <2>1 DEF OB!Idle
  <2>3. runner'[w] = runner[w] /\ local'[w] = local[w]
    BY <1>0, <2>1, <2>2
  <2> QED
    BY <1>1, <2>3
<1>12. ASSUME \/ \E e \in Events, target \in Targets : SetDesiredState(e, target)
              \/ \E s \in SnapshotEvents : CheckSnapshot(s) \/ CreateSnapshot(s)
              \/ \E e \in Events : Time(e)
              \/ LateApply \/ Agent \/ Unobserved \/ UNCHANGED <<vars, scenario>>
       PROVE  Goal
  <2>1. UNCHANGED <<runner, local>>
    BY <1>12, Zenon DEF SetDesiredState, CheckSnapshot, CreateSnapshot, Time, OB!BackoffOver,
         OB!LeaseOver, OB!Stall, LateApply, Agent, Unobserved, OB!ClaimLost, OB!LateMark, vars,
         outboxVars
  <2> QED
    BY <1>1, <2>1
<1> HIDE DEF OwnTypes, LocalTyped, Goal
<1>13. Goal
  BY <1>0, <1>5, <1>6, <1>7, <1>8, <1>9, <1>10, <1>11, <1>12
     DEF Step, Next, Reconcile, Mishap
<1> QED
  BY <1>13 DEF Goal

LEMMA StatusOwedStep ==
    ASSUME OP!Inv, OwnTypes, ClaimsHeld, StatusOwed, Step \/ UNCHANGED <<vars, scenario>>
    PROVE  StatusOwed'
<1> SUFFICES ASSUME Exclusive
             PROVE  Provisioned' \/ \E e \in Events : WillProvision(e)'
  BY DEF StatusOwed, Step, Exclusive, SingleReplica
<1>0. /\ \A w \in scenario.replicas : w \in Workers
      /\ row \in Workspace /\ runner \in [Workers -> OP!Local] /\ LocalTyped
  BY ScenarioType DEF OwnTypes, OP!Inv, OP!TypeOK
<1>1. ASSUME NEW e \in Events, NEW target \in Targets, SetDesiredState(e, target)
      PROVE  WillProvision(e)'
  <2>1. /\ OB!Insert(e) /\ ~outbox[e].exists
        /\ runner' = runner /\ reconciled' = reconciled
    BY <1>1 DEF SetDesiredState, OB!Insert
  <2>2. Fresh(e)'
    BY <2>1, PublishedIsFresh
  <2>3. <<e, 0>> \notin reconciled
    BY DEF OP!Inv, OP!ClaimsCounted
  <2>4. Owed(e)'
    BY <2>1, <2>2, <2>3 DEF Fresh, Owed
  <2>5. \A w \in Workers : ~(runner'[w].pc = "reconciling" /\ runner'[w].ev = e)
    BY <2>1, Working DEF Owed
  <2> QED
    BY <2>4, <2>5 DEF WillProvision
<1>2. ASSUME NEW w \in Workers, StartWorkspace(w)
      PROVE  \E e \in Events : WillProvision(e)'
  <2>1. /\ runner[w].pc = "reconciling" /\ Current(w)
        /\ runner' = runner /\ reconciled' = reconciled
        /\ row' = [row EXCEPT !.prov = "provisioning", !.observed = "unknown"]
        /\ Goto(w, "patch")
    BY <1>2 DEF StartWorkspace, At, outboxVars
  <2>2. PICK e \in Events : e = runner[w].ev /\ Owed(e)
    BY <2>1, Working
  <2>3. \A v \in Workers : runner[v].pc = "reconciling" /\ runner[v].ev = e => v = w
    BY <2>1, <2>2, Working
  <2>4. Owed(e)'
    BY <2>1, <2>2, OwedKept
  <2>5. row'.gen = row.gen
    BY <1>0, <2>1, StartedRow
  <2>6. local'[w].seen = local[w].seen /\ local'[w].step = "patch"
    BY <1>0, <2>1 DEF Goto, LocalTyped
  <2>7. OnTrack(w)'
    BY <2>1, <2>5, <2>6 DEF OnTrack, Current, At
  <2>8. WillProvision(e)'
    BY <2>1, <2>3, <2>4, <2>7 DEF WillProvision
  <2> QED
    BY <2>8
<1>3. ASSUME NEW w \in Workers, FailWorkspace(w)
      PROVE  \E e \in Events : WillProvision(e)'
  <2>1. /\ runner[w].pc = "reconciling" /\ reconciled' = reconciled
        /\ runner' = [runner EXCEPT ![w].pc = "marking", ![w].ok = FALSE]
    BY <1>3 DEF FailWorkspace, At, Returns, OB!Return
  <2>2. PICK e \in Events : e = runner[w].ev /\ Owed(e)
    BY <2>1, Working
  <2>3. \A v \in Workers : runner[v].pc = "reconciling" /\ runner[v].ev = e => v = w
    BY <2>1, <2>2, Working
  <2>4. Owed(e)'
    BY <2>1, <2>2, OwedKept
  <2>5. \A v \in Workers : v # w => runner'[v] = runner[v]
    BY <1>0, <2>1
  <2>6. runner'[w].pc = "marking"
    BY <1>0, <2>1 DEF OP!Local
  <2>7. WillProvision(e)'
    BY <2>3, <2>4, <2>5, <2>6 DEF WillProvision
  <2> QED
    BY <2>7
<1>4. ASSUME row' = Completed
      PROVE  Provisioned'
  BY <1>0, <1>4, CompletedRow DEF Provisioned
<1>5. CASE row' = row
  <2>1. CASE Provisioned
    BY <1>5, <2>1 DEF Provisioned
  <2>2. ASSUME NEW v \in Workers, CompleteWorkspace(v), Current(v)
        PROVE  Provisioned'
    BY <1>4, <2>2 DEF CompleteWorkspace
  <2>3. ASSUME NEW e \in Events, WillProvision(e),
               \A v \in Workers : ~(CompleteWorkspace(v) /\ Current(v))
        PROVE  WillProvision(e)'
    <3>1. \A w \in Workers : CompleteSnapshots(w) /\ runner[w].pc = "reconciling"
                               => runner[w].ev # e
      BY <2>3 DEF WillProvision, OnTrack, CompleteSnapshots, At
    <3>2. Owed(e)'
      BY <1>0, <2>3, <3>1, OwedByOthers DEF WillProvision
    <3>3. ASSUME NEW v \in Workers, runner'[v].pc = "reconciling", runner'[v].ev = e
          PROVE  OnTrack(v)'
      <4>1. \/ OnTrack(v)'
            \/ /\ runner[v].pc = "reconciling" /\ runner'[v].ev = runner[v].ev
               /\ ~OnTrack(v) \/ CompleteWorkspace(v)
        BY <1>5, <3>3, OnTrackStep
      <4>2. runner[v].pc = "reconciling" /\ runner[v].ev = e => OnTrack(v)
        BY <2>3 DEF WillProvision
      <4>3. CompleteWorkspace(v) => ~OnTrack(v)
        BY <2>3 DEF CompleteWorkspace, OnTrack, At
      <4> QED
        BY <3>3, <4>1, <4>2, <4>3
    <3> QED
      BY <3>2, <3>3 DEF WillProvision
  <2> QED
    BY <2>1, <2>2, <2>3 DEF StatusOwed
<1> DEFINE Done == \E e \in Events : WillProvision(e)'
<1>6. \A e \in Events, target \in Targets : SetDesiredState(e, target) => Done
  BY <1>1
<1>7. \A w \in scenario.replicas : StartWorkspace(w) \/ FailWorkspace(w) => Done
  BY <1>0, <1>2, <1>3
<1> QED
  BY <1>4, <1>5, <1>6, <1>7, RowWrites, Zenon

-----------------------------------------------------------------------------
(* One replica: the ManifestWork and what its runner knows *)

\* The ManifestWork was built for the desired state of the row, and a snapshot
\* it lacks is owed a reconcile.
Accurate ==
    /\ \E ss \in SUBSET SnapshotEvents : hub.spec = BuildWork(row, ss)
    /\ row.desired # "terminated" =>
         \A s \in SnapshotEvents : snaps[s] # "absent" => s \in hub.spec.snaps \/ Owed(s)

WorkKnown ==
    /\ late = {}
    /\ hub.spec # NoSpec => \A s \in hub.spec.snaps : snaps[s] # "absent"
    /\ row.prov = "succeeded" /\ row.obsGen = row.gen => Accurate

\* What the runner loaded is the row while the generation stays, what it applied
\* is on the hub, and its list lacks no snapshot but those still to be tried.
RunnerKnows(w) ==
    /\ At(w, "list") /\ Current(w) => local[w].seen = row
    /\ At(w, "patch") \/ At(w, "wait") => row.prov # "succeeded"
    /\ At(w, "wait") => hub.spec = Work(w)
    /\ At(w, "complete") /\ Current(w) => Accurate
    /\ (At(w, "complete") \/ At(w, "snapshots")) /\ runner[w].ev \in SnapshotEvents
         => hub.spec = Work(w)
    /\ At(w, "start") \/ At(w, "patch") \/ At(w, "wait") =>
         \A s \in SnapshotEvents : snaps[s] # "absent" => s \in local[w].snaps \/ Fresh(s)
    /\ (\/ At(w, "start") \/ At(w, "patch") \/ At(w, "wait")
        \/ At(w, "complete") \/ At(w, "snapshots")) /\ runner[w].ev \in SnapshotEvents
         => runner[w].ev \in local[w].snaps

SingleRunner == Alone => WorkKnown /\ \A w \in scenario.replicas : RunnerKnows(w)

LEMMA SameWork ==
    ASSUME NEW r, NEW q, r.desired = q.desired
    PROVE  \A ss : BuildWork(r, ss) = BuildWork(q, ss)
  BY DEF BuildWork

LEMMA FreshKept ==
    ASSUME OP!Inv, OwnTypes, Step \/ UNCHANGED <<vars, scenario>>, NEW e \in Events, Fresh(e),
           \A w \in scenario.replicas : runner[w].pc # "idle"
    PROVE  Fresh(e)'
<1>1. PICK R, stalls : R = scenario.replicas /\ stalls = scenario.stalls
  OBVIOUS
<1>2. R \in SUBSET Workers
  BY <1>1, ScenarioType DEF OwnTypes
<1>3. OP!NextOf(R, stalls) \/ UNCHANGED OP!outboxVars
  BY <1>1, OutboxSteps DEF OwnTypes
<1>4. /\ outbox[e].exists => outbox'[e].exists
      /\ outbox'[e].attempts = outbox[e].attempts
  BY <1>1, <1>2, <1>3, OP!RowStep, RunnersAssumption
<1> QED
  BY <1>4 DEF Fresh

\* Accurate survives what leaves the ManifestWork and the desired state alone;
\* a snapshot that appears is owed its first reconcile.
LEMMA AccurateKept ==
    ASSUME OP!Inv, OwnTypes, Step \/ UNCHANGED <<vars, scenario>>, Accurate,
           row'.desired = row.desired, hub'.spec = hub.spec, reconciled' = reconciled,
           \A s \in SnapshotEvents : snaps'[s] # "absent" => snaps[s] # "absent" \/ Owed(s)'
    PROVE  Accurate'
<1>1. \A s \in SnapshotEvents : Owed(s) => Owed(s)'
  BY OwedKept, EventsType
<1>2. \A ss : BuildWork(row', ss) = BuildWork(row, ss)
  BY SameWork
<1>3. PICK ss \in SUBSET SnapshotEvents : hub.spec = BuildWork(row, ss)
  BY DEF Accurate
<1>4. hub'.spec = BuildWork(row', ss)
  BY <1>2, <1>3
<1>5. row'.desired # "terminated" =>
        \A s \in SnapshotEvents : snaps'[s] # "absent" => s \in hub'.spec.snaps \/ Owed(s)'
  BY <1>1 DEF Accurate
<1> QED
  BY <1>4, <1>5 DEF Accurate

\* Nothing the invariant speaks of has moved, except what the runner does.
Calm == UNCHANGED <<row, hub.spec, late, snaps, reconciled>>

LEMMA CalmKeeps ==
    ASSUME OP!Inv, OwnTypes, Step \/ UNCHANGED <<vars, scenario>>, Calm
    PROVE  /\ WorkKnown => WorkKnown'
           /\ Accurate => Accurate'
<1>1. Accurate => Accurate'
  BY AccurateKept DEF Calm
<1> QED
  BY <1>1 DEF Calm, WorkKnown

LEMMA FreshList ==
    ASSUME OP!Inv, OwnTypes, Step \/ UNCHANGED <<vars, scenario>>,
           NEW u \in Workers, scenario.replicas = {u}, runner[u].pc = "reconciling"
    PROVE  \A s \in SnapshotEvents : Fresh(s) => Fresh(s)'
  BY FreshKept, EventsType

\* A runner that stays where it is, and one that holds nothing of interest.
LEMMA RunnerStays ==
    ASSUME OP!Inv, OwnTypes, Step \/ UNCHANGED <<vars, scenario>>,
           NEW u \in Workers, scenario.replicas = {u}, RunnerKnows(u),
           local'[u] = local[u], runner'[u] = runner[u],
           hub'.spec = hub.spec, row'.prov = row.prov,
           Current(u)' => Current(u) /\ row' = row /\ (Accurate => Accurate'),
           \A s \in SnapshotEvents : snaps'[s] # "absent" => snaps[s] # "absent" \/ Fresh(s)'
    PROVE  RunnerKnows(u)'
<1>1. runner[u].pc = "reconciling" => \A s \in SnapshotEvents : Fresh(s) => Fresh(s)'
  BY FreshList
<1>2. \A step : At(u, step)' <=> At(u, step)
  BY DEF At
<1>3. Work(u)' = Work(u)
  BY DEF Work
<1>4. \A step : At(u, step) => runner[u].pc = "reconciling"
  BY DEF At
<1>5. At(u, "start") \/ At(u, "patch") \/ At(u, "wait") =>
        \A s \in SnapshotEvents : snaps'[s] # "absent" => s \in local'[u].snaps \/ Fresh(s)'
  BY <1>1, <1>4 DEF RunnerKnows
<1> QED
  BY <1>2, <1>3, <1>5 DEF RunnerKnows

LEMMA CalmRunner ==
    ASSUME OP!Inv, OwnTypes, Step \/ UNCHANGED <<vars, scenario>>, Calm,
           NEW u \in Workers, scenario.replicas = {u}, RunnerKnows(u),
           local'[u] = local[u], runner'[u] = runner[u]
    PROVE  RunnerKnows(u)'
<1>1. Accurate => Accurate'
  BY CalmKeeps
<1>2. Current(u)' => Current(u)
  BY DEF Current, Calm
<1> QED
  BY <1>1, <1>2, RunnerStays DEF Calm

LEMMA RunnerAway ==
    ASSUME NEW u \in Workers,
           \/ runner'[u].pc # "reconciling"
           \/ local'[u].step \in {"idle", "load", "fail", "expired"}
    PROVE  RunnerKnows(u)'
  BY DEF RunnerKnows, At

LEMMA SingleRunnerStep ==
    ASSUME OP!Inv, OwnTypes, Generations, SnapshotsKnown, ClaimsHeld, SingleRunner,
           Step \/ UNCHANGED <<vars, scenario>>
    PROVE  SingleRunner'
<1> SUFFICES ASSUME Alone
             PROVE  SingleRunner'
  BY DEF SingleRunner, Step, Alone, SingleReplica
<1>0. PICK u \in Workers : scenario.replicas = {u} /\ scenario'.replicas = {u}
  BY DEF Alone, SingleReplica, Step
<1>a. /\ WorkKnown /\ RunnerKnows(u) /\ Exclusive
      /\ row \in Workspace /\ LocalTyped /\ local[u].seen \in Workspace
      /\ runner \in [Workers -> OP!Local]
      /\ snaps \in [SnapshotEvents -> {"absent", "pending", "succeeded"}]
  BY <1>0 DEF SingleRunner, Alone, Exclusive, OwnTypes, LocalTyped, OP!Inv, OP!TypeOK
<1> DEFINE New == WorkKnown' /\ RunnerKnows(u)'
<1>b. SUFFICES New
  BY <1>0 DEF SingleRunner
<1>c. /\ row.gen \in Nat /\ row.obsGen \in Nat /\ local[u].seen.gen \in Nat
      /\ row.obsGen <= row.gen /\ local[u].seen.gen <= row.gen
      /\ local[u].seen.gen = row.gen => local[u].seen.desired = row.desired
  BY <1>a DEF Generations, Workspace
<1>d. \A s \in SnapshotEvents : snaps[s] # "absent" <=> ~(snaps[s] = "absent")
  OBVIOUS
<1>1. ASSUME NEW e \in Events, NEW target \in Targets, SetDesiredState(e, target)
      PROVE  New
  <2>1. /\ row'.gen = row.gen + 1 /\ row'.obsGen = row.obsGen /\ row'.prov = row.prov
    BY <1>1, <1>a, DesiredChange, WorkspaceAssumption
  <2>2. UNCHANGED <<runner, reconciled, hub, late, snaps, local>>
    BY <1>1 DEF SetDesiredState
  <2>3. ~Current(u)' /\ row'.obsGen # row'.gen
    BY <1>c, <2>1, <2>2 DEF Current
  <2>4. WorkKnown'
    BY <1>a, <2>2, <2>3 DEF WorkKnown
  <2>5. RunnerKnows(u)'
    BY <1>0, <1>a, <2>1, <2>2, <2>3, RunnerStays
  <2> QED
    BY <2>4, <2>5
<1>2. ASSUME NEW x \in SnapshotEvents, CreateSnapshot(x)
      PROVE  New
  <2>1. /\ UNCHANGED <<runner, reconciled, hub, late, row, local>>
        /\ OB!Insert(x) /\ x \in Events
        /\ \A s \in SnapshotEvents : s # x => snaps'[s] = snaps[s]
        /\ snaps'[x] = "pending"
    BY <1>2, <1>a, EventsType DEF CreateSnapshot
  <2>2. Fresh(x)'
    BY <2>1, PublishedIsFresh
  <2>3. <<x, 0>> \notin reconciled
    BY <2>1 DEF OP!Inv, OP!ClaimsCounted
  <2>4. Owed(x)'
    BY <2>1, <2>2, <2>3 DEF Fresh, Owed
  <2>5. Accurate => Accurate'
    BY <2>1, <2>4, AccurateKept
  <2>6. WorkKnown'
    BY <1>a, <2>1, <2>5 DEF WorkKnown, OwnTypes, FL!TypeOK, Manifests
  <2>7. RunnerKnows(u)'
    BY <1>0, <1>a, <2>1, <2>2, <2>5, RunnerStays DEF Current
  <2> QED
    BY <2>6, <2>7
<1>3. CASE LoadWorkspace(u)
  <2>1. Calm /\ runner' = runner
    BY <1>3 DEF LoadWorkspace, Calm, outboxVars, databaseVars
  <2>2. local'[u].seen = row /\ local'[u].step = "list"
    BY <1>3, <1>a DEF LoadWorkspace, LocalTyped
  <2>3. RunnerKnows(u)'
    BY <2>1, <2>2 DEF RunnerKnows, At, Calm
  <2> QED
    BY <1>a, <2>1, <2>3, CalmKeeps
<1>4. CASE ListSnapshots(u)
  <2>1. /\ Calm /\ runner' = runner /\ At(u, "list")
        /\ local'[u].seen = local[u].seen
        /\ local'[u].snaps = {s \in SnapshotEvents : snaps[s] # "absent"}
        /\ local'[u].step = IF Ready(runner[u].ev, local[u].seen) THEN "complete" ELSE "start"
    BY <1>4, <1>a DEF ListSnapshots, Calm, outboxVars, databaseVars, LocalTyped
  <2>2. Accurate => Accurate'
    BY <2>1, CalmKeeps
  <2>3. runner[u].ev \in SnapshotEvents => runner[u].ev \in local'[u].snaps
    BY <1>a, <2>1, Working DEF At, Owed, SnapshotsKnown
  <2>4. ASSUME Ready(runner[u].ev, local[u].seen)
        PROVE  RunnerKnows(u)'
    <3>1. /\ runner[u].ev \notin SnapshotEvents
          /\ local[u].seen.obsGen = local[u].seen.gen /\ local[u].seen.prov = "succeeded"
      BY <2>4 DEF Ready
    <3>2. Current(u) => local[u].seen = row
      BY <1>a, <2>1 DEF RunnerKnows
    <3>3. Current(u) => Accurate'
      BY <1>a, <2>2, <3>1, <3>2 DEF WorkKnown
    <3>4. Current(u)' => Current(u)
      BY <2>1 DEF Current, Calm
    <3>5. local'[u].step = "complete" /\ runner'[u].ev \notin SnapshotEvents
      BY <2>1, <2>4, <3>1
    <3> QED
      BY <3>3, <3>4, <3>5 DEF RunnerKnows, At
  <2>5. ASSUME ~Ready(runner[u].ev, local[u].seen)
        PROVE  RunnerKnows(u)'
    BY <2>1, <2>3, <2>5 DEF RunnerKnows, At, Calm
  <2>6. WorkKnown'
    BY <1>a, <2>1, CalmKeeps
  <2> QED
    BY <2>4, <2>5, <2>6
<1>5. CASE StartWorkspace(u)
  <2>1. /\ UNCHANGED <<runner, reconciled, hub, late, snaps>>
        /\ At(u, "start") /\ runner[u].pc = "reconciling"
        /\ local'[u].seen = local[u].seen /\ local'[u].snaps = local[u].snaps
        /\ local'[u].step = "patch"
    BY <1>5, <1>a DEF StartWorkspace, Goto, At, LocalTyped, outboxVars
  <2>2. row'.prov = "provisioning"
    BY <1>5, <1>a, StartedRow DEF StartWorkspace
  <2>3. \A s \in SnapshotEvents : Fresh(s) => Fresh(s)'
    BY <1>0, <2>1, FreshList
  <2>4. WorkKnown'
    BY <1>a, <2>1, <2>2 DEF WorkKnown
  <2>5. RunnerKnows(u)'
    BY <1>a, <2>1, <2>2, <2>3 DEF RunnerKnows, At
  <2> QED
    BY <2>4, <2>5
<1>6. CASE ApplyWork(u)
  <2>1. /\ UNCHANGED <<runner, reconciled, row, late, snaps>>
        /\ At(u, "patch") /\ runner[u].pc = "reconciling"
        /\ local'[u].seen = local[u].seen /\ local'[u].snaps = local[u].snaps
        /\ local'[u].step = "wait"
    BY <1>6, <1>a DEF ApplyWork, Goto, At, LocalTyped, outboxVars, databaseVars
  <2>2. hub'.spec = Work(u) /\ Work(u)' = Work(u)
    BY <1>6, <2>1 DEF ApplyWork, FL!Accept, Work, OwnTypes, FL!TypeOK
  <2>3. \A s \in SnapshotEvents : Fresh(s) => Fresh(s)'
    BY <1>0, <2>1, FreshList
  <2>4. row.prov # "succeeded"
    BY <1>a, <2>1 DEF RunnerKnows
  <2>5. \A s \in hub'.spec.snaps : snaps'[s] # "absent"
    BY <2>1, <2>2 DEF Work, BuildWork, SnapshotsKnown
  <2>6. WorkKnown'
    BY <1>a, <2>1, <2>4, <2>5 DEF WorkKnown
  <2>7. RunnerKnows(u)'
    BY <1>a, <2>1, <2>2, <2>3, <2>4 DEF RunnerKnows, At
  <2> QED
    BY <2>6, <2>7
<1>7. CASE Poll(u)
  <2>1. /\ Calm /\ runner' = runner /\ At(u, "wait") /\ runner[u].pc = "reconciling"
        /\ local'[u].seen = local[u].seen /\ local'[u].snaps = local[u].snaps
        /\ local'[u].step \in {"complete", "fail", "expired"}
    BY <1>7, <1>a DEF Poll, Calm, FL!Verdict, Goto, At, LocalTyped, outboxVars, databaseVars,
                      OwnTypes, FL!TypeOK
  <2>2. hub.spec = Work(u) /\ Work(u)' = Work(u)
    BY <1>a, <2>1 DEF RunnerKnows, Work
  <2>3. Current(u) => Accurate
    <3> SUFFICES ASSUME Current(u)
                 PROVE  Accurate
      OBVIOUS
    <3>1. local[u].seen.desired = row.desired /\ local[u].snaps \in SUBSET SnapshotEvents
      BY <1>a, <1>c DEF Current, LocalTyped
    <3>2. hub.spec = BuildWork(row, local[u].snaps)
      BY <2>2, <3>1, SameWork DEF Work
    <3>3. row.desired # "terminated" => hub.spec.snaps = local[u].snaps
      BY <3>1, <3>2, WorkType
    <3>4. \A s \in SnapshotEvents : snaps[s] # "absent" => s \in local[u].snaps \/ Fresh(s)
      BY <1>a, <2>1 DEF RunnerKnows
    <3>5. \A s \in SnapshotEvents : Fresh(s) => Owed(s)
      BY FreshIsOwed, EventsType
    <3> QED
      BY <3>1, <3>2, <3>3, <3>4, <3>5 DEF Accurate
  <2>4. Accurate => Accurate'
    BY <2>1, CalmKeeps
  <2>5. Current(u)' => Current(u)
    BY <2>1 DEF Current, Calm
  <2>6. RunnerKnows(u)'
    BY <1>a, <2>1, <2>2, <2>3, <2>4, <2>5 DEF RunnerKnows, At, Calm
  <2> QED
    BY <1>a, <2>1, <2>6, CalmKeeps
<1>8. CASE CompleteWorkspace(u)
  <2>1. /\ UNCHANGED <<runner, reconciled, hub, late, snaps>>
        /\ At(u, "complete") /\ runner[u].pc = "reconciling"
        /\ local'[u].seen = local[u].seen /\ local'[u].snaps = local[u].snaps
        /\ local'[u].step = "snapshots"
    BY <1>8, <1>a DEF CompleteWorkspace, Goto, At, LocalTyped, outboxVars
  <2>2. Work(u)' = Work(u)
    BY <2>1 DEF Work
  <2>3. RunnerKnows(u)'
    BY <1>a, <2>1, <2>2 DEF RunnerKnows, At
  <2>4. CASE ~Current(u)
    <3>1. Calm
      BY <1>8, <2>1, <2>4 DEF CompleteWorkspace, Calm
    <3> QED
      BY <1>a, <2>3, <3>1, CalmKeeps
  <2>5. CASE Current(u)
    <3>1. row' = Completed /\ row'.desired = row.desired
      BY <1>8, <1>a, <2>5, CompletedRow DEF CompleteWorkspace
    <3>2. Accurate
      BY <1>a, <2>1, <2>5 DEF RunnerKnows
    <3>3. Accurate'
      BY <2>1, <3>1, <3>2, AccurateKept
    <3> QED
      BY <1>a, <2>1, <2>3, <3>3 DEF WorkKnown
  <2> QED
    BY <2>4, <2>5
<1>9. CASE CompleteSnapshots(u)
  <2> DEFINE e == runner[u].ev
  <2>1. /\ UNCHANGED <<hub, late, row>> /\ At(u, "snapshots")
        /\ runner[u].pc = "reconciling"
        /\ local' = [local EXCEPT ![u] = Resting]
        /\ \A s \in SnapshotEvents : snaps'[s] # "absent" <=> snaps[s] # "absent"
    BY <1>9, <1>a DEF CompleteSnapshots, Returns, At
  <2>2. local'[u].step = "idle"
    BY <1>a, <2>1 DEF LocalTyped, Resting
  <2>3. RunnerKnows(u)'
    BY <2>2, RunnerAway
  <2>4. ASSUME NEW s \in SnapshotEvents, s # e, Owed(s)
        PROVE  Owed(s)'
    BY <1>0, <2>4, OwedByOthers, EventsType
  <2>5. ASSUME Accurate, row.desired # "terminated", e \in SnapshotEvents
        PROVE  e \in hub.spec.snaps
    <3>1. PICK ss \in SUBSET SnapshotEvents : hub.spec = BuildWork(row, ss)
      BY <2>5 DEF Accurate
    <3>2. hub.spec.volume = TRUE
      BY <2>5, <3>1, WorkType
    <3>3. hub.spec = BuildWork(local[u].seen, local[u].snaps) /\ e \in local[u].snaps
      BY <1>a, <2>1, <2>5 DEF RunnerKnows, Work
    <3>4. local[u].snaps \in SUBSET SnapshotEvents
      BY <1>a DEF LocalTyped
    <3>5. hub.spec.volume = (local[u].seen.desired # "terminated")
      BY <3>3, <3>4, WorkType
    <3>6. local[u].seen.desired # "terminated"
      BY <3>2, <3>5
    <3> QED
      BY <3>3, <3>4, <3>6, WorkType
  <2>6. Accurate => Accurate'
    BY <2>1, <2>4, <2>5 DEF Accurate
  <2>7. WorkKnown'
    BY <1>a, <2>1, <2>6 DEF WorkKnown, OwnTypes, FL!TypeOK, Manifests
  <2> QED
    BY <2>3, <2>7
<1>10. CASE FailWorkspace(u)
  <2>1. /\ UNCHANGED <<reconciled, hub, late, snaps>>
        /\ local' = [local EXCEPT ![u] = Resting]
    BY <1>10 DEF FailWorkspace, Returns, OB!Return
  <2>2. local'[u].step = "idle"
    BY <1>a, <2>1 DEF LocalTyped, Resting
  <2>3. RunnerKnows(u)'
    BY <2>2, RunnerAway
  <2>4. CASE ~Current(u)
    <3>1. Calm
      BY <1>10, <2>1, <2>4 DEF FailWorkspace, Calm
    <3> QED
      BY <1>a, <2>3, <3>1, CalmKeeps
  <2>5. CASE Current(u)
    <3>1. PICK prov \in {"failed", "provisioning"} : row' = [row EXCEPT !.prov = prov]
      BY <1>10, <2>5 DEF FailWorkspace
    <3>2. row'.prov # "succeeded"
      BY <1>a, <3>1, FailedRow
    <3> QED
      BY <1>a, <2>1, <2>3, <3>2 DEF WorkKnown
  <2> QED
    BY <2>4, <2>5
<1>11. CASE \/ StartConflict(u) \/ FailAfterDeadline(u) \/ StatementFails(u) \/ Crash(u)
  <2>1. Calm /\ local' = [local EXCEPT ![u] = Resting]
    BY <1>11 DEF StartConflict, FailAfterDeadline, StatementFails, Crash, OB!Crash, Returns,
                 OB!Return, Calm, databaseVars, Others
  <2>2. local'[u].step = "idle"
    BY <1>a, <2>1 DEF LocalTyped, Resting
  <2> QED
    BY <1>a, <2>1, <2>2, RunnerAway, CalmKeeps
<1>12. CASE ApplyRefused(u) \/ PollFails(u) \/ \E e \in Events : Begin(u, e)
  <2>1. Calm /\ \E step \in {"fail", "expired", "load"} : Goto(u, step)
    BY <1>12 DEF ApplyRefused, PollFails, Begin, OB!Claim, Calm, outboxVars, databaseVars
  <2>2. local'[u].step \in {"fail", "expired", "load"}
    BY <1>a, <2>1 DEF Goto, LocalTyped
  <2> QED
    BY <1>a, <2>1, <2>2, RunnerAway, CalmKeeps
<1>13. ~ApplyUnanswered(u) /\ ~LateApply
  BY <1>a DEF ApplyUnanswered, LateApply, Alone, WorkKnown
<1>14. CASE Process(u)
  <2>1. Calm /\ runner' = [runner EXCEPT ![u] = OB!Idle]
    BY <1>14, Zenon DEF Process, OB!Mark, OB!MarkLost, Calm, Others, databaseVars
  <2>2. runner'[u].pc # "reconciling"
    BY <1>a, <2>1 DEF OB!Idle
  <2> QED
    BY <1>a, <2>1, <2>2, RunnerAway, CalmKeeps
<1>15. ASSUME \/ \E s \in SnapshotEvents : CheckSnapshot(s)
              \/ \E e \in Events : Time(e)
              \/ Agent \/ Unobserved \/ UNCHANGED <<vars, scenario>>
       PROVE  New
  <2>1. hub'.spec = hub.spec
    BY <1>15 DEF CheckSnapshot, Time, Agent, FL!AgentApplies, FL!AgentDegrades, Unobserved,
                 Others, vars, OwnTypes, FL!TypeOK
  <2>2. UNCHANGED <<row, late, snaps, reconciled, local, runner>>
    BY <1>15, Zenon DEF CheckSnapshot, Time, OB!BackoffOver, OB!LeaseOver, OB!Stall,
                 Agent, FL!AgentApplies, FL!AgentDegrades, Unobserved, OB!ClaimLost, OB!LateMark,
                 Others, vars, outboxVars, databaseVars
  <2>3. Calm
    BY <2>1, <2>2 DEF Calm
  <2> QED
    BY <1>0, <1>a, <2>2, <2>3, CalmRunner, CalmKeeps
<1> HIDE DEF New
<1> QED
  BY <1>0, <1>1, <1>2, <1>3, <1>4, <1>5, <1>6, <1>7, <1>8, <1>9, <1>10, <1>11, <1>12,
     <1>13, <1>14, <1>15 DEF Step, Next, Reconcile, Mishap

-----------------------------------------------------------------------------
(* The invariant and the theorems *)

IInv ==
    /\ OP!Inv
    /\ OwnTypes
    /\ Generations
    /\ SnapshotsKnown
    /\ ClaimsHeld
    /\ StatusOwed
    /\ SingleRunner

LEMMA InitRunners == Init => OP!Inv
<1> SUFFICES ASSUME Init
             PROVE  OP!Inv
  OBVIOUS
<1>1. /\ \A w \in Workers : runner[w] = OP!Idle
      /\ sent = {} /\ reconciled = {} /\ faults = 0
      /\ \A w \in Workers : runner[w].pc = "idle" /\ runner[w].ev = NoEvent
  BY DEF Init, OB!Idle, OP!Idle
<1>2. /\ outbox \in [Events -> OP!Row]
      /\ \A e \in Events : /\ outbox[e].attempts = 0 /\ ~OP!Settled(e)
                           /\ outbox[e].lease = "none" /\ outbox[e].holder = NoWorker
                           /\ ~outbox[e].delivered /\ ~outbox[e].dead
  BY DEF Init, OB!Inserted, OB!NoRow, OP!Row, OP!Settled
<1>3. OP!TypeOK
  <2>1. runner \in [Workers -> OP!Local]
    BY DEF Init, OB!Idle, OP!Local
  <2> QED
    BY <1>1, <1>2, <2>1, RunnersAssumption DEF OP!TypeOK
<1>4. OP!RowsConsistent
  BY <1>2 DEF OP!RowsConsistent
<1>5. OP!ClaimsCounted /\ OP!ResultsRecorded
  BY <1>1 DEF OP!ClaimsCounted, OP!ResultsRecorded
<1>6. OP!ClaimsUnique
  BY <1>1, <1>2 DEF OP!ClaimsUnique, OP!ClaimsAreDistinct
<1>7. OP!BudgetKept
  BY <1>1, <1>2, RunnersAssumption DEF OP!BudgetKept, OP!LostClaim
<1>8. OP!DeliveredBySuccess /\ OP!DeadLetteredByExhaustion
  BY <1>2 DEF OP!DeliveredBySuccess, OP!DeadLetteredByExhaustion
<1> QED
  BY <1>3, <1>4, <1>5, <1>6, <1>7, <1>8 DEF OP!Inv

LEMMA InitInv == Init => IInv
<1> SUFFICES ASSUME Init
             PROVE  IInv
  OBVIOUS
<1>1. /\ \A w \in Workers : runner[w].pc = "idle" /\ local[w] = Resting
      /\ row = NewWorkspace /\ reconciled = {} /\ late = {} /\ hub.spec = NoSpec
  BY DEF Init, OB!Idle, FL!Init, FL!Absent
<1>2. NewWorkspace \in Workspace
  BY DEF NewWorkspace, Workspace, DesiredStates
<1>3. OwnTypes
  BY <1>2, RestingType DEF Init, OwnTypes, FL!Init, FL!Absent, FL!TypeOK, LocalTyped
<1>4. Generations
  BY <1>1 DEF Generations, NewWorkspace, Resting
<1>5. SnapshotsKnown
  <2>1. \A s \in SnapshotEvents : ~outbox[s].exists
    BY EventsType DEF Init, OB!NoRow
  <2> QED
    BY <1>1, <2>1 DEF SnapshotsKnown, Resting
<1>6. ClaimsHeld
  BY <1>1 DEF ClaimsHeld, OP!Held
<1>7. StatusOwed
  <2>1. Owed(0)
    BY <1>1, EventsType DEF Init, Owed, OB!Inserted, OB!NoRow
  <2> QED
    BY <1>1, <2>1, EventsType DEF StatusOwed, WillProvision
<1>8. SingleRunner
  <2>1. WorkKnown
    BY <1>1 DEF WorkKnown, NewWorkspace
  <2>2. \A w \in Workers : RunnerKnows(w)
    BY <1>1 DEF RunnerKnows, At
  <2> QED
    BY <1>3, <2>1, <2>2, ScenarioType DEF SingleRunner, OwnTypes
<1> QED
  BY <1>3, <1>4, <1>5, <1>6, <1>7, <1>8, InitRunners DEF IInv

LEMMA NextInv == IInv /\ (Step \/ UNCHANGED <<vars, scenario>>) => IInv'
  BY OutboxInvStep, OwnTypesStep, GenerationsStep, SnapshotsKnownStep, ClaimsHeldStep,
     StatusOwedStep, SingleRunnerStep
     DEF IInv

LEMMA Invariance == Spec => []IInv
<1>1. Init => IInv
  BY InitInv
<1>2. IInv /\ [Next /\ UNCHANGED scenario]_<<vars, scenario>> => IInv'
  BY NextInv DEF Step
<1> QED
  BY <1>1, <1>2, PTL DEF Spec

\* The tables, the ManifestWork and what every runner holds keep their types.
THEOREM TypeCorrect == Spec => []TypeOK
<1>1. IInv => TypeOK
  BY TypesOfAll DEF IInv, OP!Inv
<1> QED
  BY <1>1, Invariance, PTL

\* observed_generation never goes back, with any replicas, stalls and late
\* completions: the fence of the write-backs is enough.
THEOREM ObservedForward == Spec => ObservedNeverRegresses
<1>1. IInv /\ [Next /\ UNCHANGED scenario]_<<vars, scenario>> => [row'.obsGen >= row.obsGen]_vars
  <2> SUFFICES ASSUME IInv, Step \/ UNCHANGED <<vars, scenario>>
               PROVE  row'.obsGen >= row.obsGen
    BY DEF Step, vars
  <2>1. row.gen \in Nat /\ row.obsGen \in Nat /\ row.obsGen <= row.gen
    BY DEF IInv, OwnTypes, Workspace, Generations
  <2> QED
    BY <2>1, RowColumns DEF IInv
<1> QED
  BY <1>1, Invariance, PTL DEF Spec, ObservedNeverRegresses

\* The snapshot of a delivered event is recorded as succeeded, whatever
\* happened to the workspace row in between.
THEOREM DeliveredRecorded == Spec => []DeliveredSnapshotRecorded
<1>1. IInv => DeliveredSnapshotRecorded
  BY EventsType DEF IInv, SnapshotsKnown, DeliveredSnapshotRecorded, OP!Inv,
                    OP!DeliveredBySuccess, OP!TypeOK, OP!Row
<1> QED
  BY <1>1, Invariance, PTL

\* Where everything is delivered nothing is owed.
LEMMA NothingOwed ==
    ASSUME IInv, AllDelivered
    PROVE  \A e \in Events : ~Owed(e)
  BY DEF IInv, AllDelivered, Owed, OP!Inv, OP!DeliveredBySuccess

\* Unless another replica takes over from a stalled runner, the row shows the
\* latest generation as provisioned once every event is delivered.
THEOREM StatusArrives == Spec => []StatusConverged
<1>1. IInv => StatusConverged
  BY NothingOwed DEF IInv, StatusOwed, StatusConverged, WillProvision, Provisioned
<1> QED
  BY <1>1, Invariance, PTL

\* With one replica a workspace that shows its generation as succeeded has the
\* ManifestWork of its desired state, whatever changed during the reconciles.
THEOREM SucceededIsTrue == Spec => []SucceededIsAccurate
<1>1. IInv => SucceededIsAccurate
  <2> SUFFICES ASSUME IInv, Alone, row.prov = "succeeded", row.obsGen = row.gen
               PROVE  /\ hub.spec.pod = (row.desired = "running")
                      /\ hub.spec.volume = (row.desired # "terminated")
    BY DEF SucceededIsAccurate
  <2>1. PICK ss \in SUBSET SnapshotEvents : hub.spec = BuildWork(row, ss)
    BY DEF IInv, SingleRunner, WorkKnown, Accurate
  <2> QED
    BY <2>1, WorkType
<1> QED
  BY <1>1, Invariance, PTL

\* With one replica, once every event is delivered the ManifestWork is the one
\* the database asks for, with every snapshot accepted so far.
THEOREM WorkArrives == Spec => []WorkConverged
<1>1. IInv => WorkConverged
  <2> SUFFICES ASSUME IInv, Alone, AllDelivered
               PROVE  hub.spec = Wanted
    BY DEF WorkConverged
  <2> DEFINE existing == {s \in SnapshotEvents : snaps[s] # "absent"}
  <2>1. Exclusive
    BY DEF Alone, Exclusive
  <2>2. WorkKnown /\ Accurate
    BY <2>1, NothingOwed
       DEF IInv, StatusOwed, SingleRunner, WorkKnown, WillProvision, Provisioned
  <2>3. PICK ss \in SUBSET SnapshotEvents : hub.spec = BuildWork(row, ss)
    BY <2>2 DEF Accurate
  <2>4. CASE row.desired = "terminated"
    BY <2>3, <2>4 DEF Wanted, BuildWork
  <2>5. CASE row.desired # "terminated"
    <3>1. hub.spec.snaps = ss /\ hub.spec # NoSpec
      BY <2>3, <2>5, WorkType, ManifestsAssumption
    <3>2. ss \subseteq existing
      BY <2>2, <3>1 DEF WorkKnown
    <3>3. existing \subseteq ss
      BY <2>2, <2>5, <3>1, NothingOwed, EventsType DEF Accurate
    <3>4. ss = existing
      BY <3>2, <3>3
    <3> QED
      BY <2>3, <3>4 DEF Wanted
  <2> QED
    BY <2>4, <2>5
<1> QED
  BY <1>1, Invariance, PTL

\* ... and, composed with these reconciles, the outbox keeps its promise to those
\* who publish changes and snapshots: each step of the whole publishes an event, tries
\* one that is not settled, or settles it after a try, dead only after enough.
THEOREM EventsAreDelivered == Spec => [][OP!KeepsPromise]_<<vars, scenario>>
<1>1. ASSUME IInv, Step \/ UNCHANGED <<vars, scenario>>
      PROVE  OP!KeepsPromise
  <2>1. PICK R, stalls : R = scenario.replicas /\ stalls = scenario.stalls
    OBVIOUS
  <2>2. R \in SUBSET Workers
    BY <1>1, <2>1, ScenarioType DEF IInv, OwnTypes
  <2>3. OP!NextOf(R, stalls) \/ UNCHANGED OP!outboxVars
    BY <1>1, <2>1, OutboxSteps DEF IInv, OwnTypes
  <2> QED
    BY <1>1, <2>2, <2>3, OP!NextOfDelivers, RunnersAssumption DEF IInv
<1>2. IInv /\ [Next /\ UNCHANGED scenario]_<<vars, scenario>> =>
        [OP!KeepsPromise]_<<vars, scenario>>
  BY <1>1 DEF Step
<1> QED
  BY <1>2, Invariance, PTL DEF Spec

=============================================================================
