------------------------ MODULE SharedIsolationProofs ------------------------
(***************************************************************************)
(* The safety properties of SharedIsolation for any number of replicas,    *)
(* quota updates, limits, attempts and faults.  The runners are those of   *)
(* Outbox, so what OutboxProofs proves of them is used as it stands.       *)
(***************************************************************************)
EXTENDS SharedIsolation, TLAPS

OP == INSTANCE OutboxProofs

-----------------------------------------------------------------------------
(* The runners are those of Outbox *)

Step == Next /\ UNCHANGED scenario

LEMMA ScenarioType ==
    ASSUME scenario \in Scenarios
    PROVE  /\ scenario.replicas \in SUBSET Workers
           /\ scenario.stalls \in BOOLEAN
           /\ scenario.updates \in 0..Updates
  BY IsolationAssumption

\* A step of Reconcile is a step of its runner.
LEMMA RunnerProceeds ==
    ASSUME OP!Inv, NEW w \in Workers, Reconcile(w) \/ Mishap(w)
    PROVE  OP!Proceeds(w)
<1> USE DEF OP!Proceeds, Returns
<1>0. /\ faults \in Nat /\ faults <= MaxFaults
      /\ faults < MaxFaults => faults + 1 <= MaxFaults
  BY RunnersAssumption DEF OP!Inv, OP!TypeOK
<1>1. CASE LoadProject(w) \/ LoadQuota(w) \/ StartSharedIsolation(w) \/ Patch(w) \/ Poll(w)
           \/ PatchRefused(w) \/ PollFails(w)
  <2>1. UNCHANGED outboxVars
    BY <1>1, Zenon DEF LoadProject, LoadQuota, StartSharedIsolation, Patch, Poll,
                       PatchRefused, PollFails
  <2> QED
    BY <1>0, <2>1, Zenon DEF outboxVars
<1>2. CASE \/ CompleteSharedIsolation(w) \/ FailSharedIsolation(w) \/ FailAfterDeadline(w)
           \/ StatementFails(w)
  <2>1. /\ \E ok \in BOOLEAN : OB!Return(w, ok)
        /\ UNCHANGED <<outbox, sent>>
    BY <1>2, Zenon DEF CompleteSharedIsolation, FailSharedIsolation, FailAfterDeadline,
                       StatementFails
  <2>2. faults' = faults \/ (faults < MaxFaults /\ faults' = faults + 1)
    BY <1>2, Zenon DEF CompleteSharedIsolation, FailSharedIsolation, FailAfterDeadline,
                       StatementFails
  <2>3. faults' \in {faults, faults + 1} /\ faults' <= MaxFaults
    BY <1>0, <2>2
  <2>4. \E ok \in BOOLEAN : OP!Return(w, ok)
    BY <2>1, Zenon DEF OB!Return, OP!Return
  <2> QED
    BY <2>1, <2>3, <2>4, Zenon
<1>3. CASE PatchUnanswered(w)
  <2>1. faults < MaxFaults /\ faults' = faults + 1 /\ UNCHANGED <<outbox, runner, sent, reconciled>>
    BY <1>3, Zenon DEF PatchUnanswered
  <2>2. faults' \in {faults, faults + 1} /\ faults' <= MaxFaults
    BY <1>0, <2>1
  <2> QED
    BY <2>1, <2>2, Zenon
<1> QED
  BY <1>1, <1>2, <1>3 DEF Reconcile, Mishap

\* Every step is a step of the outbox, or leaves it alone.
LEMMA OutboxSteps ==
    ASSUME OP!Inv, scenario \in Scenarios, Step \/ UNCHANGED <<vars, scenario>>,
           NEW R, R = scenario.replicas, NEW stalls, stalls = scenario.stalls
    PROVE  OP!NextOf(R, stalls) \/ UNCHANGED OP!outboxVars
<1> USE DEF OP!NextOf, OP!RunsOf
<1>0. R \in SUBSET Workers
  BY ScenarioType
<1>1. ASSUME NEW e \in Events, NEW q \in Quotas, SetQuota(e, q)
      PROVE  OP!Publish(e)
  BY <1>1, Zenon DEF SetQuota, OB!Insert, OB!Inserted, OB!NoRow,
                     OP!Publish, OP!Insert, OP!Inserted, OP!NoRow
<1>2. ASSUME NEW w \in R, NEW e \in Events, Begin(w, e)
      PROVE  OP!Claim(w, e)
  BY <1>2, Zenon DEF Begin, OB!Claim, OB!Claimable, OB!ClaimedBy,
                     OP!Claim, OP!Claimable, OP!ClaimedBy
<1>3. ASSUME NEW w \in R, Reconcile(w) \/ Mishap(w)
      PROVE  OP!Proceeds(w)
  BY <1>0, <1>3, RunnerProceeds
<1>4. ASSUME NEW w \in R, Process(w) \/ Crash(w)
      PROVE  OP!Mark(w) \/ OP!MarkLost(w) \/ OP!Crash(w)
  BY <1>4, Zenon DEF Process, Crash, OB!Mark, OB!MarkLost, OB!Crash, OB!Execute,
       OB!OwnsClaim, OB!MarkOf, OB!MarkDelivered, OB!MarkFailed, OB!MarkDeadLettered,
       OB!Released, OB!Terminal, OB!Idle,
       OP!Mark, OP!MarkLost, OP!Crash, OP!Execute, OP!OwnsClaim, OP!MarkOf,
       OP!MarkDelivered, OP!MarkFailed, OP!MarkDeadLettered, OP!Released, OP!Terminal, OP!Idle
<1>5. ASSUME NEW e \in Events, Time(e)
      PROVE  OP!BackoffOver(e) \/ OP!LeaseOver(e) \/ (stalls /\ OP!Stall(e))
  BY <1>5, Zenon DEF Time, OB!BackoffOver, OB!BackoffElapses, OB!LeaseOver,
       OB!AbandonedLeaseExpires, OB!Stall, OB!StalledPastLease, OB!LeaseExpires, OB!HoldsClaim,
       OP!BackoffOver, OP!BackoffElapses, OP!LeaseOver, OP!AbandonedLeaseExpires, OP!Stall,
       OP!StalledPastLease, OP!LeaseExpires, OP!HoldsClaim
<1>6. ASSUME Unobserved
      PROVE  \/ \E w \in R, e \in Events : OP!ClaimLost(w, e)
             \/ \E s \in sent : OP!LateMark(s)
  BY <1>6, Zenon DEF Unobserved, OB!ClaimLost, OB!Claimable, OB!ClaimedBy, OB!LateMark,
       OB!Execute, OB!OwnsClaim, OB!MarkDelivered, OB!MarkFailed, OB!MarkDeadLettered,
       OB!Released, OP!ClaimLost, OP!Claimable, OP!ClaimedBy, OP!LateMark, OP!Execute,
       OP!OwnsClaim, OP!MarkDelivered, OP!MarkFailed, OP!MarkDeadLettered, OP!Released
<1>7. ASSUME (\E q \in late : LatePatch(q)) \/ Agent \/ UNCHANGED <<vars, scenario>>
      PROVE  UNCHANGED OP!outboxVars
  BY <1>7, Zenon DEF LatePatch, Agent, vars, outboxVars, OP!outboxVars
<1> QED
  BY <1>1, <1>2, <1>3, <1>4, <1>5, <1>6, <1>7 DEF Step, Next
-----------------------------------------------------------------------------
(* Types *)

LocalTyped == local \in [Workers -> [step : Steps, seen : Project, quota : Nat]]

OwnTypes ==
    /\ hardLimit \in Nat
    /\ project \in Project
    /\ operations \in [Events -> Operation]
    /\ FL!TypeOK
    /\ LocalTyped
    /\ scenario \in Scenarios

LEMMA TypesOfAll == TypeOK <=> OP!TypeOK /\ OwnTypes
  BY Zenon DEF TypeOK, OwnTypes, LocalTyped, OB!TypeOK, OB!Row, OB!Local, OB!Statement,
               OP!TypeOK, OP!Row, OP!Local, OP!Statement

LEMMA GotoType ==
    ASSUME LocalTyped, NEW w \in Workers, NEW step \in Steps, Goto(w, step)
    PROVE  LocalTyped'
<1>1. [local[w] EXCEPT !.step = step] \in [step : Steps, seen : Project, quota : Nat]
  BY DEF LocalTyped
<1> QED
  BY <1>1 DEF LocalTyped, Goto

LEMMA ReturnsType ==
    ASSUME LocalTyped, NEW w \in Workers, local' = [local EXCEPT ![w] = Resting]
    PROVE  LocalTyped'
  BY DEF LocalTyped, Resting, NewProject, Project, Steps

LEMMA WriteStateType ==
    ASSUME OwnTypes, NEW w \in Workers, Event(w) \in Events, NEW op \in Operation,
           NEW observed \in {"pending", "unknown"}, NEW prov \in {"provisioning", "failed"},
           WriteState(w, observed, prov, op)
    PROVE  /\ project' \in Project
           /\ project'.prov = prov
           /\ project'.applied = project.applied
           /\ operations' \in [Events -> Operation]
           /\ operations'[Event(w)] = op
           /\ \A e \in Events : e # Event(w) => operations'[e] = operations[e]
  BY DEF OwnTypes, WriteState, Project

\* Where the runner of event e is about to work, its event is one of Events.
LEMMA EventType ==
    ASSUME OP!Inv, NEW w \in Workers, NEW step, At(w, step)
    PROVE  Event(w) \in Events
  BY Zenon DEF At, Event, OP!Inv, OP!ClaimsCounted

LEMMA OwnTypesStep ==
    ASSUME OP!Inv, OwnTypes, Step \/ UNCHANGED <<vars, scenario>>
    PROVE  OwnTypes'
<1> USE DEF OwnTypes
<1>0. scenario' = scenario /\ \A w \in scenario.replicas : w \in Workers
  BY ScenarioType DEF Step
<1>1. ASSUME NEW e \in Events, NEW q \in Quotas, SetQuota(e, q)
      PROVE  OwnTypes'
  BY <1>0, <1>1, IsolationAssumption
     DEF SetQuota, Queued, Operation, FL!TypeOK, LocalTyped
<1>2. ASSUME NEW w \in Workers, NEW e \in Events, Begin(w, e)
      PROVE  OwnTypes'
  BY <1>0, <1>2, GotoType DEF Begin, Steps, FL!TypeOK
<1>3. ASSUME NEW w \in Workers, LoadProject(w)
      PROVE  OwnTypes'
  <2>1. local' = [local EXCEPT ![w] = [local[w] EXCEPT !.seen = project, !.step = "quota"]]
    BY <1>3 DEF LoadProject, LocalTyped
  <2>2. [local[w] EXCEPT !.seen = project, !.step = "quota"]
          \in [step : Steps, seen : Project, quota : Nat]
    BY DEF LocalTyped, Steps
  <2> HIDE DEF Project
  <2>3. LocalTyped'
    BY <2>1, <2>2 DEF LocalTyped
  <2> QED
    BY <1>0, <1>3, <2>3 DEF LoadProject, FL!TypeOK
<1>4. ASSUME NEW w \in Workers, LoadQuota(w)
      PROVE  OwnTypes'
  <2>1. LocalTyped'
    BY <1>4 DEF LoadQuota, LocalTyped, Steps, NewProject, Project
  <2> QED
    BY <1>0, <1>4, <2>1 DEF LoadQuota, FL!TypeOK
<1>5. ASSUME NEW w \in Workers, StartSharedIsolation(w)
      PROVE  OwnTypes'
  <2>1. Event(w) \in Events /\ [status |-> "running", retryable |-> TRUE] \in Operation
    BY <1>5, EventType DEF StartSharedIsolation, Operation
  <2>2. project' \in Project /\ operations' \in [Events -> Operation]
    BY <1>5, <2>1, WriteStateType DEF StartSharedIsolation
  <2> QED
    BY <1>0, <1>5, <2>2, GotoType DEF StartSharedIsolation, Steps, FL!TypeOK
<1>6. ASSUME NEW w \in Workers, CompleteSharedIsolation(w)
      PROVE  OwnTypes'
  <2>1. Event(w) \in Events
    BY <1>6, EventType DEF CompleteSharedIsolation
  <2>2. project' \in Project /\ operations' \in [Events -> Operation]
    BY <1>6, <2>1 DEF CompleteSharedIsolation, Project, Operation, LocalTyped
  <2> QED
    BY <1>0, <1>6, <2>2, ReturnsType DEF CompleteSharedIsolation, Returns, FL!TypeOK
<1>7. ASSUME NEW w \in Workers, FailSharedIsolation(w)
      PROVE  OwnTypes'
  <2>1. Event(w) \in Events /\ [status |-> "failed", retryable |-> ~OB!Terminal(w)] \in Operation
    BY <1>7, EventType DEF FailSharedIsolation, Operation
  <2>2. project' \in Project /\ operations' \in [Events -> Operation]
    BY <1>7, <2>1, WriteStateType DEF FailSharedIsolation
  <2> QED
    BY <1>0, <1>7, <2>2, ReturnsType DEF FailSharedIsolation, Returns, FL!TypeOK
<1>8. ASSUME NEW w \in Workers, FailAfterDeadline(w) \/ StatementFails(w) \/ Crash(w)
      PROVE  OwnTypes'
  BY <1>0, <1>8, ReturnsType
     DEF FailAfterDeadline, StatementFails, Crash, Returns, Others, FL!TypeOK
<1>9. ASSUME NEW w \in Workers, Patch(w)
      PROVE  OwnTypes'
  BY <1>0, <1>9, GotoType DEF Patch, Steps, FL!TypeOK, FL!Accept, Work, LocalTyped
<1>10. ASSUME NEW w \in Workers, PatchRefused(w) \/ PollFails(w) \/ Poll(w)
       PROVE  OwnTypes'
  <2>1. PICK step \in Steps : Goto(w, step)
    BY <1>10 DEF PatchRefused, PollFails, Poll, FL!Verdict, FL!TypeOK, Steps
  <2> QED
    BY <1>0, <1>10, <2>1, GotoType DEF PatchRefused, PollFails, Poll, FL!TypeOK
<1>11. ASSUME NEW w \in Workers, PatchUnanswered(w)
       PROVE  OwnTypes'
  <2>1. PICK step \in Steps : Goto(w, step)
    BY <1>11 DEF PatchUnanswered, Steps
  <2> QED
    BY <1>0, <1>11, <2>1, GotoType DEF PatchUnanswered, FL!TypeOK, FL!Abandon, Work, LocalTyped
<1>12. ASSUME NEW q \in late, LatePatch(q)
       PROVE  OwnTypes'
  BY <1>0, <1>12 DEF LatePatch, FL!TypeOK, FL!AcceptLate, FL!Accept, LocalTyped
<1>13. CASE Agent
  BY <1>0, <1>13 DEF Agent, FL!TypeOK, FL!AgentApplies, FL!AgentDegrades, LocalTyped
<1>14. ASSUME (\E w \in Workers : Process(w)) \/ (\E e \in Events : Time(e)) \/ Unobserved
       PROVE  OwnTypes'
  BY <1>0, <1>14 DEF Process, Time, Unobserved, Others, FL!TypeOK, LocalTyped
<1>15. CASE UNCHANGED <<vars, scenario>>
  BY <1>15 DEF vars, FL!TypeOK, LocalTyped
<1> QED
  BY <1>0, <1>1, <1>2, <1>3, <1>4, <1>5, <1>6, <1>7, <1>8, <1>9, <1>10, <1>11, <1>12,
     <1>13, <1>14, <1>15 DEF Step, Next, Reconcile, Mishap
-----------------------------------------------------------------------------
(* Exclusive runners: what they may rely on *)

ClaimsHeld == Exclusive => OP!Held(scenario.replicas, scenario.stalls)

\* The operation of an event follows the latest reconcile of it.
Recorded ==
    Exclusive =>
        \A e \in Events :
            <<e, outbox[e].attempts>> \in reconciled => operations[e].status = "succeeded"

LEMMA OutboxInvStep ==
    ASSUME OP!Inv, OwnTypes, Step \/ UNCHANGED <<vars, scenario>>
    PROVE  OP!Inv'
<1>1. PICK R, stalls : R = scenario.replicas /\ stalls = scenario.stalls
  OBVIOUS
<1>2. R \in SUBSET Workers
  BY <1>1, ScenarioType DEF OwnTypes
<1>3. OP!NextOf(R, stalls) \/ UNCHANGED OP!outboxVars
  BY <1>1, OutboxSteps DEF OwnTypes
<1> QED
  BY <1>2, <1>3, OP!NextOfInv, RunnersAssumption

LEMMA ClaimsHeldStep ==
    ASSUME OP!Inv, OwnTypes, ClaimsHeld, Step \/ UNCHANGED <<vars, scenario>>
    PROVE  ClaimsHeld'
<1> SUFFICES ASSUME Exclusive
             PROVE  OP!Held(scenario.replicas, scenario.stalls)'
  BY DEF ClaimsHeld, Step, Exclusive, SingleReplica
<1>1. PICK R, stalls : R = scenario.replicas /\ stalls = scenario.stalls
  OBVIOUS
<1>2. /\ R \in SUBSET Workers /\ stalls \in BOOLEAN
      /\ stalls => \E w \in Workers : R = {w}
  BY <1>1, ScenarioType DEF OwnTypes, Exclusive, SingleReplica
<1>3. OP!NextOf(R, stalls) \/ UNCHANGED OP!outboxVars
  BY <1>1, OutboxSteps DEF OwnTypes
<1>4. OP!Held(R, stalls)
  BY <1>1 DEF ClaimsHeld
<1>5. OP!Held(R, stalls)'
  BY <1>2, <1>3, <1>4, OP!HeldStep, RunnersAssumption
<1>6. R = scenario'.replicas /\ stalls = scenario'.stalls
  BY <1>1 DEF Step
<1> QED
  BY <1>5, <1>6

\* A runner inside Reconcile works on the latest claim of an event that is not
\* settled, and that claim has no result yet.
LEMMA Working ==
    ASSUME OP!Inv, OwnTypes, ClaimsHeld, Exclusive, NEW w \in Workers, NEW step, At(w, step)
    PROVE  /\ Event(w) \in Events
           /\ w \in scenario.replicas
           /\ runner[w].gen = outbox[Event(w)].attempts
           /\ runner[w].gen >= 1
           /\ outbox[Event(w)].exists
           /\ ~OB!Settled(Event(w))
           /\ <<Event(w), runner[w].gen>> \notin reconciled
<1>1. runner[w].pc = "reconciling" /\ OP!Held(scenario.replicas, scenario.stalls)
  BY DEF At, ClaimsHeld
<1>2. Event(w) \in Events /\ runner[w].gen >= 1
  BY <1>1, Zenon DEF Event, OP!Inv, OP!ClaimsCounted
<1>3. /\ w \in scenario.replicas
      /\ outbox[Event(w)].holder = w /\ runner[w].gen = outbox[Event(w)].attempts
  BY <1>1 DEF Event, OP!Held, OP!HoldsClaim
<1>4. outbox[Event(w)].lease # "none"
  BY <1>2, <1>3, RunnersAssumption DEF OP!Inv, OP!RowsConsistent
<1>5. outbox[Event(w)].exists /\ ~OB!Settled(Event(w))
  BY <1>2, <1>4 DEF OP!Inv, OP!RowsConsistent, OP!Settled, OB!Settled
<1>6. <<Event(w), runner[w].gen>> \notin reconciled
  BY <1>1 DEF Event, OP!Inv, OP!ResultsRecorded
<1> QED
  BY <1>2, <1>3, <1>5, <1>6

\* Where the results and the operations stay as they are, Recorded does too.
LEMMA RecordedKept ==
    ASSUME OP!Inv, OwnTypes, Recorded, Step \/ UNCHANGED <<vars, scenario>>,
           reconciled' = reconciled, NEW e \in Events, Exclusive,
           operations'[e] = operations[e],
           <<e, outbox'[e].attempts>> \in reconciled'
    PROVE  operations'[e].status = "succeeded"
<1>1. PICK R, stalls : R = scenario.replicas /\ stalls = scenario.stalls
  OBVIOUS
<1>2. R \in SUBSET Workers
  BY <1>1, ScenarioType DEF OwnTypes
<1>3. OP!NextOf(R, stalls) \/ UNCHANGED OP!outboxVars
  BY <1>1, OutboxSteps DEF OwnTypes
<1>4. outbox'[e].attempts = outbox[e].attempts
  BY <1>2, <1>3, OP!RowStep, RunnersAssumption
<1> QED
  BY <1>4 DEF Recorded

LEMMA RecordedStep ==
    ASSUME OP!Inv, OwnTypes, ClaimsHeld, Recorded, Step \/ UNCHANGED <<vars, scenario>>
    PROVE  Recorded'
<1> SUFFICES ASSUME Exclusive, NEW e \in Events, <<e, outbox'[e].attempts>> \in reconciled'
             PROVE  operations'[e].status = "succeeded"
  BY DEF Recorded, Step, Exclusive, SingleReplica
<1>0. \A w \in scenario.replicas : w \in Workers
  BY ScenarioType DEF OwnTypes
<1>1. CASE UNCHANGED <<reconciled, operations>>
  BY <1>1, RecordedKept
<1>2. ASSUME NEW x \in Events, NEW q \in Quotas, SetQuota(x, q)
      PROVE  operations'[e].status = "succeeded"
  <2>1. reconciled' = reconciled /\ ~outbox[x].exists
        /\ outbox' = [outbox EXCEPT ![x] = OB!Inserted]
        /\ operations' = [operations EXCEPT ![x] = Queued]
    BY <1>2 DEF SetQuota, OB!Insert
  <2>2. CASE x # e
    BY <2>1, <2>2, RecordedKept DEF OwnTypes
  <2>3. CASE x = e
    <3>1. outbox'[e].attempts = 0
      BY <2>1, <2>3 DEF OP!Inv, OP!TypeOK, OB!Inserted, OB!NoRow
    <3>2. <<e, 0>> \notin reconciled
      BY DEF OP!Inv, OP!ClaimsCounted
    <3> QED
      BY <2>1, <3>1, <3>2
  <2> QED
    BY <2>2, <2>3
<1>3. ASSUME NEW w \in Workers, StartSharedIsolation(w)
      PROVE  operations'[e].status = "succeeded"
  <2>1. /\ reconciled' = reconciled /\ outbox' = outbox
        /\ Event(w) \in Events /\ <<Event(w), outbox[Event(w)].attempts>> \notin reconciled
    BY <1>3, Working DEF StartSharedIsolation, outboxVars
  <2>2. e # Event(w)
    BY <2>1
  <2>3. operations'[e] = operations[e]
    BY <1>3, <2>1, <2>2 DEF StartSharedIsolation, WriteState, OwnTypes
  <2> QED
    BY <2>1, <2>3, RecordedKept
<1>4. ASSUME NEW w \in Workers, FailSharedIsolation(w)
      PROVE  operations'[e].status = "succeeded"
  <2>1. /\ reconciled' = reconciled /\ outbox' = outbox
        /\ Event(w) \in Events /\ <<Event(w), outbox[Event(w)].attempts>> \notin reconciled
    BY <1>4, Working DEF FailSharedIsolation, Returns, OB!Return
  <2>2. e # Event(w)
    BY <2>1
  <2>3. operations'[e] = operations[e]
    BY <1>4, <2>1, <2>2 DEF FailSharedIsolation, WriteState, OwnTypes
  <2> QED
    BY <2>1, <2>3, RecordedKept
<1>5. ASSUME NEW w \in Workers, CompleteSharedIsolation(w)
      PROVE  operations'[e].status = "succeeded"
  <2>1. /\ reconciled' = reconciled \cup {<<Event(w), runner[w].gen>>} /\ outbox' = outbox
        /\ Event(w) \in Events
    BY <1>5, Working DEF CompleteSharedIsolation, Returns, OB!Return, Event
  <2>2. operations' = [operations EXCEPT ![Event(w)] =
                         [status |-> "succeeded", retryable |-> FALSE]]
    BY <1>5 DEF CompleteSharedIsolation
  <2>3. CASE e = Event(w)
    BY <2>1, <2>2, <2>3 DEF OwnTypes
  <2>4. CASE e # Event(w)
    BY <2>1, <2>2, <2>4 DEF OwnTypes, Recorded
  <2> QED
    BY <2>3, <2>4
<1>6. ASSUME NEW w \in Workers, FailAfterDeadline(w) \/ StatementFails(w)
      PROVE  UNCHANGED <<reconciled, operations>>
  BY <1>6 DEF FailAfterDeadline, StatementFails, Returns, OB!Return
<1>7. ASSUME NEW w \in Workers,
             \/ LoadProject(w) \/ LoadQuota(w) \/ Patch(w) \/ Poll(w)
             \/ PatchRefused(w) \/ PatchUnanswered(w) \/ PollFails(w)
      PROVE  UNCHANGED <<reconciled, operations>>
  BY <1>7 DEF LoadProject, LoadQuota, Patch, Poll, PatchRefused, PatchUnanswered, PollFails,
              outboxVars
<1>8. ASSUME NEW w \in Workers, (\E x \in Events : Begin(w, x)) \/ Process(w) \/ Crash(w)
      PROVE  UNCHANGED <<reconciled, operations>>
  BY <1>8 DEF Begin, OB!Claim, Process, OB!Mark, OB!MarkLost, Crash, OB!Crash, Others
<1>9. ASSUME \/ \E x \in Events : Time(x)
             \/ Unobserved \/ Agent \/ \E q \in late : LatePatch(q)
             \/ UNCHANGED <<vars, scenario>>
      PROVE  UNCHANGED <<reconciled, operations>>
  BY <1>9 DEF Time, OB!BackoffOver, OB!LeaseOver, OB!Stall, Unobserved, OB!ClaimLost,
              OB!LateMark, Others, Agent, LatePatch, vars, outboxVars
<1> QED
  BY <1>0, <1>1, <1>2, <1>3, <1>4, <1>5, <1>6, <1>7, <1>8, <1>9
     DEF Step, Next, Reconcile, Mishap
\* A settled event has no runner, so its operation is left alone.
LEMMA FinalStep ==
    ASSUME OP!Inv, OwnTypes, ClaimsHeld, Step \/ UNCHANGED <<vars, scenario>>,
           NEW e \in Events, Exclusive, OB!Settled(e)
    PROVE  operations'[e] = operations[e]
<1>0. \A w \in scenario.replicas : w \in Workers
  BY ScenarioType DEF OwnTypes
<1>1. ASSUME NEW x \in Events, NEW q \in Quotas, SetQuota(x, q)
      PROVE  operations'[e] = operations[e]
  <2>1. x # e
    BY <1>1 DEF SetQuota, OB!Insert, OB!Settled, OP!Inv, OP!RowsConsistent, OP!Settled
  <2> QED
    BY <1>1, <2>1 DEF SetQuota, OwnTypes
<1>2. ASSUME NEW w \in Workers,
             StartSharedIsolation(w) \/ CompleteSharedIsolation(w) \/ FailSharedIsolation(w)
      PROVE  operations'[e] = operations[e]
  <2>1. Event(w) # e
    BY <1>2, Working
       DEF StartSharedIsolation, CompleteSharedIsolation, FailSharedIsolation
  <2> QED
    BY <1>2, <2>1 DEF StartSharedIsolation, CompleteSharedIsolation, FailSharedIsolation,
                      WriteState, OwnTypes
<1>3. ASSUME NEW w \in Workers,
             \/ LoadProject(w) \/ LoadQuota(w) \/ Patch(w) \/ Poll(w)
             \/ FailAfterDeadline(w) \/ StatementFails(w)
             \/ PatchRefused(w) \/ PatchUnanswered(w) \/ PollFails(w)
             \/ (\E x \in Events : Begin(w, x)) \/ Process(w) \/ Crash(w)
      PROVE  operations' = operations
  BY <1>3 DEF LoadProject, LoadQuota, Patch, Poll, FailAfterDeadline, StatementFails,
              PatchRefused, PatchUnanswered, PollFails, Begin, Process, Crash, Others
<1>4. ASSUME \/ \E x \in Events : Time(x)
             \/ Unobserved \/ Agent \/ \E q \in late : LatePatch(q)
             \/ UNCHANGED <<vars, scenario>>
      PROVE  operations' = operations
  BY <1>4 DEF Time, Unobserved, Others, Agent, LatePatch, vars
<1> QED
  BY <1>0, <1>1, <1>2, <1>3, <1>4 DEF Step, Next, Reconcile, Mishap

-----------------------------------------------------------------------------
(* One replica: what the project shows and what its runner knows *)

\* The runner's snapshot is the row; a ManifestWork is only touched while the
\* project does not show `succeeded', and is then the one the runner built.
SingleRunner ==
    Alone =>
        /\ late = {}
        /\ project.prov = "succeeded" => hub.spec = project.applied
        /\ \A w \in scenario.replicas :
             /\ At(w, "quota") => local[w].seen = project
             /\ At(w, "patch") \/ At(w, "wait") => project.prov # "succeeded"
             /\ At(w, "wait") \/ At(w, "complete") => hub.spec = local[w].quota

LEMMA SingleRunnerStep ==
    ASSUME OP!Inv, OwnTypes, SingleRunner, Step \/ UNCHANGED <<vars, scenario>>
    PROVE  SingleRunner'
<1> SUFFICES ASSUME Alone
             PROVE  SingleRunner'
  BY DEF SingleRunner, Step, Alone, SingleReplica
<1>0. PICK u \in Workers : scenario.replicas = {u} /\ scenario'.replicas = {u}
  BY DEF Alone, SingleReplica, Step
<1> USE DEF OwnTypes
<1> DEFINE Old ==
             /\ late = {}
             /\ project.prov = "succeeded" => hub.spec = project.applied
             /\ At(u, "quota") => local[u].seen = project
             /\ At(u, "patch") \/ At(u, "wait") => project.prov # "succeeded"
             /\ At(u, "wait") \/ At(u, "complete") => hub.spec = local[u].quota
           New == Old'
<1>a. Old
  BY <1>0 DEF SingleRunner
<1>b. SUFFICES New
  BY <1>0 DEF SingleRunner
<1> USE <1>a
<1>1. ASSUME NEW e \in Events, NEW q \in Quotas, SetQuota(e, q)
      PROVE  New
  BY <1>1 DEF SetQuota, At
<1>2. ASSUME NEW e \in Events, Begin(u, e)
      PROVE  New
  BY <1>2 DEF Begin, Goto, At, LocalTyped
<1>3. CASE LoadProject(u)
  BY <1>3 DEF LoadProject, At, LocalTyped, outboxVars
<1>4. CASE LoadQuota(u)
  BY <1>4 DEF LoadQuota, Ready, At, LocalTyped, outboxVars
<1>5. CASE StartSharedIsolation(u)
  BY <1>5 DEF StartSharedIsolation, WriteState, Goto, At, LocalTyped, outboxVars, Project
<1>6. CASE CompleteSharedIsolation(u)
  BY <1>6 DEF CompleteSharedIsolation, Returns, Resting, At, LocalTyped
<1>7. CASE FailSharedIsolation(u)
  BY <1>7 DEF FailSharedIsolation, WriteState, Returns, Resting, At, LocalTyped, Project
<1>8. CASE FailAfterDeadline(u) \/ StatementFails(u) \/ Crash(u)
  <2>1. local' = [local EXCEPT ![u] = Resting] /\ UNCHANGED <<project, hub, late>>
    BY <1>8 DEF FailAfterDeadline, StatementFails, Crash, Returns, Others
  <2>2. local'[u].step = "idle"
    BY <2>1 DEF LocalTyped, Resting
  <2> QED
    BY <2>1, <2>2 DEF At
<1>9. CASE Patch(u)
  BY <1>9 DEF Patch, FL!Accept, FL!TypeOK, Work, Goto, At, LocalTyped, outboxVars
<1>10. CASE PatchRefused(u) \/ PollFails(u)
  BY <1>10 DEF PatchRefused, PollFails, Goto, At, LocalTyped, outboxVars
<1>11. CASE Poll(u)
  BY <1>11 DEF Poll, FL!Verdict, FL!TypeOK, Goto, At, LocalTyped, outboxVars
<1>12. ~PatchUnanswered(u)
  BY DEF PatchUnanswered, Alone
<1>13. CASE Agent
  BY <1>13 DEF Agent, FL!AgentApplies, FL!AgentDegrades, FL!TypeOK, At, outboxVars
<1>14. CASE Process(u)
  BY <1>14 DEF Process, OB!Mark, OB!MarkLost, OB!Idle, At, Others, OP!Inv, OP!TypeOK
<1>15. ASSUME (\E e \in Events : Time(e)) \/ Unobserved \/ UNCHANGED <<vars, scenario>>
       PROVE  New
  BY <1>15 DEF Time, OB!BackoffOver, OB!LeaseOver, OB!Stall, Unobserved, OB!ClaimLost,
               OB!LateMark, At, Others, vars, outboxVars
<1> QED
  BY <1>0, <1>1, <1>2, <1>3, <1>4, <1>5, <1>6, <1>7, <1>8, <1>9, <1>10, <1>11, <1>12,
     <1>13, <1>14, <1>15 DEF Step, Next, Reconcile, Mishap
-----------------------------------------------------------------------------
(* One replica: nothing is forgotten *)

\* No claim of e was tried yet; its latest claim has not succeeded.
Fresh(e) == outbox[e].exists /\ outbox[e].attempts = 0

Owed(e) == outbox[e].exists /\ <<e, outbox[e].attempts>> \notin reconciled

LEMMA FreshIsOwed ==
    ASSUME OP!Inv, NEW e \in Events, Fresh(e)
    PROVE  Owed(e)
  BY DEF Fresh, Owed, OP!Inv, OP!ClaimsCounted

\* A quota the runner loaded is the limit, or the event of a later update waits.
LoadedQuota ==
    Alone =>
        \A w \in scenario.replicas :
            (At(w, "start") \/ At(w, "patch") \/ At(w, "wait") \/ At(w, "complete"))
                => local[w].quota = hardLimit \/ \E e \in Events : Fresh(e)

\* A project that does not show the limit as applied is owed a reconcile.
NothingForgotten ==
    Alone => \/ project.prov = "succeeded" /\ project.applied = hardLimit
             \/ \E e \in Events : Owed(e)

LEMMA FreshKept ==
    ASSUME OP!Inv, OwnTypes, Step \/ UNCHANGED <<vars, scenario>>, NEW e \in Events, Fresh(e),
           \A w \in scenario.replicas : runner[w].pc # "idle"
    PROVE  Fresh(e)'
<1>1. PICK R, stalls : R = scenario.replicas /\ stalls = scenario.stalls
  OBVIOUS
<1>2. R \in SUBSET Workers
  BY <1>1, ScenarioType DEF OwnTypes
<1>3. OP!NextOf(R, stalls) \/ UNCHANGED OP!outboxVars
  BY <1>1, OutboxSteps DEF OwnTypes
<1>4. /\ outbox[e].exists => outbox'[e].exists
      /\ outbox'[e].attempts = outbox[e].attempts
  BY <1>1, <1>2, <1>3, OP!RowStep, RunnersAssumption
<1> QED
  BY <1>4 DEF Fresh

LEMMA OwedKept ==
    ASSUME OP!Inv, OwnTypes, Step \/ UNCHANGED <<vars, scenario>>, NEW e \in Events, Owed(e),
           reconciled' = reconciled
    PROVE  Owed(e)'
<1>1. PICK R, stalls : R = scenario.replicas /\ stalls = scenario.stalls
  OBVIOUS
<1>2. R \in SUBSET Workers
  BY <1>1, ScenarioType DEF OwnTypes
<1>3. OP!NextOf(R, stalls) \/ UNCHANGED OP!outboxVars
  BY <1>1, OutboxSteps DEF OwnTypes
<1>4. /\ outbox[e].exists => outbox'[e].exists
      /\ \/ outbox'[e].attempts = outbox[e].attempts
         \/ <<e, outbox'[e].attempts>> \notin reconciled
  BY <1>2, <1>3, OP!RowStep, RunnersAssumption
<1> QED
  BY <1>4 DEF Owed

LEMMA UpdateIsFresh ==
    ASSUME OP!Inv, NEW e \in Events, NEW q \in Quotas, SetQuota(e, q)
    PROVE  Fresh(e)'
  BY DEF SetQuota, OB!Insert, OB!Inserted, OB!NoRow, Fresh, OP!Inv, OP!TypeOK

LEMMA LoadedQuotaStep ==
    ASSUME OP!Inv, OwnTypes, LoadedQuota, Step \/ UNCHANGED <<vars, scenario>>
    PROVE  LoadedQuota'
<1> SUFFICES ASSUME Alone
             PROVE  LoadedQuota'
  BY DEF LoadedQuota, Step, Alone, SingleReplica
<1>0. PICK u \in Workers : scenario.replicas = {u} /\ scenario'.replicas = {u}
  BY DEF Alone, SingleReplica, Step
<1> DEFINE Past == At(u, "start") \/ At(u, "patch") \/ At(u, "wait") \/ At(u, "complete")
           Good == local[u].quota = hardLimit \/ \E e \in Events : Fresh(e)
<1>a. Past => Good
  BY <1>0 DEF LoadedQuota
<1>b. SUFFICES Past' => Good'
  BY <1>0 DEF LoadedQuota
<1>1. ASSUME NEW e \in Events, NEW q \in Quotas, SetQuota(e, q)
      PROVE  Good'
  BY <1>1, UpdateIsFresh
<1>2. ASSUME Past, local'[u].quota = local[u].quota, hardLimit' = hardLimit
      PROVE  Good'
  <2>1. CASE local[u].quota = hardLimit
    BY <1>2, <2>1
  <2>2. ASSUME NEW e \in Events, Fresh(e)
        PROVE  Fresh(e)'
    BY <1>0, <1>2, <2>2, FreshKept DEF At
  <2> QED
    BY <1>2, <1>a, <2>1, <2>2
<1>3. CASE LoadQuota(u)
  BY <1>3 DEF LoadQuota, OwnTypes, LocalTyped
<1>4. CASE LoadProject(u) \/ \E e \in Events : Begin(u, e)
  BY <1>4 DEF LoadProject, Begin, Goto, At, OwnTypes, LocalTyped
<1>5. CASE StartSharedIsolation(u) \/ Patch(u) \/ Poll(u)
  <2>1. Past /\ hardLimit' = hardLimit
    BY <1>5 DEF StartSharedIsolation, Patch, Poll
  <2>2. local'[u].quota = local[u].quota
    BY <1>5 DEF StartSharedIsolation, Patch, Poll, Goto, OwnTypes, LocalTyped
  <2> QED
    BY <1>2, <2>1, <2>2
<1>6. CASE \/ CompleteSharedIsolation(u) \/ FailSharedIsolation(u) \/ FailAfterDeadline(u)
           \/ StatementFails(u) \/ Crash(u)
  <2>1. local' = [local EXCEPT ![u] = Resting]
    BY <1>6 DEF CompleteSharedIsolation, FailSharedIsolation, FailAfterDeadline,
                StatementFails, Crash, Returns
  <2>2. local'[u].step = "idle"
    BY <2>1 DEF OwnTypes, LocalTyped, Resting
  <2> QED
    BY <2>2 DEF At
<1>7. CASE PatchRefused(u) \/ PatchUnanswered(u) \/ PollFails(u)
  <2>1. local'[u].step \in {"fail", "expired"}
    BY <1>7 DEF PatchRefused, PatchUnanswered, PollFails, Goto, OwnTypes, LocalTyped
  <2> QED
    BY <2>1 DEF At
<1>8. CASE Process(u)
  BY <1>8 DEF Process, OB!Mark, OB!MarkLost, OB!Idle, At, OP!Inv, OP!TypeOK
<1>9. ASSUME \/ \E e \in Events : Time(e)
             \/ Unobserved \/ Agent \/ \E q \in late : LatePatch(q)
             \/ UNCHANGED <<vars, scenario>>
      PROVE  Past' => Good'
  <2>1. UNCHANGED <<hardLimit, local, runner>>
    BY <1>9 DEF Time, OB!BackoffOver, OB!LeaseOver, OB!Stall, Unobserved, OB!ClaimLost,
                OB!LateMark, Others, Agent, LatePatch, vars, outboxVars
  <2> QED
    BY <1>2, <2>1 DEF At
<1> QED
  BY <1>0, <1>1, <1>3, <1>4, <1>5, <1>6, <1>7, <1>8, <1>9 DEF Step, Next, Reconcile, Mishap

LEMMA NothingForgottenStep ==
    ASSUME OP!Inv, OwnTypes, ClaimsHeld, LoadedQuota, NothingForgotten,
           Step \/ UNCHANGED <<vars, scenario>>
    PROVE  NothingForgotten'
<1> SUFFICES ASSUME Alone
             PROVE  NothingForgotten'
  BY DEF NothingForgotten, Step, Alone, SingleReplica
<1>0. PICK u \in Workers : scenario.replicas = {u}
  BY DEF Alone, SingleReplica
<1>a. Exclusive
  BY DEF Alone, Exclusive
<1>1. CASE UNCHANGED <<project, hardLimit, reconciled>>
  BY <1>1, OwedKept DEF NothingForgotten
<1>2. ASSUME NEW e \in Events, NEW q \in Quotas, SetQuota(e, q)
      PROVE  NothingForgotten'
  <2>1. Fresh(e)' /\ reconciled' = reconciled
    BY <1>2, UpdateIsFresh DEF SetQuota
  <2>2. <<e, 0>> \notin reconciled
    BY DEF OP!Inv, OP!ClaimsCounted
  <2>3. Owed(e)'
    BY <2>1, <2>2 DEF Fresh, Owed
  <2> QED
    BY <2>3 DEF NothingForgotten
<1>3. CASE StartSharedIsolation(u) \/ FailSharedIsolation(u)
  <2>1. /\ Event(u) \in Events /\ Owed(Event(u))
        /\ UNCHANGED <<outbox, reconciled>>
    BY <1>3, <1>a, Working DEF StartSharedIsolation, FailSharedIsolation, Returns, OB!Return,
                               Owed, outboxVars
  <2>2. \E e \in Events : Owed(e)'
    BY <2>1, OwedKept
  <2> QED
    BY <2>2 DEF NothingForgotten
<1>4. CASE CompleteSharedIsolation(u)
  <2>1. /\ Event(u) \in Events /\ runner[u].gen = outbox[Event(u)].attempts
        /\ runner[u].gen >= 1
        /\ UNCHANGED <<outbox, hardLimit>>
        /\ reconciled' = reconciled \cup {<<Event(u), runner[u].gen>>}
    BY <1>4, <1>a, Working DEF CompleteSharedIsolation, Returns, OB!Return, Event
  <2>2. project'.prov = "succeeded" /\ project'.applied = local[u].quota
    BY <1>4 DEF CompleteSharedIsolation
  <2>3. CASE local[u].quota = hardLimit
    BY <2>1, <2>2, <2>3 DEF NothingForgotten
  <2>4. ASSUME NEW e \in Events, Fresh(e)
        PROVE  Owed(e)'
    <3>1. e # Event(u)
      BY <2>1, <2>4 DEF Fresh
    <3>2. Owed(e)
      BY <2>4, FreshIsOwed
    <3> QED
      BY <2>1, <3>1, <3>2 DEF Owed
  <2> QED
    BY <1>0, <1>4, <2>3, <2>4 DEF LoadedQuota, NothingForgotten, CompleteSharedIsolation
<1>5. ASSUME \/ LoadProject(u) \/ LoadQuota(u) \/ Patch(u) \/ Poll(u)
             \/ PatchRefused(u) \/ PatchUnanswered(u) \/ PollFails(u)
             \/ FailAfterDeadline(u) \/ StatementFails(u)
             \/ (\E e \in Events : Begin(u, e)) \/ Process(u) \/ Crash(u)
      PROVE  UNCHANGED <<project, hardLimit, reconciled>>
  BY <1>5 DEF LoadProject, LoadQuota, Patch, Poll, PatchRefused, PatchUnanswered, PollFails,
              FailAfterDeadline, StatementFails, Returns, OB!Return, Begin, OB!Claim,
              Process, OB!Mark, OB!MarkLost, Crash, OB!Crash, Others, outboxVars
<1>6. ASSUME \/ \E e \in Events : Time(e)
             \/ Unobserved \/ Agent \/ \E q \in late : LatePatch(q)
             \/ UNCHANGED <<vars, scenario>>
      PROVE  UNCHANGED <<project, hardLimit, reconciled>>
  BY <1>6 DEF Time, OB!BackoffOver, OB!LeaseOver, OB!Stall, Unobserved, OB!ClaimLost,
              OB!LateMark, Others, Agent, LatePatch, vars, outboxVars
<1> QED
  BY <1>0, <1>1, <1>2, <1>3, <1>4, <1>5, <1>6 DEF Step, Next, Reconcile, Mishap
-----------------------------------------------------------------------------
(* The invariant and the theorems *)

IInv ==
    /\ OP!Inv
    /\ OwnTypes
    /\ ClaimsHeld
    /\ Recorded
    /\ SingleRunner
    /\ LoadedQuota
    /\ NothingForgotten

LEMMA InitRunners == Init => OP!Inv /\ ClaimsHeld /\ Recorded /\ SingleRunner /\ LoadedQuota
<1> SUFFICES ASSUME Init
             PROVE  OP!Inv /\ ClaimsHeld /\ Recorded /\ SingleRunner /\ LoadedQuota
  OBVIOUS
<1>1. /\ \A w \in Workers : runner[w] = OP!Idle
      /\ sent = {} /\ reconciled = {} /\ faults = 0
      /\ \A w \in Workers : runner[w].pc = "idle" /\ runner[w].ev = NoEvent
  BY DEF Init, OB!Idle, OP!Idle
<1>2. /\ outbox \in [Events -> OP!Row]
      /\ \A e \in Events : /\ outbox[e].attempts = 0 /\ ~OP!Settled(e)
                           /\ outbox[e].lease = "none" /\ outbox[e].holder = NoWorker
                           /\ ~outbox[e].delivered /\ ~outbox[e].dead
  BY DEF Init, OB!Inserted, OB!NoRow, OP!Row, OP!Settled
<1>3. OP!TypeOK
  <2>1. runner \in [Workers -> OP!Local]
    BY DEF Init, OB!Idle, OP!Local
  <2> QED
    BY <1>1, <1>2, <2>1, RunnersAssumption DEF OP!TypeOK
<1>4. OP!RowsConsistent
  BY <1>2 DEF OP!RowsConsistent
<1>5. OP!ClaimsCounted /\ OP!ResultsRecorded
  BY <1>1 DEF OP!ClaimsCounted, OP!ResultsRecorded
<1>6. OP!ClaimsUnique
  BY <1>1, <1>2 DEF OP!ClaimsUnique, OP!ClaimsAreDistinct
<1>7. OP!BudgetKept
  BY <1>1, <1>2, RunnersAssumption DEF OP!BudgetKept, OP!LostClaim
<1>8. OP!DeliveredBySuccess /\ OP!DeadLetteredByExhaustion
  BY <1>2 DEF OP!DeliveredBySuccess, OP!DeadLetteredByExhaustion
<1>9. ClaimsHeld /\ Recorded
  BY <1>1 DEF ClaimsHeld, OP!Held, Recorded
<1>10. SingleRunner /\ LoadedQuota
  BY <1>1, ScenarioType
     DEF Init, SingleRunner, LoadedQuota, At, NewProject, FL!Init
<1> QED
  BY <1>3, <1>4, <1>5, <1>6, <1>7, <1>8, <1>9, <1>10 DEF OP!Inv

LEMMA InitInv == Init => IInv
<1> SUFFICES ASSUME Init
             PROVE  IInv
  OBVIOUS
<1>1. OwnTypes
  BY DEF Init, OwnTypes, NewProject, Project, Queued, NoOperation, Operation,
         FL!Init, FL!Absent, FL!TypeOK, LocalTyped, Resting, Steps
<1>2. NothingForgotten
  <2>1. 0 \in Events
    BY IsolationAssumption DEF Events
  <2>2. Owed(0)
    BY <2>1 DEF Init, Owed, OB!Inserted, OB!NoRow
  <2> QED
    BY <2>1, <2>2 DEF NothingForgotten
<1> QED
  BY <1>1, <1>2, InitRunners DEF IInv

LEMMA NextInv == IInv /\ (Step \/ UNCHANGED <<vars, scenario>>) => IInv'
  BY OutboxInvStep, OwnTypesStep, ClaimsHeldStep, RecordedStep, SingleRunnerStep,
     LoadedQuotaStep, NothingForgottenStep
     DEF IInv

LEMMA Invariance == Spec => []IInv
<1>1. Init => IInv
  BY InitInv
<1>2. IInv /\ [Next /\ UNCHANGED scenario]_<<vars, scenario>> => IInv'
  BY NextInv DEF Step
<1> QED
  BY <1>1, <1>2, PTL DEF Spec

\* The tables, the ManifestWork and what every runner holds keep their types.
THEOREM TypeCorrect == Spec => []TypeOK
<1>1. IInv => TypeOK
  BY TypesOfAll DEF IInv, OP!Inv
<1> QED
  BY <1>1, Invariance, PTL

\* With one replica a project that shows `succeeded' shows the quota that its
\* ManifestWork carries, whatever crashes, stalls and retries came between.
THEOREM SucceededIsTrue == Spec => []SucceededIsAccurate
<1>1. IInv => SucceededIsAccurate
  BY DEF IInv, SingleRunner, SucceededIsAccurate
<1> QED
  BY <1>1, Invariance, PTL

\* With one replica, once every event is delivered the project and the
\* ManifestWork are at the latest limit: no update is lost behind another.
THEOREM QuotaArrives == Spec => []QuotaConverged
<1>1. IInv => QuotaConverged
  <2> SUFFICES ASSUME IInv, Alone, AllDelivered
               PROVE  hub.spec = hardLimit /\ project.applied = hardLimit
    BY DEF QuotaConverged
  <2>1. \A e \in Events : ~Owed(e)
    BY DEF IInv, AllDelivered, Owed, OP!Inv, OP!DeliveredBySuccess
  <2> QED
    BY <2>1 DEF IInv, NothingForgotten, SingleRunner
<1> QED
  BY <1>1, Invariance, PTL

\* With any number of replicas, unless one takes over from a stalled one, the
\* operation of a delivered event has succeeded.
THEOREM DeliveredSucceeded == Spec => []DeliveredOperationSucceeded
<1>1. IInv => DeliveredOperationSucceeded
  BY DEF IInv, Recorded, DeliveredOperationSucceeded, OP!Inv, OP!DeliveredBySuccess
<1> QED
  BY <1>1, Invariance, PTL

\* ... and the operation of a settled event is never written again.
THEOREM SettledStays == Spec => SettledOperationIsFinal
<1>1. IInv /\ [Next /\ UNCHANGED scenario]_<<vars, scenario>> =>
        [\A e \in Events : Exclusive /\ OB!Settled(e) => operations'[e] = operations[e]]_vars
  BY FinalStep DEF IInv, Step, vars
<1> QED
  BY <1>1, Invariance, PTL DEF Spec, SettledOperationIsFinal

\* ... and, composed with these reconciles, the outbox keeps its promise to those
\* who publish a quota update: each step of the whole publishes an event, tries
\* one that is not settled, or settles it after a try, dead only after enough.
THEOREM EventsAreDelivered == Spec => [][OP!KeepsPromise]_<<vars, scenario>>
<1>1. ASSUME IInv, Step \/ UNCHANGED <<vars, scenario>>
      PROVE  OP!KeepsPromise
  <2>1. PICK R, stalls : R = scenario.replicas /\ stalls = scenario.stalls
    OBVIOUS
  <2>2. R \in SUBSET Workers
    BY <1>1, <2>1, ScenarioType DEF IInv, OwnTypes
  <2>3. OP!NextOf(R, stalls) \/ UNCHANGED OP!outboxVars
    BY <1>1, <2>1, OutboxSteps DEF IInv, OwnTypes
  <2> QED
    BY <1>1, <2>2, <2>3, OP!NextOfDelivers, RunnersAssumption DEF IInv
<1>2. IInv /\ [Next /\ UNCHANGED scenario]_<<vars, scenario>> =>
        [OP!KeepsPromise]_<<vars, scenario>>
  BY <1>1 DEF Step
<1> QED
  BY <1>2, Invariance, PTL DEF Spec

=============================================================================
