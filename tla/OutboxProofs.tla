---------------------------- MODULE OutboxProofs ----------------------------
(***************************************************************************)
(* The safety properties of Outbox for any number of runners, events,      *)
(* attempts and faults, and the safety part of the refinement of           *)
(* EventDelivery.                                                          *)
(***************************************************************************)
EXTENDS Outbox, TLAPS

-----------------------------------------------------------------------------
(* The inductive invariant *)

\* A row is leased exactly when it has a holder; a settled row is not leased;
\* a row under back-off is neither leased nor settled;
\* an event that was never published was never claimed.
RowsConsistent ==
    \A e \in Events :
        /\ outbox[e].lease = "none" <=> outbox[e].holder = NoWorker
        /\ Settled(e) => outbox[e].lease = "none"
        /\ (outbox[e].lease # "none" \/ Settled(e)) => outbox[e].due
        /\ ~outbox[e].exists => outbox[e].attempts = 0 /\ ~Settled(e)
                                /\ outbox[e].lease = "none"

\* A claim in anybody's hands is one the row has counted.
ClaimsCounted ==
    /\ \A w \in Workers :
         /\ runner[w].pc = "idle" => runner[w].ev = NoEvent
         /\ runner[w].pc # "idle" => /\ runner[w].ev \in Events
                                     /\ runner[w].gen >= 1
                                     /\ runner[w].gen <= outbox[runner[w].ev].attempts
    /\ \A s \in sent : s.gen >= 1 /\ s.gen <= outbox[s.ev].attempts
    /\ \A e \in Events, g \in Nat :
         <<e, g>> \in reconciled => g >= 1 /\ g <= outbox[e].attempts

\* A claim is in one place: with one runner, or in one statement on its way;
\* the claim that settled its event is spent.
ClaimsUnique ==
    /\ ClaimsAreDistinct
    /\ \A e \in Events : Settled(e) =>
         /\ \A w \in Workers :
              runner[w].ev = e => runner[w].gen # outbox[e].attempts
         /\ \A s \in sent : s.ev = e => s.gen # outbox[e].attempts
    /\ \A w \in Workers, s \in sent :
         runner[w].ev = s.ev => runner[w].gen # s.gen
    /\ \A s, t \in sent : (s # t /\ s.ev = t.ev) => s.gen # t.gen

\* What a runner or a late statement is about to write agrees with the result
\* of the reconcile it made under that claim.
ResultsRecorded ==
    /\ \A w \in Workers : runner[w].pc # "idle" =>
         (<<runner[w].ev, runner[w].gen>> \in reconciled
             <=> runner[w].pc = "marking" /\ runner[w].ok)
    /\ \A s \in sent :
         /\ s.kind = "deliver" <=> <<s.ev, s.gen>> \in reconciled
         /\ s.kind = "dead" => s.gen >= MaxAttempts
         /\ s.kind = "fail" => s.gen < MaxAttempts

\* The latest claim of e is lost: its lease ran out, or nobody works on it.
LostClaim(e) ==
    /\ outbox[e].lease # "none"
    /\ outbox[e].lease = "past" \/ \A w \in Workers : ~HoldsClaim(w, e)

\* RetryBudget, strengthened: a released row has attempts left, and a lost
\* claim has already been paid for by a fault.
BudgetKept ==
    \A e \in Events :
        /\ outbox[e].attempts <= MaxAttempts + faults
        /\ (outbox[e].lease = "none" /\ ~Settled(e)) => outbox[e].attempts < MaxAttempts
        /\ LostClaim(e) => outbox[e].attempts < MaxAttempts + faults

Inv ==
    /\ TypeOK
    /\ RowsConsistent
    /\ ClaimsCounted
    /\ ClaimsUnique
    /\ ResultsRecorded
    /\ BudgetKept
    /\ DeliveredBySuccess
    /\ DeadLetteredByExhaustion

-----------------------------------------------------------------------------
(* Every action preserves the invariant *)

\* The row Claim writes: the holder, a live lease, one more attempt.
LEMMA AttemptsColumn ==
    ASSUME NEW r \in Row, NEW n \in Nat
    PROVE  [r EXCEPT !.attempts = n] \in Row
  BY DEF Row

LEMMA ClaimedByType ==
    ASSUME NEW w \in Workers, NEW r \in Row
    PROVE  ClaimedBy(w, r) \in Row
<1> DEFINE q == [r EXCEPT !.holder = w, !.lease = "live"]
<1>1. q \in Row
  BY DEF Row
<1>2. r.attempts + 1 \in Nat /\ q.attempts = r.attempts
  BY DEF Row
<1>3. ClaimedBy(w, r) = [q EXCEPT !.attempts = q.attempts + 1]
  BY Zenon DEF ClaimedBy
<1> HIDE DEF q
<1> QED
  BY <1>1, <1>2, <1>3, AttemptsColumn

\* The row a mark writes, column by column.
LEMMA ReleasedRow ==
    ASSUME NEW r \in Row
    PROVE  /\ Released(r) \in Row
           /\ Released(r).lease = "none" /\ Released(r).holder = NoWorker
           /\ Released(r).exists = r.exists /\ Released(r).attempts = r.attempts
           /\ Released(r).delivered = r.delivered /\ Released(r).dead = r.dead
           /\ Released(r).due = r.due
  BY DEF Row, Released

LEMMA DeliveredRow ==
    ASSUME NEW r \in Row
    PROVE  LET q == [r EXCEPT !.delivered = TRUE] IN
           /\ q \in Row /\ q.lease = r.lease /\ q.holder = r.holder
           /\ q.exists = r.exists /\ q.attempts = r.attempts
           /\ q.delivered = TRUE /\ q.dead = r.dead /\ q.due = r.due
  BY DEF Row

LEMMA DeadRow ==
    ASSUME NEW r \in Row
    PROVE  LET q == [r EXCEPT !.dead = TRUE] IN
           /\ q \in Row /\ q.lease = r.lease /\ q.holder = r.holder
           /\ q.exists = r.exists /\ q.attempts = r.attempts
           /\ q.delivered = r.delivered /\ q.dead = TRUE /\ q.due = r.due
  BY DEF Row

LEMMA BackedOffRow ==
    ASSUME NEW r \in Row
    PROVE  LET q == [r EXCEPT !.due = FALSE] IN
           /\ q \in Row /\ q.lease = r.lease /\ q.holder = r.holder
           /\ q.exists = r.exists /\ q.attempts = r.attempts
           /\ q.delivered = r.delivered /\ q.dead = r.dead
  BY DEF Row

\* The effect of a mark statement: nothing when the claim is not owned any
\* more; otherwise the row is released and settled as the statement says.
LEMMA ExecuteEffect ==
    ASSUME TypeOK, NEW s \in Statement, Execute(s)
    PROVE  /\ outbox' \in [Events -> Row]
           /\ \A e \in Events : /\ outbox'[e].exists = outbox[e].exists
                               /\ outbox'[e].attempts = outbox[e].attempts
           /\ \A e \in Events : e # s.ev => outbox'[e] = outbox[e]
           /\ ~OwnsClaim(s) => outbox' = outbox
           /\ OwnsClaim(s) => /\ outbox'[s.ev].lease = "none"
                              /\ outbox'[s.ev].holder = NoWorker
                              /\ outbox'[s.ev].delivered <=> s.kind = "deliver"
                              /\ outbox'[s.ev].dead <=> s.kind = "dead"
                              /\ s.kind # "fail" => outbox'[s.ev].due = outbox[s.ev].due
<1>1. s.ev \in Events /\ outbox \in [Events -> Row] /\ outbox[s.ev] \in Row
  BY DEF TypeOK, Statement
<1>2. CASE ~OwnsClaim(s)
  BY <1>1, <1>2 DEF Execute
<1>3. CASE OwnsClaim(s)
  <2> DEFINE r == Released(outbox[s.ev])
  <2>1. /\ r \in Row /\ r.lease = "none" /\ r.holder = NoWorker
        /\ r.exists = outbox[s.ev].exists /\ r.attempts = outbox[s.ev].attempts
        /\ ~r.delivered /\ ~r.dead /\ r.due = outbox[s.ev].due
        /\ r = Released(outbox[s.ev])
    BY <1>1, <1>3, ReleasedRow DEF OwnsClaim
  <2> HIDE DEF r
  <2>2. \E q \in Row :
            /\ outbox' = [outbox EXCEPT ![s.ev] = q]
            /\ q.lease = "none" /\ q.holder = NoWorker
            /\ q.exists = r.exists /\ q.attempts = r.attempts
            /\ q.delivered <=> s.kind = "deliver"
            /\ q.dead <=> s.kind = "dead"
            /\ s.kind # "fail" => q.due = r.due
    <3>1. CASE s.kind = "deliver" /\ MarkDelivered(s)
      <4> DEFINE q == [r EXCEPT !.delivered = TRUE]
      <4>1. outbox' = [outbox EXCEPT ![s.ev] = q]
        BY Zenon, <2>1, <3>1 DEF MarkDelivered
      <4>2. /\ q \in Row /\ q.lease = "none" /\ q.holder = NoWorker
            /\ q.exists = r.exists /\ q.attempts = r.attempts
            /\ q.delivered <=> s.kind = "deliver"
            /\ q.dead <=> s.kind = "dead"
            /\ s.kind # "fail" => q.due = r.due
        BY <2>1, <3>1, DeliveredRow
      <4> HIDE DEF q
      <4> QED  BY <4>1, <4>2
    <3>2. CASE s.kind = "dead" /\ MarkDeadLettered(s)
      <4> DEFINE q == [r EXCEPT !.dead = TRUE]
      <4>1. outbox' = [outbox EXCEPT ![s.ev] = q]
        BY Zenon, <2>1, <3>2 DEF MarkDeadLettered
      <4>2. /\ q \in Row /\ q.lease = "none" /\ q.holder = NoWorker
            /\ q.exists = r.exists /\ q.attempts = r.attempts
            /\ q.delivered <=> s.kind = "deliver"
            /\ q.dead <=> s.kind = "dead"
            /\ s.kind # "fail" => q.due = r.due
        BY <2>1, <3>2, DeadRow
      <4> HIDE DEF q
      <4> QED  BY <4>1, <4>2
    <3>3. CASE s.kind = "fail" /\ MarkFailed(s)
      <4> DEFINE q == [r EXCEPT !.due = FALSE]
      <4>1. outbox' = [outbox EXCEPT ![s.ev] = q]
        BY Zenon, <2>1, <3>3 DEF MarkFailed
      <4>2. /\ q \in Row /\ q.lease = "none" /\ q.holder = NoWorker
            /\ q.exists = r.exists /\ q.attempts = r.attempts
            /\ q.delivered <=> s.kind = "deliver"
            /\ q.dead <=> s.kind = "dead"
            /\ s.kind # "fail" => q.due = r.due
        BY <2>1, <3>3, BackedOffRow
      <4> HIDE DEF q
      <4> QED  BY <4>1, <4>2
    <3> QED
      BY <1>3, <3>1, <3>2, <3>3 DEF Execute
  <2> QED
    BY <1>1, <1>3, <2>1, <2>2
<1> QED
  BY <1>2, <1>3

LEMMA PublishPreserves ==
    ASSUME Inv, NEW e \in Events, Publish(e)
    PROVE  Inv'
<1> USE OutboxAssumption DEF Inv, TypeOK, Row, Local, Statement
<1>1. TypeOK'
  BY DEF Publish, Insert, Inserted, NoRow
<1>2. RowsConsistent'
  BY DEF RowsConsistent, Settled, Publish, Insert, Inserted, NoRow
<1>3. ClaimsCounted'
  BY
    DEF ClaimsCounted, Publish, Insert, Inserted, NoRow, RowsConsistent,
        Settled
<1>4. ClaimsUnique'
  BY
    DEF ClaimsUnique, ClaimsAreDistinct, Settled, Publish, Insert, Inserted,
        NoRow
<1>5. ResultsRecorded'
  BY DEF ResultsRecorded, Publish, Insert, Inserted, NoRow
<1>6. BudgetKept'
  BY
    DEF BudgetKept, LostClaim, HoldsClaim, Settled, Publish, Insert,
        Inserted, NoRow
<1>7. DeliveredBySuccess'
  BY DEF DeliveredBySuccess, Publish, Insert, Inserted, NoRow
<1>8. DeadLetteredByExhaustion'
  BY DEF DeadLetteredByExhaustion, Publish, Insert, Inserted, NoRow
<1>9. QED
  BY <1>1, <1>2, <1>3, <1>4, <1>5, <1>6, <1>7, <1>8

LEMMA BackoffOverPreserves ==
    ASSUME Inv, NEW e \in Events, BackoffOver(e)
    PROVE  Inv'
<1> USE OutboxAssumption DEF Inv, TypeOK, Row, Local, Statement
<1>1. TypeOK'
  <2>1. [outbox[e] EXCEPT !.due = TRUE] \in Row
    OBVIOUS
  <2> QED
    BY <2>1 DEF BackoffOver, BackoffElapses
<1>2. RowsConsistent'
  BY DEF RowsConsistent, Settled, BackoffOver, BackoffElapses
<1>3. ClaimsCounted'
  BY DEF ClaimsCounted, BackoffOver, BackoffElapses
<1>4. ClaimsUnique'
  BY DEF ClaimsUnique, ClaimsAreDistinct, Settled, BackoffOver, BackoffElapses
<1>5. ResultsRecorded'
  BY DEF ResultsRecorded, BackoffOver, BackoffElapses
<1>6. BudgetKept'
  BY
    DEF BudgetKept, LostClaim, HoldsClaim, Settled, BackoffOver,
        BackoffElapses
<1>7. DeliveredBySuccess'
  BY DEF DeliveredBySuccess, BackoffOver, BackoffElapses
<1>8. DeadLetteredByExhaustion'
  BY DEF DeadLetteredByExhaustion, BackoffOver, BackoffElapses
<1>9. QED
  BY <1>1, <1>2, <1>3, <1>4, <1>5, <1>6, <1>7, <1>8

LEMMA LeaseOverPreserves ==
    ASSUME Inv, NEW e \in Events, LeaseOver(e)
    PROVE  Inv'
<1> USE OutboxAssumption DEF Inv, TypeOK, Row, Local, Statement
<1>1. TypeOK'
  BY DEF LeaseOver, AbandonedLeaseExpires, LeaseExpires
<1>2. RowsConsistent'
  BY
    DEF RowsConsistent, Settled, LeaseOver, AbandonedLeaseExpires,
        LeaseExpires
<1>3. ClaimsCounted'
  BY DEF ClaimsCounted, LeaseOver, AbandonedLeaseExpires, LeaseExpires
<1>4. ClaimsUnique'
  BY
    DEF ClaimsUnique, ClaimsAreDistinct, Settled, LeaseOver,
        AbandonedLeaseExpires, LeaseExpires
<1>5. ResultsRecorded'
  BY DEF ResultsRecorded, LeaseOver, AbandonedLeaseExpires, LeaseExpires
<1>6. BudgetKept'
  BY
    DEF BudgetKept, LostClaim, HoldsClaim, Settled, LeaseOver,
        AbandonedLeaseExpires, LeaseExpires
<1>7. DeliveredBySuccess'
  BY DEF DeliveredBySuccess, LeaseOver, AbandonedLeaseExpires, LeaseExpires
<1>8. DeadLetteredByExhaustion'
  BY
    DEF DeadLetteredByExhaustion, LeaseOver, AbandonedLeaseExpires,
        LeaseExpires
<1>9. QED
  BY <1>1, <1>2, <1>3, <1>4, <1>5, <1>6, <1>7, <1>8

LEMMA StallPreserves ==
    ASSUME Inv, NEW e \in Events, Stall(e)
    PROVE  Inv'
<1> USE OutboxAssumption DEF Inv, TypeOK, Row, Local, Statement
<1>1. TypeOK'
  BY DEF Stall, StalledPastLease, LeaseExpires
<1>2. RowsConsistent'
  BY DEF RowsConsistent, Settled, Stall, StalledPastLease, LeaseExpires
<1>3. ClaimsCounted'
  BY DEF ClaimsCounted, Stall, StalledPastLease, LeaseExpires
<1>4. ClaimsUnique'
  BY
    DEF ClaimsUnique, ClaimsAreDistinct, Settled, Stall, StalledPastLease,
        LeaseExpires
<1>5. ResultsRecorded'
  BY DEF ResultsRecorded, Stall, StalledPastLease, LeaseExpires
<1>6. BudgetKept'
  BY
    DEF BudgetKept, LostClaim, HoldsClaim, Settled, Stall, StalledPastLease,
        LeaseExpires
<1>7. DeliveredBySuccess'
  BY DEF DeliveredBySuccess, Stall, StalledPastLease, LeaseExpires
<1>8. DeadLetteredByExhaustion'
  BY DEF DeadLetteredByExhaustion, Stall, StalledPastLease, LeaseExpires
<1>9. QED
  BY <1>1, <1>2, <1>3, <1>4, <1>5, <1>6, <1>7, <1>8

LEMMA ClaimPreserves ==
    ASSUME Inv, NEW w \in Workers, NEW e \in Events, Claim(w, e)
    PROVE  Inv'
<1> USE OutboxAssumption DEF Inv, TypeOK, Row, Local, Statement
<1>1. TypeOK'
  BY ClaimedByType DEF Claim
<1>2. RowsConsistent'
  BY DEF RowsConsistent, Settled, Claim, Claimable, ClaimedBy
<1>3. ClaimsCounted'
  BY DEF ClaimsCounted, Claim, Claimable, ClaimedBy
<1>4. ClaimsUnique'
  BY
    DEF ClaimsUnique, ClaimsAreDistinct, Settled, Claim, Claimable,
        ClaimedBy, ClaimsCounted
<1>5. ResultsRecorded'
  BY DEF ResultsRecorded, Claim, Claimable, ClaimedBy, ClaimsCounted
<1>6. BudgetKept'
  BY
    DEF BudgetKept, LostClaim, HoldsClaim, Settled, Claim, Claimable,
        ClaimedBy
<1>7. DeliveredBySuccess'
  BY DEF DeliveredBySuccess, Claim, Claimable, ClaimedBy
<1>8. DeadLetteredByExhaustion'
  BY DEF DeadLetteredByExhaustion, Claim, Claimable, ClaimedBy
<1>9. QED
  BY <1>1, <1>2, <1>3, <1>4, <1>5, <1>6, <1>7, <1>8

LEMMA ClaimLostPreserves ==
    ASSUME Inv, NEW w \in Workers, NEW e \in Events, ClaimLost(w, e)
    PROVE  Inv'
<1> USE OutboxAssumption DEF Inv, TypeOK, Row, Local, Statement
<1>1. TypeOK'
  BY ClaimedByType DEF ClaimLost
<1>2. RowsConsistent'
  BY DEF RowsConsistent, Settled, ClaimLost, Claimable, ClaimedBy
<1>3. ClaimsCounted'
  BY DEF ClaimsCounted, ClaimLost, Claimable, ClaimedBy
<1>4. ClaimsUnique'
  BY
    DEF ClaimsUnique, ClaimsAreDistinct, Settled, ClaimLost, Claimable,
        ClaimedBy
<1>5. ResultsRecorded'
  BY DEF ResultsRecorded, ClaimLost, Claimable, ClaimedBy
<1>6. BudgetKept'
  BY
    DEF BudgetKept, LostClaim, HoldsClaim, Settled, ClaimLost, Claimable,
        ClaimedBy
<1>7. DeliveredBySuccess'
  BY DEF DeliveredBySuccess, ClaimLost, Claimable, ClaimedBy
<1>8. DeadLetteredByExhaustion'
  BY DEF DeadLetteredByExhaustion, ClaimLost, Claimable, ClaimedBy
<1>9. QED
  BY <1>1, <1>2, <1>3, <1>4, <1>5, <1>6, <1>7, <1>8

\* A step of runner w's reconcile: it returns, or meets a fault, or both.
Proceeds(w) ==
    /\ (\E ok \in BOOLEAN : Return(w, ok)) \/ UNCHANGED <<runner, reconciled>>
    /\ faults' \in {faults, faults + 1} /\ faults' <= MaxFaults
    /\ UNCHANGED <<outbox, sent>>

LEMMA ReturnPreserves ==
    ASSUME Inv, NEW w \in Workers, Proceeds(w), NEW ok \in BOOLEAN, Return(w, ok)
    PROVE  Inv'
<1> USE OutboxAssumption DEF Inv, TypeOK, Row, Local, Statement
<1>b. /\ runner[w].pc = "reconciling" /\ UNCHANGED <<outbox, sent>>
      /\ faults \in Nat /\ faults' \in 0..MaxFaults /\ faults' >= faults
  <2>1. faults \in 0..MaxFaults
    BY DEF TypeOK
  <2>2. faults' \in {faults, faults + 1} /\ faults' <= MaxFaults
    BY Zenon DEF Proceeds
  <2>3. runner[w].pc = "reconciling" /\ UNCHANGED <<outbox, sent>>
    BY Zenon DEF Proceeds, Return
  <2> QED
    BY <2>1, <2>2, <2>3
<1> DEFINE busy == [runner[w] EXCEPT !.pc = "marking", !.ok = ok]
<1>c. /\ busy \in Local /\ busy.pc = "marking" /\ busy.ok = ok
      /\ busy.ev = runner[w].ev /\ busy.gen = runner[w].gen
  OBVIOUS
<1>d. runner' = [runner EXCEPT ![w] = busy]
  BY Zenon DEF Return
<1>e. reconciled' = IF ok THEN reconciled \cup {<<runner[w].ev, runner[w].gen>>}
                         ELSE reconciled
  BY DEF Return
<1> HIDE DEF busy
<1>1. TypeOK'
  BY <1>b, <1>c, <1>d, <1>e DEF ClaimsCounted
<1>2. RowsConsistent'
  BY <1>b, <1>c, <1>d, <1>e DEF RowsConsistent, Settled
<1>3. ClaimsCounted'
  BY <1>b, <1>c, <1>d, <1>e DEF ClaimsCounted
<1>4. ClaimsUnique'
  BY <1>b, <1>c, <1>d, <1>e DEF ClaimsUnique, ClaimsAreDistinct, Settled
<1>5. ResultsRecorded'
  BY <1>b, <1>c, <1>d, <1>e
    DEF ResultsRecorded, ClaimsCounted, ClaimsUnique, ClaimsAreDistinct
<1>6. BudgetKept'
  BY <1>b, <1>c, <1>d, <1>e DEF BudgetKept, LostClaim, HoldsClaim, Settled
<1>7. DeliveredBySuccess'
  BY <1>b, <1>c, <1>d, <1>e DEF DeliveredBySuccess
<1>8. DeadLetteredByExhaustion'
  BY <1>b, <1>c, <1>d, <1>e
    DEF DeadLetteredByExhaustion, ClaimsUnique, Settled
<1>9. QED
  BY <1>1, <1>2, <1>3, <1>4, <1>5, <1>6, <1>7, <1>8

LEMMA ReconcilePreserves ==
    ASSUME Inv, NEW w \in Workers, Proceeds(w)
    PROVE  Inv'
<1>1. CASE UNCHANGED <<runner, reconciled>>
  <2>1. /\ UNCHANGED <<outbox, runner, sent, reconciled>>
        /\ faults \in Nat /\ faults' \in 0..MaxFaults /\ faults' >= faults
    BY <1>1, OutboxAssumption DEF Proceeds, Inv, TypeOK
  <2>2. BudgetKept'
    BY <2>1, OutboxAssumption
       DEF Inv, TypeOK, Row, BudgetKept, LostClaim, HoldsClaim, Settled
  <2> QED
    BY <2>1, <2>2 DEF Inv, TypeOK, RowsConsistent, ClaimsCounted, ClaimsUnique,
       ClaimsAreDistinct, ResultsRecorded, Settled, DeliveredBySuccess,
       DeadLetteredByExhaustion
<1> QED
  BY <1>1, ReturnPreserves DEF Proceeds

LEMMA MarkPreserves ==
    ASSUME Inv, NEW w \in Workers, Mark(w)
    PROVE  Inv'
<1> USE OutboxAssumption DEF Inv, TypeOK, Row, Local, Statement
<1> DEFINE s == MarkOf(w)
<1>a. s \in Statement /\ Execute(s)
  BY DEF Mark, MarkOf, ClaimsCounted
<1>1. TypeOK'
  BY <1>a, ExecuteEffect DEF Mark, OwnsClaim, MarkOf, Idle
<1>2. RowsConsistent'
  BY <1>a, ExecuteEffect
    DEF RowsConsistent, Settled, Mark, OwnsClaim, MarkOf, Idle
<1>3. ClaimsCounted'
  BY <1>a, ExecuteEffect DEF ClaimsCounted, Mark, OwnsClaim, MarkOf, Idle
<1>4. ClaimsUnique'
  <2>1. /\ runner' = [runner EXCEPT ![w] = Idle] /\ UNCHANGED sent
        /\ runner[w].pc # "idle" /\ s.ev = runner[w].ev /\ s.gen = runner[w].gen
    BY DEF Mark, MarkOf
  <2>2. ClaimsAreDistinct'
    BY <2>1 DEF ClaimsUnique, ClaimsAreDistinct, ClaimsCounted, Idle
  <2>3. ASSUME NEW e \in Events, Settled(e)', ~Settled(e)
        PROVE  e = runner[w].ev /\ outbox'[e].attempts = runner[w].gen
    BY <1>a, <2>1, <2>3, ExecuteEffect DEF OwnsClaim, Settled
  <2>4. ASSUME NEW e \in Events, Settled(e)'
        PROVE  /\ \A v \in Workers :
                    runner'[v].ev = e => runner'[v].gen # outbox'[e].attempts
               /\ \A t \in sent : t.ev = e => t.gen # outbox'[e].attempts
    BY <1>a, <2>1, <2>3, <2>4, ExecuteEffect
       DEF ClaimsUnique, ClaimsAreDistinct, Idle
  <2> QED
    BY <2>1, <2>2, <2>4 DEF ClaimsUnique, Idle
<1>5. ResultsRecorded'
  BY <1>a, ExecuteEffect DEF ResultsRecorded, Mark, OwnsClaim, MarkOf, Idle
<1>6. BudgetKept'
  <2>1. /\ runner' = [runner EXCEPT ![w] = Idle] /\ UNCHANGED faults
        /\ runner[w].pc # "idle" /\ s.by = w /\ s.ev = runner[w].ev /\ s.gen = runner[w].gen
        /\ s.kind = "fail" => runner[w].gen < MaxAttempts
    BY DEF Mark, MarkOf, Terminal
  <2> SUFFICES ASSUME NEW e \in Events
               PROVE  /\ outbox'[e].attempts <= MaxAttempts + faults'
                      /\ (outbox'[e].lease = "none" /\ ~Settled(e)')
                            => outbox'[e].attempts < MaxAttempts
                      /\ LostClaim(e)' => outbox'[e].attempts < MaxAttempts + faults'
    BY DEF BudgetKept
  <2>2. CASE e = s.ev /\ OwnsClaim(s)
    <3>1. outbox'[e].lease = "none" /\ outbox'[e].attempts = s.gen
      BY <1>a, <2>2, ExecuteEffect DEF OwnsClaim
    <3>2. outbox'[e].attempts = outbox[e].attempts
      BY <1>a, ExecuteEffect
    <3>3. ~Settled(e)' => s.kind = "fail"
      BY <1>a, <2>2, ExecuteEffect DEF Settled
    <3> QED
      BY <2>1, <3>1, <3>2, <3>3 DEF BudgetKept, LostClaim
  <2>3. CASE ~(e = s.ev /\ OwnsClaim(s))
    <3>1. outbox'[e] = outbox[e]
      BY <1>a, <2>3, ExecuteEffect
    <3>2. ASSUME HoldsClaim(w, e), outbox[e].lease # "none"
          PROVE  outbox[e].lease = "past"
      BY <2>1, <2>3, <3>2 DEF HoldsClaim, OwnsClaim, RowsConsistent, Settled
    <3>3. LostClaim(e)' => LostClaim(e)
      BY <2>1, <3>1, <3>2 DEF LostClaim, HoldsClaim
    <3> QED
      BY <2>1, <3>1, <3>3 DEF BudgetKept, Settled
  <2> QED
    BY <2>2, <2>3
<1>7. DeliveredBySuccess'
  BY <1>a, ExecuteEffect
    DEF DeliveredBySuccess, Mark, OwnsClaim, MarkOf, Idle, ResultsRecorded,
        ClaimsCounted
<1>8. DeadLetteredByExhaustion'
  BY <1>a, ExecuteEffect
    DEF DeadLetteredByExhaustion, Mark, OwnsClaim, MarkOf, Idle,
        ResultsRecorded, Terminal, ClaimsCounted
<1>9. QED
  BY <1>1, <1>2, <1>3, <1>4, <1>5, <1>6, <1>7, <1>8

LEMMA MarkLostPreserves ==
    ASSUME Inv, NEW w \in Workers, MarkLost(w)
    PROVE  Inv'
<1> USE OutboxAssumption DEF Inv, TypeOK, Row, Local, Statement
<1>1. TypeOK'
  BY DEF MarkLost, Idle
<1>2. RowsConsistent'
  BY DEF RowsConsistent, Settled, MarkLost, Idle
<1>3. ClaimsCounted'
  BY DEF ClaimsCounted, MarkLost, Idle
<1>4. ClaimsUnique'
  BY
    DEF ClaimsUnique, ClaimsAreDistinct, Settled, MarkLost, Idle,
        ClaimsCounted
<1>5. ResultsRecorded'
  BY DEF ResultsRecorded, MarkLost, Idle
<1>6. BudgetKept'
  BY DEF BudgetKept, LostClaim, HoldsClaim, Settled, MarkLost, Idle
<1>7. DeliveredBySuccess'
  BY DEF DeliveredBySuccess, MarkLost, Idle
<1>8. DeadLetteredByExhaustion'
  BY DEF DeadLetteredByExhaustion, MarkLost, Idle
<1>9. QED
  BY <1>1, <1>2, <1>3, <1>4, <1>5, <1>6, <1>7, <1>8

LEMMA CrashPreserves ==
    ASSUME Inv, NEW w \in Workers, Crash(w)
    PROVE  Inv'
<1> USE OutboxAssumption DEF Inv, TypeOK, Row, Local, Statement
<1>1. TypeOK'
  BY DEF Crash, MarkOf, Terminal, Idle, ClaimsCounted
<1>2. RowsConsistent'
  BY DEF RowsConsistent, Settled, Crash, MarkOf, Terminal, Idle
<1>3. ClaimsCounted'
  BY DEF ClaimsCounted, Crash, MarkOf, Terminal, Idle
<1>4. ClaimsUnique'
  BY
    DEF ClaimsUnique, ClaimsAreDistinct, Settled, Crash, MarkOf, Terminal,
        Idle, ClaimsCounted
<1>5. ResultsRecorded'
  BY DEF ResultsRecorded, Crash, MarkOf, Terminal, Idle
<1>6. BudgetKept'
  BY
    DEF BudgetKept, LostClaim, HoldsClaim, Settled, Crash, MarkOf, Terminal,
        Idle
<1>7. DeliveredBySuccess'
  BY DEF DeliveredBySuccess, Crash, MarkOf, Terminal, Idle
<1>8. DeadLetteredByExhaustion'
  BY DEF DeadLetteredByExhaustion, Crash, MarkOf, Terminal, Idle
<1>9. QED
  BY <1>1, <1>2, <1>3, <1>4, <1>5, <1>6, <1>7, <1>8

LEMMA LateMarkPreserves ==
    ASSUME Inv, NEW s \in sent, LateMark(s)
    PROVE  Inv'
<1> USE OutboxAssumption DEF Inv, TypeOK, Row, Local, Statement
<1>a. s \in Statement /\ Execute(s)
  BY DEF LateMark
<1>1. TypeOK'
  BY <1>a, ExecuteEffect DEF LateMark, OwnsClaim
<1>2. RowsConsistent'
  BY <1>a, ExecuteEffect DEF RowsConsistent, Settled, LateMark, OwnsClaim
<1>3. ClaimsCounted'
  BY <1>a, ExecuteEffect DEF ClaimsCounted, LateMark, OwnsClaim
<1>4. ClaimsUnique'
  BY <1>a, ExecuteEffect
    DEF ClaimsUnique, ClaimsAreDistinct, Settled, LateMark, OwnsClaim
<1>5. ResultsRecorded'
  BY <1>a, ExecuteEffect DEF ResultsRecorded, LateMark, OwnsClaim
<1>6. BudgetKept'
  <2> SUFFICES ASSUME NEW e \in Events
               PROVE  /\ outbox'[e].attempts <= MaxAttempts + faults'
                      /\ (outbox'[e].lease = "none" /\ ~Settled(e)')
                            => outbox'[e].attempts < MaxAttempts
                      /\ LostClaim(e)' => outbox'[e].attempts < MaxAttempts + faults'
    BY DEF BudgetKept
  <2>1. UNCHANGED <<runner, faults>>
    BY DEF LateMark
  <2>2. CASE outbox'[e] = outbox[e]
    BY <2>1, <2>2 DEF BudgetKept, LostClaim, HoldsClaim, Settled
  <2>3. CASE outbox'[e] # outbox[e]
    <3>1. e = s.ev /\ OwnsClaim(s) /\ outbox'[e].lease = "none"
          /\ outbox'[e].attempts = outbox[e].attempts /\ outbox[e].attempts = s.gen
      BY <1>a, <2>3, ExecuteEffect DEF OwnsClaim
    <3>2. ~Settled(e)' => s.kind = "fail"
      BY <1>a, <3>1, ExecuteEffect DEF Settled
    <3> QED
      BY <2>1, <3>1, <3>2 DEF BudgetKept, ResultsRecorded, LostClaim
  <2> QED
    BY <2>2, <2>3
<1>7. DeliveredBySuccess'
  BY <1>a, ExecuteEffect
    DEF DeliveredBySuccess, LateMark, OwnsClaim, ResultsRecorded
<1>8. DeadLetteredByExhaustion'
  BY <1>a, ExecuteEffect
    DEF DeadLetteredByExhaustion, LateMark, OwnsClaim, ResultsRecorded
<1>9. QED
  BY <1>1, <1>2, <1>3, <1>4, <1>5, <1>6, <1>7, <1>8

-----------------------------------------------------------------------------
(* The invariant holds in every reachable state *)

LEMMA InitInv == OutboxInit => Inv
  BY OutboxAssumption
     DEF OutboxInit, Inv, TypeOK, Row, Local, Statement, NoRow, Idle, RowsConsistent,
         ClaimsCounted, ClaimsUnique, ClaimsAreDistinct, ResultsRecorded, BudgetKept,
         LostClaim, Settled, DeliveredBySuccess, DeadLetteredByExhaustion

LEMMA ReconcileProceeds ==
    ASSUME Inv, NEW w \in Workers, Reconcile(w)
    PROVE  Proceeds(w)
<1>1. faults' \in {faults, faults + 1} /\ faults' <= MaxFaults
  BY OutboxAssumption DEF Reconcile, Inv, TypeOK
<1>2. UNCHANGED <<outbox, sent>>
  BY DEF Reconcile
<1> QED
  BY <1>1, <1>2, Zenon DEF Reconcile, Proceeds

LEMMA NextInv == Inv /\ [Next]_outboxVars => Inv'
<1> SUFFICES ASSUME Inv, [Next]_outboxVars
             PROVE  Inv'
  OBVIOUS
<1>1. ASSUME NEW e \in Events, Publish(e) \/ BackoffOver(e) \/ LeaseOver(e) \/ Stall(e)
      PROVE  Inv'
  BY <1>1, PublishPreserves, BackoffOverPreserves, LeaseOverPreserves, StallPreserves
<1>2. ASSUME NEW w \in Workers, NEW e \in Events, Claim(w, e) \/ ClaimLost(w, e)
      PROVE  Inv'
  BY <1>2, ClaimPreserves, ClaimLostPreserves
<1>3. ASSUME NEW w \in Workers, Reconcile(w)
      PROVE  Inv'
  BY <1>3, ReconcileProceeds, ReconcilePreserves
<1>6. ASSUME NEW w \in Workers, Mark(w) \/ MarkLost(w) \/ Crash(w)
      PROVE  Inv'
  BY <1>6, MarkPreserves, MarkLostPreserves, CrashPreserves
<1>4. ASSUME NEW s \in sent, LateMark(s)
      PROVE  Inv'
  BY <1>4, LateMarkPreserves
<1>5. CASE UNCHANGED outboxVars
  BY <1>5 DEF outboxVars, Inv, TypeOK, RowsConsistent, ClaimsCounted, ClaimsUnique,
              ClaimsAreDistinct, ResultsRecorded, BudgetKept, LostClaim, HoldsClaim,
              Settled, DeliveredBySuccess, DeadLetteredByExhaustion
<1> QED
  BY <1>1, <1>2, <1>3, <1>4, <1>5, <1>6 DEF Next

LEMMA Invariance == SafeSpec => []Inv
<1>1. OutboxInit => Inv
  BY InitInv
<1>2. Inv /\ [Next]_outboxVars => Inv'
  BY NextInv
<1> QED
  BY <1>1, <1>2, PTL DEF SafeSpec

\* The tables, the runners and the statements in flight keep their types.
THEOREM TypeCorrect == SafeSpec => []TypeOK
  BY Invariance, PTL DEF Inv

\* MarkDelivered's fence works: delivered means the latest claim succeeded.
THEOREM DeliveryIsEarned == SafeSpec => []DeliveredBySuccess
  BY Invariance, PTL DEF Inv

\* MarkDeadLettered gives up only on an event whose attempts are used up.
THEOREM DeadLetterIsEarned == SafeSpec => []DeadLetteredByExhaustion
  BY Invariance, PTL DEF Inv

\* Two runners never hold the same claim.
THEOREM ClaimExclusion == SafeSpec => []ClaimsAreDistinct
<1>1. Inv => ClaimsAreDistinct
  BY DEF Inv, ClaimsUnique
<1> QED
  BY <1>1, Invariance, PTL

\* OCM_MAX_ATTEMPTS is exceeded by at most one claim per fault.
THEOREM RetriesBounded == SafeSpec => []RetryBudget
<1>1. Inv => RetryBudget
  BY DEF Inv, BudgetKept, RetryBudget
<1> QED
  BY <1>1, Invariance, PTL

-----------------------------------------------------------------------------
(* What a step may never do *)

\* No step touches the row of a settled event.
LEMMA SettledStep ==
    ASSUME Inv, [Next]_outboxVars, NEW e \in Events, Settled(e)
    PROVE  outbox'[e] = outbox[e]
<1> USE DEF Inv, TypeOK
<1>1. ASSUME NEW s \in Statement, Execute(s)
      PROVE  outbox'[e] = outbox[e]
  BY <1>1, ExecuteEffect DEF OwnsClaim, Settled
<1>2. ASSUME NEW x \in Events, Publish(x) \/ BackoffOver(x) \/ LeaseOver(x) \/ Stall(x)
      PROVE  outbox'[e] = outbox[e]
  BY <1>2 DEF RowsConsistent, Settled, Publish, Insert, BackoffOver, BackoffElapses,
              LeaseOver, AbandonedLeaseExpires, Stall, StalledPastLease, LeaseExpires
<1>3. ASSUME NEW w \in Workers, NEW x \in Events, Claim(w, x) \/ ClaimLost(w, x)
      PROVE  outbox'[e] = outbox[e]
  BY <1>3 DEF Claim, ClaimLost, Claimable, Settled
<1>4. ASSUME NEW w \in Workers, Mark(w)
      PROVE  outbox'[e] = outbox[e]
  <2>1. MarkOf(w) \in Statement /\ Execute(MarkOf(w))
    BY <1>4 DEF Mark, MarkOf, ClaimsCounted, Local, Statement
  <2> QED
    BY <1>1, <2>1
<1>5. ASSUME NEW w \in Workers, Reconcile(w) \/ MarkLost(w) \/ Crash(w)
      PROVE  outbox'[e] = outbox[e]
  BY <1>5 DEF Reconcile, MarkLost, Crash
<1>6. ASSUME NEW s \in sent, LateMark(s)
      PROVE  outbox'[e] = outbox[e]
  BY <1>1, <1>6 DEF LateMark
<1> QED
  BY <1>2, <1>3, <1>4, <1>5, <1>6 DEF Next, outboxVars

\* A delivered or dead-lettered event is final.
THEOREM SettledForGood == SafeSpec => SettledIsFinal
<1>1. Inv /\ [Next]_outboxVars =>
        [\A e \in Events : Settled(e) => outbox'[e] = outbox[e]]_outboxVars
  BY SettledStep
<1> QED
  BY <1>1, Invariance, PTL DEF SafeSpec, SettledIsFinal

\* While runner w goes on with a claim under a live lease, only a stall of its
\* own ends that lease.
LEMMA KeepStep ==
    ASSUME Inv, [Next]_outboxVars, NEW w \in Workers, NEW e \in Events,
           HoldsClaim(w, e), outbox[e].lease = "live", runner'[w].pc # "idle"
    PROVE  /\ outbox'[e].holder = w
           /\ outbox'[e].attempts = runner'[w].gen
           /\ outbox'[e].lease = "live" \/ faults' = faults + 1
<1> USE OutboxAssumption DEF Inv, TypeOK
<1> DEFINE Kept == outbox'[e] = outbox[e] /\ runner'[w].gen = runner[w].gen
<1>1. SUFFICES Kept \/ Stall(e)
  <2>1. CASE Kept
    BY <2>1 DEF HoldsClaim
  <2>2. CASE Stall(e)
    BY <2>2 DEF Stall, StalledPastLease, LeaseExpires, HoldsClaim, Row
  <2> QED
    BY <2>1, <2>2
<1>2. ASSUME NEW s \in Statement, Execute(s), s.by # w \/ s.ev # e \/ s.gen # runner[w].gen
      PROVE  outbox'[e] = outbox[e]
  BY <1>2, ExecuteEffect DEF OwnsClaim, HoldsClaim
<1>3. ASSUME NEW x \in Events, Publish(x) \/ BackoffOver(x) \/ LeaseOver(x) \/ Stall(x)
      PROVE  Kept \/ Stall(e)
  BY <1>3 DEF RowsConsistent, HoldsClaim, Publish, Insert, BackoffOver, BackoffElapses,
              LeaseOver, AbandonedLeaseExpires, Stall, StalledPastLease, LeaseExpires
<1>4. ASSUME NEW v \in Workers, NEW x \in Events, Claim(v, x) \/ ClaimLost(v, x)
      PROVE  Kept
  BY <1>4 DEF Claim, ClaimLost, Claimable, HoldsClaim
<1>5. ASSUME NEW v \in Workers, Mark(v)
      PROVE  Kept
  <2>1. v # w
    BY <1>5 DEF Mark, Idle
  <2>2. MarkOf(v) \in Statement /\ Execute(MarkOf(v)) /\ MarkOf(v).by = v
    BY <1>5 DEF Mark, MarkOf, ClaimsCounted, Local, Statement
  <2> QED
    BY <1>2, <1>5, <2>1, <2>2 DEF Mark
<1>6. ASSUME NEW v \in Workers, Reconcile(v)
      PROVE  Kept
  BY <1>6 DEF Reconcile, Return, Local
<1>7. ASSUME NEW v \in Workers, MarkLost(v) \/ Crash(v)
      PROVE  Kept
  BY <1>7 DEF MarkLost, Crash, Idle
<1>8. ASSUME NEW s \in sent, LateMark(s)
      PROVE  Kept
  BY <1>2, <1>8 DEF LateMark, ClaimsUnique, HoldsClaim
<1> QED
  BY <1>3, <1>4, <1>5, <1>6, <1>7, <1>8 DEF Next, outboxVars

\* No other claim and no mark of a dead process takes a runner's claim away.
THEOREM ClaimIsKept == SafeSpec => RunnerKeepsClaim
<1>1. Inv /\ [Next]_outboxVars =>
        [\A w \in Workers, e \in Events :
           (/\ HoldsClaim(w, e) /\ outbox[e].lease = "live"
            /\ runner'[w].pc # "idle")
              => /\ outbox'[e].holder = w
                 /\ outbox'[e].attempts = runner'[w].gen
                 /\ outbox'[e].lease = "live" \/ faults' = faults + 1]_outboxVars
  BY KeepStep
<1> QED
  BY <1>1, Invariance, PTL DEF SafeSpec, RunnerKeepsClaim

-----------------------------------------------------------------------------
(* What a module that says what a reconcile does may rely on *)

\* The steps of the outbox when the runners of R work, with stalls or without,
\* and what a reconcile does may meet a fault.
RunsOf(R, stalls) ==
    \/ \E e \in Events : BackoffOver(e) \/ LeaseOver(e) \/ (stalls /\ Stall(e))
    \/ \E w \in R, e \in Events : Claim(w, e) \/ ClaimLost(w, e)
    \/ \E w \in R : Proceeds(w) \/ Mark(w) \/ MarkLost(w) \/ Crash(w)
    \/ \E s \in sent : LateMark(s)

NextOf(R, stalls) == (\E e \in Events : Publish(e)) \/ RunsOf(R, stalls)

\* The runners that work are of R, on the latest claim of their event.
Held(R, stalls) ==
    \A w \in Workers : runner[w].pc # "idle" =>
        /\ w \in R
        /\ HoldsClaim(w, runner[w].ev)
        /\ stalls \/ outbox[runner[w].ev].lease = "live"

LEMMA NextOfCases ==
    ASSUME Inv, NEW R \in SUBSET Workers, NEW stalls, NextOf(R, stalls) \/ UNCHANGED outboxVars
    PROVE  [Next]_outboxVars \/ \E w \in R : Proceeds(w)
  BY DEF NextOf, RunsOf, Next

LEMMA NextOfInv ==
    ASSUME Inv, NEW R \in SUBSET Workers, NEW stalls, NextOf(R, stalls) \/ UNCHANGED outboxVars
    PROVE  Inv'
  BY NextOfCases, NextInv, ReconcilePreserves

\* Unless one of several runners stalls, a claim is held until it is given up.
LEMMA HeldStep ==
    ASSUME Inv, NEW R \in SUBSET Workers, NEW stalls \in BOOLEAN,
           stalls => \E w \in Workers : R = {w},
           Held(R, stalls), NextOf(R, stalls) \/ UNCHANGED outboxVars
    PROVE  Held(R, stalls)'
<1> USE DEF Inv, TypeOK
<1> SUFFICES ASSUME NEW w \in Workers, runner'[w].pc # "idle"
             PROVE  /\ w \in R
                    /\ HoldsClaim(w, runner[w].ev)'
                    /\ stalls \/ outbox'[runner'[w].ev].lease = "live"
  BY DEF Held
<1> DEFINE e == runner[w].ev
           Same == /\ runner'[w].pc # "idle" /\ runner[w].pc # "idle"
                   /\ runner'[w].ev = e /\ runner'[w].gen = runner[w].gen
           SameRow == /\ outbox'[e].holder = outbox[e].holder
                      /\ outbox'[e].attempts = outbox[e].attempts
                      /\ stalls \/ outbox'[e].lease = outbox[e].lease
<1>0. ASSUME Same, SameRow
      PROVE  /\ w \in R
             /\ HoldsClaim(w, runner[w].ev)'
             /\ stalls \/ outbox'[runner'[w].ev].lease = "live"
  BY <1>0 DEF Held, HoldsClaim
<1>1. ASSUME runner[w].pc # "idle"
      PROVE  /\ e \in Events /\ w \in R
             /\ outbox[e].holder = w /\ outbox[e].attempts = runner[w].gen
             /\ outbox[e].exists /\ outbox[e].lease # "none"
             /\ stalls \/ outbox[e].lease = "live"
  BY <1>1, OutboxAssumption DEF ClaimsCounted, Held, HoldsClaim, RowsConsistent, Local, Row
<1>2. ASSUME NEW x \in Events, Publish(x) \/ BackoffOver(x) \/ LeaseOver(x) \/ (stalls /\ Stall(x))
      PROVE  Same /\ SameRow
  <2>1. Same /\ runner' = runner
    BY <1>2 DEF Publish, BackoffOver, LeaseOver, Stall
  <2>2. e \in Events /\ outbox[e].exists /\ HoldsClaim(w, e)
    BY <1>1, <2>1 DEF HoldsClaim
  <2>3. CASE x # e
    BY <1>2, <2>2, <2>3 DEF Publish, Insert, BackoffOver, BackoffElapses, LeaseOver,
       AbandonedLeaseExpires, Stall, StalledPastLease, LeaseExpires
  <2>4. CASE x = e
    <3>1. ~Publish(x) /\ ~LeaseOver(x)
      BY <2>2, <2>4 DEF Publish, Insert, LeaseOver, AbandonedLeaseExpires
    <3>2. outbox[e] \in Row
      BY <2>2
    <3>3. CASE BackoffOver(x)
      BY <2>2, <2>4, <3>2, <3>3 DEF BackoffOver, BackoffElapses, Row
    <3>4. CASE stalls /\ Stall(x)
      BY <2>2, <2>4, <3>2, <3>4 DEF Stall, StalledPastLease, LeaseExpires, Row
    <3> QED
      BY <1>2, <3>1, <3>3, <3>4
  <2> QED
    BY <2>1, <2>3, <2>4
<1>3. ASSUME NEW v \in R, NEW x \in Events, Claim(v, x) \/ ClaimLost(v, x)
      PROVE  /\ w \in R
             /\ HoldsClaim(w, runner[w].ev)'
             /\ stalls \/ outbox'[runner'[w].ev].lease = "live"
  <2>1. /\ runner[v].pc = "idle" /\ Claimable(x)
        /\ outbox' = [outbox EXCEPT ![x] = ClaimedBy(v, outbox[x])]
    BY <1>3 DEF Claim, ClaimLost
  <2>2. CASE runner[w].pc # "idle"
    <3>1. v # w /\ ~stalls
      BY <1>1, <2>1, <2>2
    <3>2. x # e
      BY <1>1, <2>1, <2>2, <3>1 DEF Claimable
    <3>3. Same
      BY <1>3, <2>2, <3>1 DEF Claim, ClaimLost
    <3>4. SameRow
      BY <1>1, <2>1, <2>2, <3>2
    <3> QED
      BY <1>0, <3>3, <3>4
  <2>3. CASE runner[w].pc = "idle"
    <3>1. v = w /\ Claim(w, x)
      BY <1>3, <2>3 DEF Claim, ClaimLost
    <3>2. runner'[w] = [pc |-> "reconciling", ev |-> x, gen |-> outbox[x].attempts + 1, ok |-> FALSE]
      BY <3>1 DEF Claim
    <3>3. outbox'[x] = ClaimedBy(w, outbox[x]) /\ outbox[x] \in Row
      BY <2>1, <3>1
    <3>4. /\ outbox'[x].holder = w /\ outbox'[x].lease = "live"
          /\ outbox'[x].attempts = outbox[x].attempts + 1
      BY <3>3 DEF ClaimedBy, Row
    <3> QED
      BY <1>3, <3>1, <3>2, <3>4 DEF HoldsClaim
  <2> QED
    BY <2>2, <2>3
<1>4. ASSUME NEW v \in R, Proceeds(v)
      PROVE  Same /\ SameRow
  <2>1. /\ outbox' = outbox
        /\ \/ /\ runner[v].pc = "reconciling"
              /\ \E ok \in BOOLEAN :
                   runner' = [runner EXCEPT ![v].pc = "marking", ![v].ok = ok]
           \/ runner' = runner
    BY <1>4 DEF Proceeds, Return
  <2> QED
    BY <1>1, <2>1 DEF Local
<1>5. ASSUME NEW v \in R, Mark(v) \/ MarkLost(v) \/ Crash(v)
      PROVE  Same /\ SameRow
  <2>1. /\ runner' = [runner EXCEPT ![v] = Idle]
        /\ runner[v].pc # "idle"
    BY <1>5 DEF Mark, MarkLost, Crash
  <2>2. v # w /\ Same
    BY <2>1 DEF Idle
  <2>3. outbox[e].holder # v
    BY <1>1, <2>2
  <2>4. CASE Mark(v)
    <3>1. /\ MarkOf(v) \in Statement /\ Execute(MarkOf(v)) /\ MarkOf(v).by = v
      BY <2>4 DEF Mark, MarkOf, ClaimsCounted, Local, Statement
    <3>2. outbox'[e] = outbox[e]
      BY <1>1, <2>2, <2>3, <3>1, ExecuteEffect DEF OwnsClaim
    <3> QED
      BY <2>2, <3>2
  <2>5. CASE MarkLost(v) \/ Crash(v)
    BY <2>2, <2>5 DEF MarkLost, Crash
  <2> QED
    BY <1>5, <2>4, <2>5
<1>6. ASSUME NEW s \in sent, LateMark(s)
      PROVE  Same /\ SameRow
  <2>1. s \in Statement /\ Execute(s) /\ Same
    BY <1>6 DEF LateMark
  <2>2. ~(OwnsClaim(s) /\ s.ev = e)
    BY <1>1, <2>1 DEF ClaimsUnique, OwnsClaim
  <2>3. outbox'[e] = outbox[e]
    BY <1>1, <2>1, <2>2, ExecuteEffect
  <2> QED
    BY <2>1, <2>3
<1>7. CASE UNCHANGED outboxVars
  BY <1>0, <1>7 DEF outboxVars
<1> QED
  BY <1>0, <1>2, <1>3, <1>4, <1>5, <1>6, <1>7 DEF NextOf, RunsOf

\* An event stays published, and only a claim counts an attempt: the new claim
\* has no result yet.
LEMMA RowStep ==
    ASSUME Inv, NEW R \in SUBSET Workers, NEW stalls,
           NextOf(R, stalls) \/ UNCHANGED outboxVars, NEW e \in Events
    PROVE  /\ outbox[e].exists => outbox'[e].exists
           /\ \/ outbox'[e].attempts = outbox[e].attempts
              \/ /\ \E w \in R : runner[w].pc = "idle"
                 /\ reconciled' = reconciled
                 /\ <<e, outbox'[e].attempts>> \notin reconciled
<1> USE DEF Inv, TypeOK
<1> DEFINE Same == /\ outbox[e].exists => outbox'[e].exists
                   /\ outbox'[e].attempts = outbox[e].attempts
<1>1. ASSUME NEW x \in Events, Publish(x) \/ BackoffOver(x) \/ LeaseOver(x) \/ Stall(x)
      PROVE  Same
  <2>1. outbox[e] \in Row
    OBVIOUS
  <2>2. CASE x # e
    BY <1>1, <2>2 DEF Publish, Insert, BackoffOver, BackoffElapses, LeaseOver,
              AbandonedLeaseExpires, Stall, StalledPastLease, LeaseExpires
  <2>3. CASE x = e /\ Publish(x)
    BY <2>3 DEF RowsConsistent, Publish, Insert, Inserted, NoRow
  <2>4. CASE x = e /\ BackoffOver(x)
    BY <2>1, <2>4 DEF BackoffOver, BackoffElapses, Row
  <2>5. CASE x = e /\ (LeaseOver(x) \/ Stall(x))
    BY <2>1, <2>5 DEF LeaseOver, AbandonedLeaseExpires, Stall, StalledPastLease,
              LeaseExpires, Row
  <2> QED
    BY <1>1, <2>2, <2>3, <2>4, <2>5
<1>2. ASSUME NEW w \in R, NEW x \in Events, Claim(w, x) \/ ClaimLost(w, x)
      PROVE  \/ Same
             \/ /\ outbox[e].exists => outbox'[e].exists
                /\ runner[w].pc = "idle"
                /\ reconciled' = reconciled
                /\ <<e, outbox'[e].attempts>> \notin reconciled
  <2>1. /\ outbox' = [outbox EXCEPT ![x] = ClaimedBy(w, outbox[x])]
        /\ runner[w].pc = "idle" /\ reconciled' = reconciled
    BY <1>2 DEF Claim, ClaimLost
  <2>2. CASE x # e
    BY <2>1, <2>2
  <2>3. CASE x = e
    <3>1. outbox'[e] = ClaimedBy(w, outbox[e]) /\ outbox[e] \in Row
      BY <2>1, <2>3
    <3>2. /\ outbox'[e].exists = outbox[e].exists
          /\ outbox'[e].attempts = outbox[e].attempts + 1
          /\ outbox[e].attempts \in Nat
      BY <3>1 DEF ClaimedBy, Row
    <3>3. <<e, outbox[e].attempts + 1>> \notin reconciled
      BY <3>2 DEF ClaimsCounted
    <3> QED
      BY <2>1, <3>2, <3>3
  <2> QED
    BY <2>2, <2>3
<1>3. ASSUME NEW s \in Statement, Execute(s)
      PROVE  Same
  BY <1>3, ExecuteEffect
<1>4. ASSUME NEW w \in R, Mark(w)
      PROVE  Same
  <2>1. MarkOf(w) \in Statement /\ Execute(MarkOf(w))
    BY <1>4 DEF Mark, MarkOf, ClaimsCounted, Local, Statement
  <2> QED
    BY <1>3, <2>1
<1>5. ASSUME NEW w \in R, Proceeds(w) \/ MarkLost(w) \/ Crash(w)
      PROVE  Same
  BY <1>5 DEF Proceeds, MarkLost, Crash
<1>6. ASSUME NEW s \in sent, LateMark(s)
      PROVE  Same
  BY <1>3, <1>6 DEF LateMark
<1>7. CASE UNCHANGED outboxVars
  BY <1>7 DEF outboxVars
<1> QED
  BY <1>1, <1>2, <1>4, <1>5, <1>6, <1>7 DEF NextOf, RunsOf

\* Only a producer publishes an event.
LEMMA ExistsKept ==
    ASSUME Inv, NEW R \in SUBSET Workers, NEW stalls,
           RunsOf(R, stalls) \/ UNCHANGED outboxVars, NEW e \in Events
    PROVE  outbox'[e].exists = outbox[e].exists
<1> USE DEF Inv, TypeOK
<1> DEFINE Same == outbox'[e].exists = outbox[e].exists
<1>1. ASSUME NEW x \in Events, BackoffOver(x) \/ LeaseOver(x) \/ Stall(x)
      PROVE  Same
  <2>1. outbox[e] \in Row
    OBVIOUS
  <2>2. CASE x # e
    BY <1>1, <2>2 DEF BackoffOver, BackoffElapses, LeaseOver, AbandonedLeaseExpires, Stall,
              StalledPastLease, LeaseExpires
  <2>3. CASE x = e
    BY <1>1, <2>1, <2>3 DEF BackoffOver, BackoffElapses, LeaseOver, AbandonedLeaseExpires,
              Stall, StalledPastLease, LeaseExpires, Row
  <2> QED
    BY <2>2, <2>3
<1>2. ASSUME NEW w \in R, NEW x \in Events, Claim(w, x) \/ ClaimLost(w, x)
      PROVE  Same
  <2>1. outbox' = [outbox EXCEPT ![x] = ClaimedBy(w, outbox[x])] /\ outbox[x] \in Row
    BY <1>2 DEF Claim, ClaimLost
  <2>2. ClaimedBy(w, outbox[x]).exists = outbox[x].exists
    BY <2>1 DEF ClaimedBy, Row
  <2> QED
    BY <2>1, <2>2
<1>3. ASSUME NEW w \in R, Mark(w)
      PROVE  Same
  <2>1. MarkOf(w) \in Statement /\ Execute(MarkOf(w))
    BY <1>3 DEF Mark, MarkOf, ClaimsCounted, Local, Statement
  <2> QED
    BY <2>1, ExecuteEffect
<1>4. ASSUME NEW w \in R, Proceeds(w) \/ MarkLost(w) \/ Crash(w)
      PROVE  Same
  BY <1>4 DEF Proceeds, MarkLost, Crash
<1>5. ASSUME NEW s \in sent, LateMark(s)
      PROVE  Same
  BY <1>5, ExecuteEffect DEF LateMark
<1>6. CASE UNCHANGED outboxVars
  BY <1>6 DEF outboxVars
<1> QED
  BY <1>1, <1>2, <1>3, <1>4, <1>5, <1>6 DEF RunsOf

-----------------------------------------------------------------------------
(* The outbox implements EventDelivery (its safety part) *)

Fates == [e \in Events |-> Fate(e)]

Tries == [e \in Events |-> outbox[e].attempts]

LEMMA MapInit == OutboxInit => Delivery!Init
  BY DEF OutboxInit, NoRow, Fate, Delivery!Init

\* A claim has attempts left below the bound of EventDelivery.
LEMMA ClaimsHaveTries ==
    ASSUME Inv, NEW e \in Events, Claimable(e)
    PROVE  /\ Fate(e) = "pending"
           /\ outbox[e].attempts < MaxAttempts + faults
<1> USE OutboxAssumption DEF Inv, TypeOK, Row
<1>1. CASE outbox[e].lease = "none"
  BY <1>1 DEF Claimable, Fate, BudgetKept, Settled
<1>2. CASE outbox[e].lease = "past"
  BY <1>2 DEF Claimable, Fate, BudgetKept, LostClaim
<1> QED
  BY <1>1, <1>2 DEF Claimable

\* A mark is a delivery, a dead-lettering, or invisible.
LEMMA MapExecute ==
    ASSUME Inv, NEW s \in Statement, Execute(s), s.gen >= 1,
           s.kind = "dead" => s.gen >= MaxAttempts
    PROVE  Delivery!Next \/ UNCHANGED <<Fates, Tries>>
<1> USE DEF Inv, TypeOK
<1>1. s.ev \in Events /\ Tries' = Tries
  BY ExecuteEffect DEF Tries, Statement
<1>2. CASE ~OwnsClaim(s)
  BY <1>1, <1>2, ExecuteEffect DEF Fates, Fate
<1>3. CASE OwnsClaim(s)
  <2>1. /\ Fate(s.ev) = "pending" /\ outbox[s.ev].attempts = s.gen
        /\ Fate(s.ev)' = IF s.kind = "deliver" THEN "delivered"
                         ELSE IF s.kind = "dead" THEN "dead" ELSE "pending"
    BY <1>1, <1>3, ExecuteEffect DEF OwnsClaim, Fate
  <2>2. \A e \in Events : e # s.ev => Fate(e)' = Fate(e)
    BY ExecuteEffect DEF Fate
  <2>3. Fates' = [Fates EXCEPT ![s.ev] = Fate(s.ev)']
    BY <1>1, <2>2 DEF Fates
  <2>4. CASE s.kind = "deliver"
    <3>1. Delivery!Deliver(s.ev)
      BY <1>1, <2>1, <2>3, <2>4 DEF Delivery!Deliver, Fates, Tries, Statement
    <3> QED
      BY <1>1, <3>1 DEF Delivery!Next, Delivery!Progress
  <2>5. CASE s.kind = "dead"
    <3>1. Delivery!GiveUp(s.ev)
      BY <1>1, <2>1, <2>3, <2>5 DEF Delivery!GiveUp, Fates, Tries
    <3> QED
      BY <1>1, <3>1 DEF Delivery!Next, Delivery!Progress
  <2>6. CASE s.kind = "fail"
    <3>1. Fates' = Fates
      BY <2>1, <2>2, <2>6 DEF Fates
    <3> QED
      BY <1>1, <3>1
  <2> QED
    BY <2>4, <2>5, <2>6 DEF Statement
<1> QED
  BY <1>2, <1>3

\* A claim is a try.
LEMMA MapClaim ==
    ASSUME Inv, NEW w \in Workers, NEW e \in Events, Claimable(e), faults \in 0..MaxFaults,
           outbox' = [outbox EXCEPT ![e] = ClaimedBy(w, @)]
    PROVE  Delivery!Next
<1> USE OutboxAssumption DEF Inv, TypeOK
<1>1. Fates' = Fates
  BY DEF Fates, Fate, ClaimedBy, Row
<1>2. outbox'[e].attempts = outbox[e].attempts + 1
  BY DEF ClaimedBy, Row
<1>3. Tries' = [Tries EXCEPT ![e] = @ + 1]
  BY <1>2 DEF Tries
<1>4. Tries[e] < MaxAttempts + MaxFaults /\ Fates[e] = "pending"
  BY ClaimsHaveTries DEF Tries, Fates, Row
<1>5. Delivery!Try(e)
  BY <1>1, <1>3, <1>4 DEF Delivery!Try, Fates, Tries
<1> QED
  BY <1>5 DEF Delivery!Next, Delivery!Progress

LEMMA MapNext == Inv /\ [Next]_outboxVars => [Delivery!Next]_Delivery!vars
<1> SUFFICES ASSUME Inv, [Next]_outboxVars
             PROVE  Delivery!Next \/ UNCHANGED <<Fates, Tries>>
  BY DEF Delivery!vars, Fates, Tries
<1> USE DEF Inv, TypeOK
<1>1. ASSUME NEW e \in Events, Publish(e)
      PROVE  Delivery!Next
  <2>1. outbox' = [outbox EXCEPT ![e] = Inserted] /\ outbox[e].attempts = 0
    BY <1>1 DEF Publish, Insert, RowsConsistent
  <2>2. Tries' = Tries
    BY <2>1 DEF Tries, Inserted, NoRow
  <2>3. Fates' = [Fates EXCEPT ![e] = "pending"] /\ Fates[e] = "absent"
    BY <1>1, <2>1 DEF Fates, Fate, Inserted, NoRow, Publish, Insert
  <2>4. Delivery!Appear(e)
    BY <2>2, <2>3 DEF Delivery!Appear, Fates, Tries
  <2> QED
    BY <2>4 DEF Delivery!Next
<1>2. ASSUME NEW e \in Events, BackoffOver(e) \/ LeaseOver(e) \/ Stall(e)
      PROVE  UNCHANGED <<Fates, Tries>>
  BY <1>2 DEF Fates, Tries, Fate, Row, BackoffOver, BackoffElapses, LeaseOver,
              AbandonedLeaseExpires, Stall, StalledPastLease, LeaseExpires
<1>3. ASSUME NEW w \in Workers, NEW e \in Events, Claim(w, e) \/ ClaimLost(w, e)
      PROVE  Delivery!Next
  BY <1>3, MapClaim DEF Claim, ClaimLost
<1>4. ASSUME NEW w \in Workers, Mark(w)
      PROVE  Delivery!Next \/ UNCHANGED <<Fates, Tries>>
  <2>1. /\ MarkOf(w) \in Statement /\ Execute(MarkOf(w)) /\ MarkOf(w).gen >= 1
        /\ MarkOf(w).kind = "dead" => MarkOf(w).gen >= MaxAttempts
    BY <1>4 DEF Mark, MarkOf, Terminal, ClaimsCounted, Local, Statement
  <2> QED
    BY <2>1, MapExecute
<1>5. ASSUME NEW w \in Workers, Reconcile(w) \/ MarkLost(w) \/ Crash(w)
      PROVE  UNCHANGED <<Fates, Tries>>
  BY <1>5 DEF Reconcile, MarkLost, Crash, Fates, Tries, Fate
<1>6. ASSUME NEW s \in sent, LateMark(s)
      PROVE  Delivery!Next \/ UNCHANGED <<Fates, Tries>>
  BY <1>6, MapExecute DEF LateMark, ClaimsCounted, ResultsRecorded
<1>7. CASE UNCHANGED outboxVars
  BY <1>7 DEF outboxVars, Fates, Tries, Fate
<1> QED
  BY <1>1, <1>2, <1>3, <1>4, <1>5, <1>6, <1>7 DEF Next

\* The claim and mark protocol implements at-least-once delivery with bounded
\* retries: every step of the outbox is a step of EventDelivery or invisible.
THEOREM OutboxDelivers == SafeSpec => DeliverySafeSpec
<1>1. OutboxInit => Delivery!Init
  BY MapInit
<1>2. Inv /\ [Next]_outboxVars => [Delivery!Next]_Delivery!vars
  BY MapNext
<1> QED
  BY <1>1, <1>2, Invariance, PTL DEF SafeSpec, DeliverySafeSpec, Delivery!SafeSpec

\* What every module that says what a reconcile does keeps of the promise: each
\* of its steps publishes, tries or settles an event as EventDelivery allows.
KeepsPromise == [Delivery!Next]_Delivery!vars

LEMMA NextOfDelivers ==
    ASSUME Inv, NEW R \in SUBSET Workers, NEW stalls, NextOf(R, stalls) \/ UNCHANGED outboxVars
    PROVE  KeepsPromise
<1>1. CASE [Next]_outboxVars
  BY <1>1, MapNext DEF KeepsPromise
<1>2. ASSUME NEW w \in R, Proceeds(w)
      PROVE  KeepsPromise
  <2>1. outbox' = outbox
    BY <1>2 DEF Proceeds, Return
  <2>2. UNCHANGED <<Fates, Tries>>
    BY <2>1 DEF Fates, Fate, Tries
  <2> QED
    BY <2>2 DEF KeepsPromise, Delivery!vars, Fates, Tries
<1> QED
  BY <1>1, <1>2, NextOfCases

=============================================================================
