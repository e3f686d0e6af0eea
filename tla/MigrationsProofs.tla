-------------------------- MODULE MigrationsProofs --------------------------
(***************************************************************************)
(* The safety properties of Migrations for every number of jobs, versions  *)
(* and releases and every number of faults.  The inductive invariant says  *)
(* what a session may rely on while it holds the advisory lock, whether    *)
(* its process still lives or not: nobody else writes the history, so what *)
(* it found recorded stays, and what it looked up as missing is missing    *)
(* when it commits.                                                        *)
(***************************************************************************)
EXTENDS Migrations, TLAPS

Holding == {"table", "column", "loop", "apply", "record", "commit"}

Looping == {"loop", "apply", "record", "commit"}

\* Whoever is past the lock statement has the lock.
LockHeld == \A j \in Jobs : job[j].pc \in Holding => lock = j

\* What the transaction of a session has written before its next statement.
TxOfPc ==
    \A j \in Jobs :
        /\ job[j].pc = "record" => tx[j] = {"effect"}
        /\ job[j].pc = "commit" => tx[j] = {"effect", "row"}

\* The script a session applies is not in the history yet.
NextIsMissing ==
    \A j \in Jobs : \A v \in Versions :
        job[j].pc \in {"apply", "record", "commit"} /\ IsNext(j, v) => history[v] = NoRow

\* The scripts the loop has left behind are recorded as this image has them.
FoundApplied ==
    \A j \in Jobs :
        job[j].pc \in Looping =>
            /\ job[j].todo \subseteq DOMAIN job[j].image
            /\ \A u \in DOMAIN job[j].image \ job[j].todo : history[u] = Own(j, u)

\* Before its loop a job has not removed anything from its list, and one that
\* has not started is not lost.
AllToDo ==
    \A j \in Jobs :
        /\ job[j].pc \in {"lock", "table", "column"} => job[j].todo = DOMAIN job[j].image
        /\ job[j].pc = "absent" => ~job[j].lost
        /\ job[j].pc # "absent" => job[j].image \in Images

\* A job that is to return nil found everything applied and enforced.
DoneIsComplete ==
    \A j \in Jobs :
        job[j].pc = "succeeded" \/ (job[j].pc = "release" /\ job[j].error = "none") =>
            /\ table = "strict"
            /\ \A v \in Versions : history[v] # NoChecksum
            /\ \A u \in DOMAIN job[j].image : history[u] = Own(j, u)

IInv ==
    /\ TypeOK
    /\ LockHeld
    /\ TxOfPc
    /\ NextIsMissing
    /\ SchemaMatchesHistory
    /\ FoundApplied
    /\ AllToDo
    /\ DoneIsComplete
    /\ RefusalsAreDue

-----------------------------------------------------------------------------
(* Steps that leave history and schema alone *)

\* What IInv asks of the local state of one job, given the shared state.
Fits(j, me, l, t, tab, h) ==
    /\ me.pc \in Holding => l = j
    /\ me.pc = "record" => t = {"effect"}
    /\ me.pc = "commit" => t = {"effect", "row"}
    /\ me.pc \in {"apply", "record", "commit"} =>
         \A v \in Versions :
            v \in me.todo /\ (\A u \in me.todo : v <= u) => h[v] = NoRow
    /\ me.pc \in Looping =>
         /\ me.todo \subseteq DOMAIN me.image
         /\ \A u \in DOMAIN me.image \ me.todo : h[u] = Checksum(me.image[u])
    /\ me.pc \in {"lock", "table", "column"} => me.todo = DOMAIN me.image
    /\ me.pc = "absent" => ~me.lost
    /\ me.pc # "absent" => me.image \in Images
    /\ me.pc = "succeeded" \/ (me.pc = "release" /\ me.error = "none") =>
         /\ tab = "strict"
         /\ \A v \in Versions : h[v] # NoChecksum
         /\ \A u \in DOMAIN me.image : h[u] = Checksum(me.image[u])

\* What RefusalsAreDue asks of it.
Due(me) ==
    /\ me.error # "exists"
    /\ me.error = "drift" =>
          \E v \in DOMAIN me.image : schema[v] \notin {NoRow, me.image[v].sql}

\* The named conjuncts of IInv say of every job that it fits.
LEMMA AllFit ==
    ASSUME TypeOK
    PROVE  (LockHeld /\ TxOfPc /\ NextIsMissing /\ FoundApplied /\ AllToDo /\ DoneIsComplete)
             <=> \A j \in Jobs : Fits(j, job[j], lock, tx[j], table, history)
BY DEF LockHeld, TxOfPc, NextIsMissing, FoundApplied, AllToDo, DoneIsComplete, Fits, IsNext, Own

LEMMA AllFitNext ==
    ASSUME TypeOK'
    PROVE  (LockHeld /\ TxOfPc /\ NextIsMissing /\ FoundApplied /\ AllToDo /\ DoneIsComplete)'
             <=> \A j \in Jobs : Fits(j, job'[j], lock', tx'[j], table', history')
BY DEF LockHeld, TxOfPc, NextIsMissing, FoundApplied, AllToDo, DoneIsComplete, Fits, IsNext, Own

\* A step of one job that keeps history and schema keeps the invariant when the
\* job's new local state fits, and it takes the lock, the table's constraint or
\* a transaction from no other.
LEMMA LocalStep ==
    ASSUME IInv, NEW j \in Jobs, NEW me \in Local, NEW t \in SUBSET {"effect", "row"},
           job' = [job EXCEPT ![j] = me],
           tx' = [tx EXCEPT ![j] = t],
           lock' = lock \/ (lock = NoJob /\ lock' = j) \/ (lock = j /\ lock' = NoJob),
           table' \in {"absent", "bare", "nullable", "strict"},
           table = "strict" => table' = "strict",
           history' = history, schema' = schema, faults' \in 0..MaxFaults,
           Fits(j, me, lock', t, table', history), Due(me)
    PROVE  IInv'
<1>1. TypeOK'
  BY DEF IInv, TypeOK
<1>2. ASSUME NEW k \in Jobs PROVE Fits(k, job'[k], lock', tx'[k], table', history')
  <2>1. CASE k = j
    <3>1. job'[k] = me /\ tx'[k] = t
      BY <2>1 DEF IInv, TypeOK
    <3> QED
      BY <2>1, <3>1
  <2>2. CASE k # j
    <3>1. job'[k] = job[k] /\ tx'[k] = tx[k]
      BY <2>2 DEF IInv, TypeOK
    <3>2. Fits(k, job[k], lock, tx[k], table, history)
      BY AllFit DEF IInv
    <3>3. lock = k => lock' = k
      BY <2>2, MigrationsAssumption
    <3> QED
      BY <3>1, <3>2, <3>3 DEF Fits
  <2> QED
    BY <2>1, <2>2
<1>3. RefusalsAreDue'
  <2>1. ASSUME NEW k \in Jobs PROVE Due(job[k])
    BY DEF IInv, RefusalsAreDue, Due
  <2>2. ASSUME NEW k \in Jobs PROVE Due(job'[k])
    BY <2>1 DEF IInv, TypeOK
  <2> QED
    BY <2>2 DEF RefusalsAreDue, Due
<1>4. SchemaMatchesHistory'
  BY DEF IInv, SchemaMatchesHistory
<1> QED
  BY <1>1, <1>2, <1>3, <1>4, AllFitNext DEF IInv

-----------------------------------------------------------------------------
(* The steps one by one *)

LEMMA MyFacts ==
    ASSUME IInv, NEW j \in Jobs
    PROVE  /\ job[j] \in Local /\ tx[j] \in SUBSET {"effect", "row"}
           /\ Fits(j, job[j], lock, tx[j], table, history)
           /\ Due(job[j])
BY AllFit DEF IInv, TypeOK, RefusalsAreDue, Due

\* A job that comes to another position, with or without an error or a script
\* less to reach, is a job.
LEMMA MyMoves ==
    ASSUME IInv, NEW j \in Jobs,
           NEW pc \in Statements \cup {"absent", "release", "ending", "succeeded", "failed"}
    PROVE  /\ job \in [Jobs -> Local]
           /\ [job[j] EXCEPT !.pc = pc] \in Local
           /\ \A v : [job[j] EXCEPT !.todo = @ \ {v}, !.pc = pc] \in Local
           /\ \A why \in {"fault", "busy", "unreviewed", "drift"} :
                [job[j] EXCEPT !.pc = pc, !.error = why] \in Local
<1>1. job \in [Jobs -> Local] /\ job[j] \in Local
  BY DEF IInv, TypeOK
<1>2. [job[j] EXCEPT !.pc = pc] \in Local
  BY <1>1 DEF Local
<1>3. ASSUME NEW v PROVE [job[j] EXCEPT !.todo = @ \ {v}, !.pc = pc] \in Local
  <2>1. job[j].todo \ {v} \in SUBSET Versions
    BY <1>1 DEF Local
  <2> QED
    BY <1>1, <2>1 DEF Local
<1>4. ASSUME NEW why \in {"fault", "busy", "unreviewed", "drift"}
      PROVE  [job[j] EXCEPT !.pc = pc, !.error = why] \in Local
  BY <1>1 DEF Local
<1> QED
  BY <1>1, <1>2, <1>3, <1>4

\* Releases embed files for versions.
LEMMA ImageFacts ==
    ASSUME NEW i \in Images, NEW u \in DOMAIN i
    PROVE  u \in Versions /\ i[u] \in File
<1>1. PICK V \in SUBSET Versions : i \in [V -> File]
  BY MigrationsAssumption
<1> QED
  BY <1>1

LEMMA StartStep ==
    ASSUME IInv, NEW j \in Jobs, NEW i \in Images, Start(j, i)
    PROVE  IInv'
<1> DEFINE me == [pc |-> "lock", image |-> i, todo |-> DOMAIN i, lost |-> FALSE, error |-> "none"]
<1>1. DOMAIN i \in SUBSET Versions
  BY MigrationsAssumption
<1>2. me \in Local /\ job' = [job EXCEPT ![j] = me] /\ tx' = [tx EXCEPT ![j] = tx[j]]
  BY <1>1, MyFacts DEF Start, Local, Statements, IInv, TypeOK
<1>3. Fits(j, me, lock', tx[j], table', history) /\ Due(me)
  BY DEF Fits, Due, Holding, Looping
<1>4. /\ lock' = lock /\ table' = table /\ history' = history /\ schema' = schema
      /\ table' \in {"absent", "bare", "nullable", "strict"} /\ faults' \in 0..MaxFaults
  BY DEF Start, IInv, TypeOK
<1>5. tx[j] \in SUBSET {"effect", "row"}
  BY MyFacts
<1> HIDE DEF me
<1> QED
  BY <1>2, <1>3, <1>4, <1>5, LocalStep

\* A job that goes on at pc, or whose session comes to its end.
LEMMA GoOnStep ==
    ASSUME IInv, NEW j \in Jobs, NEW pc, NEW t \in SUBSET {"effect", "row"},
           pc \in Statements \cup {"release", "succeeded", "failed"},
           job[j].pc # "absent",
           GoesOn(j, pc), tx' = [tx EXCEPT ![j] = t],
           lock' = lock \/ (lock = NoJob /\ lock' = j) \/ (lock = j /\ lock' = NoJob),
           table' \in {"absent", "bare", "nullable", "strict"},
           table = "strict" => table' = "strict",
           UNCHANGED <<history, schema, faults>>,
           Fits(j, [job[j] EXCEPT !.pc = pc], lock', t, table', history)
    PROVE  IInv'
<1> DEFINE next == IF job[j].lost THEN "ending" ELSE pc
           me == [job[j] EXCEPT !.pc = next]
<1>1. me \in Local /\ job' = [job EXCEPT ![j] = me]
  <2>1. next \in Statements \cup {"absent", "release", "ending", "succeeded", "failed"}
    OBVIOUS
  <2>2. job \in [Jobs -> Local] /\ me \in Local
    BY <2>1, MyMoves
  <2> QED
    BY <2>2 DEF GoesOn
<1>2. me.pc = next /\ me.image = job[j].image /\ me.todo = job[j].todo /\ me.error = job[j].error
  BY MyFacts DEF Local
<1>3. Due(me)
  BY <1>2, MyFacts DEF Due
<1>4. Fits(j, me, lock', t, table', history)
  <2>1. CASE job[j].lost
    BY <1>2, <2>1, MyFacts DEF Fits, Holding, Looping
  <2>2. CASE ~job[j].lost
    BY <2>2
  <2> QED
    BY <2>1, <2>2
<1> QED
  BY <1>1, <1>3, <1>4, LocalStep DEF IInv, TypeOK

\* A job that returns an error.
LEMMA StopStep ==
    ASSUME IInv, NEW j \in Jobs, NEW why \in {"fault", "busy", "unreviewed", "drift"},
           job[j].pc # "absent",
           Stops(j, why), UNCHANGED <<lock, table, history, schema>>, faults' \in 0..MaxFaults,
           why = "drift" =>
             \E v \in DOMAIN job[j].image : schema[v] \notin {NoRow, job[j].image[v].sql}
    PROVE  IInv'
<1> DEFINE next == IF job[j].lost THEN "ending" ELSE "release"
           me == [job[j] EXCEPT !.pc = next, !.error = why]
<1>1. me \in Local /\ job' = [job EXCEPT ![j] = me]
  <2>1. next \in Statements \cup {"absent", "release", "ending", "succeeded", "failed"}
    OBVIOUS
  <2>2. job \in [Jobs -> Local] /\ me \in Local
    BY <2>1, MyMoves
  <2> QED
    BY <2>2 DEF Stops
<1>2. me.pc = next /\ me.image = job[j].image /\ me.todo = job[j].todo /\ me.error = why
  BY MyFacts DEF Local
<1>3. Due(me)
  BY <1>2 DEF Due
<1>4. Fits(j, me, lock', {}, table', history)
  BY <1>2, MyFacts DEF Fits, Holding, Looping
<1> QED
  BY <1>1, <1>3, <1>4, LocalStep DEF Stops, IInv, TypeOK

\* The statements of a process, the commit apart.
LEMMA StatementStep ==
    ASSUME IInv, NEW j \in Jobs,
           \/ Lock(j) \/ CreateTable(j) \/ AddColumn(j) \/ Enforce(j) \/ Release(j)
           \/ \E v \in Versions : LookUpMissing(j, v) \/ Apply(j, v) \/ Record(j, v)
    PROVE  IInv'
<1> DEFINE At1(pc) == [job[j] EXCEPT !.pc = pc]
<1>1. /\ tx[j] \in SUBSET {"effect", "row"} /\ tx = [tx EXCEPT ![j] = tx[j]]
      /\ table \in {"absent", "bare", "nullable", "strict"}
      /\ job[j] \in Local
  BY MyFacts DEF IInv, TypeOK
<1>2. \A pc : /\ At1(pc).pc = pc /\ At1(pc).todo = job[j].todo
              /\ At1(pc).image = job[j].image /\ At1(pc).error = job[j].error
  BY <1>1 DEF Local
<1>3. CASE Lock(j)
  <2>1. Fits(j, At1("table"), j, tx[j], table, history)
    BY <1>2, <1>3, MyFacts DEF Lock, At, Fits, Holding, Looping
  <2> QED
    BY <1>1, <1>3, <2>1, GoOnStep DEF Lock, At, Statements
<1>4. CASE CreateTable(j)
  <2>1. Fits(j, At1("column"), lock, tx[j], table', history)
    BY <1>2, <1>4, MyFacts DEF CreateTable, At, Fits, Holding, Looping
  <2> QED
    BY <1>1, <1>4, <2>1, GoOnStep DEF CreateTable, At, Statements
<1>5. CASE AddColumn(j)
  <2>1. Fits(j, At1("loop"), lock, tx[j], table', history)
    BY <1>2, <1>5, MyFacts DEF AddColumn, At, Fits, Holding, Looping
  <2> QED
    BY <1>1, <1>5, <2>1, GoOnStep DEF AddColumn, At, Statements
<1>6. CASE Enforce(j)
  <2>1. Fits(j, At1("release"), lock, tx[j], "strict", history)
    BY <1>2, <1>6, MyFacts DEF Enforce, At, Fits, Holding, Looping
  <2> QED
    BY <1>1, <1>6, <2>1, GoOnStep DEF Enforce, At, Statements
<1>7. CASE Release(j)
  <2> DEFINE out == IF job[j].error = "none" THEN "succeeded" ELSE "failed"
  <2>1. Fits(j, At1(out), lock', tx[j], table, history)
    BY <1>2, <1>7, MyFacts DEF Release, At, Fits, Holding, Looping
  <2>2. lock' = lock \/ (lock = j /\ lock' = NoJob)
    BY <1>7 DEF Release, Unlocked
  <2>3. out \in Statements \cup {"release", "succeeded", "failed"}
    OBVIOUS
  <2> QED
    BY <1>1, <1>7, <2>1, <2>2, <2>3, GoOnStep DEF Release, At
<1>8. ASSUME NEW v \in Versions, LookUpMissing(j, v) PROVE IInv'
  <2>1. Fits(j, At1("apply"), lock, tx[j], table, history)
    <3>1. \A w \in Versions : w \in job[j].todo /\ (\A u \in job[j].todo : w <= u) => w = v
      BY <1>1, <1>8, MigrationsAssumption DEF LookUpMissing, IsNext, Local
    <3> QED
      BY <1>2, <1>8, <3>1, MyFacts DEF LookUpMissing, At, Fits, Holding, Looping
  <2> QED
    BY <1>1, <1>8, <2>1, GoOnStep DEF LookUpMissing, At, Statements
<1>9. ASSUME NEW v \in Versions, Apply(j, v) PROVE IInv'
  <2>1. schema[v] = NoRow
    <3>1. history[v] = NoRow
      BY <1>9, MyFacts DEF Apply, At, IsNext, Fits
    <3> QED
      BY <3>1 DEF IInv, SchemaMatchesHistory
  <2>2. Fits(j, At1("record"), lock, {"effect"}, table, history)
    BY <1>2, <1>9, MyFacts DEF Apply, At, Fits, Holding, Looping
  <2>3. {"effect"} \in SUBSET {"effect", "row"}
    OBVIOUS
  <2> QED
    BY <1>1, <1>9, <2>1, <2>2, <2>3, GoOnStep DEF Apply, At, Statements
<1>10. ASSUME NEW v \in Versions, Record(j, v) PROVE IInv'
  <2>1. history[v] = NoRow /\ tx[j] = {"effect"}
    BY <1>10, MyFacts DEF Record, At, IsNext, Fits
  <2>2. tx' = [tx EXCEPT ![j] = {"effect", "row"}]
    <3>1. tx' = [tx EXCEPT ![j] = tx[j] \cup {"row"}]
      BY <1>10, <2>1 DEF Record
    <3>2. tx[j] \cup {"row"} = {"effect", "row"}
      BY <2>1
    <3> QED
      BY <3>1, <3>2
  <2>3. Fits(j, At1("commit"), lock, {"effect", "row"}, table, history)
    BY <1>2, <1>10, MyFacts DEF Record, At, Fits, Holding, Looping
  <2>4. {"effect", "row"} \in SUBSET {"effect", "row"}
    OBVIOUS
  <2> QED
    BY <1>1, <1>10, <2>1, <2>2, <2>3, <2>4, GoOnStep DEF Record, At, Statements
<1> QED
  BY <1>3, <1>4, <1>5, <1>6, <1>7, <1>8, <1>9, <1>10

\* The refusals and the faults.
LEMMA RefusalStep ==
    ASSUME IInv, NEW j \in Jobs,
           \/ LockTimesOut(j) \/ EnforceRefused(j) \/ StatementFails(j)
           \/ \E v \in Versions : RefuseUnreviewed(j, v) \/ RefuseDrift(j, v)
    PROVE  IInv'
<1>1. CASE LockTimesOut(j)
  BY <1>1, StopStep DEF LockTimesOut, At, IInv, TypeOK
<1>2. CASE EnforceRefused(j)
  BY <1>2, StopStep DEF EnforceRefused, At, IInv, TypeOK
<1>3. CASE StatementFails(j)
  <2>1. faults' \in 0..MaxFaults /\ job[j].pc # "absent"
    BY <1>3, MigrationsAssumption DEF StatementFails, At, Statements, IInv, TypeOK
  <2> QED
    BY <1>3, <2>1, StopStep DEF StatementFails
<1>4. ASSUME NEW v \in Versions, RefuseUnreviewed(j, v) PROVE IInv'
  BY <1>4, StopStep DEF RefuseUnreviewed, At, IInv, TypeOK
<1>5. ASSUME NEW v \in Versions, RefuseDrift(j, v) PROVE IInv'
  <2>1. v \in DOMAIN job[j].image
    BY <1>5, MyFacts DEF RefuseDrift, At, IsNext, Fits, Looping
  <2>2. history[v] = schema[v] /\ schema[v] # NoRow
    BY <1>5 DEF RefuseDrift, IInv, SchemaMatchesHistory
  <2>3. schema[v] \notin {NoRow, job[j].image[v].sql}
    BY <1>5, <2>2 DEF RefuseDrift, Own, Checksum
  <2> QED
    BY <1>5, <2>1, <2>3, StopStep DEF RefuseDrift, At, IInv, TypeOK
<1> QED
  BY <1>1, <1>2, <1>3, <1>4, <1>5

\* The least of a job's remaining scripts is unique.
LEMMA LeastIsNext ==
    ASSUME IInv, NEW j \in Jobs, NEW v \in Versions, IsNext(j, v)
    PROVE  /\ \A w \in Versions : IsNext(j, w) => w = v
           /\ \A u \in Versions : u < v => u \notin job[j].todo
BY MyFacts, MigrationsAssumption DEF IsNext, Local

LEMMA ValidateStep ==
    ASSUME IInv, NEW j \in Jobs, NEW v \in Versions, Validate(j, v)
    PROVE  IInv'
<1> DEFINE next == IF job[j].lost THEN "ending" ELSE "loop"
           me == [job[j] EXCEPT !.todo = @ \ {v}, !.pc = next]
<1>1. me \in Local /\ job' = [job EXCEPT ![j] = me] /\ tx' = [tx EXCEPT ![j] = tx[j]]
  <2>1. next \in Statements \cup {"absent", "release", "ending", "succeeded", "failed"}
    BY DEF Statements
  <2>2. job \in [Jobs -> Local] /\ me \in Local
    BY <2>1, MyMoves
  <2>3. tx' = [tx EXCEPT ![j] = tx[j]]
    BY DEF Validate, IInv, TypeOK
  <2> QED
    BY <2>2, <2>3 DEF Validate
<1>2. /\ me.pc = next /\ me.image = job[j].image /\ me.todo = job[j].todo \ {v}
      /\ me.error = job[j].error
  BY MyFacts DEF Local
<1>3. Due(me)
  BY <1>2, MyFacts DEF Due
<1>4. Fits(j, me, lock, tx[j], table, history)
  BY <1>2, MyFacts DEF Validate, At, Own, Fits, Holding, Looping
<1>5. /\ lock' = lock /\ table' = table /\ history' = history /\ schema' = schema
      /\ table' \in {"absent", "bare", "nullable", "strict"} /\ faults' \in 0..MaxFaults
      /\ tx[j] \in SUBSET {"effect", "row"}
  BY MyFacts DEF Validate, IInv, TypeOK
<1> HIDE DEF me
<1> QED
  BY <1>1, <1>3, <1>4, <1>5, LocalStep

LEMMA LoseStep ==
    ASSUME IInv, NEW j \in Jobs, Lose(j)
    PROVE  IInv'
<1> DEFINE me == [job[j] EXCEPT !.lost = TRUE]
<1>1. me \in Local /\ job' = [job EXCEPT ![j] = me] /\ tx' = [tx EXCEPT ![j] = tx[j]]
  <2>1. me \in Local
    BY MyFacts DEF Local
  <2>2. job' = [job EXCEPT ![j] = me]
    BY DEF Lose, IInv, TypeOK
  <2>3. tx' = [tx EXCEPT ![j] = tx[j]]
    BY DEF Lose, IInv, TypeOK
  <2> QED
    BY <2>1, <2>2, <2>3
<1>2. /\ me.pc = job[j].pc /\ me.image = job[j].image /\ me.todo = job[j].todo
      /\ me.error = job[j].error
  BY MyFacts DEF Local
<1>3. Due(me) /\ Fits(j, me, lock, tx[j], table, history)
  BY <1>2, MyFacts DEF Due, Fits, Lose, At, Statements
<1>4. /\ lock' = lock /\ table' = table /\ history' = history /\ schema' = schema
      /\ table' \in {"absent", "bare", "nullable", "strict"} /\ faults' \in 0..MaxFaults
      /\ tx[j] \in SUBSET {"effect", "row"}
  BY MyFacts, MigrationsAssumption DEF Lose, IInv, TypeOK
<1> HIDE DEF me
<1> QED
  BY <1>1, <1>3, <1>4, LocalStep

LEMMA SessionEndsStep ==
    ASSUME IInv, NEW j \in Jobs, SessionEnds(j)
    PROVE  IInv'
<1> DEFINE me == [job[j] EXCEPT !.pc = "failed"]
<1>1. me \in Local /\ job' = [job EXCEPT ![j] = me] /\ tx' = [tx EXCEPT ![j] = {}]
  <2>1. me \in Local
    BY MyFacts DEF Local
  <2>2. job' = [job EXCEPT ![j] = me]
    BY DEF SessionEnds, IInv, TypeOK
  <2>3. tx' = [tx EXCEPT ![j] = {}]
    BY DEF SessionEnds
  <2> QED
    BY <2>1, <2>2, <2>3
<1>2. /\ me.pc = "failed" /\ me.image = job[j].image /\ me.todo = job[j].todo
      /\ me.error = job[j].error
  BY MyFacts DEF Local
<1>3. job[j].pc # "absent"
  BY MyFacts DEF SessionEnds, Fits
<1>4. Due(me) /\ Fits(j, me, lock', {}, table, history)
  BY <1>2, <1>3, MyFacts DEF Due, Fits, Holding, Looping
<1>5. /\ lock' = lock \/ (lock = j /\ lock' = NoJob)
      /\ table' = table /\ history' = history /\ schema' = schema
      /\ table' \in {"absent", "bare", "nullable", "strict"} /\ faults' \in 0..MaxFaults
      /\ {} \in SUBSET {"effect", "row"}
  BY DEF SessionEnds, Unlocked, IInv, TypeOK
<1> HIDE DEF me
<1> QED
  BY <1>1, <1>4, <1>5, LocalStep

-----------------------------------------------------------------------------
(* The steps that write the history *)

LEMMA CommitStep ==
    ASSUME IInv, NEW j \in Jobs, NEW v \in Versions, Commit(j, v)
    PROVE  IInv'
<1>1. /\ history[v] = NoRow /\ schema[v] = NoRow /\ lock = j /\ tx[j] = {"effect", "row"}
      /\ v \in DOMAIN job[j].image /\ job[j].image \in Images
  BY MyFacts DEF Commit, At, IsNext, Fits, Holding, Looping, IInv, SchemaMatchesHistory
<1>2. Own(j, v) \in Texts
  <2>1. job[j].image[v] \in File
    BY <1>1, MigrationsAssumption
  <2> QED
    BY <2>1 DEF Own, Checksum, File
<1>3. /\ history' = [history EXCEPT ![v] = Own(j, v)]
      /\ schema' = [schema EXCEPT ![v] = Own(j, v)]
      /\ lock' = lock /\ table' = table /\ faults' = faults
  BY <1>1 DEF Commit
<1> DEFINE next == IF job[j].lost THEN "ending" ELSE "loop"
           me == [job[j] EXCEPT !.todo = @ \ {v}, !.pc = next]
<1>4. me \in Local /\ job' = [job EXCEPT ![j] = me]
  <2>1. next \in Statements \cup {"absent", "release", "ending", "succeeded", "failed"}
    BY DEF Statements
  <2>2. job \in [Jobs -> Local] /\ me \in Local
    BY <2>1, MyMoves
  <2> QED
    BY <2>2 DEF Commit
<1>5. TypeOK'
  BY <1>2, <1>3, <1>4 DEF Commit, IInv, TypeOK
<1>6. /\ history'[v] = Own(j, v) /\ schema'[v] = Own(j, v)
      /\ \A u \in Versions : u # v => history'[u] = history[u] /\ schema'[u] = schema[u]
  BY <1>3 DEF IInv, TypeOK
<1>7. SchemaMatchesHistory'
  BY <1>2, <1>6, MigrationsAssumption DEF IInv, SchemaMatchesHistory
<1>8. ASSUME NEW k \in Jobs PROVE Fits(k, job'[k], lock', tx'[k], table', history')
  <2>1. CASE k = j
    <3>1. /\ job'[k].pc = next /\ job'[k].image = job[j].image
          /\ job'[k].todo = job[j].todo \ {v}
      BY <1>4, <2>1, MyFacts DEF Local, IInv, TypeOK
    <3>2. job[j].todo \subseteq DOMAIN job[j].image
      BY MyFacts DEF Commit, At, Fits, Looping
    <3>3. ASSUME NEW u \in DOMAIN job[j].image, u \notin job[j].todo \ {v}
          PROVE  history'[u] = Checksum(job[j].image[u])
      <4>1. CASE u = v
        BY <1>6, <4>1 DEF Own
      <4>2. CASE u # v
        <5>1. u \in Versions
          BY <1>1, ImageFacts
        <5>2. history[u] = Checksum(job[j].image[u])
          BY <3>3, <4>2, MyFacts DEF Commit, At, Fits, Looping
        <5> QED
          BY <1>6, <4>2, <5>1, <5>2
      <4> QED
        BY <4>1, <4>2
    <3>4. next \in {"ending", "loop"}
      OBVIOUS
    <3> HIDE DEF next
    <3> QED
      BY <1>1, <1>3, <2>1, <3>1, <3>2, <3>3, <3>4 DEF Fits, Holding, Looping
  <2>2. CASE k # j
    <3>1. job'[k] = job[k] /\ tx'[k] = tx[k] /\ job[k].pc \notin Holding
      <4>1. job[k].pc \notin Holding
        BY <1>1, <2>2 DEF IInv, LockHeld
      <4> QED
        BY <1>4, <2>2, <4>1 DEF Commit, IInv, TypeOK
    <3>2. job[k].pc # "absent" => job[k].image \in Images
      BY MyFacts DEF Fits
    <3>3. Fits(k, job[k], lock, tx[k], table, history)
      BY MyFacts
    <3>4. (\A u \in Versions : history[u] # NoChecksum) => \A u \in Versions : history'[u] # NoChecksum
      BY <1>2, <1>6, MigrationsAssumption
    <3>5. \A u \in DOMAIN job[k].image : job[k].pc # "absent" /\ history[u] = Checksum(job[k].image[u])
             => history'[u] = Checksum(job[k].image[u])
      <4> SUFFICES ASSUME NEW u \in DOMAIN job[k].image, job[k].pc # "absent",
                          history[u] = Checksum(job[k].image[u])
                   PROVE  history'[u] = Checksum(job[k].image[u])
        OBVIOUS
      <4>1. u \in Versions /\ job[k].image[u] \in File
        BY <3>2, ImageFacts
      <4>2. Checksum(job[k].image[u]) # NoRow
        BY <4>1, MigrationsAssumption DEF Checksum, File
      <4> QED
        BY <1>1, <1>6, <4>1, <4>2
    <3> QED
      BY <1>3, <3>1, <3>3, <3>4, <3>5 DEF Fits, Holding, Looping
  <2> QED
    BY <2>1, <2>2
<1>9. RefusalsAreDue'
  <2> SUFFICES ASSUME NEW k \in Jobs
               PROVE  /\ job'[k].error # "exists"
                      /\ job'[k].error = "drift" =>
                           \E u \in DOMAIN job'[k].image :
                              schema'[u] \notin {NoRow, job'[k].image[u].sql}
    BY DEF RefusalsAreDue
  <2>1. job'[k].error = job[k].error /\ job'[k].image = job[k].image
    BY <1>4, MyFacts DEF Local, IInv, TypeOK
  <2>2. Due(job[k])
    BY MyFacts
  <2>3. CASE job[k].error = "drift"
    <3>1. PICK u \in DOMAIN job[k].image : schema[u] \notin {NoRow, job[k].image[u].sql}
      BY <2>2, <2>3 DEF Due
    <3>2. u \in Versions
      BY MyFacts, MigrationsAssumption DEF Local, NoImage
    <3>3. schema'[u] = schema[u]
      BY <1>1, <1>6, <3>1, <3>2
    <3> QED
      BY <2>1, <2>2, <3>1, <3>3 DEF Due
  <2> QED
    BY <2>1, <2>2, <2>3 DEF Due
<1> QED
  BY <1>5, <1>7, <1>8, <1>9, AllFitNext DEF IInv

LEMMA ReviewStep ==
    ASSUME IInv, NEW v \in Versions, Review(v)
    PROVE  IInv'
<1>1. /\ history[v] = NoChecksum /\ schema[v] \in Texts
      /\ history' = [history EXCEPT ![v] = schema[v]]
      /\ job' = job /\ lock' = lock /\ tx' = tx /\ table' = table /\ schema' = schema
      /\ faults' = faults
  BY MigrationsAssumption DEF Review, IInv, TypeOK, SchemaMatchesHistory
<1>2. /\ history'[v] = schema[v]
      /\ \A u \in Versions : u # v => history'[u] = history[u]
  BY <1>1 DEF IInv, TypeOK
<1>3. TypeOK'
  BY <1>1 DEF IInv, TypeOK
<1>4. SchemaMatchesHistory'
  BY <1>1, <1>2, MigrationsAssumption DEF IInv, SchemaMatchesHistory
<1>5. RefusalsAreDue'
  BY <1>1 DEF IInv, RefusalsAreDue
<1>6. ASSUME NEW k \in Jobs PROVE Fits(k, job'[k], lock', tx'[k], table', history')
  <2>1. Fits(k, job[k], lock, tx[k], table, history)
    BY MyFacts
  <2>2. \A u \in Versions : history[u] # NoChecksum => history'[u] = history[u]
    BY <1>1, <1>2
  <2>3. ASSUME NEW u \in DOMAIN job[k].image, job[k].pc # "absent",
               history[u] = Checksum(job[k].image[u])
        PROVE  history'[u] = Checksum(job[k].image[u])
    <3>1. u \in Versions /\ job[k].image[u] \in File
      BY <2>1, <2>3, ImageFacts DEF Fits
    <3>2. Checksum(job[k].image[u]) # NoChecksum
      BY <3>1, MigrationsAssumption DEF Checksum, File
    <3> QED
      BY <2>2, <2>3, <3>1, <3>2
  <2>4. \A u \in Versions : history[u] = NoRow => history'[u] = NoRow
    BY <1>1, <1>2, MigrationsAssumption
  <2>5. (\A u \in Versions : history[u] # NoChecksum) => \A u \in Versions : history'[u] # NoChecksum
    BY <2>2
  <2> QED
    BY <1>1, <2>1, <2>3, <2>4, <2>5 DEF Fits, Holding, Looping
<1> QED
  BY <1>3, <1>4, <1>5, <1>6, AllFitNext DEF IInv

-----------------------------------------------------------------------------
(* The invariant *)

LEMMA InitInv == Init => IInv
<1> SUFFICES ASSUME Init PROVE IInv
  OBVIOUS
<1>1. TypeOK
  <2>1. \A i \in Images : \A u \in DOMAIN i : i[u].sql \in Texts
    BY ImageFacts DEF File
  <2> QED
    BY <2>1, MigrationsAssumption DEF Init, TypeOK, Local, Statements
<1>2. SchemaMatchesHistory
  <2>1. \A i \in Images : \A u \in DOMAIN i : i[u].sql \in Texts
    BY ImageFacts DEF File
  <2> QED
    BY <2>1, MigrationsAssumption DEF Init, SchemaMatchesHistory
<1>3. LockHeld /\ TxOfPc /\ NextIsMissing /\ FoundApplied /\ AllToDo /\ DoneIsComplete
  BY DEF Init, LockHeld, TxOfPc, NextIsMissing, FoundApplied, AllToDo, DoneIsComplete,
         Holding, Looping
<1>4. RefusalsAreDue
  BY DEF Init, RefusalsAreDue
<1> QED
  BY <1>1, <1>2, <1>3, <1>4 DEF IInv

LEMMA NextInv == IInv /\ [Next]_vars => IInv'
<1> SUFFICES ASSUME IInv, [Next]_vars PROVE IInv'
  OBVIOUS
<1>1. ASSUME NEW j \in Jobs, NEW i \in Images, Start(j, i) PROVE IInv'
  BY <1>1, StartStep
<1>2. ASSUME NEW j \in Jobs, Step(j) PROVE IInv'
  BY <1>2, StatementStep, RefusalStep, ValidateStep, CommitStep DEF Step
<1>3. ASSUME NEW j \in Jobs, StatementFails(j) \/ Lose(j) \/ SessionEnds(j) PROVE IInv'
  BY <1>3, RefusalStep, LoseStep, SessionEndsStep
<1>4. ASSUME NEW v \in Versions, Review(v) PROVE IInv'
  BY <1>4, ReviewStep
<1>5. CASE UNCHANGED vars
  <2>1. \A j \in Jobs : Fits(j, job'[j], lock', tx'[j], table', history')
    BY <1>5, MyFacts DEF vars
  <2>2. TypeOK' /\ SchemaMatchesHistory' /\ RefusalsAreDue'
    BY <1>5 DEF vars, IInv, TypeOK, SchemaMatchesHistory, RefusalsAreDue
  <2> QED
    BY <2>1, <2>2, AllFitNext DEF IInv
<1> QED
  BY <1>1, <1>2, <1>3, <1>4, <1>5 DEF Next

LEMMA AlwaysInv == Spec => []IInv
BY InitInv, NextInv, PTL DEF Spec

\* Every variable keeps its type.
THEOREM TypeCorrect == Spec => []TypeOK
<1>1. IInv => TypeOK
  BY DEF IInv
<1> QED
  BY <1>1, AlwaysInv, PTL

\* A script and its row appear together: for any number of overlapping jobs,
\* lost processes and failed statements.
THEOREM SchemaAndHistoryAgree == Spec => []SchemaMatchesHistory
<1>1. IInv => SchemaMatchesHistory
  BY DEF IInv
<1> QED
  BY <1>1, AlwaysInv, PTL

\* No job meets a script another one applied meanwhile, and what is refused as
\* drifted has drifted.
THEOREM RefusalsDue == Spec => []RefusalsAreDue
<1>1. IInv => RefusalsAreDue
  BY DEF IInv
<1> QED
  BY <1>1, AlwaysInv, PTL

\* What a job left when it returned nil stays.
THEOREM SuccessKept == Spec => []SuccessLasts
<1>1. ASSUME IInv PROVE SuccessLasts
  <2> SUFFICES ASSUME NEW j \in Jobs, job[j].pc = "succeeded"
               PROVE  /\ table = "strict"
                      /\ \A v \in Versions : history[v] # NoChecksum
                      /\ \A v \in DOMAIN job[j].image : schema[v] = job[j].image[v].sql
    BY DEF SuccessLasts
  <2>1. Fits(j, job[j], lock, tx[j], table, history)
    BY <1>1, MyFacts
  <2>2. ASSUME NEW v \in DOMAIN job[j].image PROVE schema[v] = job[j].image[v].sql
    <3>1. v \in Versions /\ job[j].image[v] \in File
      BY <2>1, ImageFacts DEF Fits
    <3>2. history[v] = job[j].image[v].sql /\ history[v] \notin {NoRow, NoChecksum}
      BY <2>1, <3>1, MigrationsAssumption DEF Fits, Checksum, File
    <3> QED
      BY <1>1, <3>1, <3>2 DEF IInv, SchemaMatchesHistory
  <2> QED
    BY <2>1, <2>2 DEF Fits
<1> QED
  BY <1>1, AlwaysInv, PTL

\* A release builds only on what it has itself, and the history only grows.
THEOREM OneSourceOnly == Spec => BuiltOnOwnRelease
<1> DEFINE Grows ==
      \A v \in Versions :
         /\ history[v] = NoRow /\ history'[v] # NoRow =>
              \E j \in Jobs :
                 /\ v \in DOMAIN job[j].image
                 /\ history'[v] = job[j].image[v].sql
                 /\ \A u \in DOMAIN job[j].image :
                       u < v => history[u] = job[j].image[u].sql
         /\ history[v] \notin {NoRow, NoChecksum} => history'[v] = history[v]
<1>1. ASSUME IInv, NEW j \in Jobs, NEW w \in Versions, Commit(j, w) PROVE Grows
  <2>1. /\ w \in DOMAIN job[j].image /\ history[w] = NoRow /\ job[j].image \in Images
        /\ history' = [history EXCEPT ![w] = Own(j, w)]
    BY <1>1, MyFacts DEF Commit, At, IsNext, Fits, Holding, Looping
  <2>2. ASSUME NEW u \in DOMAIN job[j].image, u < w PROVE history[u] = job[j].image[u].sql
    <3>1. u \in Versions
      BY <2>1, ImageFacts
    <3>2. u \notin job[j].todo
      BY <1>1, <2>2, <3>1, LeastIsNext DEF Commit
    <3> QED
      BY <1>1, <3>2, MyFacts DEF Commit, At, Fits, Looping, Checksum
  <2>3. /\ history'[w] = job[j].image[w].sql
        /\ \A v \in Versions : v # w => history'[v] = history[v]
    BY <1>1, <2>1 DEF Own, Checksum, IInv, TypeOK
  <2> QED
    BY <2>1, <2>2, <2>3
<1>2. ASSUME IInv, NEW w \in Versions, Review(w) PROVE Grows
  BY <1>2, MigrationsAssumption DEF Review, IInv, TypeOK
<1>3. ASSUME history' = history PROVE Grows
  BY <1>3
<1>4. ASSUME IInv, [Next]_vars PROVE [Grows]_vars
  <2> HIDE DEF Grows
  <2>1. ASSUME NEW j \in Jobs, NEW i \in Images, Start(j, i) PROVE Grows
    BY <1>3, <2>1 DEF Start
  <2>2. ASSUME NEW j \in Jobs, Step(j) PROVE Grows
    BY <1>1, <1>3, <1>4, <2>2
    DEF Step, Lock, LockTimesOut, CreateTable, AddColumn, Validate, RefuseUnreviewed, RefuseDrift,
        LookUpMissing, Apply, Record, Enforce, EnforceRefused, Release
  <2>3. ASSUME NEW j \in Jobs, StatementFails(j) \/ Lose(j) \/ SessionEnds(j) PROVE Grows
    BY <1>3, <2>3 DEF StatementFails, Lose, SessionEnds
  <2>4. ASSUME NEW v \in Versions, Review(v) PROVE Grows
    BY <1>2, <1>4, <2>4
  <2> QED
    BY <1>4, <2>1, <2>2, <2>3, <2>4 DEF Next
<1>5. (IInv /\ [Next]_vars) => [Grows]_vars
  BY <1>4
<1>6. Spec => [][Grows]_vars
  BY <1>5, AlwaysInv, PTL DEF Spec
<1> QED
  BY <1>6 DEF BuiltOnOwnRelease
=============================================================================
