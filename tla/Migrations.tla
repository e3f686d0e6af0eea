----------------------------- MODULE Migrations -----------------------------
(***************************************************************************)
(* The schema migrations of the control plane: ApplyMigrations of          *)
(* internal/platform/postgres/migrate.go, run by cmd/migrate in the        *)
(* pre-install,pre-upgrade Job of the chart.                               *)
(*                                                                         *)
(* A job is one process: the pods of the Jobs of two releases, or the      *)
(* retry of one, may run at the same time and each embeds the scripts of   *)
(* its own image.  Every SQL statement is one atomic action, and the       *)
(* process and its database session are apart: a process that is gone     *)
(* (killed, deadline passed, network cut) leaves a session whose last      *)
(* statement may still execute, and which keeps the advisory lock and the  *)
(* open transaction until PostgreSQL notices.                              *)
(***************************************************************************)
EXTENDS Integers

CONSTANTS
    Jobs,       \* as many migration processes as may run at the same time
    Versions,   \* the names of the scripts, in the order they sort
    Texts,      \* the SQL of a script, up to its line endings
    Images,     \* the releases: each maps the versions it embeds to files
    NoJob,      \* nobody holds the advisory lock
    NoRow,      \* the history has no row, the schema no effect, of a version
    NoChecksum, \* checksum IS NULL: a row older than the checksum column
    MaxFaults   \* bound: lost processes and failed statements in a behaviour

\* A script as it was built in: its SQL, and whether it has CRLF line endings.
File == [sql : Texts, crlf : BOOLEAN]

ASSUME MigrationsAssumption ==
    /\ NoJob \notin Jobs
    /\ Versions \subseteq Int
    /\ Images \subseteq UNION {[V -> File] : V \in SUBSET Versions}
    /\ NoRow \notin Texts \cup {NoChecksum}
    /\ NoChecksum \notin Texts
    /\ MaxFaults \in Nat

VARIABLES
    job,        \* the local state of each process
    lock,       \* the session that holds the advisory lock
    tx,         \* what the open transaction of each session has written
    table,      \* control_plane_schema_migrations: its definition
    history,    \* ... and the checksum recorded for each version
    schema,     \* the SQL whose effect the schema has, for each version
    faults

vars == <<job, lock, tx, table, history, schema, faults>>

-----------------------------------------------------------------------------
(* Types *)

\* discoverMigrations normalises the line endings before it computes the
\* checksum, and executes what it normalised.  The checksum stands for it.
Checksum(file) == file.sql

NoImage == [v \in {} |-> NoRow]

Statements == {"lock", "table", "column", "loop", "apply", "record", "commit"}

Local == [pc    : Statements \cup {"absent", "release", "ending", "succeeded", "failed"},
          image : Images \cup {NoImage},
          todo  : SUBSET Versions,  \* the scripts the loop has still to reach
          lost  : BOOLEAN,          \* the process is gone, its session is not
          error : {"none", "fault", "busy", "unreviewed", "drift", "exists"}]

TypeOK ==
    /\ job \in [Jobs -> Local]
    /\ lock \in Jobs \cup {NoJob}
    /\ tx \in [Jobs -> SUBSET {"effect", "row"}]
    /\ table \in {"absent", "bare", "nullable", "strict"}
    /\ history \in [Versions -> Texts \cup {NoRow, NoChecksum}]
    /\ schema \in [Versions -> Texts \cup {NoRow}]
    /\ faults \in 0..MaxFaults

-----------------------------------------------------------------------------
(* Initial state: a new database, or one that a release older than the     *)
(* checksum column migrated.                                               *)

Init ==
    /\ job = [j \in Jobs |-> [pc |-> "absent", image |-> NoImage, todo |-> {},
                               lost |-> FALSE, error |-> "none"]]
    /\ lock = NoJob
    /\ tx = [j \in Jobs |-> {}]
    /\ faults = 0
    /\ \/ /\ table = "absent"
          /\ history = [v \in Versions |-> NoRow]
          /\ schema = [v \in Versions |-> NoRow]
       \/ /\ table = "bare"
          /\ \E old \in Images :
                /\ history = [v \in Versions |->
                                IF v \in DOMAIN old THEN NoChecksum ELSE NoRow]
                /\ schema = [v \in Versions |->
                                IF v \in DOMAIN old THEN old[v].sql ELSE NoRow]

-----------------------------------------------------------------------------
(* The process *)

At(j, pc) == job[j].pc = pc

\* The statement succeeded: the process goes on at pc, and the session of a
\* lost process, which executes only the statement it had, comes to its end.
GoesOn(j, pc) ==
    job' = [job EXCEPT ![j].pc = IF job[j].lost THEN "ending" ELSE pc]

\* The statement failed: the process rolls back and returns the error, through
\* the deferred release of the session.
Stops(j, why) ==
    /\ job' = [job EXCEPT ![j].pc = IF job[j].lost THEN "ending" ELSE "release",
                          ![j].error = why]
    /\ tx' = [tx EXCEPT ![j] = {}]

\* v is the script the loop has come to.
IsNext(j, v) == v \in job[j].todo /\ \A u \in job[j].todo : v <= u

Own(j, v) == Checksum(job[j].image[v])

\* A pod of release i starts, the retry of a job that ended among them:
\* discoverMigrations lists what it embeds.
Start(j, i) ==
    /\ job[j].pc \in {"absent", "succeeded", "failed"}
    /\ job' = [job EXCEPT ![j] = [pc |-> "lock", image |-> i, todo |-> DOMAIN i,
                                  lost |-> FALSE, error |-> "none"]]
    /\ UNCHANGED <<lock, tx, table, history, schema, faults>>

\* Mutant of Lock: hashtext of a name that differs between the releases.
LockOwnName(j) ==
    /\ At(j, "lock")
    /\ lock' = j
    /\ GoesOn(j, "table")
    /\ UNCHANGED <<tx, table, history, schema, faults>>

\* SELECT pg_advisory_lock: granted when no session holds it.
Lock(j) ==
    /\ At(j, "lock")
    /\ lock = NoJob
    /\ lock' = j
    /\ GoesOn(j, "table")
    /\ UNCHANGED <<tx, table, history, schema, faults>>

\* Mutant of LockTimesOut: no lock_timeout in the session.
LockWaits(j) == FALSE /\ UNCHANGED vars

\* lock_timeout passes while another session holds it.  The deferred release
\* has no lock to give back.
LockTimesOut(j) ==
    /\ At(j, "lock")
    /\ lock # NoJob
    /\ Stops(j, "busy")
    /\ UNCHANGED <<lock, table, history, schema, faults>>

CreateTable(j) ==
    /\ At(j, "table")
    /\ table' = IF table = "absent" THEN "strict" ELSE table
    /\ GoesOn(j, "column")
    /\ UNCHANGED <<lock, tx, history, schema, faults>>

AddColumn(j) ==
    /\ At(j, "column")
    /\ table' = IF table = "bare" THEN "nullable" ELSE table
    /\ GoesOn(j, "loop")
    /\ UNCHANGED <<lock, tx, history, schema, faults>>

\* validateAppliedMigration, when the script is recorded: as it is in this
\* image, without a checksum, or with other contents.
Validate(j, v) ==
    /\ At(j, "loop")
    /\ IsNext(j, v)
    /\ history[v] = Own(j, v)
    /\ job' = [job EXCEPT ![j].todo = @ \ {v},
                          ![j].pc = IF job[j].lost THEN "ending" ELSE "loop"]
    /\ UNCHANGED <<lock, tx, table, history, schema, faults>>

RefuseUnreviewed(j, v) ==
    /\ At(j, "loop")
    /\ IsNext(j, v)
    /\ history[v] = NoChecksum
    /\ Stops(j, "unreviewed")
    /\ UNCHANGED <<lock, table, history, schema, faults>>

\* Mutant of RefuseDrift: a changed script is not an error.
RefuseDriftNot(j, v) ==
    /\ At(j, "loop")
    /\ IsNext(j, v)
    /\ history[v] \notin {NoRow, NoChecksum, Own(j, v)}
    /\ job' = [job EXCEPT ![j].todo = @ \ {v}]
    /\ UNCHANGED <<lock, tx, table, history, schema, faults>>

RefuseDrift(j, v) ==
    /\ At(j, "loop")
    /\ IsNext(j, v)
    /\ history[v] \notin {NoRow, NoChecksum, Own(j, v)}
    /\ Stops(j, "drift")
    /\ UNCHANGED <<lock, table, history, schema, faults>>

\* sql.ErrNoRows: the script has still to be applied; BeginTx.
LookUpMissing(j, v) ==
    /\ At(j, "loop")
    /\ IsNext(j, v)
    /\ history[v] = NoRow
    /\ GoesOn(j, "apply")
    /\ UNCHANGED <<lock, tx, table, history, schema, faults>>

\* Mutant of Apply: the script executes outside of the transaction.
ApplyOutside(j, v) ==
    /\ At(j, "apply")
    /\ IsNext(j, v)
    /\ schema' = [schema EXCEPT ![v] = Own(j, v)]
    /\ GoesOn(j, "record")
    /\ UNCHANGED <<lock, tx, table, history, faults>>

\* The script itself.  None of them may run twice: its CREATE TABLE or ALTER
\* TABLE fails on a schema that has its effect.
Apply(j, v) ==
    /\ At(j, "apply")
    /\ IsNext(j, v)
    /\ IF schema[v] = NoRow
         THEN /\ tx' = [tx EXCEPT ![j] = {"effect"}]
              /\ GoesOn(j, "record")
         ELSE Stops(j, "exists")
    /\ UNCHANGED <<lock, table, history, schema, faults>>

\* The INSERT of its row; version is the primary key.
Record(j, v) ==
    /\ At(j, "record")
    /\ IsNext(j, v)
    /\ IF history[v] = NoRow
         THEN /\ tx' = [tx EXCEPT ![j] = @ \cup {"row"}]
              /\ GoesOn(j, "commit")
         ELSE Stops(j, "exists")
    /\ UNCHANGED <<lock, table, history, schema, faults>>

Commit(j, v) ==
    /\ At(j, "commit")
    /\ IsNext(j, v)
    /\ schema' = IF "effect" \in tx[j] THEN [schema EXCEPT ![v] = Own(j, v)] ELSE schema
    /\ history' = IF "row" \in tx[j] THEN [history EXCEPT ![v] = Own(j, v)] ELSE history
    /\ tx' = [tx EXCEPT ![j] = {}]
    /\ job' = [job EXCEPT ![j].todo = @ \ {v},
                          ![j].pc = IF job[j].lost THEN "ending" ELSE "loop"]
    /\ UNCHANGED <<lock, table, faults>>

\* Mutant of Enforce: returns after the loop.
EnforceNot(j) ==
    /\ At(j, "loop")
    /\ job[j].todo = {}
    /\ GoesOn(j, "release")
    /\ UNCHANGED <<lock, tx, table, history, schema, faults>>

\* ALTER COLUMN checksum SET NOT NULL, after the loop: refused while a row of
\* a version this image does not embed has none.
Enforce(j) ==
    /\ At(j, "loop")
    /\ job[j].todo = {}
    /\ \A v \in Versions : history[v] # NoChecksum
    /\ table' = "strict"
    /\ GoesOn(j, "release")
    /\ UNCHANGED <<lock, tx, history, schema, faults>>

EnforceRefused(j) ==
    /\ At(j, "loop")
    /\ job[j].todo = {}
    /\ \E v \in Versions : history[v] = NoChecksum
    /\ Stops(j, "unreviewed")
    /\ UNCHANGED <<lock, table, history, schema, faults>>

\* releaseMigrationSession, the reset of its timeouts and the exit: the lock
\* goes back when this session took it.
Unlocked(j) == IF lock = j THEN NoJob ELSE lock

Release(j) ==
    /\ At(j, "release")
    /\ lock' = Unlocked(j)
    /\ GoesOn(j, IF job[j].error = "none" THEN "succeeded" ELSE "failed")
    /\ UNCHANGED <<tx, table, history, schema, faults>>

\* The steps of a process and of the session it left behind.
Step(j) ==
    \/ Lock(j) \/ LockTimesOut(j) \/ CreateTable(j) \/ AddColumn(j)
    \/ \E v \in Versions :
          \/ Validate(j, v) \/ RefuseUnreviewed(j, v) \/ RefuseDrift(j, v)
          \/ LookUpMissing(j, v) \/ Apply(j, v) \/ Record(j, v) \/ Commit(j, v)
    \/ Enforce(j) \/ EnforceRefused(j) \/ Release(j)

-----------------------------------------------------------------------------
(* Faults and operators *)

\* A statement fails for another reason: statement_timeout, or the database.
StatementFails(j) ==
    /\ \E pc \in Statements : At(j, pc)
    /\ ~job[j].lost
    /\ faults < MaxFaults
    /\ faults' = faults + 1
    /\ Stops(j, "fault")
    /\ UNCHANGED <<lock, table, history, schema>>

\* The process is gone between two statements or during one: SIGKILL, the
\* deadline of MIGRATION_TIMEOUT, a cut connection.
Lose(j) ==
    /\ \E pc \in Statements \cup {"release"} : At(j, pc)
    /\ ~job[j].lost
    /\ faults < MaxFaults
    /\ faults' = faults + 1
    /\ job' = [job EXCEPT ![j].lost = TRUE]
    /\ UNCHANGED <<lock, tx, table, history, schema>>

\* PostgreSQL ends the session of a lost process: rollback, locks released.
SessionEnds(j) ==
    /\ job[j].lost
    /\ job[j].pc # "failed"
    /\ job' = [job EXCEPT ![j].pc = "failed"]
    /\ tx' = [tx EXCEPT ![j] = {}]
    /\ lock' = Unlocked(j)
    /\ UNCHANGED <<table, history, schema, faults>>

\* The manual review the error asks for: an operator compares what was applied
\* with the sources and records its checksum.
Review(v) ==
    /\ table = "nullable"
    /\ history[v] = NoChecksum
    /\ history' = [history EXCEPT ![v] = schema[v]]
    /\ UNCHANGED <<job, lock, tx, table, schema, faults>>

Next ==
    \/ \E j \in Jobs : \/ \E i \in Images : Start(j, i)
                       \/ Step(j) \/ StatementFails(j) \/ Lose(j) \/ SessionEnds(j)
    \/ \E v \in Versions : Review(v)

\* A process works its statements off, and lock_timeout and the driver bound
\* each of them.  Nothing is assumed of when PostgreSQL notices a lost one.
Fairness == \A j \in Jobs : WF_vars(~job[j].lost /\ Step(j))

Spec == Init /\ [][Next]_vars /\ Fairness

-----------------------------------------------------------------------------
(* Properties *)

\* The schema has the effect of a script exactly when the history records it,
\* whatever crash or failure came between the two: a script and its row are
\* one transaction.
SchemaMatchesHistory ==
    \A v \in Versions :
        /\ history[v] = NoRow <=> schema[v] = NoRow
        /\ history[v] \notin {NoRow, NoChecksum} => history[v] = schema[v]

\* A script is applied only by a release that found all the earlier ones it
\* embeds applied as it has them, and what is recorded stays as it is: jobs of
\* several releases never build one schema together out of different sources.
BuiltOnOwnRelease ==
    [][\A v \in Versions :
         /\ history[v] = NoRow /\ history'[v] # NoRow =>
              \E j \in Jobs :
                 /\ v \in DOMAIN job[j].image
                 /\ history'[v] = job[j].image[v].sql
                 /\ \A u \in DOMAIN job[j].image :
                       u < v => history[u] = job[j].image[u].sql
         /\ history[v] \notin {NoRow, NoChecksum} => history'[v] = history[v]]_vars

\* A job that returned nil left every script of its release in the schema, and
\* the history complete and enforced; no later job takes that back.
SuccessLasts ==
    \A j \in Jobs :
        job[j].pc = "succeeded" =>
            /\ table = "strict"
            /\ \A v \in Versions : history[v] # NoChecksum
            /\ \A v \in DOMAIN job[j].image : schema[v] = job[j].image[v].sql

\* Jobs that overlap do not make one another fail on a script: none ever finds
\* one applied that it looked up as missing.  A release is refused as drifted
\* only when the SQL, not its line endings, differs from what was applied.
RefusalsAreDue ==
    \A j \in Jobs :
        /\ job[j].error # "exists"
        /\ job[j].error = "drift" =>
              \E v \in DOMAIN job[j].image :
                 schema[v] \notin {NoRow, job[j].image[v].sql}

\* Every process that starts ends, even when a lost session never does and
\* keeps the lock: nobody waits without a limit.
EveryJobEnds ==
    \A j \in Jobs :
        job[j].pc # "absent" ~> job[j].pc \in {"succeeded", "failed"} \/ job[j].lost

=============================================================================
