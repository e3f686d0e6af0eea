---------------------------- MODULE AuditArchive ----------------------------
(***************************************************************************)
(* The monthly archive of the audit events: cmd/audit-archive and          *)
(* internal/auditarchive.  One run exports a month in one query, compares  *)
(* the export with the object in the bucket if there is one, and else      *)
(* uploads it and verifies what it finds stored.                           *)
(*                                                                         *)
(* An export is the set of its events: ordered by occurred_at and id and   *)
(* encoded deterministically, equal sets have equal size, row count and    *)
(* digest, and different sets different ones.  Query, Stat and Put are     *)
(* atomic; a run may fail or die between any two of them, and after a Put  *)
(* that was stored.  The CronJob forbids overlapping runs of its own, a    *)
(* Job started by hand may overlap with one.                               *)
(***************************************************************************)
EXTENDS AuditLog

CONSTANTS
    Runs,        \* as many runs as may overlap, each repeated any number of times
    LastMonth,   \* bound: the archive is asked for the months up to this one
    MonthStart,  \* the time at which each month, and the two after it, begin
    MinAge       \* AUDIT_ARCHIVE_MIN_AGE

Months == 0..LastMonth

ASSUME ArchiveAssumption ==
    /\ LastMonth \in Nat
    /\ MonthStart \in [0..(LastMonth + 2) -> Nat]
    /\ \A m \in 0..(LastMonth + 1) : MonthStart[m] < MonthStart[m + 1]
    /\ MinAge \in Nat
    /\ LongestOpen <= MinAge
    /\ \A export \in SUBSET Attempts : export # None

VARIABLES
    run,     \* the local state of each run
    object,  \* the latest version of the object of each month
    early    \* months exported too early by AUDIT_ARCHIVE_MONTH (history)

archiveVars == <<run, object, early>>

-----------------------------------------------------------------------------
(* Types *)

Active == {"exporting", "checking", "putting", "verifying"}

\* "idle" is also what an error, AUDIT_ARCHIVE_TIMEOUT or the end of the
\* process makes of a run.
Run == [pc     : {"idle", "uploaded", "existing", "conflict", "unverified"} \cup Active,
        month  : Months,
        export : SUBSET Attempts]

ArchiveTypeOK ==
    /\ AuditTypeOK
    /\ run \in [Runs -> Run]
    /\ object \in [Months -> (SUBSET Attempts) \cup {None}]
    /\ early \subseteq Months

ArchiveInit ==
    /\ run = [r \in Runs |-> [pc |-> "idle", month |-> 0, export |-> {}]]
    /\ object = [m \in Months |-> None]
    /\ early = {}

-----------------------------------------------------------------------------
(* Months *)

InMonth(time, m) == MonthStart[m] <= time /\ time < MonthStart[m + 1]

\* Mutant of EventsOf: the first moment of a month belongs to the one before.
EventsOfShifted(m) == {a \in audit : MonthStart[m] < stamp[a] /\ stamp[a] <= MonthStart[m + 1]}

\* WHERE occurred_at >= start AND occurred_at < end
EventsOf(m) == {a \in audit : InMonth(stamp[a], m)}

\* Mutant of Resolved: the month before the current one.
ResolvedUnaged(m) == InMonth(now, m + 1)

\* resolveMonth without AUDIT_ARCHIVE_MONTH: the month before the one that
\* contains now - MinAge.
Resolved(m) == InMonth(now - MinAge, m + 1)

TooEarly(m) == now < MonthStart[m + 1] + MinAge

-----------------------------------------------------------------------------
(* A run *)

Goes(r, pc) == run' = [run EXCEPT ![r].pc = pc]

\* The run returns; its temporary file is removed.
Returns(r, status) == run' = [run EXCEPT ![r].pc = status, ![r].export = {}]

Starts(r, m) ==
    /\ run[r].pc \notin Active
    /\ run' = [run EXCEPT ![r] = [pc |-> "exporting", month |-> m, export |-> {}]]
    /\ UNCHANGED object

StartScheduled(r, m) ==
    /\ Resolved(m)
    /\ Starts(r, m)
    /\ UNCHANGED early

\* AUDIT_ARCHIVE_MONTH names any month, the running one and a later one too.
StartExplicit(r, m) ==
    /\ Starts(r, m)
    /\ early' = IF TooEarly(m) THEN early \cup {m} ELSE early

\* source.WriteJSONL: one query, one snapshot.
Export(r) ==
    /\ run[r].pc = "exporting"
    /\ run' = [run EXCEPT ![r].pc = "checking", ![r].export = EventsOf(run[r].month)]
    /\ UNCHANGED <<object, early>>

Stored(r) == object[run[r].month]

FindsSame(r) ==
    /\ run[r].pc = "checking"
    /\ Stored(r) = run[r].export
    /\ Returns(r, "existing")
    /\ UNCHANGED <<object, early>>

FindsOther(r) ==
    /\ run[r].pc = "checking"
    /\ Stored(r) \notin {None, run[r].export}
    /\ Returns(r, "conflict")
    /\ UNCHANGED <<object, early>>

FindsNone(r) ==
    /\ run[r].pc = "checking"
    /\ Stored(r) = None
    /\ Goes(r, "putting")
    /\ UNCHANGED <<object, early>>

\* PutObject makes the export the latest version, whatever was stored since
\* Stat.  The answer may be lost.
Put(r) ==
    /\ run[r].pc = "putting"
    /\ object' = [object EXCEPT ![run[r].month] = run[r].export]
    /\ Goes(r, "verifying") \/ Returns(r, "idle")
    /\ UNCHANGED early

Verify(r) ==
    /\ run[r].pc = "verifying"
    /\ Returns(r, IF Stored(r) = run[r].export THEN "uploaded" ELSE "unverified")
    /\ UNCHANGED <<object, early>>

\* At any time.
Fail(r) ==
    /\ run[r].pc \in Active
    /\ Returns(r, "idle")
    /\ UNCHANGED <<object, early>>

RunStep(r) ==
    \/ \E m \in Months : StartScheduled(r, m) \/ StartExplicit(r, m)
    \/ Export(r) \/ FindsSame(r) \/ FindsOther(r) \/ FindsNone(r)
    \/ Put(r) \/ Verify(r) \/ Fail(r)

-----------------------------------------------------------------------------
(* Properties *)

\* The object of a month, once there is one, holds every audit event of that
\* month, those of transactions still open when the month ended included; so
\* runs of one month, repeated after any failure or side by side, never
\* contradict each other, and one that reports success has left the object.
\* Only a month that was exported too early by its name is exempt.
ArchiveIsComplete ==
    /\ \A m \in Months \ early : object[m] # None => object[m] = EventsOf(m)
    /\ \A r \in Runs : run[r].month \notin early =>
          /\ run[r].pc \notin {"conflict", "unverified"}
          /\ run[r].pc \in {"uploaded", "existing"} => Stored(r) # None

=============================================================================
