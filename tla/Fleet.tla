-------------------------------- MODULE Fleet --------------------------------
(***************************************************************************)
(* One ManifestWork on the OCM hub: what the control plane does to it      *)
(* through ApplyWork of internal/fleet/ocm/client.go, and what the work    *)
(* agent of the managed cluster makes of it.  ApplyWork is a server-side   *)
(* apply (PATCH) followed by polling the conditions until they are good,   *)
(* degraded, or the context ends.  SharedIsolation and Workspace           *)
(* instantiate this module with the manifests they build.                  *)
(***************************************************************************)

CONSTANTS
    Specs,      \* the manifests a ManifestWork may carry
    NoSpec      \* the ManifestWork does not exist; nothing is enforced

VARIABLES
    hub,        \* the ManifestWork's spec and conditions, and (external)
                \* the manifests the cluster enforces
    late        \* manifests in PATCH requests whose caller gave up

Absent == [spec |-> NoSpec, enforced |-> NoSpec, conds |-> "none"]

Init == hub = Absent /\ late = {}

TypeOK ==
    /\ hub \in [spec : Specs \cup {NoSpec}, enforced : Specs \cup {NoSpec},
                conds : {"none", "ok", "degraded"}]
    /\ late \subseteq Specs

\* Server-side apply with force=true: the manifests of the request replace the
\* spec, whatever it was; the status, and so the conditions, stay as they were.
Accept(s) == hub' = [hub EXCEPT !.spec = s]

\* The caller stops waiting for the answer of its PATCH (the client's 30s
\* timeout or the end of the reconcile context).
Abandon(s) == late' = late \cup {s}

\* ... and the hub serves the request afterwards.
AcceptLate(s) ==
    /\ s \in late
    /\ Accept(s)
    /\ late' = late \ {s}

\* One poll of getWork: workConditions reads the conditions as they are, and
\* does not compare their observedGeneration with the spec just applied.  A
\* ManifestWork without conditions is polled until the context ends.
Verdict == CASE hub.conds = "ok" -> "complete"
             [] hub.conds = "degraded" -> "fail"
             [] hub.conds = "none" -> "expired"

\* External: the work agent applies the ManifestWork and reports its
\* conditions in its own time; nothing ties a report to a version of the spec.
AgentApplies ==
    /\ hub.spec # NoSpec
    /\ hub' = [hub EXCEPT !.enforced = hub.spec, !.conds = "ok"]
    /\ UNCHANGED late

AgentDegrades ==
    /\ hub.spec # NoSpec
    /\ hub' = [hub EXCEPT !.conds = "degraded"]
    /\ UNCHANGED late

=============================================================================
