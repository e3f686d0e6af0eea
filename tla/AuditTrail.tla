----------------------------- MODULE AuditTrail -----------------------------
(***************************************************************************)
(* The requests on access tokens, the audit events they commit, and the    *)
(* runs that archive those events, sharing one database and one clock.     *)
(***************************************************************************)
EXTENDS AccessTokens, AuditArchive

vars == <<auditVars, tokenVars, archiveVars>>

TypeOK == TokensTypeOK /\ ArchiveTypeOK

Init == AuditInit /\ TokensInit /\ ArchiveInit

Next ==
    \/ \E a \in Attempts : TokenStep(a) /\ UNCHANGED archiveVars
    \/ \E r \in Runs : RunStep(r) /\ UNCHANGED <<auditVars, tokenVars>>
    \/ Tick /\ UNCHANGED <<stamp, audit, tokenVars, archiveVars>>

Spec == Init /\ [][Next]_vars

-----------------------------------------------------------------------------
(* Properties *)

\* The archive accounts for the tokens there are: the object of a month holds
\* the event of every token created in that month, by the time in its row, and
\* of no other, and a token is revoked only with an event that says so.
ArchiveHoldsEveryChange ==
    \A t \in Attempts : tokens[t] # None =>
        /\ \A m \in Months \ early :
              object[m] # None => (t \in object[m] <=> InMonth(tokens[t].expires - TTL, m))
        /\ tokens[t].revoked => \E a \in audit : Kind(a) = "revoke" /\ Body(a).token = t

=============================================================================
