---------------------------- MODULE AccessTokens ----------------------------
(***************************************************************************)
(* The access tokens of GPU workspaces: CreateAccessToken and              *)
(* RevokeAccessToken of internal/storage/postgres/workspace.go.  Issuing   *)
(* has a transaction of its own, with the same envelope as acceptMutation  *)
(* (key lock, look-up, rows, record, commit); revoking uses acceptMutation *)
(* and updates the token's row.                                            *)
(*                                                                         *)
(* A token has the identity of the attempt that issued it.  What one       *)
(* transaction writes shows at its commit; an UPDATE waits for another one *)
(* of the same row and then looks at it again.                             *)
(***************************************************************************)
EXTENDS AuditLog

CONSTANTS
    Keys,         \* idempotency keys of one principal
    Workspaces,
    Contents,     \* the requests clients may send
    TTL,          \* how long a token lives: 10 minutes
    Conflicting,  \* ErrIdempotencyConflict
    Refused,      \* ErrNotFound
    Failed        \* an internal error, or no answer

Issue == [kind : {"issue"}, workspace : Workspaces]

Revoke == [kind : {"revoke"}, workspace : Workspaces, token : Attempts]

Kinds == {"issue", "revoke"}

ASSUME TokensAssumption ==
    /\ Attempts \subseteq Int
    /\ Contents \subseteq Issue \cup Revoke
    /\ TTL \in Nat
    /\ {None, Conflicting, Refused, Failed} \cap Attempts = {}
    /\ None \notin {Conflicting, Refused, Failed} /\ Conflicting \notin {Refused, Failed}

VARIABLES
    request,  \* key and contents of each attempt
    phase,    \* how far its transaction is
    answer,   \* what its client was told
    records,  \* idempotency_records, by scope
    tokens    \* workspace_access_tokens, by the attempt that issued each

tokenVars == <<request, phase, answer, records, tokens>>

-----------------------------------------------------------------------------
(* Rows and types *)

Body(a) == request[a].content

Kind(a) == Body(a).kind

\* "workspace.access-token:" or the kind of the mutation, and the principal.
Scope(a) == <<Kind(a), request[a].key>>

Request == [key : Keys, content : Contents]

RecordRow == [content : Contents, resource : Attempts]

TokenRow == [workspace : Workspaces, expires : Nat, revoked : BOOLEAN]

ASSUME TokenRowAssumption ==
    None \notin Request \cup RecordRow \cup TokenRow
               \cup [scope : Kinds \X Keys, content : Contents]

Open == {"admitted", "written"}

TokensTypeOK ==
    /\ request \in [Attempts -> Request \cup {None}]
    /\ phase \in [Attempts -> {"new", "sent", "done"} \cup Open]
    /\ answer \in [Attempts -> Attempts \cup {None, Conflicting, Refused, Failed}]
    /\ records \in [Kinds \X Keys -> RecordRow \cup {None}]
    /\ tokens \in [Attempts -> TokenRow \cup {None}]

TokensInit ==
    /\ request = [a \in Attempts |-> None]
    /\ phase = [a \in Attempts |-> "new"]
    /\ answer = [a \in Attempts |-> None]
    /\ records = [s \in Kinds \X Keys |-> None]
    /\ tokens = [a \in Attempts |-> None]

-----------------------------------------------------------------------------
(* The envelope *)

\* The next request arrives.  It names only tokens its client can know.
Send(a, key, content) ==
    /\ phase[a] = "new"
    /\ \A b \in Attempts : b < a => phase[b] # "new"
    /\ content.kind = "revoke" => tokens[content.token] # None
    /\ request' = [request EXCEPT ![a] = [key |-> key, content |-> content]]
    /\ phase' = [phase EXCEPT ![a] = "sent"]
    /\ UNCHANGED <<answer, records, tokens, auditVars>>

Ends(a, result) ==
    /\ phase' = [phase EXCEPT ![a] = "done"]
    /\ answer' = [answer EXCEPT ![a] = result]
    /\ UNCHANGED request

\* Rollback, or the commit of a transaction that only read.
EndsWithout(a, result) ==
    /\ Ends(a, result)
    /\ DropEvent(a)
    /\ UNCHANGED <<records, tokens, now>>

\* Mutant of HasKey: there is no advisory lock.
HasKeyAlways(a) == phase[a] = "sent"

\* pg_advisory_xact_lock on the scope and key is granted.
HasKey(a) ==
    /\ phase[a] = "sent"
    /\ \A b \in Attempts : phase[b] \in Open => Scope(b) # Scope(a)

\* The key is new: the transaction reads the clock for its rows.
Admit(a) ==
    /\ HasKey(a)
    /\ records[Scope(a)] = None
    /\ phase' = [phase EXCEPT ![a] = "admitted"]
    /\ ReadClock(a)
    /\ UNCHANGED <<request, answer, records, tokens, now, audit>>

Recorded(a) == records[Scope(a)] # None /\ records[Scope(a)].content = Body(a)

\* The recorded response again: for an issued token the token itself, also
\* when it has expired or was revoked since.
Replay(a) ==
    /\ HasKey(a)
    /\ Recorded(a)
    /\ EndsWithout(a, records[Scope(a)].resource)

Conflict(a) ==
    /\ HasKey(a)
    /\ records[Scope(a)] # None
    /\ ~Recorded(a)
    /\ EndsWithout(a, Conflicting)

\* A statement fails, the request is cancelled or the process ends.
Abort(a) ==
    /\ phase[a] \in Open \cup {"sent"}
    /\ EndsWithout(a, Failed)

-----------------------------------------------------------------------------
(* The statements on workspace_access_tokens *)

Writes(a) ==
    /\ phase' = [phase EXCEPT ![a] = "written"]
    /\ UNCHANGED <<request, answer, records, tokens, auditVars>>

InsertToken(a) ==
    /\ phase[a] = "admitted" /\ Kind(a) = "issue"
    /\ Writes(a)

\* Another transaction has updated the row and is still open.
RowLocked(t) ==
    \E b \in Attempts : phase[b] = "written" /\ Kind(b) = "revoke" /\ Body(b).token = t

\* WHERE id = $1 AND workspace_id = $2 AND revoked_at IS NULL
Hits(a) ==
    LET row == tokens[Body(a).token] IN
    row # None /\ row.workspace = Body(a).workspace /\ ~row.revoked

\* Mutant of Updated: RowsAffected is not looked at.
UpdatedAlways(a) == TRUE

\* The UPDATE affected a row.
Updated(a) == Hits(a)

UpdateToken(a) ==
    /\ phase[a] = "admitted" /\ Kind(a) = "revoke"
    /\ ~RowLocked(Body(a).token)
    /\ IF Updated(a) THEN Writes(a) ELSE EndsWithout(a, Refused)

\* The rows, the audit event and the idempotency record of the mutation.
Row(a) == [workspace |-> Body(a).workspace, expires |-> stamp[a] + TTL, revoked |-> FALSE]

Changed(a) ==
    IF Kind(a) = "issue" THEN [tokens EXCEPT ![a] = Row(a)]
    ELSE IF Hits(a) THEN [tokens EXCEPT ![Body(a).token].revoked = TRUE]
    ELSE tokens

Commit(a) ==
    /\ phase[a] = "written"
    /\ tokens' = Changed(a)
    /\ records' = [records EXCEPT ![Scope(a)] = [content |-> Body(a), resource |-> a]]
    /\ CommitEvent(a)
    /\ Ends(a, a) \/ Ends(a, Failed)  \* the connection is lost after the commit
    /\ UNCHANGED now

TokenStep(a) ==
    \/ \E key \in Keys, content \in Contents : Send(a, key, content)
    \/ Admit(a) \/ Replay(a) \/ Conflict(a) \/ Abort(a)
    \/ InsertToken(a) \/ UpdateToken(a) \/ Commit(a)

-----------------------------------------------------------------------------
(* Introspection, and the properties *)

\* InspectAccessToken finds the token: a read of one row, at any time.
Inspects(t) == tokens[t] # None /\ ~tokens[t].revoked /\ tokens[t].expires > now

\* What a client was told stays true.  An issued token, the repeated answer
\* included, is a token for the workspace that was asked for, and it works
\* until it expires or a revocation took effect.  After a revocation was
\* accepted the token never works again.
AnswersHold ==
    \A a \in Attempts : answer[a] \in Attempts =>
        LET t == IF Kind(a) = "issue" THEN answer[a] ELSE Body(a).token IN
        /\ tokens[t] # None
        /\ tokens[t].workspace = Body(a).workspace
        /\ Kind(a) = "revoke" => ~Inspects(t)
        /\ Inspects(t) \/ tokens[t].expires <= now
             \/ \E b \in audit : Kind(b) = "revoke" /\ Body(b).token = t

\* Token requests keep the promise every mutation makes: one key takes effect
\* at most once, and each repetition is answered with that effect.
Promise == INSTANCE Acceptance WITH
    Scopes <- Kinds \X Keys,
    request <- [a \in Attempts |-> IF request[a] = None THEN None
                                   ELSE [scope |-> Scope(a), content |-> Body(a)]],
    effects <- audit \cup {a \in Attempts : tokens[a] # None}

AcceptanceKept == Promise!Spec

=============================================================================
