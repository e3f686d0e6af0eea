-------------------------- MODULE AuditTrailProofs --------------------------
(***************************************************************************)
(* The properties of AuditTrail for every number of requests, keys, tokens *)
(* and archive runs, every calendar and every clock.  The inductive        *)
(* invariant has three parts: the envelope of the requests (Envelope), what *)
(* a committed request has left behind (Effects), and what a run of the    *)
(* archive may rely on once a month is old enough (Archived).              *)
(***************************************************************************)
EXTENDS AuditTrail, TLAPS

-----------------------------------------------------------------------------
(* The invariant *)

\* What each phase of a request means.
Lifecycle ==
    \A a \in Attempts :
        /\ phase[a] = "new" <=> request[a] = None
        /\ phase[a] # "done" => answer[a] = None /\ a \notin audit
        /\ phase[a] \in Open => stamp[a] # None

\* An open transaction is the only one of its key, which has no record yet.
KeysHeld ==
    \A a \in Attempts : phase[a] \in Open =>
        /\ records[Scope(a)] = None
        /\ \A b \in Attempts : phase[b] \in Open /\ Scope(b) = Scope(a) => b = a

Revoking(a) == phase[a] = "written" /\ Kind(a) = "revoke"

\* An open revocation that has updated a row is the only one of that token,
\* which is as its WHERE clause asked.
RowsHeld ==
    \A a \in Attempts : Revoking(a) =>
        /\ Hits(a)
        /\ \A b \in Attempts : Revoking(b) /\ Body(b).token = Body(a).token => b = a

Envelope == Lifecycle /\ KeysHeld /\ RowsHeld

\* A committed request has its record, and each record is of such a request.
RecordsTrue ==
    /\ \A a \in audit : records[Scope(a)] = [content |-> Body(a), resource |-> a]
    /\ \A s \in Kinds \X Keys : records[s] # None =>
          /\ records[s].resource \in audit
          /\ Scope(records[s].resource) = s
          /\ Body(records[s].resource) = records[s].content

\* A committed request has changed the tokens as it says.
EffectsDone ==
    \A a \in audit :
        /\ Kind(a) = "issue" => tokens[a] # None
        /\ Kind(a) = "revoke" => /\ tokens[Body(a).token] # None
                                 /\ tokens[Body(a).token].workspace = Body(a).workspace
                                 /\ tokens[Body(a).token].revoked

RevokedByEvent(t) == \E a \in audit : Kind(a) = "revoke" /\ Body(a).token = t

\* A token was issued by a committed request, and revoked only by another one.
TokensTrue ==
    \A t \in Attempts : tokens[t] # None =>
        /\ t \in audit /\ Kind(t) = "issue"
        /\ tokens[t].workspace = Body(t).workspace
        /\ tokens[t].expires = stamp[t] + TTL
        /\ tokens[t].revoked => RevokedByEvent(t)

\* Who was told of an effect asked for exactly that.
AnswersTrue ==
    \A a \in Attempts : answer[a] \in Attempts =>
        answer[a] \in audit /\ request[answer[a]] = request[a]

Effects == RecordsTrue /\ EffectsDone /\ TokensTrue /\ AnswersTrue

\* Stamps are of the past, and of the near past while the event is not visible.
StampsKept ==
    /\ \A a \in audit : stamp[a] # None
    /\ \A a \in Attempts : stamp[a] # None =>
          /\ stamp[a] <= now
          /\ a \notin audit => now <= stamp[a] + LongestOpen

\* A month nobody exported too early was old enough when its object was stored,
\* and the object is what the month's events are now.
ObjectsKept ==
    \A m \in Months \ early : object[m] # None =>
        ~TooEarly(m) /\ object[m] = EventsOf(m)

\* ... and so it was when a run took it up; its export is still current.
RunsKept ==
    \A r \in Runs : run[r].month \notin early =>
        /\ run[r].pc # "idle" => ~TooEarly(run[r].month)
        /\ run[r].pc \in {"checking", "putting", "verifying"} =>
              run[r].export = EventsOf(run[r].month)
        /\ run[r].pc \in {"verifying", "uploaded", "existing"} => object[run[r].month] # None
        /\ run[r].pc \notin {"conflict", "unverified"}

Archived == StampsKept /\ ObjectsKept /\ RunsKept

IInv == TypeOK /\ Envelope /\ Effects /\ Archived

-----------------------------------------------------------------------------
(* Types *)

\* What a request that was sent consists of.
LEMMA RequestType ==
    ASSUME TypeOK, NEW a \in Attempts, request[a] # None
    PROVE  /\ request[a] \in Request /\ Body(a) \in Contents
           /\ Kind(a) \in Kinds /\ Scope(a) \in Kinds \X Keys
           /\ Body(a).workspace \in Workspaces
           /\ Kind(a) = "revoke" => Body(a).token \in Attempts
<1>1. request[a] \in Request /\ Body(a) \in Contents
  BY DEF TypeOK, TokensTypeOK, Request, Body
<1>2. CASE Body(a) \in Issue
  BY <1>1, <1>2 DEF Issue, Request, Kind, Kinds, Scope
<1>3. CASE Body(a) \in Revoke
  BY <1>1, <1>3 DEF Revoke, Request, Kind, Kinds, Scope
<1> QED
  BY <1>1, <1>2, <1>3, TokensAssumption

\* What is not new was sent, and what was committed is done.
LEMMA SentFacts ==
    ASSUME Lifecycle, NEW a \in Attempts, phase[a] # "new" \/ a \in audit
    PROVE  phase[a] # "new" /\ request[a] # None
<1> QED
  BY DEF Lifecycle

\* Rows, records and requests are not the absent one.
LEMMA Present ==
    ASSUME NEW x
    PROVE  /\ x \in Request => x # None
           /\ x \in RecordRow => x # None
           /\ x \in TokenRow => x # None
           /\ x \in Attempts => x \notin {None, Conflicting, Refused, Failed}
<1> QED
  BY TokenRowAssumption, TokensAssumption

\* The answer of a request that ends without effect.
Results(a) ==
    {Conflicting, Refused, Failed}
      \cup (IF Recorded(a) THEN {records[Scope(a)].resource} ELSE {})

Stops(a) ==
    /\ phase[a] \in Open \cup {"sent"}
    /\ \E result \in Results(a) : EndsWithout(a, result)

Proceeds(a) ==
    /\ phase[a] = "admitted"
    /\ Writes(a)
    /\ Kind(a) = "revoke" => Hits(a) /\ ~RowLocked(Body(a).token)

\* A request arrives, gets its key, has written, commits or ends without effect.
LEMMA StepShape ==
    ASSUME NEW a \in Attempts, TokenStep(a)
    PROVE  \/ \E key \in Keys, content \in Contents : Send(a, key, content)
           \/ Admit(a) \/ Stops(a) \/ Proceeds(a) \/ Commit(a)
<1>1. CASE Replay(a)
  BY <1>1 DEF Replay, Stops, Results, HasKey
<1>2. CASE Conflict(a)
  BY <1>2 DEF Conflict, Stops, Results, HasKey
<1>3. CASE Abort(a)
  BY <1>3 DEF Abort, Stops, Results
<1>4. CASE InsertToken(a)
  BY <1>4 DEF InsertToken, Proceeds
<1>5. CASE UpdateToken(a)
  BY <1>5 DEF UpdateToken, Updated, Proceeds, Stops, Results, Open
<1> QED
  BY <1>1, <1>2, <1>3, <1>4, <1>5 DEF TokenStep

-----------------------------------------------------------------------------
(* Months *)

LEMMA MonthType ==
    ASSUME NEW m \in Months
    PROVE  /\ MonthStart[m] \in Nat /\ MonthStart[m + 1] \in Nat /\ MonthStart[m + 2] \in Nat
           /\ MinAge \in Nat /\ LongestOpen \in Nat /\ LongestOpen <= MinAge
           /\ LastTime \in Nat
<1>1. LastMonth \in Nat /\ m \in 0..LastMonth
  BY ArchiveAssumption DEF Months
<1>2. m \in 0..(LastMonth + 2) /\ m + 1 \in 0..(LastMonth + 2) /\ m + 2 \in 0..(LastMonth + 2)
  BY <1>1
<1> QED
  BY <1>2, ArchiveAssumption, AuditLogAssumption

\* The month a scheduled run takes is old enough.
LEMMA ResolvedIsOld ==
    ASSUME TypeOK, NEW m \in Months, Resolved(m)
    PROVE  ~TooEarly(m)
<1>1. MonthStart[m + 1] \in Nat /\ MinAge \in Nat /\ now \in Nat
  BY MonthType, AuditLogAssumption DEF TypeOK, ArchiveTypeOK, AuditTypeOK
<1>2. MonthStart[m + 1] <= now - MinAge
  BY DEF Resolved, InMonth
<1> QED
  BY <1>1, <1>2 DEF TooEarly

\* A transaction that is still open does not belong to a month that is old
\* enough: it read the clock at most LongestOpen ago.
LEMMA SettledUnchanged ==
    ASSUME TypeOK, StampsKept, NEW a \in Attempts, a \notin audit, stamp[a] # None,
           NEW m \in Months, ~TooEarly(m)
    PROVE  ~InMonth(stamp[a], m)
<1>1. /\ MonthStart[m + 1] \in Nat /\ MinAge \in Nat /\ LongestOpen \in Nat
      /\ LongestOpen <= MinAge
  BY MonthType
<1>2. now \in Nat /\ stamp[a] \in Nat
  BY AuditLogAssumption DEF TypeOK, ArchiveTypeOK, AuditTypeOK
<1>3. now <= stamp[a] + LongestOpen
  BY DEF StampsKept
<1>4. MonthStart[m + 1] + MinAge <= now
  BY <1>1, <1>2 DEF TooEarly
<1>5. ~(stamp[a] < MonthStart[m + 1])
  BY <1>1, <1>2, <1>3, <1>4
<1> QED
  BY <1>5 DEF InMonth

\* What is archived stays right while the months that are old enough stay so
\* and keep their events.
LEMMA ArchivedStays ==
    ASSUME ObjectsKept, RunsKept, TypeOK, UNCHANGED archiveVars,
           \A m \in Months : ~TooEarly(m) => ~TooEarly(m)' /\ EventsOf(m)' = EventsOf(m)
    PROVE  ObjectsKept' /\ RunsKept'
<1>1. ObjectsKept'
  BY DEF ObjectsKept, archiveVars
<1>2. \A r \in Runs : run[r].month \in Months
  BY DEF TypeOK, ArchiveTypeOK, Run
<1>3. RunsKept'
  BY <1>2 DEF RunsKept, archiveVars
<1> QED
  BY <1>1, <1>3

-----------------------------------------------------------------------------
(* The steps of a request *)

\* Events that are committed keep their month.
LEMMA EventsStay ==
    ASSUME TypeOK, now' = now, audit' = audit, \A a \in audit : stamp'[a] = stamp[a],
           NEW m \in Months
    PROVE  TooEarly(m)' = TooEarly(m) /\ EventsOf(m)' = EventsOf(m)
<1> QED
  BY DEF TooEarly, EventsOf, InMonth

LEMMA SendKeeps ==
    ASSUME IInv, NEW a \in Attempts, NEW key \in Keys, NEW content \in Contents,
           Send(a, key, content), UNCHANGED archiveVars
    PROVE  IInv'
<1> USE DEF IInv, Envelope, Effects, Archived
<1> DEFINE sent == [key |-> key, content |-> content]
<1>1. /\ phase[a] = "new" /\ request[a] = None /\ answer[a] = None /\ a \notin audit
      /\ request' = [request EXCEPT ![a] = sent]
      /\ phase' = [phase EXCEPT ![a] = "sent"]
      /\ UNCHANGED <<answer, records, tokens, now, stamp, audit>>
  BY DEF Send, Lifecycle, auditVars
<1>2. sent \in Request /\ sent # None
  BY TokenRowAssumption DEF Request
<1>3. /\ request'[a] = sent /\ phase'[a] = "sent"
      /\ \A b \in Attempts : b # a => request'[b] = request[b] /\ phase'[b] = phase[b]
  BY <1>1 DEF TypeOK, TokensTypeOK
<1>4. \A b \in Attempts : b # a =>
        Scope(b)' = Scope(b) /\ Body(b)' = Body(b) /\ Kind(b)' = Kind(b)
  BY <1>3 DEF Scope, Body, Kind
<1>5. \A b \in audit : b \in Attempts /\ b # a
  BY <1>1 DEF TypeOK, ArchiveTypeOK, AuditTypeOK
<1>6. TypeOK'
  BY <1>1, <1>2 DEF TypeOK, TokensTypeOK, ArchiveTypeOK, AuditTypeOK, archiveVars
<1>7. Lifecycle'
  BY <1>1, <1>2, <1>3 DEF Lifecycle, Open
<1>8. KeysHeld'
  BY <1>1, <1>3, <1>4 DEF KeysHeld, Open
<1>9. RowsHeld'
  <2>1. \A b \in Attempts : Revoking(b)' => b # a /\ Revoking(b) /\ Hits(b)' = Hits(b)
    BY <1>1, <1>3, <1>4 DEF Revoking, Hits
  <2> QED
    BY <1>4, <2>1 DEF RowsHeld
<1>10. RecordsTrue'
  BY <1>1, <1>4, <1>5 DEF RecordsTrue
<1>11. EffectsDone'
  BY <1>1, <1>4, <1>5 DEF EffectsDone
<1>12. TokensTrue'
  BY <1>1, <1>4, <1>5 DEF TokensTrue, RevokedByEvent
<1>13. AnswersTrue'
  BY <1>1, <1>3, <1>5, Present DEF AnswersTrue
<1>14. StampsKept'
  BY <1>1 DEF StampsKept
<1>15. ObjectsKept' /\ RunsKept'
  BY <1>1, EventsStay, ArchivedStays
<1> QED
  BY <1>6, <1>7, <1>8, <1>9, <1>10, <1>11, <1>12, <1>13, <1>14, <1>15

\* A step that only moves a request that is under way.
LEMMA MoveKeeps ==
    ASSUME IInv, NEW a \in Attempts, NEW p \in Open, phase[a] \in Open \cup {"sent"},
           phase' = [phase EXCEPT ![a] = p],
           \/ stamp' = stamp /\ phase[a] \in Open
           \/ stamp' = [stamp EXCEPT ![a] = now] /\ HasKey(a) /\ records[Scope(a)] = None,
           p = "written" /\ Kind(a) = "revoke" => Hits(a) /\ ~RowLocked(Body(a).token),
           UNCHANGED <<request, answer, records, tokens, now, audit, archiveVars>>
    PROVE  IInv'
<1> USE DEF IInv, Envelope, Effects, Archived
<1>1. /\ phase'[a] = p /\ \A b \in Attempts : b # a => phase'[b] = phase[b]
      /\ \A b \in Attempts : b # a => stamp'[b] = stamp[b]
      /\ stamp'[a] \in {now, stamp[a]} /\ stamp'[a] # None
      /\ stamp[a] = None \/ stamp'[a] = stamp[a] \/ stamp'[a] = now
  <2>1. now # None
    BY AuditLogAssumption DEF TypeOK, ArchiveTypeOK, AuditTypeOK
  <2> QED
    BY <2>1 DEF TypeOK, TokensTypeOK, ArchiveTypeOK, AuditTypeOK, Lifecycle
<1>2. /\ a \notin audit /\ answer[a] = None /\ request[a] # None
      /\ phase[a] # "new" /\ p # "new" /\ p # "done"
  BY DEF Lifecycle, Open
<1>3. \A b : Scope(b)' = Scope(b) /\ Body(b)' = Body(b) /\ Kind(b)' = Kind(b) /\ Hits(b)' = Hits(b)
  BY DEF Scope, Body, Kind, Hits
<1>4. TypeOK'
  BY DEF TypeOK, TokensTypeOK, ArchiveTypeOK, AuditTypeOK, archiveVars
<1>5. Lifecycle'
  BY <1>1, <1>2 DEF Lifecycle
<1>6. KeysHeld'
  <2>1. CASE phase[a] \in Open
    BY <1>1, <1>3, <2>1 DEF KeysHeld
  <2>2. CASE HasKey(a) /\ records[Scope(a)] = None
    BY <1>1, <1>3, <2>2 DEF KeysHeld, HasKey
  <2> QED
    BY <2>1, <2>2
<1>7. RowsHeld'
  <2>1. \A b \in Attempts : b # a => Revoking(b)' = Revoking(b)
    BY <1>1, <1>3 DEF Revoking
  <2>2. CASE Revoking(a)'
    <3>1. Hits(a) /\ ~RowLocked(Body(a).token)
      BY <1>1, <1>3, <2>2 DEF Revoking
    <3> QED
      BY <1>3, <2>1, <3>1 DEF RowsHeld, RowLocked, Revoking
  <2>3. CASE ~Revoking(a)'
    BY <1>3, <2>1, <2>3 DEF RowsHeld
  <2> QED
    BY <2>2, <2>3
<1>8. RecordsTrue'
  BY <1>3 DEF RecordsTrue
<1>9. EffectsDone'
  BY <1>3 DEF EffectsDone
<1>10. TokensTrue'
  <2>1. \A t \in audit : stamp'[t] = stamp[t]
    BY <1>1, <1>2 DEF TypeOK, ArchiveTypeOK, AuditTypeOK
  <2> QED
    BY <1>3, <2>1 DEF TokensTrue, RevokedByEvent
<1>11. AnswersTrue'
  BY DEF AnswersTrue
<1>12. StampsKept'
  <2>1. now \in Nat /\ LongestOpen \in Nat
    BY AuditLogAssumption DEF TypeOK, ArchiveTypeOK, AuditTypeOK
  <2>2. audit \subseteq Attempts
    BY DEF TypeOK, ArchiveTypeOK, AuditTypeOK
  <2> QED
    BY <1>1, <1>2, <2>1, <2>2 DEF StampsKept
<1>13. ObjectsKept' /\ RunsKept'
  <2>1. \A b \in audit : stamp'[b] = stamp[b]
    BY <1>1, <1>2 DEF TypeOK, ArchiveTypeOK, AuditTypeOK
  <2> QED
    BY <2>1, EventsStay, ArchivedStays
<1> QED
  BY <1>4, <1>5, <1>6, <1>7, <1>8, <1>9, <1>10, <1>11, <1>12, <1>13

\* A request that ends without effect.
LEMMA StopKeeps ==
    ASSUME IInv, NEW a \in Attempts, Stops(a), UNCHANGED archiveVars
    PROVE  IInv'
<1> USE DEF IInv, Envelope, Effects, Archived
<1> PICK result \in Results(a) : EndsWithout(a, result)
  BY DEF Stops
<1>1. /\ phase[a] # "new" /\ phase[a] # "done" /\ request[a] # None
      /\ answer[a] = None /\ a \notin audit
  BY DEF Stops, Open, Lifecycle
<1>2. /\ phase' = [phase EXCEPT ![a] = "done"]
      /\ answer' = [answer EXCEPT ![a] = result]
      /\ stamp' = [stamp EXCEPT ![a] = None]
      /\ UNCHANGED <<request, audit, records, tokens, now>>
  BY DEF EndsWithout, Ends, DropEvent
<1>3. /\ phase'[a] = "done" /\ answer'[a] = result /\ stamp'[a] = None
      /\ \A b \in Attempts : b # a =>
           phase'[b] = phase[b] /\ answer'[b] = answer[b] /\ stamp'[b] = stamp[b]
  BY <1>2 DEF TypeOK, TokensTypeOK, ArchiveTypeOK, AuditTypeOK
<1>4. \A b : Scope(b)' = Scope(b) /\ Body(b)' = Body(b) /\ Kind(b)' = Kind(b) /\ Hits(b)' = Hits(b)
  BY <1>2 DEF Scope, Body, Kind, Hits
<1>5. \/ result \in {Conflicting, Refused, Failed}
      \/ result \in audit /\ result \in Attempts /\ request[result] = request[a]
  <2> SUFFICES ASSUME Recorded(a), result = records[Scope(a)].resource
               PROVE  result \in audit /\ result \in Attempts /\ request[result] = request[a]
    BY DEF Results
  <2>1. Scope(a) \in Kinds \X Keys /\ request[a] \in Request
    BY <1>1, RequestType
  <2>2. result \in audit /\ Scope(result) = Scope(a) /\ Body(result) = Body(a)
    BY <2>1 DEF RecordsTrue, Recorded
  <2>3. result \in Attempts /\ request[result] \in Request
    BY <2>2, SentFacts, RequestType DEF TypeOK, ArchiveTypeOK, AuditTypeOK
  <2> QED
    BY <2>1, <2>2, <2>3 DEF Scope, Body, Request
<1>6. \A b \in audit : b \in Attempts /\ b # a /\ stamp'[b] = stamp[b]
  BY <1>1, <1>3 DEF TypeOK, ArchiveTypeOK, AuditTypeOK
<1>7. TypeOK'
  BY <1>2, <1>5 DEF TypeOK, TokensTypeOK, ArchiveTypeOK, AuditTypeOK, archiveVars
<1>8. Lifecycle'
  BY <1>1, <1>2, <1>3 DEF Lifecycle, Open
<1>9. KeysHeld'
  BY <1>2, <1>3, <1>4 DEF KeysHeld, Open
<1>10. RowsHeld'
  <2>1. \A b \in Attempts : Revoking(b)' => Revoking(b)
    BY <1>3, <1>4 DEF Revoking
  <2> QED
    BY <1>4, <2>1 DEF RowsHeld
<1>11. RecordsTrue'
  BY <1>2, <1>4 DEF RecordsTrue
<1>12. EffectsDone'
  BY <1>2, <1>4 DEF EffectsDone
<1>13. TokensTrue'
  BY <1>2, <1>4, <1>6 DEF TokensTrue, RevokedByEvent
<1>14. AnswersTrue'
  BY <1>2, <1>3, <1>5, TokensAssumption DEF AnswersTrue
<1>15. StampsKept'
  BY <1>2, <1>3, <1>6 DEF StampsKept
<1>16. ObjectsKept' /\ RunsKept'
  BY <1>2, <1>6, EventsStay, ArchivedStays
<1> QED
  BY <1>7, <1>8, <1>9, <1>10, <1>11, <1>12, <1>13, <1>14, <1>15, <1>16

\* What a commit does to the tokens: it adds the request's own or revokes one.
LEMMA ChangedTokens ==
    ASSUME IInv, NEW a \in Attempts, phase[a] = "written", tokens' = Changed(a)
    PROVE  /\ tokens' \in [Attempts -> TokenRow \cup {None}]
           /\ Kind(a) = "issue" =>
                /\ tokens[a] = None /\ tokens'[a] = Row(a)
                /\ \A t \in Attempts : t # a => tokens'[t] = tokens[t]
           /\ Kind(a) = "revoke" =>
                /\ Body(a).token \in Attempts /\ tokens[Body(a).token] # None
                /\ tokens[Body(a).token].workspace = Body(a).workspace
                /\ tokens'[Body(a).token] = [tokens[Body(a).token] EXCEPT !.revoked = TRUE]
                /\ \A t \in Attempts : t # Body(a).token => tokens'[t] = tokens[t]
           /\ Kind(a) \in {"issue", "revoke"}
<1> USE DEF IInv, Envelope, Effects, Archived
<1>1. /\ request[a] # None /\ a \notin audit /\ stamp[a] \in Nat
      /\ TTL \in Nat
  BY AuditLogAssumption, TokensAssumption
     DEF Lifecycle, Open, TypeOK, ArchiveTypeOK, AuditTypeOK
<1>2. /\ Kind(a) \in {"issue", "revoke"} /\ Body(a).workspace \in Workspaces
      /\ Kind(a) = "revoke" => Body(a).token \in Attempts
  BY <1>1, RequestType DEF Kinds
<1>3. tokens \in [Attempts -> TokenRow \cup {None}]
  BY DEF TypeOK, TokensTypeOK
<1>4. CASE Kind(a) = "issue"
  <2>1. Row(a) \in TokenRow
    BY <1>1, <1>2 DEF Row, TokenRow
  <2>2. tokens' = [tokens EXCEPT ![a] = Row(a)]
    BY <1>4 DEF Changed
  <2>3. tokens[a] = None
    BY <1>1 DEF TokensTrue
  <2> QED
    BY <1>2, <1>3, <1>4, <2>1, <2>2, <2>3
<1>5. CASE Kind(a) = "revoke"
  <2>1. Hits(a)
    BY <1>5 DEF RowsHeld, Revoking
  <2>2. tokens' = [tokens EXCEPT ![Body(a).token].revoked = TRUE]
    BY <1>5, <2>1 DEF Changed
  <2>3. tokens[Body(a).token] \in TokenRow
    BY <1>2, <1>3, <1>5, <2>1 DEF Hits
  <2>4. [tokens[Body(a).token] EXCEPT !.revoked = TRUE] \in TokenRow
    BY <2>3 DEF TokenRow
  <2> QED
    BY <1>2, <1>3, <1>5, <2>1, <2>2, <2>4 DEF Hits
<1> QED
  BY <1>2, <1>4, <1>5

LEMMA CommitKeeps ==
    ASSUME IInv, NEW a \in Attempts, Commit(a), UNCHANGED archiveVars
    PROVE  IInv'
<1> USE DEF IInv, Envelope, Effects, Archived
<1> DEFINE record == [content |-> Body(a), resource |-> a]
<1>1. /\ phase[a] = "written" /\ phase[a] \in Open /\ tokens' = Changed(a)
      /\ records' = [records EXCEPT ![Scope(a)] = record]
      /\ audit' = audit \cup {a}
      /\ phase' = [phase EXCEPT ![a] = "done"]
      /\ answer' = [answer EXCEPT ![a] = a] \/ answer' = [answer EXCEPT ![a] = Failed]
      /\ UNCHANGED <<request, stamp, now>>
  BY DEF Commit, CommitEvent, Ends, Open
<1>2. /\ request[a] # None /\ answer[a] = None /\ a \notin audit /\ stamp[a] # None
      /\ records[Scope(a)] = None
  BY <1>1 DEF Lifecycle, KeysHeld, Open
<1>3. /\ Scope(a) \in Kinds \X Keys /\ record \in RecordRow /\ record # None
      /\ Body(a).workspace \in Workspaces
  BY <1>2, RequestType, Present DEF RecordRow
<1>4. /\ phase'[a] = "done" /\ answer'[a] \in {a, Failed} /\ answer'[a] # None
      /\ \A b \in Attempts : b # a => phase'[b] = phase[b] /\ answer'[b] = answer[b]
      /\ records'[Scope(a)] = record
      /\ \A s \in Kinds \X Keys : s # Scope(a) => records'[s] = records[s]
  BY <1>1, <1>3, TokensAssumption DEF TypeOK, TokensTypeOK
<1>5. \A b : Scope(b)' = Scope(b) /\ Body(b)' = Body(b) /\ Kind(b)' = Kind(b)
  BY <1>1 DEF Scope, Body, Kind
<1>6. audit \subseteq Attempts /\ \A b \in audit : b \in Attempts /\ b # a /\ request[b] # None
  BY <1>2, SentFacts DEF TypeOK, ArchiveTypeOK, AuditTypeOK
<1>7. \A b \in audit : /\ Scope(b) \in Kinds \X Keys /\ Scope(b) # Scope(a)
                       /\ Kind(b) \in Kinds
                       /\ Kind(b) = "revoke" => Body(b).token \in Attempts
  <2> SUFFICES ASSUME NEW b \in audit
               PROVE  /\ Scope(b) \in Kinds \X Keys /\ Scope(b) # Scope(a)
                      /\ Kind(b) \in Kinds /\ (Kind(b) = "revoke" => Body(b).token \in Attempts)
    OBVIOUS
  <2>1. Body(b) \in Contents /\ Scope(b) \in Kinds \X Keys /\ Kind(b) \in Kinds
        /\ (Kind(b) = "revoke" => Body(b).token \in Attempts)
    BY <1>6, RequestType
  <2>2. [content |-> Body(b), resource |-> b] # None
    BY <1>6, <2>1, Present DEF RecordRow
  <2> QED
    BY <1>2, <2>1, <2>2 DEF RecordsTrue
<1>8. TypeOK'
  <2>1. AuditTypeOK' /\ ArchiveTypeOK'
    BY <1>1 DEF TypeOK, ArchiveTypeOK, AuditTypeOK, archiveVars
  <2>2. tokens' \in [Attempts -> TokenRow \cup {None}]
    BY <1>1, ChangedTokens
  <2>3. /\ phase' \in [Attempts -> {"new", "sent", "done"} \cup Open]
        /\ answer' \in [Attempts -> Attempts \cup {None, Conflicting, Refused, Failed}]
        /\ request' \in [Attempts -> Request \cup {None}]
    BY <1>1 DEF TypeOK, TokensTypeOK
  <2>4. records' \in [Kinds \X Keys -> RecordRow \cup {None}]
    BY <1>1, <1>3 DEF TypeOK, TokensTypeOK
  <2> QED
    BY <2>1, <2>2, <2>3, <2>4 DEF TypeOK, TokensTypeOK
<1>9. Lifecycle'
  BY <1>1, <1>2, <1>4 DEF Lifecycle, Open
<1>10. KeysHeld'
  <2>1. ASSUME NEW b \in Attempts, phase'[b] \in Open
        PROVE  b # a /\ phase[b] \in Open /\ Scope(b) \in Kinds \X Keys /\ Scope(b) # Scope(a)
    <3>1. b # a /\ phase[b] \in Open
      BY <1>4, <2>1 DEF Open
    <3>2. Scope(b) \in Kinds \X Keys
      BY <3>1, RequestType, SentFacts DEF Open
    <3> QED
      BY <1>1, <3>1, <3>2 DEF KeysHeld
  <2> QED
    BY <1>4, <1>5, <2>1 DEF KeysHeld
<1>11. RowsHeld'
  <2>1. \A b \in Attempts : Revoking(b)' => b # a /\ Revoking(b)
    BY <1>4, <1>5 DEF Revoking
  <2>2. ASSUME NEW b \in Attempts, b # a, Revoking(b) PROVE Hits(b)'
    <3>1. Hits(b) /\ Body(b).token \in Attempts
      BY <2>2, RequestType, SentFacts DEF RowsHeld, Revoking
    <3>2. tokens'[Body(b).token] = tokens[Body(b).token]
      <4>1. CASE Kind(a) = "issue"
        BY <1>1, <3>1, <4>1, ChangedTokens DEF Hits
      <4>2. CASE Kind(a) = "revoke"
        <5>1. Body(b).token # Body(a).token
          BY <1>1, <2>2, <4>2 DEF RowsHeld, Revoking
        <5> QED
          BY <1>1, <3>1, <4>2, <5>1, ChangedTokens
      <4> QED
        BY <1>1, <4>1, <4>2, ChangedTokens
    <3> QED
      BY <1>5, <3>1, <3>2 DEF Hits
  <2> QED
    BY <1>5, <2>1, <2>2 DEF RowsHeld
<1>12. RecordsTrue'
  <2>1. \A b \in audit' : records'[Scope(b)'] = [content |-> Body(b)', resource |-> b]
    BY <1>1, <1>4, <1>5, <1>7 DEF RecordsTrue
  <2>2. ASSUME NEW s \in Kinds \X Keys, records'[s] # None
        PROVE  (/\ records[s].resource \in audit
                /\ Scope(records[s].resource) = s
                /\ Body(records[s].resource) = records[s].content)'
    <3>1. CASE s = Scope(a)
      <4>1. records'[s].resource = a /\ records'[s].content = Body(a)
        BY <1>4, <3>1
      <4> QED
        BY <1>1, <3>1, <4>1 DEF Scope, Body, Kind
    <3>2. CASE s # Scope(a)
      <4>1. records'[s] = records[s]
        BY <1>4, <3>2
      <4>2. /\ records[s].resource \in audit
            /\ Scope(records[s].resource) = s
            /\ Body(records[s].resource) = records[s].content
        BY <2>2, <4>1 DEF RecordsTrue
      <4> QED
        BY <1>1, <4>1, <4>2 DEF Scope, Body, Kind
    <3> QED
      BY <3>1, <3>2
  <2> QED
    BY <2>1, <2>2 DEF RecordsTrue
<1>13. ASSUME NEW t \in Attempts, tokens[t] # None
       PROVE  /\ tokens'[t] # None /\ tokens'[t].workspace = tokens[t].workspace
              /\ tokens'[t].expires = tokens[t].expires
              /\ tokens[t].revoked => tokens'[t].revoked
              /\ tokens'[t].revoked => tokens[t].revoked \/ (Kind(a) = "revoke" /\ Body(a).token = t)
  <2>1. tokens[t] \in TokenRow
    BY <1>13 DEF TypeOK, TokensTypeOK
  <2>2. CASE tokens'[t] = tokens[t]
    BY <1>13, <2>2
  <2>3. CASE Kind(a) = "revoke" /\ t = Body(a).token
    <3>1. tokens'[t] = [tokens[t] EXCEPT !.revoked = TRUE] /\ tokens'[t] \in TokenRow \cup {None}
      BY <1>1, <2>3, ChangedTokens
    <3>2. tokens'[t] # None
      <4>1. [tokens[t] EXCEPT !.revoked = TRUE] \in TokenRow
        BY <2>1 DEF TokenRow
      <4> QED
        BY <3>1, <4>1, Present
    <3> QED
      BY <2>1, <2>3, <3>1, <3>2 DEF TokenRow
  <2> QED
    BY <1>1, <1>13, <2>2, <2>3, ChangedTokens
<1>14. /\ Kind(a) = "issue" => /\ tokens'[a] = Row(a) /\ tokens'[a] # None
       /\ Kind(a) = "revoke" => /\ Body(a).token \in Attempts
                                /\ tokens'[Body(a).token] # None
                                /\ tokens'[Body(a).token].workspace = Body(a).workspace
                                /\ tokens'[Body(a).token].revoked
  <2>1. Kind(a) = "issue" => tokens'[a] = Row(a) /\ tokens'[a] # None
    <3>1. stamp[a] \in Nat /\ TTL \in Nat
      BY <1>2, AuditLogAssumption, TokensAssumption DEF TypeOK, ArchiveTypeOK, AuditTypeOK
    <3>2. Row(a) \in TokenRow
      BY <1>3, <3>1 DEF Row, TokenRow
    <3> QED
      BY <1>1, <3>2, ChangedTokens, Present
  <2>2. ASSUME Kind(a) = "revoke"
        PROVE  /\ Body(a).token \in Attempts /\ tokens'[Body(a).token] # None
               /\ tokens'[Body(a).token].workspace = Body(a).workspace
               /\ tokens'[Body(a).token].revoked
    <3>1. /\ Body(a).token \in Attempts /\ tokens[Body(a).token] # None
          /\ tokens[Body(a).token].workspace = Body(a).workspace
          /\ tokens'[Body(a).token] = [tokens[Body(a).token] EXCEPT !.revoked = TRUE]
      BY <1>1, <2>2, ChangedTokens
    <3>2. tokens[Body(a).token] \in TokenRow
      BY <3>1 DEF TypeOK, TokensTypeOK
    <3> QED
      BY <1>13, <3>1, <3>2 DEF TokenRow
  <2> QED
    BY <2>1, <2>2
<1>15. EffectsDone'
  <2> SUFFICES ASSUME NEW b \in audit'
               PROVE  (/\ Kind(b) = "issue" => tokens[b] # None
                       /\ Kind(b) = "revoke" => /\ tokens[Body(b).token] # None
                                                /\ tokens[Body(b).token].workspace = Body(b).workspace
                                                /\ tokens[Body(b).token].revoked)'
    BY DEF EffectsDone
  <2>1. CASE b = a
    BY <1>5, <1>14, <2>1
  <2>2. CASE b \in audit
    <3>1. CASE Kind(b) = "issue"
      BY <1>5, <1>6, <1>13, <2>2, <3>1 DEF EffectsDone
    <3>2. CASE Kind(b) = "revoke"
      <4>1. /\ Body(b).token \in Attempts /\ tokens[Body(b).token] # None
            /\ tokens[Body(b).token].workspace = Body(b).workspace
            /\ tokens[Body(b).token].revoked
        BY <1>7, <2>2, <3>2 DEF EffectsDone
      <4>2. /\ tokens'[Body(b).token] # None
            /\ tokens'[Body(b).token].workspace = Body(b).workspace
            /\ tokens'[Body(b).token].revoked
        BY <1>13, <4>1
      <4>3. Kind(b)' = "revoke" /\ Body(b)' = Body(b)
        BY <1>5, <3>2
      <4> QED
        BY <4>2, <4>3
    <3> QED
      BY <1>5, <1>7, <2>2, <3>1, <3>2 DEF Kinds
  <2> QED
    BY <1>1, <2>1, <2>2
<1>16. \A t : RevokedByEvent(t) => RevokedByEvent(t)'
  BY <1>1, <1>5 DEF RevokedByEvent
<1>17. TokensTrue'
  <2> SUFFICES ASSUME NEW t \in Attempts, tokens'[t] # None
               PROVE  /\ t \in audit' /\ Kind(t)' = "issue"
                      /\ tokens'[t].workspace = Body(t)'.workspace
                      /\ tokens'[t].expires = stamp'[t] + TTL
                      /\ tokens'[t].revoked => RevokedByEvent(t)'
    BY DEF TokensTrue
  <2>1. CASE tokens[t] # None
    <3>1. tokens'[t].revoked => RevokedByEvent(t)'
      <4>1. CASE tokens[t].revoked
        BY <1>16, <2>1, <4>1 DEF TokensTrue
      <4>2. CASE Kind(a) = "revoke" /\ Body(a).token = t
        BY <1>1, <1>5, <4>2 DEF RevokedByEvent
      <4> QED
        BY <1>13, <2>1, <4>1, <4>2
    <3> QED
      BY <1>1, <1>5, <1>13, <2>1, <3>1 DEF TokensTrue
  <2>2. CASE tokens[t] = None
    <3>1. Kind(a) = "issue" /\ t = a
      BY <1>1, <2>2, ChangedTokens
    <3> QED
      BY <1>1, <1>5, <1>14, <3>1 DEF Row
  <2> QED
    BY <2>1, <2>2
<1>18. AnswersTrue'
  BY <1>1, <1>4, TokensAssumption DEF AnswersTrue
<1>19. StampsKept'
  BY <1>1, <1>2, <1>6 DEF StampsKept
<1>20. ObjectsKept' /\ RunsKept'
  <2>1. ASSUME NEW m \in Months, ~TooEarly(m)
        PROVE  ~TooEarly(m)' /\ EventsOf(m)' = EventsOf(m)
    <3>1. ~InMonth(stamp[a], m)
      BY <1>2, <2>1, SettledUnchanged
    <3> QED
      BY <1>1, <2>1, <3>1 DEF TooEarly, EventsOf, InMonth
  <2> QED
    BY <2>1, ArchivedStays
<1> QED
  BY <1>8, <1>9, <1>10, <1>11, <1>12, <1>15, <1>17, <1>18, <1>19, <1>20

LEMMA RequestKeeps ==
    ASSUME IInv, NEW a \in Attempts, TokenStep(a), UNCHANGED archiveVars
    PROVE  IInv'
<1>1. CASE Admit(a)
  <2>1. HasKey(a) /\ phase[a] = "sent"
    BY <1>1 DEF Admit, HasKey
  <2> QED
    BY <1>1, <2>1, MoveKeeps DEF Admit, ReadClock, Open
<1>2. CASE Proceeds(a)
  BY <1>2, MoveKeeps DEF Proceeds, Writes, auditVars, Open
<1> QED
  BY <1>1, <1>2, StepShape, SendKeeps, StopKeeps, CommitKeeps

-----------------------------------------------------------------------------
(* Time passes, and the steps of a run *)

LEMMA TickKeeps ==
    ASSUME IInv, Tick, UNCHANGED <<stamp, audit, tokenVars, archiveVars>>
    PROVE  IInv'
<1> USE DEF IInv, Envelope, Effects, Archived
<1>1. now' = now + 1 /\ now \in Nat /\ now < LastTime /\ LongestOpen \in Nat
  BY AuditLogAssumption DEF Tick, TypeOK, ArchiveTypeOK, AuditTypeOK
<1>2. TypeOK'
  <2>1. now' \in 0..LastTime
    BY <1>1, AuditLogAssumption
  <2>2. AuditTypeOK' /\ ArchiveTypeOK'
    BY <2>1 DEF TypeOK, ArchiveTypeOK, AuditTypeOK, archiveVars
  <2>3. TokensTypeOK'
    BY DEF TypeOK, TokensTypeOK, tokenVars
  <2> QED
    BY <2>2, <2>3 DEF TypeOK
<1>3. Envelope'
  BY DEF Lifecycle, KeysHeld, RowsHeld, Revoking, Hits, Scope, Kind, Body, tokenVars
<1>4. Effects'
  BY DEF RecordsTrue, EffectsDone, TokensTrue, AnswersTrue, RevokedByEvent, Scope, Kind, Body,
         tokenVars
<1>5. StampsKept'
  <2> SUFFICES ASSUME NEW a \in Attempts, stamp[a] # None
               PROVE  stamp[a] <= now' /\ (a \notin audit => now' <= stamp[a] + LongestOpen)
    BY DEF StampsKept
  <2>1. stamp[a] \in Nat /\ stamp[a] <= now
    BY AuditLogAssumption DEF StampsKept, TypeOK, ArchiveTypeOK, AuditTypeOK
  <2>2. a \notin audit => now - stamp[a] < LongestOpen
    BY DEF Tick, Pending
  <2> QED
    BY <1>1, <2>1, <2>2
<1>6. ObjectsKept' /\ RunsKept'
  <2>1. ASSUME NEW m \in Months, ~TooEarly(m) PROVE ~TooEarly(m)' /\ EventsOf(m)' = EventsOf(m)
    <3>1. MonthStart[m + 1] \in Nat /\ MinAge \in Nat
      BY MonthType
    <3> QED
      BY <1>1, <2>1, <3>1 DEF TooEarly, EventsOf, InMonth
  <2> QED
    BY <2>1, ArchivedStays
<1> QED
  BY <1>2, <1>3, <1>4, <1>5, <1>6

\* What RunsKept says of one run.
Fits(local) ==
    local.month \notin early =>
      /\ local.pc # "idle" => ~TooEarly(local.month)
      /\ local.pc \in {"checking", "putting", "verifying"} => local.export = EventsOf(local.month)
      /\ local.pc \in {"verifying", "uploaded", "existing"} => object[local.month] # None
      /\ local.pc \notin {"conflict", "unverified"}

Exports(r, export) == run' = [run EXCEPT ![r].pc = "checking", ![r].export = export]

\* The local state that a step leaves to a run.
LEMMA LocalForm ==
    ASSUME run \in [Runs -> Run], NEW r \in Runs
    PROVE  /\ \A export : Exports(r, export) =>
                run' = [run EXCEPT ![r] = [pc |-> "checking", month |-> run[r].month,
                                           export |-> export]]
           /\ \A pc : Returns(r, pc) =>
                run' = [run EXCEPT ![r] = [pc |-> pc, month |-> run[r].month, export |-> {}]]
           /\ \A pc : Goes(r, pc) =>
                run' = [run EXCEPT ![r] = [pc |-> pc, month |-> run[r].month,
                                           export |-> run[r].export]]
<1>1. PICK p, m, e : run[r] = [pc |-> p, month |-> m, export |-> e]
  <2>1. run[r] \in Run
    OBVIOUS
  <2>2. run[r] = [pc |-> run[r].pc, month |-> run[r].month, export |-> run[r].export]
    BY <2>1 DEF Run
  <2> QED
    BY <2>2
<1>2. ASSUME NEW pc, NEW export, NEW x, x = [run[r] EXCEPT !.pc = pc, !.export = export]
      PROVE  x = [pc |-> pc, month |-> run[r].month, export |-> export]
  BY <1>1, <1>2
<1>3. ASSUME NEW pc, NEW export, run' = [run EXCEPT ![r].pc = pc, ![r].export = export]
      PROVE  run' = [run EXCEPT ![r] = [pc |-> pc, month |-> run[r].month, export |-> export]]
  <2>1. run' = [run EXCEPT ![r] = [run[r] EXCEPT !.pc = pc, !.export = export]]
    BY <1>3
  <2> QED
    BY Zenon, <1>2, <2>1
<1>4. ASSUME NEW pc, NEW x, x = [run[r] EXCEPT !.pc = pc]
      PROVE  x = [pc |-> pc, month |-> run[r].month, export |-> run[r].export]
  BY <1>1, <1>4
<1>5. ASSUME NEW pc, run' = [run EXCEPT ![r].pc = pc]
      PROVE  run' = [run EXCEPT ![r] = [pc |-> pc, month |-> run[r].month, export |-> run[r].export]]
  <2>1. run' = [run EXCEPT ![r] = [run[r] EXCEPT !.pc = pc]]
    BY <1>5
  <2> QED
    BY Zenon, <1>4, <2>1
<1> QED
  BY Zenon, <1>3, <1>5 DEF Exports, Returns, Goes

\* A step of one run keeps the invariant when it keeps the objects, removes
\* none, and its own state fits.
LEMMA LocalStep ==
    ASSUME IInv, UNCHANGED <<auditVars, tokenVars>>, NEW r \in Runs, NEW local \in Run,
           run' = [run EXCEPT ![r] = local],
           object' \in [Months -> (SUBSET Attempts) \cup {None}],
           \A m \in Months : object[m] # None => object'[m] # None,
           early \subseteq early', early' \subseteq Months,
           ObjectsKept', Fits(local)'
    PROVE  IInv'
<1> USE DEF IInv, Envelope, Effects, Archived
<1>1. TypeOK'
  BY DEF TypeOK, TokensTypeOK, ArchiveTypeOK, AuditTypeOK, auditVars, tokenVars
<1>2. Envelope'
  BY DEF Lifecycle, KeysHeld, RowsHeld, Revoking, Hits, Scope, Kind, Body, tokenVars, auditVars
<1>3. Effects'
  BY DEF RecordsTrue, EffectsDone, TokensTrue, AnswersTrue, RevokedByEvent, Scope, Kind, Body,
         tokenVars, auditVars
<1>4. StampsKept'
  BY DEF StampsKept, auditVars
<1>5. run'[r] = local /\ \A q \in Runs : run[q].month \in Months /\ (q # r => run'[q] = run[q])
  BY DEF TypeOK, ArchiveTypeOK, Run
<1>6. \A m : TooEarly(m)' = TooEarly(m) /\ EventsOf(m)' = EventsOf(m)
  BY DEF TooEarly, EventsOf, InMonth, auditVars
<1>7. RunsKept'
  <2> SUFFICES ASSUME NEW q \in Runs PROVE Fits(run[q])'
    BY DEF RunsKept, Fits
  <2>1. CASE q = r
    BY <1>5, <2>1 DEF Fits
  <2>2. CASE q # r
    <3>1. Fits(run[q]) /\ run'[q] = run[q] /\ run[q].month \in Months
      BY <1>5, <2>2 DEF RunsKept, Fits
    <3> QED
      BY <1>6, <3>1 DEF Fits
  <2> QED
    BY <2>1, <2>2
<1> QED
  BY <1>1, <1>2, <1>3, <1>4, <1>7

\* Whatever starts a run, its month was old enough or is known to be too early.
LEMMA StartKeeps ==
    ASSUME IInv, UNCHANGED <<auditVars, tokenVars>>, NEW r \in Runs, NEW m \in Months,
           StartScheduled(r, m) \/ StartExplicit(r, m)
    PROVE  IInv'
<1> DEFINE local == [pc |-> "exporting", month |-> m, export |-> {}]
<1>1. run' = [run EXCEPT ![r] = local] /\ object' = object /\ local \in Run
  BY DEF StartScheduled, StartExplicit, Starts, Run, Active
<1>2. early \subseteq early' /\ early' \subseteq Months /\ (m \notin early' => ~TooEarly(m))
  BY ResolvedIsOld DEF StartScheduled, StartExplicit, IInv, TypeOK, ArchiveTypeOK
<1>3. \A n : TooEarly(n)' = TooEarly(n) /\ EventsOf(n)' = EventsOf(n)
  BY DEF TooEarly, EventsOf, InMonth, auditVars
<1>4. ObjectsKept'
  BY <1>1, <1>2, <1>3 DEF IInv, Archived, ObjectsKept
<1>5. Fits(local)'
  BY <1>2, <1>3 DEF Fits
<1>6. object' \in [Months -> (SUBSET Attempts) \cup {None}]
  BY <1>1 DEF IInv, TypeOK, ArchiveTypeOK
<1> HIDE DEF local
<1> QED
  BY <1>1, <1>2, <1>4, <1>5, <1>6, LocalStep

\* A step of a run that stores nothing.
LEMMA LookKeeps ==
    ASSUME IInv, UNCHANGED <<auditVars, tokenVars>>, NEW r \in Runs,
           \/ Export(r) \/ FindsSame(r) \/ FindsOther(r) \/ FindsNone(r)
           \/ Verify(r) \/ Fail(r)
    PROVE  IInv'
<1> PICK m \in Months : m = run[r].month
  BY DEF IInv, TypeOK, ArchiveTypeOK, Run
<1>1. /\ run[r].export \in SUBSET Attempts /\ run \in [Runs -> Run]
  BY DEF IInv, TypeOK, ArchiveTypeOK, Run
<1>2. UNCHANGED <<object, early>>
  BY DEF Export, FindsSame, FindsOther, FindsNone, Verify, Fail
<1>3. \A n : TooEarly(n)' = TooEarly(n) /\ EventsOf(n)' = EventsOf(n)
  BY DEF TooEarly, EventsOf, InMonth, auditVars
<1>4. ObjectsKept'
  BY <1>2, <1>3 DEF IInv, Archived, ObjectsKept
<1>5. EventsOf(m) \in SUBSET Attempts
  BY DEF EventsOf, IInv, TypeOK, ArchiveTypeOK, AuditTypeOK
<1>6. m \notin early =>
        /\ Fits(run[r])
        /\ object[m] # None => object[m] = EventsOf(m)
  BY DEF IInv, Archived, RunsKept, ObjectsKept, Fits
<1>7. ASSUME NEW local \in Run, run' = [run EXCEPT ![r] = local], Fits(local)
      PROVE  IInv'
  <2>1. Fits(local)'
    BY <1>2, <1>3, <1>7 DEF Fits
  <2>2. object' \in [Months -> (SUBSET Attempts) \cup {None}] /\ early' \subseteq Months
    BY <1>2 DEF IInv, TypeOK, ArchiveTypeOK
  <2> QED
    BY <1>2, <1>4, <1>7, <2>1, <2>2, LocalStep
<1> DEFINE holding(pc, export) == [pc |-> pc, month |-> m, export |-> export]
<1> DEFINE returned(pc) == holding(pc, {})
<1>8. /\ \A pc \in {"existing", "conflict", "uploaded", "unverified", "idle"} : returned(pc) \in Run
      /\ \A pc \in {"checking", "putting"}, export \in SUBSET Attempts : holding(pc, export) \in Run
  BY DEF Run, Active
<1>9. ASSUME NEW pc \in {"existing", "conflict", "uploaded", "unverified", "idle"},
             Returns(r, pc), Fits(returned(pc))
      PROVE  IInv'
  <2>1. run' = [run EXCEPT ![r] = returned(pc)]
    BY <1>1, <1>9, LocalForm
  <2>2. returned(pc) \in Run
    BY <1>8
  <2> HIDE DEF returned
  <2> QED
    BY <1>7, <1>9, <2>1, <2>2
<1>10. CASE Export(r)
  <2> PICK export \in SUBSET Attempts : export = EventsOf(m)
    BY <1>5
  <2>1. run[r].pc = "exporting" /\ Exports(r, export)
    BY <1>10 DEF Export, Exports
  <2>2. run' = [run EXCEPT ![r] = holding("checking", export)]
    BY <1>1, <2>1, LocalForm
  <2>3. Fits(holding("checking", export))
    BY <1>6, <2>1 DEF Fits
  <2>4. holding("checking", export) \in Run
    BY <1>8
  <2> HIDE DEF holding
  <2> QED
    BY <1>7, <2>2, <2>3, <2>4
<1>11. CASE FindsSame(r)
  <2>1. Returns(r, "existing") /\ run[r].pc = "checking" /\ object[m] = run[r].export
    BY <1>11 DEF FindsSame, Stored
  <2>2. object[m] # None
    BY <1>1, <2>1, ArchiveAssumption
  <2>3. Fits(returned("existing"))
    BY <1>6, <2>1, <2>2 DEF Fits
  <2> QED
    BY <1>9, <2>1, <2>3
<1>12. CASE FindsOther(r)
  <2>1. /\ Returns(r, "conflict") /\ run[r].pc = "checking"
        /\ object[m] # None /\ object[m] # run[r].export
    BY <1>12 DEF FindsOther, Stored
  <2>2. m \in early
    BY <1>6, <2>1 DEF Fits
  <2>3. Fits(returned("conflict"))
    BY <2>2 DEF Fits
  <2> QED
    BY <1>9, <2>1, <2>3
<1>13. CASE FindsNone(r)
  <2>1. Goes(r, "putting") /\ run[r].pc = "checking"
    BY <1>13 DEF FindsNone
  <2>2. run' = [run EXCEPT ![r] = holding("putting", run[r].export)]
    BY <1>1, <2>1, LocalForm
  <2>3. Fits(holding("putting", run[r].export))
    BY <1>6, <2>1 DEF Fits
  <2>4. holding("putting", run[r].export) \in Run
    BY <1>1, <1>8
  <2> HIDE DEF holding
  <2> QED
    BY <1>7, <2>2, <2>3, <2>4
<1>14. CASE Verify(r)
  <2>1. run[r].pc = "verifying"
    BY <1>14 DEF Verify
  <2>2. \/ Returns(r, "uploaded")
        \/ Returns(r, "unverified") /\ object[m] # run[r].export
    BY <1>14 DEF Verify, Stored
  <2>3. Fits(returned("uploaded"))
    BY <1>6, <2>1 DEF Fits
  <2>4. object[m] # run[r].export => Fits(returned("unverified"))
    BY <1>6, <2>1 DEF Fits
  <2> QED
    BY <1>9, <2>2, <2>3, <2>4
<1>15. CASE Fail(r)
  <2>1. Fits(returned("idle"))
    BY DEF Fits
  <2> QED
    BY <1>9, <1>15, <2>1 DEF Fail
<1> QED
  BY <1>10, <1>11, <1>12, <1>13, <1>14, <1>15

\* What is stored for a month that was old enough is what belongs there, also
\* when two runs store it one after the other.
LEMMA PutKeeps ==
    ASSUME IInv, UNCHANGED <<auditVars, tokenVars>>, NEW r \in Runs, Put(r)
    PROVE  IInv'
<1> PICK m \in Months : m = run[r].month
  BY DEF IInv, TypeOK, ArchiveTypeOK, Run
<1> PICK export \in SUBSET Attempts : export = run[r].export
  BY DEF IInv, TypeOK, ArchiveTypeOK, Run
<1>1. /\ run[r].pc = "putting" /\ run[r].month = m /\ run[r].export = export
      /\ run \in [Runs -> Run]
      /\ object \in [Months -> (SUBSET Attempts) \cup {None}] /\ early \subseteq Months
  BY DEF Put, IInv, TypeOK, ArchiveTypeOK, Run
<1>2. object' = [object EXCEPT ![m] = export] /\ early' = early
  BY DEF Put
<1>3. object'[m] = export /\ export # None /\ \A n \in Months \ {m} : object'[n] = object[n]
  BY <1>1, <1>2, ArchiveAssumption
<1>4. \A n : TooEarly(n)' = TooEarly(n) /\ EventsOf(n)' = EventsOf(n)
  BY DEF TooEarly, EventsOf, InMonth, auditVars
<1>5. m \notin early => ~TooEarly(m) /\ export = EventsOf(m)
  BY <1>1 DEF IInv, Archived, RunsKept
<1>6. ObjectsKept'
  BY <1>2, <1>3, <1>4, <1>5 DEF IInv, Archived, ObjectsKept
<1>7. PICK local \in Run : run' = [run EXCEPT ![r] = local] /\ Fits(local)'
  <2>1. CASE Goes(r, "verifying")
    <3> DEFINE verifying == [pc |-> "verifying", month |-> m, export |-> export]
    <3>1. run' = [run EXCEPT ![r] = verifying]
      <4>1. run' = [run EXCEPT ![r] = [pc |-> "verifying", month |-> run[r].month,
                                       export |-> run[r].export]]
        BY <1>1, <2>1, LocalForm
      <4> QED
        BY Zenon, <1>1, <4>1
    <3>2. verifying \in Run
      BY <1>1 DEF Run, Active
    <3>3. Fits(verifying)'
      BY <1>1, <1>2, <1>3, <1>4, <1>5 DEF Fits
    <3> HIDE DEF verifying
    <3> QED
      BY <3>1, <3>2, <3>3
  <2>2. CASE Returns(r, "idle")
    <3> DEFINE idle == [pc |-> "idle", month |-> m, export |-> {}]
    <3>1. run' = [run EXCEPT ![r] = idle]
      <4>1. run' = [run EXCEPT ![r] = [pc |-> "idle", month |-> run[r].month, export |-> {}]]
        BY <1>1, <2>2, LocalForm
      <4> QED
        BY Zenon, <1>1, <4>1
    <3>2. idle \in Run /\ Fits(idle)'
      BY <1>1 DEF Run, Active, Fits
    <3> HIDE DEF idle
    <3> QED
      BY <3>1, <3>2
  <2> QED
    BY <2>1, <2>2 DEF Put
<1>8. object' \in [Months -> (SUBSET Attempts) \cup {None}]
  BY <1>1, <1>2
<1> QED
  BY <1>1, <1>2, <1>3, <1>6, <1>7, <1>8, LocalStep

-----------------------------------------------------------------------------
(* The invariant holds *)

LEMMA InvariantInit == Init => IInv
<1> SUFFICES ASSUME Init PROVE IInv
  OBVIOUS
<1> USE DEF Init, AuditInit, TokensInit, ArchiveInit
<1>1. TypeOK
  <2>1. 0 \in Months /\ now \in 0..LastTime
    BY ArchiveAssumption, AuditLogAssumption DEF Months
  <2>2. [pc |-> "idle", month |-> 0, export |-> {}] \in Run
    BY <2>1 DEF Run
  <2>3. AuditTypeOK
    BY <2>1 DEF AuditTypeOK
  <2>4. run \in [Runs -> Run]
    BY <2>2
  <2>5. TokensTypeOK
    BY DEF TokensTypeOK
  <2>6. object \in [Months -> (SUBSET Attempts) \cup {None}] /\ early \subseteq Months
    <3>1. object = [m \in Months |-> None] /\ early = {}
      OBVIOUS
    <3> HIDE DEF Init, AuditInit, TokensInit, ArchiveInit
    <3> QED
      BY <3>1
  <2> HIDE DEF Init, AuditInit, TokensInit, ArchiveInit
  <2>7. ArchiveTypeOK
    BY <2>3, <2>4, <2>6 DEF ArchiveTypeOK
  <2> QED
    BY <2>5, <2>7 DEF TypeOK
<1>2. Envelope
  BY DEF Envelope, Lifecycle, KeysHeld, RowsHeld, Revoking, Open
<1>3. Effects
  BY TokensAssumption DEF Effects, RecordsTrue, EffectsDone, TokensTrue, AnswersTrue
<1>4. Archived
  BY DEF Archived, StampsKept, ObjectsKept, RunsKept
<1> QED
  BY <1>1, <1>2, <1>3, <1>4 DEF IInv

LEMMA InvariantKept == IInv /\ [Next]_vars => IInv'
<1> SUFFICES ASSUME IInv, [Next]_vars PROVE IInv'
  OBVIOUS
<1>1. ASSUME NEW a \in Attempts, TokenStep(a), UNCHANGED archiveVars PROVE IInv'
  BY <1>1, RequestKeeps
<1>2. ASSUME NEW r \in Runs, RunStep(r), UNCHANGED <<auditVars, tokenVars>> PROVE IInv'
  BY <1>2, StartKeeps, LookKeeps, PutKeeps DEF RunStep
<1>3. ASSUME Tick, UNCHANGED <<stamp, audit, tokenVars, archiveVars>> PROVE IInv'
  BY <1>3, TickKeeps
<1>4. CASE UNCHANGED vars
  <2>1. UNCHANGED <<auditVars, tokenVars, archiveVars>>
    BY <1>4 DEF vars
  <2>2. TypeOK'
    BY <2>1 DEF IInv, TypeOK, TokensTypeOK, ArchiveTypeOK, AuditTypeOK, auditVars, tokenVars, archiveVars
  <2>3. Envelope'
    BY <2>1 DEF IInv, Envelope, Lifecycle, KeysHeld, RowsHeld, Revoking, Hits, Scope, Kind, Body,
                tokenVars, auditVars
  <2>4. Effects'
    BY <2>1 DEF IInv, Effects, RecordsTrue, EffectsDone, TokensTrue, AnswersTrue, RevokedByEvent,
                Scope, Kind, Body, tokenVars, auditVars
  <2>5. Archived'
    <3>1. \A m : TooEarly(m)' = TooEarly(m) /\ EventsOf(m)' = EventsOf(m)
      BY <2>1 DEF TooEarly, EventsOf, InMonth, auditVars
    <3> QED
      BY <2>1, <3>1, ArchivedStays DEF IInv, Archived, StampsKept, auditVars
  <2> QED
    BY <2>2, <2>3, <2>4, <2>5 DEF IInv
<1> QED
  BY <1>1, <1>2, <1>3, <1>4 DEF Next

LEMMA InvariantAlways == Spec => []IInv
<1> QED
  BY InvariantInit, InvariantKept, PTL DEF Spec

-----------------------------------------------------------------------------
(* Theorems *)

\* The rows, records, stamps, objects and runs keep their types.
THEOREM TypeCorrect == Spec => []TypeOK
<1>1. IInv => TypeOK
  BY DEF IInv
<1> QED
  BY <1>1, InvariantAlways, PTL

\* However transactions are open across the end of a month, runs overlap, fail
\* and are repeated: if transactions end within MinAge of reading the clock, an
\* object that was not asked for too early holds exactly the events of its
\* month, and no run of such a month finds a contradiction.
THEOREM ArchiveCorrect == Spec => []ArchiveIsComplete
<1>1. ASSUME IInv PROVE ArchiveIsComplete
  <2>1. \A m \in Months \ early : object[m] # None => object[m] = EventsOf(m)
    BY <1>1 DEF IInv, Archived, ObjectsKept
  <2>2. \A r \in Runs : run[r].month \notin early =>
          /\ run[r].pc \notin {"conflict", "unverified"}
          /\ run[r].pc \in {"uploaded", "existing"} => Stored(r) # None
    BY <1>1 DEF IInv, Archived, RunsKept, Stored
  <2> QED
    BY <2>1, <2>2 DEF ArchiveIsComplete
<1> QED
  BY <1>1, InvariantAlways, PTL

\* The archive and the token table tell the same story: by the time in its row
\* a token's event is in the object of one month and no other, and no token is
\* revoked without an event.
THEOREM ArchiveAccountsForTokens == Spec => []ArchiveHoldsEveryChange
<1>1. ASSUME IInv PROVE ArchiveHoldsEveryChange
  <2> SUFFICES ASSUME NEW t \in Attempts, tokens[t] # None
               PROVE  /\ \A m \in Months \ early :
                            object[m] # None =>
                              (t \in object[m] <=> InMonth(tokens[t].expires - TTL, m))
                      /\ tokens[t].revoked =>
                            \E a \in audit : Kind(a) = "revoke" /\ Body(a).token = t
    BY DEF ArchiveHoldsEveryChange
  <2>1. /\ t \in audit /\ tokens[t].expires = stamp[t] + TTL
        /\ tokens[t].revoked => RevokedByEvent(t)
    BY <1>1 DEF IInv, Effects, TokensTrue
  <2>2. stamp[t] \in Nat /\ TTL \in Nat
    BY <1>1, <2>1, AuditLogAssumption, TokensAssumption
       DEF IInv, Archived, StampsKept, TypeOK, ArchiveTypeOK, AuditTypeOK
  <2>3. tokens[t].expires - TTL = stamp[t]
    BY <2>1, <2>2
  <2>4. \A m \in Months \ early : object[m] # None => object[m] = EventsOf(m)
    BY <1>1 DEF IInv, Archived, ObjectsKept
  <2> QED
    BY <2>1, <2>3, <2>4 DEF EventsOf, RevokedByEvent
<1> QED
  BY <1>1, InvariantAlways, PTL

\* However requests overlap, fail and are repeated, what a client was told of a
\* token stays true: an issued one works until it expires or is revoked, a
\* revoked one never again.
THEOREM AnswersKept == Spec => []AnswersHold
<1>1. ASSUME IInv PROVE AnswersHold
  <2> SUFFICES ASSUME NEW a \in Attempts, NEW e \in Attempts, e = answer[a],
                      NEW t, t = IF Kind(a) = "issue" THEN e ELSE Body(a).token
               PROVE  /\ tokens[t] # None
                      /\ tokens[t].workspace = Body(a).workspace
                      /\ Kind(a) = "revoke" => ~Inspects(t)
                      /\ Inspects(t) \/ tokens[t].expires <= now
                           \/ \E b \in audit : Kind(b) = "revoke" /\ Body(b).token = t
    BY DEF AnswersHold
  <2>1. e \in audit /\ request[e] = request[a] /\ request[e] # None
    BY <1>1, SentFacts DEF IInv, Envelope, Effects, AnswersTrue
  <2>2. Kind(e) = Kind(a) /\ Body(e) = Body(a)
    BY <2>1 DEF Kind, Body
  <2>3. Kind(e) \in Kinds /\ (Kind(e) = "revoke" => Body(e).token \in Attempts)
    BY <1>1, <2>1, RequestType DEF IInv
  <2>4. t \in Attempts /\ tokens[t] # None /\ tokens[t].workspace = Body(a).workspace
    BY <1>1, <2>1, <2>2, <2>3 DEF IInv, Effects, EffectsDone, TokensTrue, Kinds
  <2>5. Kind(a) = "revoke" => tokens[t].revoked
    BY <1>1, <2>1, <2>2 DEF IInv, Effects, EffectsDone
  <2>6. tokens[t].revoked => \E b \in audit : Kind(b) = "revoke" /\ Body(b).token = t
    BY <1>1, <2>4 DEF IInv, Effects, TokensTrue, RevokedByEvent
  <2>7. tokens[t].expires \in Nat /\ now \in Nat
    BY <1>1, <2>4, AuditLogAssumption
       DEF IInv, TypeOK, TokensTypeOK, TokenRow, ArchiveTypeOK, AuditTypeOK
  <2> QED
    BY <2>4, <2>5, <2>6, <2>7 DEF Inspects
<1> QED
  BY <1>1, InvariantAlways, PTL

\* A token's row is inserted once, unrevoked, by the request it is named for,
\* and from then on can only be revoked, once: workspace and expiry stay, and
\* the row never goes.
RowAdvances(t) ==
    LET old == tokens[t]
        new == tokens'[t] IN
    IF old = None THEN new.revoked = FALSE ELSE ~old.revoked /\ new = [old EXCEPT !.revoked = TRUE]

\* The one event that is new says who changed a row.
ChangedBy(a, t) ==
    /\ a \notin audit /\ audit' = audit \cup {a}
    /\ IF tokens[t] = None THEN a = t /\ Kind(a) = "issue"
       ELSE Kind(a) = "revoke" /\ Body(a).token = t

TokensAdvance ==
    \A t \in Attempts : tokens'[t] # tokens[t] =>
        /\ tokens'[t] # None
        /\ RowAdvances(t)
        /\ \E a \in Attempts : ChangedBy(a, t)

\* Whatever requests overlap, a step that changes the row of a token commits the
\* event of that change with it, and no step undoes a revocation, moves a token
\* to another workspace or prolongs it.
THEOREM TokensOnlyAdvance == Spec => [][TokensAdvance]_vars
<1>1. ASSUME IInv, [Next]_vars PROVE TokensAdvance
  <2> SUFFICES ASSUME NEW t \in Attempts, tokens'[t] # tokens[t]
               PROVE  tokens'[t] # None /\ RowAdvances(t) /\ \E a \in Attempts : ChangedBy(a, t)
    BY DEF TokensAdvance
  <2>1. PICK a \in Attempts : Commit(a)
    <3>1. tokens' # tokens
      OBVIOUS
    <3>2. PICK a \in Attempts : TokenStep(a)
      BY <1>1, <3>1 DEF Next, tokenVars, vars
    <3>3. ~Stops(a) /\ ~Admit(a) /\ ~Proceeds(a)
      BY <3>1 DEF Stops, EndsWithout, Admit, Proceeds, Writes
    <3>4. ~\E key \in Keys, content \in Contents : Send(a, key, content)
      BY <3>1 DEF Send
    <3> QED
      BY <3>2, <3>3, <3>4, StepShape
  <2>2. /\ phase[a] = "written" /\ tokens' = Changed(a)
        /\ audit' = audit \cup {a}
    BY <2>1 DEF Commit, CommitEvent
  <2>3. a \notin audit
    BY <1>1, <2>2 DEF IInv, Envelope, Lifecycle
  <2>4. tokens \in [Attempts -> TokenRow \cup {None}]
    BY <1>1 DEF IInv, TypeOK, TokensTypeOK
  <2>5. CASE Kind(a) = "issue"
    <3>1. t = a /\ tokens[t] = None /\ tokens'[t] = Row(a)
      BY <1>1, <2>2, <2>5, ChangedTokens
    <3>2. tokens'[t] # None
      BY <2>2, <3>1
    <3>3. RowAdvances(t) /\ ChangedBy(a, t)
      BY <2>2, <2>3, <2>5, <3>1 DEF RowAdvances, ChangedBy, Row
    <3> QED
      BY <3>2, <3>3
  <2>6. CASE Kind(a) = "revoke"
    <3>1. /\ t = Body(a).token /\ tokens[t] # None
          /\ tokens'[t] = [tokens[t] EXCEPT !.revoked = TRUE]
      BY <1>1, <2>2, <2>6, ChangedTokens
    <3>2. ~tokens[t].revoked
      BY <1>1, <2>2, <2>6, <3>1 DEF IInv, Envelope, RowsHeld, Revoking, Hits
    <3>3. tokens'[t] # None
      <4>1. tokens[t] \in TokenRow
        BY <2>4, <3>1
      <4>2. tokens'[t] \in TokenRow
        BY <3>1, <4>1 DEF TokenRow
      <4> QED
        BY <4>2, TokenRowAssumption
    <3>4. RowAdvances(t) /\ ChangedBy(a, t)
      BY <2>2, <2>3, <2>6, <3>1, <3>2 DEF RowAdvances, ChangedBy
    <3> QED
      BY <3>3, <3>4
  <2> QED
    BY <1>1, <2>2, <2>5, <2>6, ChangedTokens
<1> QED
  BY <1>1, InvariantAlways, PTL DEF Spec

-----------------------------------------------------------------------------
(* AuditTrail implements Acceptance *)

\* What Acceptance sees of the requests and of their effects.
Asked(a) == IF request[a] = None THEN None ELSE [scope |-> Scope(a), content |-> Body(a)]

AllAsked == [a \in Attempts |-> Asked(a)]

Done == audit \cup {a \in Attempts : tokens[a] # None}

\* A sent request is seen, with its scope and its body.
LEMMA AskedSays ==
    ASSUME TypeOK, NEW a \in Attempts, request[a] # None
    PROVE  /\ AllAsked[a] = [scope |-> Scope(a), content |-> Body(a)]
           /\ AllAsked[a] # None
<1>1. Scope(a) \in Kinds \X Keys /\ Body(a) \in Contents
  BY RequestType
<1>2. [scope |-> Scope(a), content |-> Body(a)] # None
  BY <1>1, TokenRowAssumption
<1> QED
  BY <1>2 DEF AllAsked, Asked

\* The effects are those with an audit event.
LEMMA DoneIsAudited == IInv => Done = audit
<1> QED
  BY DEF IInv, Effects, TokensTrue, TypeOK, ArchiveTypeOK, AuditTypeOK, Done

\* A request under way waits for its answer.
LEMMA WaitingForAnswer ==
    ASSUME IInv, NEW a \in Attempts, phase[a] \in Open \cup {"sent"}
    PROVE  request[a] # None /\ AllAsked[a] # None /\ answer[a] = None /\ Promise!Waiting(a)
<1>1. phase[a] # "new" /\ phase[a] # "done"
  BY DEF Open
<1>2. request[a] # None /\ answer[a] = None
  BY <1>1 DEF IInv, Envelope, Lifecycle
<1>3. AllAsked[a] # None
  BY <1>2, AskedSays DEF IInv
<1> QED
  BY <1>2, <1>3 DEF Promise!Waiting, AllAsked, Asked

LEMMA PromiseInit == Init => Promise!Init
<1> SUFFICES ASSUME Init PROVE Promise!Init
  OBVIOUS
<1>1. audit \cup {a \in Attempts : tokens[a] # None} = {}
  BY DEF Init, AuditInit, TokensInit
<1> QED
  BY <1>1 DEF Init, AuditInit, TokensInit, Promise!Init

\* A request that arrives is the abstract one that arrives.
LEMMA SendKeepsPromise ==
    ASSUME IInv, NEW a \in Attempts, NEW key \in Keys, NEW content \in Contents,
           Send(a, key, content)
    PROVE  Promise!Next
<1> DEFINE s == <<content.kind, key>>
<1> DEFINE sent == [key |-> key, content |-> content]
<1>1. /\ phase[a] = "new" /\ request[a] = None
      /\ request' = [request EXCEPT ![a] = sent]
      /\ UNCHANGED <<answer, tokens, audit>>
  BY DEF Send, auditVars, IInv, Envelope, Lifecycle
<1>2. s \in Kinds \X Keys
  BY TokensAssumption DEF Issue, Revoke, Kinds
<1>3. sent # None /\ sent.key = key /\ sent.content = content
  BY TokenRowAssumption DEF Request
<1>4. Done' = Done
  BY <1>1 DEF Done
<1>5. AllAsked[a] = None
  BY <1>1 DEF AllAsked, Asked
<1>6. AllAsked' = [AllAsked EXCEPT ![a] = [scope |-> s, content |-> content]]
  <2>1. request'[a] = sent /\ \A b \in Attempts : b # a => request'[b] = request[b]
    BY <1>1 DEF IInv, TypeOK, TokensTypeOK
  <2>2. Asked(a)' = [scope |-> s, content |-> content]
    BY <1>3, <2>1 DEF Asked, Scope, Kind, Body
  <2>3. \A b \in Attempts : b # a => Asked(b)' = Asked(b)
    BY <2>1 DEF Asked, Scope, Kind, Body
  <2> QED
    BY <2>2, <2>3 DEF AllAsked
<1>7. Promise!Send(a, s, content)
  BY <1>1, <1>4, <1>5, <1>6 DEF Promise!Send, AllAsked, Asked, Done
<1> QED
  BY <1>2, <1>7 DEF Promise!Next

\* A step that commits nothing answers, or shows nothing.
LEMMA QuietStepKeepsPromise ==
    ASSUME IInv, NEW a \in Attempts, UNCHANGED <<request, audit, tokens>>,
           \/ answer' = answer
           \/ /\ Promise!Waiting(a)
              /\ \/ \E r \in {Refused, Failed} : answer' = [answer EXCEPT ![a] = r]
                 \/ \E b \in Done : AllAsked[b] = AllAsked[a]
                                    /\ answer' = [answer EXCEPT ![a] = b]
                 \/ \E b \in Done : /\ AllAsked[b].scope = AllAsked[a].scope
                                    /\ AllAsked[b].content # AllAsked[a].content
                                    /\ answer' = [answer EXCEPT ![a] = Conflicting]
    PROVE  [Promise!Next]_(Promise!vars)
<1>1. AllAsked' = AllAsked
  BY DEF AllAsked, Asked, Scope, Kind, Body
<1>2. Done' = Done
  BY DEF Done
<1>3. CASE answer' = answer
  BY <1>1, <1>2, <1>3 DEF Promise!vars, AllAsked, Asked, Done
<1>4. CASE Promise!Waiting(a) /\ \E r \in {Refused, Failed} : answer' = [answer EXCEPT ![a] = r]
  <2>1. Promise!Refuse(a)
    BY <1>1, <1>2, <1>4 DEF Promise!Refuse, Promise!Answers, AllAsked, Asked, Done
  <2> QED
    BY <2>1 DEF Promise!Next, Promise!Respond
<1>5. CASE /\ Promise!Waiting(a)
           /\ \E b \in Done : AllAsked[b] = AllAsked[a] /\ answer' = [answer EXCEPT ![a] = b]
  <2>1. Promise!Replay(a)
    BY <1>1, <1>2, <1>5 DEF Promise!Replay, Promise!Answers, AllAsked, Asked, Done
  <2> QED
    BY <2>1 DEF Promise!Next, Promise!Respond
<1>6. CASE /\ Promise!Waiting(a)
           /\ \E b \in Done : /\ AllAsked[b].scope = AllAsked[a].scope
                              /\ AllAsked[b].content # AllAsked[a].content
                              /\ answer' = [answer EXCEPT ![a] = Conflicting]
  <2>1. Promise!Conflict(a)
    BY <1>1, <1>2, <1>6 DEF Promise!Conflict, Promise!Answers, AllAsked, Asked, Done
  <2> QED
    BY <2>1 DEF Promise!Next, Promise!Respond
<1> QED
  BY <1>3, <1>4, <1>5, <1>6

\* A commit is the abstract effect.
LEMMA CommitKeepsPromise ==
    ASSUME IInv, NEW a \in Attempts, Commit(a), UNCHANGED archiveVars
    PROVE  Promise!Next
<1>1. /\ phase[a] = "written" /\ phase[a] \in Open /\ request' = request
      /\ audit' = audit \cup {a}
      /\ \/ answer' = [answer EXCEPT ![a] = a]
         \/ answer' = [answer EXCEPT ![a] = Failed]
  BY DEF Commit, CommitEvent, Ends, Open
<1>2. AllAsked' = AllAsked
  BY <1>1 DEF AllAsked, Asked, Scope, Kind, Body
<1>3. Done' = Done \cup {a}
  <2>1. Done = audit
    BY DoneIsAudited
  <2>2. IInv'
    BY CommitKeeps
  <2>3. Done' = audit'
    BY <2>2 DEF IInv, Effects, TokensTrue, TypeOK, ArchiveTypeOK, AuditTypeOK, Done
  <2> QED
    BY <1>1, <2>1, <2>3
<1>4. Promise!Waiting(a)
  BY <1>1, WaitingForAnswer
<1>5. ASSUME NEW b \in Done PROVE AllAsked[b].scope # AllAsked[a].scope
  <2>1. b \in audit /\ b \in Attempts
    BY DoneIsAudited DEF IInv, TypeOK, ArchiveTypeOK, AuditTypeOK
  <2>2. request[b] # None
    BY <2>1, SentFacts DEF IInv, Envelope
  <2>3. [content |-> Body(b), resource |-> b] # None
    BY <2>1, <2>2, RequestType, Present DEF IInv, RecordRow
  <2>4. Scope(b) # Scope(a)
    <3>1. records[Scope(a)] = None
      BY <1>1 DEF IInv, Envelope, KeysHeld
    <3>2. records[Scope(b)] = [content |-> Body(b), resource |-> b]
      BY <2>1 DEF IInv, Effects, RecordsTrue
    <3> QED
      BY <2>3, <3>1, <3>2
  <2>5. AllAsked[b].scope = Scope(b) /\ AllAsked[a].scope = Scope(a)
    <3>1. request[a] # None
      BY <1>1, WaitingForAnswer
    <3>2. AllAsked[b] = [scope |-> Scope(b), content |-> Body(b)]
      BY <2>1, <2>2, AskedSays DEF IInv
    <3>3. AllAsked[a] = [scope |-> Scope(a), content |-> Body(a)]
      BY <3>1, AskedSays DEF IInv
    <3> QED
      BY <3>2, <3>3
  <2> QED
    BY <2>4, <2>5
<1>6. Promise!Accept(a)
  BY <1>1, <1>2, <1>3, <1>4, <1>5 DEF Promise!Accept, Promise!Answers, AllAsked, Asked, Done
<1> QED
  BY <1>6 DEF Promise!Next, Promise!Respond

\* A step of a request is the abstract step that its answer tells of.
LEMMA RequestKeepsPromise ==
    ASSUME IInv, NEW a \in Attempts, TokenStep(a), UNCHANGED archiveVars
    PROVE  [Promise!Next]_(Promise!vars)
<1>1. ASSUME NEW result, EndsWithout(a, result)
      PROVE  /\ UNCHANGED <<request, audit, tokens>>
             /\ answer' = [answer EXCEPT ![a] = result]
  BY <1>1 DEF EndsWithout, Ends, DropEvent
<1>2. CASE Admit(a) \/ InsertToken(a)
  BY <1>2, QuietStepKeepsPromise DEF Admit, InsertToken, Writes, auditVars
<1>3. CASE UpdateToken(a)
  <2>1. CASE Updated(a)
    BY <1>3, <2>1, QuietStepKeepsPromise DEF UpdateToken, Writes, auditVars
  <2>2. CASE ~Updated(a)
    <3>1. Promise!Waiting(a)
      BY <1>3, WaitingForAnswer DEF UpdateToken, Open
    <3>2. EndsWithout(a, Refused)
      BY <1>3, <2>2 DEF UpdateToken
    <3> QED
      BY <1>1, <3>1, <3>2, QuietStepKeepsPromise
  <2> QED
    BY <2>1, <2>2
<1>4. CASE Abort(a)
  <2>1. Promise!Waiting(a) /\ EndsWithout(a, Failed)
    BY <1>4, WaitingForAnswer DEF Abort
  <2> QED
    BY <1>1, <2>1, QuietStepKeepsPromise
<1>5. ASSUME phase[a] = "sent", records[Scope(a)] # None
      PROVE  /\ Promise!Waiting(a)
             /\ AllAsked[a] = [scope |-> Scope(a), content |-> Body(a)]
             /\ records[Scope(a)].resource \in Done
             /\ AllAsked[records[Scope(a)].resource]
                  = [scope |-> Scope(a), content |-> records[Scope(a)].content]
  <2>1. Promise!Waiting(a) /\ request[a] # None
    BY <1>5, WaitingForAnswer
  <2>2. Scope(a) \in Kinds \X Keys /\ AllAsked[a] = [scope |-> Scope(a), content |-> Body(a)]
    BY <2>1, RequestType, AskedSays DEF IInv
  <2>3. PICK b : b = records[Scope(a)].resource
    OBVIOUS
  <2>4. b \in audit /\ Scope(b) = Scope(a) /\ Body(b) = records[Scope(a)].content
    BY <1>5, <2>2, <2>3 DEF IInv, Effects, RecordsTrue
  <2>5. b \in Attempts /\ request[b] # None
    BY <2>4, SentFacts DEF IInv, Envelope, TypeOK, ArchiveTypeOK, AuditTypeOK
  <2>6. AllAsked[b] = [scope |-> Scope(b), content |-> Body(b)]
    BY <2>5, AskedSays DEF IInv
  <2> QED
    BY <2>1, <2>2, <2>3, <2>4, <2>6 DEF Done
<1>6. CASE Replay(a)
  <2>1. /\ phase[a] = "sent" /\ records[Scope(a)] # None /\ records[Scope(a)].content = Body(a)
        /\ EndsWithout(a, records[Scope(a)].resource)
    BY <1>6 DEF Replay, Recorded, HasKey
  <2> QED
    BY <1>1, <1>5, <2>1, QuietStepKeepsPromise
<1>7. CASE Conflict(a)
  <2>1. /\ phase[a] = "sent" /\ records[Scope(a)] # None /\ records[Scope(a)].content # Body(a)
        /\ EndsWithout(a, Conflicting)
    BY <1>7 DEF Conflict, Recorded, HasKey
  <2>2. \E b \in Done : /\ AllAsked[b].scope = AllAsked[a].scope
                        /\ AllAsked[b].content # AllAsked[a].content
    BY <1>5, <2>1
  <2> QED
    BY <1>1, <1>5, <2>1, <2>2, QuietStepKeepsPromise
<1>8. CASE Commit(a)
  BY <1>8, CommitKeepsPromise
<1>9. ASSUME NEW key \in Keys, NEW content \in Contents, Send(a, key, content)
      PROVE [Promise!Next]_(Promise!vars)
  BY <1>9, SendKeepsPromise
<1> QED
  BY <1>2, <1>3, <1>4, <1>6, <1>7, <1>8, <1>9 DEF TokenStep

LEMMA PromiseNext ==
    ASSUME IInv, [Next]_vars
    PROVE  [Promise!Next]_(Promise!vars)
<1>1. CASE UNCHANGED <<request, answer, audit, tokens>>
  <2>1. AllAsked' = AllAsked /\ Done' = Done
    BY <1>1 DEF AllAsked, Asked, Scope, Kind, Body, Done
  <2> QED
    BY <1>1, <2>1 DEF Promise!vars, AllAsked, Asked, Done
<1>2. ASSUME NEW a \in Attempts, TokenStep(a), UNCHANGED archiveVars
      PROVE [Promise!Next]_(Promise!vars)
  BY <1>2, RequestKeepsPromise
<1> QED
  BY <1>1, <1>2 DEF Next, vars, auditVars, tokenVars

\* Token requests with one key take effect once, and each repetition is answered
\* with that effect, however they overlap, fail and are repeated.
THEOREM TokenKeysTakeEffectOnce == Spec => AcceptanceKept
<1>1. Init => Promise!Init
  BY PromiseInit
<1>2. IInv /\ [Next]_vars => [Promise!Next]_(Promise!vars)
  BY PromiseNext
<1> QED
  BY <1>1, <1>2, InvariantAlways, PTL DEF Spec, AcceptanceKept, Promise!Spec

=============================================================================
