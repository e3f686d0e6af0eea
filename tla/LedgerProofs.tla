---------------------------- MODULE LedgerProofs ----------------------------
(***************************************************************************)
(* For any number of requests, keys and bodies: an idempotency key takes   *)
(* effect once (Ledger implements Acceptance), no debit admitted under a   *)
(* budget goes beyond it, invoices agree with the ledger, and transactions *)
(* never wait for each other in a circle.                                  *)
(***************************************************************************)
EXTENDS Ledger, FiniteSetTheorems, TLAPS

-----------------------------------------------------------------------------
(* Amounts and totals *)

\* A usage fact that is rated costs an amount an int64 holds.
LEMMA RatedType ==
    ASSUME NEW content \in Usage, Rated(content) # None
    PROVE  Rated(content) \in 0..MaxInt64
<1> DEFINE n == content.quantity[1] * (content.interval[2] - content.interval[1]) * MinorPerUnit
           d == content.quantity[2]
<1>1. /\ content.quantity[1] \in Nat /\ d \in Nat \ {0} /\ MinorPerUnit \in Nat
      /\ content.interval[2] - content.interval[1] \in Nat /\ MaxInt64 \in Nat
  BY LedgerAssumption DEF Usage, Interval, Time
<1>2. \A x, y \in Nat : x * y \in Nat
  OBVIOUS
<1>3. n \in Nat
  BY <1>1, <1>2, Zenon
<1>4. ASSUME NEW x \in Nat, NEW y \in Nat \ {0} PROVE x \div y \in Nat
  BY <1>4
<1>5. n \div d \in Nat
  BY <1>1, <1>3, <1>4
<1>6. Rated(content) = IF n % d # 0 /\ Numerator(n, d) > MaxInt64 \div 2 THEN None
                       ELSE IF Ceiling(n, d) > MaxInt64 THEN None ELSE Ceiling(n, d)
  BY Zenon DEF Rated
<1> HIDE DEF n, d
<1>7. Ceiling(n, d) \in Nat
  BY <1>5 DEF Ceiling
<1>8. Rated(content) = Ceiling(n, d) /\ ~(Ceiling(n, d) > MaxInt64)
  BY <1>6, Zenon
<1> QED
  BY <1>1, <1>7, <1>8

\* Every body is of the kind it says.
LEMMA ContentType ==
    ASSUME NEW content \in Contents
    PROVE  /\ content.kind \in Kinds
           /\ content.kind = "fact" => content \in Usage
           /\ content.kind = "credit" => content \in Credit
           /\ content.kind = "budget" => content \in SetLimit
           /\ content.kind = "invoice" => content \in Period
BY LedgerAssumption DEF Kinds, Usage, Credit, SetLimit, Period

\* Totals are numbers, also of entries that were never rated.
LEMMA TotalType ==
    ASSUME NEW S \in SUBSET Attempts
    PROVE  IsFiniteSet(Units(S)) /\ Total(S) \in Nat
<1>1. IsFiniteSet(Attempts) /\ IsFiniteSet(1..MaxInt64)
  BY LedgerAssumption, FS_Interval DEF Attempts
<1>2. IsFiniteSet(S)
  BY <1>1, FS_Subset
<1>3. IsFiniteSet(S \X (1..MaxInt64))
  BY <1>1, <1>2, FS_Product, Zenon
<1>4. Units(S) \in SUBSET (S \X (1..MaxInt64))
  BY DEF Units
<1>5. IsFiniteSet(Units(S))
  BY <1>3, <1>4, FS_Subset, Zenon
<1> QED
  BY <1>5, FS_CardinalityType DEF Total

\* More entries, no smaller total.
LEMMA TotalGrows ==
    ASSUME NEW S \in SUBSET Attempts, NEW R \in SUBSET S
    PROVE  Total(R) <= Total(S)
<1>1. Units(R) \in SUBSET Units(S)
  BY DEF Units
<1>2. IsFiniteSet(Units(S))
  BY TotalType
<1> QED
  BY <1>1, <1>2, FS_Subset DEF Total

\* A new entry adds its amount.
LEMMA TotalAdds ==
    ASSUME NEW S \in SUBSET Attempts, NEW a \in Attempts, a \notin S,
           Amount(a) \in 0..MaxInt64
    PROVE  Total(S \cup {a}) = Total(S) + Amount(a)
<1> DEFINE Own == {a} \X (1..Amount(a))
<1>1. MaxInt64 \in Nat /\ Amount(a) \in Nat /\ Amount(a) <= MaxInt64
  BY LedgerAssumption
<1>2. Units(S \cup {a}) = Units(S) \cup Own
  <2>1. ASSUME NEW u \in Units(S \cup {a}) PROVE u \in Units(S) \cup Own
    BY <1>1 DEF Units
  <2>2. ASSUME NEW u \in Own PROVE u \in Units(S \cup {a})
    BY <1>1 DEF Units
  <2>3. Units(S) \subseteq Units(S \cup {a})
    BY DEF Units
  <2> QED
    BY <2>1, <2>2, <2>3
<1>3. Units(S) \cap Own = {}
  BY DEF Units
<1>4. IsFiniteSet(Own) /\ Cardinality(Own) = Amount(a)
  <2>1. IsFiniteSet({a}) /\ Cardinality({a}) = 1
    BY FS_Singleton
  <2>2. IsFiniteSet(1..Amount(a)) /\ Cardinality(1..Amount(a)) = Amount(a)
    BY <1>1, FS_Interval
  <2>3. IsFiniteSet(Own) /\ Cardinality(Own) = Cardinality({a}) * Cardinality(1..Amount(a))
    BY <2>1, <2>2, FS_Product, Zenon
  <2> QED
    BY <1>1, <2>1, <2>2, <2>3
<1>5. IsFiniteSet(Units(S)) /\ Cardinality(Units(S)) \in Nat
  BY TotalType DEF Total
<1>6. Cardinality(Units(S) \cap Own) = 0
  BY <1>3, FS_EmptySet
<1>7. Cardinality(Units(S) \cup Own)
        = Cardinality(Units(S)) + Cardinality(Own) - Cardinality(Units(S) \cap Own)
  BY <1>4, <1>5, FS_Union, Zenon
<1>8. Total(S \cup {a}) = Cardinality(Units(S) \cup Own) /\ Total(S) = Cardinality(Units(S))
  BY <1>2, Zenon DEF Total
<1> HIDE DEF Own
<1> QED
  BY <1>1, <1>4, <1>5, <1>6, <1>7, <1>8

-----------------------------------------------------------------------------
(* The inductive invariant *)

\* The attempts whose rows exist.
Effects == {a \in Attempts : a \in operations \cup ledger \/ invoices[a] # None}

Lifecycle ==
    \A a \in Attempts : /\ phase[a] = "new" <=> request[a] = None
                        /\ phase[a] = "done" <=> answer[a] # None

\* A key is in one open transaction, and has no record yet.
KeysHeld ==
    /\ \A a, b \in Attempts :
         phase[a] \in Open /\ phase[b] \in Open /\ Scope(a) = Scope(b) => a = b
    /\ \A a \in Attempts : phase[a] \in Open => records[Scope(a)] = None

RecordsTrue ==
    \A s \in Kinds \X Keys, b \in Attempts :
      records[s] # None /\ records[s].resource = b =>
        b \in Effects /\ Scope(b) = s /\ Body(b) = records[s].content

EffectsRecorded ==
    \A b \in Effects : /\ phase[b] = "done"
                       /\ records[Scope(b)] # None
                       /\ records[Scope(b)].resource = b

Envelope == Lifecycle /\ KeysHeld /\ RecordsTrue /\ EffectsRecorded

\* The facts an invoice of a may charge.
Chargeable(a) ==
    {f \in ledger : Kind(f) = "fact" /\ Overlaps(Body(f).interval, Body(a).interval)}

\* What an open invoice listed is still in the ledger, and adds up.
ReadsMatch ==
    \A a \in Attempts, S \in SUBSET Attempts :
      phase[a] \in {"checked", "written"} /\ Kind(a) = "invoice" /\ read[a] = S =>
        S \subseteq Chargeable(a) /\ Total(S) <= MaxInt64

InvoicesAdd ==
    \A a \in Attempts, S \in SUBSET Attempts :
      invoices[a] # None /\ invoices[a].lines = S =>
        Kind(a) = "invoice" /\ S \subseteq Chargeable(a) /\ invoices[a].subtotal = Total(S)

\* At most one invoice of a period is written, and then none is committed.
PeriodsHeld ==
    \A a, b \in Attempts :
      b \in SamePeriod(a) =>
        /\ phase[a] = "written" /\ Kind(a) = "invoice" =>
             invoices[b] = None /\ (phase[b] = "written" => b = a)
        /\ invoices[a] # None /\ invoices[b] # None => b = a

Invoicing == ReadsMatch /\ InvoicesAdd /\ PeriodsHeld

-----------------------------------------------------------------------------
(* What a step does to the envelope *)

\* A sent request has a key and a body.
LEMMA RequestType ==
    ASSUME TypeOK, NEW a \in Attempts, request[a] # None
    PROVE  /\ request[a] \in Request /\ request[a].key \in Keys
           /\ Body(a) \in Contents /\ Kind(a) \in Kinds /\ Scope(a) \in Kinds \X Keys
<1>1. request[a] \in Request
  BY DEF TypeOK
<1>2. request[a].key \in Keys /\ Body(a) \in Contents
  BY <1>1 DEF Request, Body
<1>3. Kind(a) \in Kinds
  BY <1>2, ContentType DEF Kind
<1> QED
  BY <1>1, <1>2, <1>3 DEF Scope

\* A statement inside an open transaction.
Moves(a) ==
    /\ phase[a] \in Open
    /\ \E p \in Open : Goes(a, p)
    /\ UNCHANGED <<request, answer, tables>>

\* A transaction ends without a trace, with an answer other than its own row.
Stops(a) ==
    /\ phase[a] \in Open \cup {"sent"}
    /\ \E r \in {Refused, Failed} : EndsWithout(a, r)

LEMMA StepShape ==
    ASSUME NEW a \in Attempts, Step(a) \/ Abort(a)
    PROVE  Admit(a) \/ Moves(a) \/ Stops(a) \/ Replay(a) \/ Conflict(a) \/ Commit(a)
<1> USE DEF Open
<1>1. CASE RefuseUnrated(a)
  BY <1>1 DEF RefuseUnrated, Stops
<1>2. CASE WithoutBudget(a)
  BY <1>2 DEF WithoutBudget, ReadsBudget, Moves, Goes, tables
<1>3. CASE WithinBudget(a)
  BY <1>3 DEF WithinBudget, ReadsBudget, Moves, Goes, tables
<1>4. CASE BeyondBudget(a)
  BY <1>4 DEF BeyondBudget, ReadsBudget, Stops
<1>5. CASE InsertCredit(a)
  BY <1>5 DEF InsertCredit, Moves, Goes, tables
<1>6. CASE SumUsage(a)
  BY <1>6 DEF SumUsage, Moves, Goes, Stops, tables
<1>7. CASE UpsertBudget(a)
  BY <1>7 DEF UpsertBudget, Moves, Goes, tables
<1>8. CASE ListUsage(a)
  BY <1>8 DEF ListUsage, Moves, Goes, Stops, tables
<1>9. CASE InsertInvoice(a)
  BY <1>9 DEF InsertInvoice, Moves, Goes, Stops, tables
<1>10. CASE Abort(a)
  BY <1>10 DEF Abort, Stops
<1> QED
  BY <1>1, <1>2, <1>3, <1>4, <1>5, <1>6, <1>7, <1>8, <1>9, <1>10 DEF Step

\* Ends only writes what may be written.
LEMMA EndsType ==
    ASSUME TypeOK, NEW a \in Attempts,
           NEW r \in Attempts \cup {Conflicting, Refused, Failed}, Ends(a, r)
    PROVE  /\ phase' \in [Attempts -> {"new", "sent", "done"} \cup Open]
           /\ answer' \in [Attempts -> Attempts \cup {None, Conflicting, Refused, Failed}]
           /\ read' \in [Attempts -> SUBSET Attempts]
           /\ budgetLock' \in Attempts \cup {None}
           /\ request' \in [Attempts -> Request \cup {None}]
BY DEF TypeOK, Ends, Goes

LEMMA TypeKept ==
    ASSUME TypeOK, Lifecycle, ReadsMatch, [Next]_vars
    PROVE  TypeOK'
<1>1. CASE UNCHANGED vars
  BY <1>1 DEF TypeOK, vars
<1>2. ASSUME NEW a \in Attempts, NEW key \in Keys, NEW content \in Contents, Send(a, key, content)
      PROVE TypeOK'
  BY <1>2 DEF TypeOK, Send, Request, tables
<1>3. ASSUME NEW a \in Attempts, NEW r \in Attempts \cup {Conflicting, Refused, Failed},
             EndsWithout(a, r)
      PROVE TypeOK'
  BY <1>3, EndsType DEF TypeOK, EndsWithout, tables
<1>4. ASSUME NEW a \in Attempts, Admit(a) PROVE TypeOK'
  BY <1>4 DEF TypeOK, Admit, Goes, Open, tables
<1>5. ASSUME NEW a \in Attempts, Admissible(a), records[Scope(a)] # None
      PROVE records[Scope(a)].resource \in Attempts
  <2>1. request[a] # None
    BY <1>5 DEF Lifecycle, Admissible, HasKey
  <2>2. records[Scope(a)] \in RecordRow
    BY <1>5, <2>1, RequestType DEF TypeOK
  <2> QED
    BY <2>2 DEF RecordRow
<1>6. ASSUME NEW a \in Attempts, WithoutBudget(a) \/ WithinBudget(a) \/ InsertCredit(a) \/ UpsertBudget(a)
      PROVE TypeOK'
  BY <1>6 DEF TypeOK, WithoutBudget, WithinBudget, InsertCredit, UpsertBudget, LocksBudget,
              Goes, Open, tables
<1>7. ASSUME NEW a \in Attempts, SumUsage(a) PROVE TypeOK'
  <2>1. CASE Covers(a)
    BY <1>7, <2>1 DEF TypeOK, SumUsage, Goes, Open, tables
  <2>2. CASE ~Covers(a)
    BY <1>3, <1>7, <2>2 DEF SumUsage
  <2> QED
    BY <2>1, <2>2
<1>8. ASSUME NEW a \in Attempts, ListUsage(a) PROVE TypeOK'
  <2> DEFINE lines == {f \in ledger : Kind(f) = "fact" /\ Overlaps(Body(f).interval, Body(a).interval)}
  <2>1. lines \in SUBSET Attempts
    BY DEF TypeOK
  <2> HIDE DEF lines
  <2>2. CASE AddsUp(lines)
    <3>1. Goes(a, "checked") /\ read' = [read EXCEPT ![a] = lines]
          /\ UNCHANGED <<request, answer, budgetLock, tables, unchecked>>
      BY <1>8, <2>2 DEF ListUsage, lines
    <3> QED
      BY <2>1, <3>1 DEF TypeOK, Goes, Open, tables
  <2>3. CASE ~AddsUp(lines)
    <3>1. EndsWithout(a, Refused)
      BY <1>8, <2>3 DEF ListUsage, lines
    <3> QED
      BY <1>3, <3>1
  <2> QED
    BY <2>2, <2>3
<1>9. ASSUME NEW a \in Attempts, InsertInvoice(a) PROVE TypeOK'
  <2>1. CASE Taken(a)
    BY <1>3, <1>9, <2>1 DEF InsertInvoice
  <2>2. CASE ~Taken(a)
    BY <1>9, <2>2 DEF TypeOK, InsertInvoice, Goes, Open, tables
  <2> QED
    BY <2>1, <2>2
<1>10. ASSUME NEW a \in Attempts, Commit(a) PROVE TypeOK'
  <2>1. request[a] # None
    BY <1>10 DEF Lifecycle, Commit
  <2>2. Body(a) \in Contents /\ Scope(a) \in Kinds \X Keys
    BY <2>1, RequestType
  <2>3. Record(a) \in [Kinds \X Keys -> RecordRow \cup {None}]
    BY <2>2 DEF Record, RecordRow, TypeOK
  <2>4. budget' \in BudgetRow \cup {None}
    BY <1>10, <2>2, ContentType DEF Commit, Kind, SetLimit, BudgetRow, TypeOK
  <2>5. invoices' \in [Attempts -> InvoiceRow \cup {None}]
    <3>1. CASE Kind(a) = "invoice"
      <4>1. Total(read[a]) \in 0..MaxInt64
        BY <1>10, <3>1, TotalType, LedgerAssumption DEF TypeOK, ReadsMatch, Commit
      <4>2. [lines |-> read[a], subtotal |-> Total(read[a])] \in InvoiceRow
        BY <4>1 DEF InvoiceRow, TypeOK
      <4> QED
        BY <1>10, <3>1, <4>2 DEF Commit, TypeOK
    <3>2. CASE Kind(a) # "invoice"
      BY <1>10, <3>2 DEF Commit, TypeOK
    <3> QED
      BY <3>1, <3>2
  <2>6. Ends(a, a) \/ Ends(a, Failed)
    BY <1>10 DEF Commit
  <2> QED
    BY <1>10, <2>3, <2>4, <2>5, <2>6, EndsType DEF Commit, TypeOK
<1>11. ASSUME NEW a \in Attempts, Step(a) \/ Abort(a) PROVE TypeOK'
  <2>1. CASE Replay(a)
    BY <1>3, <1>5, <2>1 DEF Replay, Recorded
  <2>2. CASE RefuseUnrated(a) \/ Conflict(a) \/ BeyondBudget(a) \/ Abort(a)
    BY <1>3, <2>2 DEF RefuseUnrated, Conflict, BeyondBudget, Abort
  <2> QED
    BY <1>4, <1>6, <1>7, <1>8, <1>9, <1>10, <1>11, <2>1, <2>2 DEF Step
<1> QED
  BY <1>1, <1>2, <1>11 DEF Next

-----------------------------------------------------------------------------
(* Every step keeps the envelope *)

LEMMA SendKeepsEnvelope ==
    ASSUME TypeOK, Envelope, NEW a \in Attempts, NEW key \in Keys, NEW content \in Contents,
           Send(a, key, content)
    PROVE  Envelope'
<1> USE DEF Envelope
<1>1. /\ phase[a] = "new" /\ phase' = [phase EXCEPT ![a] = "sent"]
      /\ request' = [request EXCEPT ![a] = [key |-> key, content |-> content]]
      /\ UNCHANGED <<answer, records, operations, ledger, invoices>>
  BY DEF Send, tables
<1>2. [key |-> key, content |-> content] # None
  BY RowAssumption DEF Request
<1>3. Effects' = Effects
  BY <1>1 DEF Effects
<1>4. \A b \in Attempts : b # a => Scope(b)' = Scope(b) /\ Body(b)' = Body(b) /\ phase'[b] = phase[b]
  BY <1>1 DEF TypeOK, Scope, Kind, Body
<1>5. \A b \in Effects : b # a /\ b \in Attempts
  BY <1>1 DEF EffectsRecorded, Effects
<1>6. phase'[a] = "sent" /\ "sent" \notin Open
  BY <1>1 DEF TypeOK, Open
<1>7. Lifecycle'
  BY <1>1, <1>2 DEF Lifecycle, TypeOK
<1>8. KeysHeld'
  BY <1>1, <1>4, <1>6 DEF KeysHeld
<1>9. RecordsTrue'
  BY <1>1, <1>3, <1>4, <1>5 DEF RecordsTrue
<1>10. EffectsRecorded'
  BY <1>1, <1>3, <1>4, <1>5 DEF EffectsRecorded
<1> QED
  BY <1>7, <1>8, <1>9, <1>10

\* A step of an open or waiting transaction that writes no row.
LEMMA QuietStepKeepsEnvelope ==
    ASSUME TypeOK, Envelope, NEW a \in Attempts,
           phase[a] \in Open \cup {"sent"},
           UNCHANGED <<request, records, operations, ledger, invoices>>,
           NEW p \in Open \cup {"done"}, Goes(a, p),
           \/ p \in Open /\ answer' = answer
           \/ p = "done" /\ \E r : r # None /\ answer' = [answer EXCEPT ![a] = r],
           \/ p = "done"
           \/ phase[a] \in Open
           \/ HasKey(a) /\ records[Scope(a)] = None
    PROVE  Envelope'
<1> USE DEF Envelope
<1>1. phase' = [phase EXCEPT ![a] = p]
  BY DEF Goes
<1>2. Effects' = Effects
  BY DEF Effects
<1>3. \A b \in Attempts : Scope(b)' = Scope(b) /\ Body(b)' = Body(b)
  BY DEF Scope, Kind, Body
<1>4. \A b \in Effects : b # a /\ b \in Attempts
  BY DEF EffectsRecorded, Effects, Open
<1>5. phase'[a] = p /\ \A b \in Attempts : b # a => phase'[b] = phase[b]
  BY <1>1 DEF TypeOK
<1>6. Lifecycle'
  BY <1>5 DEF Lifecycle, TypeOK, Open
<1>7. KeysHeld'
  BY <1>3, <1>5 DEF KeysHeld, HasKey, Open
<1>8. RecordsTrue'
  BY <1>2, <1>3, <1>4 DEF RecordsTrue, Effects
<1>9. EffectsRecorded'
  BY <1>2, <1>3, <1>4, <1>5 DEF EffectsRecorded
<1> QED
  BY <1>6, <1>7, <1>8, <1>9

LEMMA CommitKeepsEnvelope ==
    ASSUME TypeOK, Envelope, NEW a \in Attempts, Commit(a)
    PROVE  Envelope'
<1> USE DEF Envelope
<1>1. /\ phase[a] = "written" /\ phase' = [phase EXCEPT ![a] = "done"]
      /\ request' = request
      /\ records' = [records EXCEPT ![Scope(a)] = [content |-> Body(a), resource |-> a]]
      /\ operations' = operations \cup {a}
  BY DEF Commit, Ends, Goes, Record
<1>2. phase[a] \in Open /\ request[a] # None
  BY <1>1 DEF Open, Lifecycle
<1>3. Scope(a) \in Kinds \X Keys /\ Body(a) \in Contents
  BY <1>2, RequestType
<1>4. [content |-> Body(a), resource |-> a] # None
  BY <1>3, RowAssumption DEF RecordRow
<1>5. \A b \in Attempts : Scope(b)' = Scope(b) /\ Body(b)' = Body(b)
  BY <1>1 DEF Scope, Kind, Body
<1>6. Effects' = Effects \cup {a}
  <2>1. ledger \subseteq ledger' /\ ledger' \subseteq ledger \cup {a}
    BY DEF Commit
  <2>2. ASSUME NEW b \in Attempts, b # a PROVE invoices'[b] = invoices[b]
    BY <2>2 DEF Commit, TypeOK
  <2> QED
    BY <1>1, <2>1, <2>2 DEF Effects
<1>7. phase'[a] = "done" /\ \A b \in Attempts : b # a => phase'[b] = phase[b]
  BY <1>1 DEF TypeOK
<1>8. records'[Scope(a)] = [content |-> Body(a), resource |-> a]
  BY <1>1, <1>3 DEF TypeOK
<1>9. \A s \in Kinds \X Keys : s # Scope(a) => records'[s] = records[s]
  BY <1>1 DEF TypeOK
<1>10. records[Scope(a)] = None
  BY <1>2 DEF KeysHeld
<1>11. \A b \in Effects : b \in Attempts /\ Scope(b) # Scope(a) /\ request[b] # None
  BY <1>10 DEF EffectsRecorded, Effects, Lifecycle
<1>12. Lifecycle'
  <2>1. \E r : r # None /\ answer' = [answer EXCEPT ![a] = r]
    <3>1. a # None /\ Failed # None
      BY LedgerAssumption
    <3> QED
      BY <3>1 DEF Commit, Ends
  <2> QED
    BY <1>1, <1>2, <1>7, <2>1 DEF Lifecycle, TypeOK
<1>13. KeysHeld'
  <2>1. \A b \in Attempts : phase'[b] \in Open => b # a /\ phase[b] \in Open
    BY <1>7 DEF Open
  <2>2. \A b \in Attempts : phase[b] \in Open => request[b] # None
    BY DEF Lifecycle, Open
  <2>3. \A b \in Attempts : phase[b] \in Open => Scope(b) \in Kinds \X Keys
    BY <2>2, RequestType
  <2> QED
    BY <1>2, <1>5, <1>9, <2>1, <2>3 DEF KeysHeld
<1>14. RecordsTrue'
  <2> SUFFICES ASSUME NEW s \in Kinds \X Keys, NEW b \in Attempts,
                      records'[s] # None, records'[s].resource = b
               PROVE  b \in Effects' /\ Scope(b)' = s /\ Body(b)' = records'[s].content
    BY Zenon DEF RecordsTrue
  <2>1. CASE s = Scope(a)
    <3>1. b = a /\ records'[s].content = Body(a)
      BY <1>8, <2>1
    <3> QED
      BY <1>5, <1>6, <2>1, <3>1
  <2>2. CASE s # Scope(a)
    <3>1. b \in Effects /\ Scope(b) = s /\ Body(b) = records[s].content
      BY <1>9, <2>2 DEF RecordsTrue
    <3> QED
      BY <1>5, <1>6, <1>9, <2>2, <3>1
  <2> QED
    BY <2>1, <2>2
<1>15. EffectsRecorded'
  <2> SUFFICES ASSUME NEW b \in Effects'
               PROVE  /\ phase'[b] = "done" /\ records'[Scope(b)'] # None
                      /\ records'[Scope(b)'].resource = b
    BY Zenon DEF EffectsRecorded
  <2>1. CASE b = a
    BY <1>4, <1>5, <1>7, <1>8, <2>1
  <2>2. CASE b # a
    <3>1. b \in Effects /\ b \in Attempts
      BY <1>6, <1>11, <2>2
    <3>2. Scope(b) # Scope(a) /\ Scope(b) \in Kinds \X Keys
      BY <1>11, <3>1, RequestType
    <3> QED
      BY <1>5, <1>7, <1>9, <2>2, <3>1, <3>2 DEF EffectsRecorded
  <2> QED
    BY <2>1, <2>2
<1> QED
  BY <1>12, <1>13, <1>14, <1>15

LEMMA EnvelopeKept ==
    ASSUME TypeOK, Envelope, [Next]_vars
    PROVE  Envelope'
<1>1. CASE UNCHANGED vars
  BY <1>1 DEF Envelope, Lifecycle, KeysHeld, RecordsTrue, EffectsRecorded, Effects, Scope, Kind,
              Body, vars
<1>2. ASSUME NEW a \in Attempts, NEW key \in Keys, NEW content \in Contents, Send(a, key, content)
      PROVE Envelope'
  BY <1>2, SendKeepsEnvelope
<1>3. ASSUME NEW a \in Attempts, phase[a] \in Open \cup {"sent"}, NEW r, r # None, EndsWithout(a, r)
      PROVE Envelope'
  <2>1. /\ Goes(a, "done") /\ answer' = [answer EXCEPT ![a] = r]
        /\ UNCHANGED <<request, records, operations, ledger, invoices>>
    BY <1>3 DEF EndsWithout, Ends, tables
  <2> QED
    BY <1>3, <2>1, QuietStepKeepsEnvelope
<1>4. ASSUME NEW a \in Attempts, Step(a) \/ Abort(a) PROVE Envelope'
  <2>1. CASE Admit(a)
    <3>1. /\ phase[a] = "sent" /\ Goes(a, "admitted") /\ "admitted" \in Open
          /\ HasKey(a) /\ records[Scope(a)] = None
          /\ UNCHANGED <<request, answer, records, operations, ledger, invoices>>
      BY <2>1 DEF Admit, Admissible, HasKey, tables, Open
    <3> QED
      BY <3>1, QuietStepKeepsEnvelope
  <2>2. CASE Moves(a)
    <3>1. PICK p \in Open : Goes(a, p)
      BY <2>2 DEF Moves
    <3>2. UNCHANGED <<request, answer, records, operations, ledger, invoices>> /\ phase[a] \in Open
      BY <2>2 DEF Moves, tables
    <3> QED
      BY <3>1, <3>2, QuietStepKeepsEnvelope
  <2>3. CASE Stops(a)
    BY <1>3, <2>3, LedgerAssumption DEF Stops
  <2>4. CASE Replay(a)
    <3>1. phase[a] = "sent" /\ request[a] # None
      BY <2>4 DEF Replay, Admissible, HasKey, Envelope, Lifecycle
    <3>2. records[Scope(a)] \in RecordRow
      BY <2>4, <3>1, RequestType DEF Replay, Recorded, TypeOK
    <3>3. records[Scope(a)].resource # None
      BY <3>2, LedgerAssumption DEF RecordRow
    <3> QED
      BY <1>3, <2>4, <3>1, <3>3 DEF Replay
  <2>5. CASE Conflict(a)
    BY <1>3, <2>5, LedgerAssumption DEF Conflict, Admissible, HasKey
  <2>6. CASE Commit(a)
    BY <2>6, CommitKeepsEnvelope
  <2> QED
    BY <1>4, <2>1, <2>2, <2>3, <2>4, <2>5, <2>6, StepShape
<1> QED
  BY <1>1, <1>2, <1>4 DEF Next

-----------------------------------------------------------------------------
(* Every step keeps what is known of invoices *)

\* What a request says never changes.
LEMMA SentIsStable ==
    ASSUME TypeOK, Lifecycle, [Next]_vars, NEW b \in Attempts, phase[b] # "new"
    PROVE  /\ request'[b] = request[b] /\ phase'[b] # "new"
           /\ Kind(b)' = Kind(b) /\ Body(b)' = Body(b) /\ Amount(b)' = Amount(b)
           /\ Currency(b)' = Currency(b) /\ Scope(b)' = Scope(b)
<1>1. request'[b] = request[b] /\ phase'[b] # "new"
  <2>1. CASE UNCHANGED vars
    BY <2>1 DEF vars
  <2>2. ASSUME NEW a \in Attempts, NEW key \in Keys, NEW content \in Contents, Send(a, key, content)
        PROVE request'[b] = request[b] /\ phase'[b] # "new"
    BY <2>2 DEF Send, TypeOK
  <2>3. ASSUME NEW a \in Attempts, Step(a) \/ Abort(a)
        PROVE request'[b] = request[b] /\ phase'[b] # "new"
    <3>1. request' = request /\ \E p \in Open \cup {"done"} : Goes(a, p)
      BY <2>3, StepShape DEF Admit, Moves, Stops, Replay, Conflict, Commit, EndsWithout, Ends, Open
    <3> QED
      BY <3>1 DEF Goes, TypeOK, Open
  <2> QED
    BY <2>1, <2>2, <2>3 DEF Next
<1> QED
  BY <1>1 DEF Kind, Body, Amount, Currency, Scope

\* Nor do the totals of what is in the ledger.
LEMMA TotalIsStable ==
    ASSUME TypeOK, Lifecycle, [Next]_vars, NEW S \in SUBSET Attempts,
           \A f \in S : phase[f] # "new"
    PROVE  Total(S)' = Total(S)
<1>1. \A f \in S : Amount(f)' = Amount(f)
  BY SentIsStable
<1>2. Units(S)' = Units(S)
  BY <1>1 DEF Units
<1> QED
  BY <1>2 DEF Total

\* The ledger only grows, by entries that were requested.
LEMMA LedgerIsStable ==
    ASSUME TypeOK, Envelope, [Next]_vars
    PROVE  /\ \A f \in ledger : f \in Attempts /\ phase[f] # "new"
           /\ ledger \subseteq ledger'
           /\ \A a \in Attempts : phase[a] # "new" => Chargeable(a) \subseteq Chargeable(a)'
<1>1. \A f \in ledger : f \in Attempts /\ phase[f] # "new"
  BY DEF Envelope, EffectsRecorded, Effects, TypeOK
<1>2. ledger \subseteq ledger'
  <2>1. CASE UNCHANGED vars
    BY <2>1 DEF vars
  <2>2. ASSUME NEW a \in Attempts, NEW key \in Keys, NEW content \in Contents, Send(a, key, content)
        PROVE ledger \subseteq ledger'
    BY <2>2 DEF Send, tables
  <2>3. ASSUME NEW a \in Attempts, Step(a) \/ Abort(a) PROVE ledger \subseteq ledger'
    BY <2>3, StepShape DEF Admit, Moves, Stops, Replay, Conflict, Commit, EndsWithout, tables
  <2> QED
    BY <2>1, <2>2, <2>3 DEF Next
<1>3. ASSUME NEW a \in Attempts, phase[a] # "new" PROVE Chargeable(a) \subseteq Chargeable(a)'
  <2>1. Body(a)' = Body(a)
    BY <1>3, SentIsStable DEF Envelope
  <2>2. \A f \in ledger : Kind(f)' = Kind(f) /\ Body(f)' = Body(f)
    BY <1>1, SentIsStable DEF Envelope
  <2> QED
    BY <1>2, <2>1, <2>2 DEF Chargeable, Overlaps
<1> QED
  BY <1>1, <1>2, <1>3

\* The rows of an invoice are written when it is done, and belong to nobody new.
LEMMA InvoicesAreDone ==
    ASSUME TypeOK, Envelope, NEW a \in Attempts, invoices[a] # None
    PROVE  phase[a] = "done"
BY DEF Envelope, EffectsRecorded, Effects

\* Lists and invoices that a step leaves alone stay as good as they were.
LEMMA RowsStayGood ==
    ASSUME TypeOK, Envelope, Invoicing, [Next]_vars, NEW b \in Attempts, NEW S \in SUBSET Attempts
    PROVE  /\ phase[b] \in {"checked", "written"} /\ Kind(b) = "invoice" /\ read[b] = S =>
                (S \subseteq Chargeable(b))' /\ (Total(S) <= MaxInt64)'
           /\ invoices[b] # None /\ invoices[b].lines = S =>
                Kind(b)' = "invoice" /\ (S \subseteq Chargeable(b))' /\ Total(S)' = invoices[b].subtotal
<1>1. ASSUME phase[b] # "new", S \subseteq Chargeable(b)
      PROVE  (S \subseteq Chargeable(b))' /\ Total(S)' = Total(S)
  <2>1. \A f \in S : phase[f] # "new"
    BY <1>1, LedgerIsStable DEF Chargeable
  <2>2. Total(S)' = Total(S)
    BY <2>1, TotalIsStable DEF Envelope
  <2>3. Chargeable(b) \subseteq Chargeable(b)'
    BY <1>1, LedgerIsStable
  <2> QED
    BY <1>1, <2>2, <2>3
<1>2. ASSUME phase[b] \in {"checked", "written"}, Kind(b) = "invoice", read[b] = S
      PROVE  (S \subseteq Chargeable(b))' /\ (Total(S) <= MaxInt64)'
  <2>1. S \subseteq Chargeable(b) /\ Total(S) <= MaxInt64
    BY <1>2 DEF Invoicing, ReadsMatch
  <2>2. Total(S)' <= MaxInt64
    BY <1>1, <1>2, <2>1
  <2> QED
    BY <1>1, <1>2, <2>1, <2>2
<1>3. ASSUME invoices[b] # None, invoices[b].lines = S
      PROVE  Kind(b)' = "invoice" /\ (S \subseteq Chargeable(b))' /\ Total(S)' = invoices[b].subtotal
  <2>1. Kind(b) = "invoice" /\ S \subseteq Chargeable(b) /\ invoices[b].subtotal = Total(S)
    BY <1>3 DEF Invoicing, InvoicesAdd
  <2>2. phase[b] # "new"
    BY <1>3, InvoicesAreDone
  <2>3. Kind(b)' = Kind(b)
    BY <2>2, SentIsStable DEF Envelope
  <2> QED
    BY <1>1, <2>1, <2>2, <2>3
<1> QED
  BY <1>2, <1>3

\* Same period before, same period after.
LEMMA PeriodIsStable ==
    ASSUME TypeOK, Envelope, [Next]_vars, NEW a \in Attempts, NEW b \in Attempts,
           phase[a] # "new", phase[b] # "new"
    PROVE  (b \in SamePeriod(a))' <=> b \in SamePeriod(a)
<1>1. /\ Body(a)' = Body(a) /\ Body(b)' = Body(b) /\ Kind(b)' = Kind(b) /\ phase'[b] # "new"
  BY SentIsStable DEF Envelope
<1> QED
  BY <1>1 DEF SamePeriod

\* A step of a request that is not an invoice about to be written.
LEMMA QuietStepKeepsInvoices ==
    ASSUME TypeOK, Envelope, Invoicing, [Next]_vars, NEW a \in Attempts,
           invoices' = invoices,
           \A b \in Attempts : b # a => phase'[b] = phase[b] /\ read'[b] = read[b],
           \/ phase'[a] \notin {"checked", "written"}
           \/ phase[a] # "new" /\ Kind(a) # "invoice"
    PROVE  Invoicing'
<1>1. phase[a] # "new" => Kind(a)' = Kind(a)
  BY SentIsStable DEF Envelope
<1>2. ~(phase'[a] \in {"checked", "written"} /\ Kind(a)' = "invoice")
  BY <1>1
<1>3. ReadsMatch'
  <2> SUFFICES ASSUME NEW b \in Attempts, NEW S \in SUBSET Attempts,
                      phase'[b] \in {"checked", "written"}, Kind(b)' = "invoice", read'[b] = S
               PROVE  (S \subseteq Chargeable(b))' /\ (Total(S) <= MaxInt64)'
    BY Zenon DEF ReadsMatch
  <2>1. b # a
    BY <1>2
  <2>2. phase[b] \in {"checked", "written"} /\ read[b] = S
    BY <2>1
  <2>3. Kind(b) = "invoice"
    BY <2>2, SentIsStable DEF Envelope
  <2> QED
    BY <2>2, <2>3, RowsStayGood
<1>4. InvoicesAdd'
  <2> SUFFICES ASSUME NEW b \in Attempts, NEW S \in SUBSET Attempts,
                      invoices'[b] # None, invoices'[b].lines = S
               PROVE  Kind(b)' = "invoice" /\ (S \subseteq Chargeable(b))'
                        /\ invoices'[b].subtotal = Total(S)'
    BY Zenon DEF InvoicesAdd
  <2> QED
    BY RowsStayGood
<1>5. PeriodsHeld'
  <2> SUFFICES ASSUME NEW x \in Attempts, NEW y \in Attempts, (y \in SamePeriod(x))'
               PROVE  /\ phase'[x] = "written" /\ Kind(x)' = "invoice" =>
                           invoices'[y] = None /\ (phase'[y] = "written" => y = x)
                      /\ invoices'[x] # None /\ invoices'[y] # None => y = x
    BY Zenon DEF PeriodsHeld
  <2>1. Kind(y)' = "invoice"
    BY DEF SamePeriod
  <2>2. ASSUME phase'[x] = "written", Kind(x)' = "invoice"
        PROVE  invoices'[y] = None /\ (phase'[y] = "written" => y = x)
    <3>1. x # a /\ phase[x] = "written" /\ phase[x] # "new"
      BY <1>2, <2>2
    <3>2. Kind(x) = "invoice"
      BY <2>2, <3>1, SentIsStable DEF Envelope
    <3>3. phase'[y] = "written" => y # a /\ phase[y] = "written"
      BY <1>2, <2>1
    <3>4. CASE phase[y] = "new"
      BY <3>3, <3>4, InvoicesAreDone
    <3>5. CASE phase[y] # "new"
      <4>1. y \in SamePeriod(x)
        BY <3>1, <3>5, PeriodIsStable
      <4> QED
        BY <3>1, <3>2, <3>3, <4>1 DEF Invoicing, PeriodsHeld
    <3> QED
      BY <3>4, <3>5
  <2>3. ASSUME invoices'[x] # None, invoices'[y] # None PROVE y = x
    <3>1. phase[x] = "done" /\ phase[y] = "done"
      BY <2>3, InvoicesAreDone
    <3>2. y \in SamePeriod(x)
      BY <3>1, PeriodIsStable
    <3> QED
      BY <2>3, <3>2 DEF Invoicing, PeriodsHeld
  <2> QED
    BY <2>2, <2>3
<1> QED
  BY <1>3, <1>4, <1>5 DEF Invoicing

\* An invoice that is listed: what it read is in the ledger and adds up.
LEMMA ListUsageKeepsInvoices ==
    ASSUME TypeOK, Envelope, Invoicing, [Next]_vars, NEW a \in Attempts, ListUsage(a),
           phase' = [phase EXCEPT ![a] = "checked"], read' = [read EXCEPT ![a] = Chargeable(a)],
           AddsUp(Chargeable(a)), invoices' = invoices, ledger' = ledger
    PROVE  Invoicing'
<1>1. phase[a] = "admitted" /\ Kind(a) = "invoice"
  BY DEF ListUsage
<1>2. \A b \in Attempts : b # a => phase'[b] = phase[b] /\ read'[b] = read[b]
  BY DEF TypeOK
<1>3. ReadsMatch'
  <2> SUFFICES ASSUME NEW b \in Attempts, NEW S \in SUBSET Attempts,
                      phase'[b] \in {"checked", "written"}, Kind(b)' = "invoice", read'[b] = S
               PROVE  (S \subseteq Chargeable(b))' /\ (Total(S) <= MaxInt64)'
    BY Zenon DEF ReadsMatch
  <2>1. CASE b # a
    <3>1. phase[b] \in {"checked", "written"} /\ read[b] = S
      BY <1>2, <2>1
    <3>2. Kind(b) = "invoice"
      BY <3>1, SentIsStable DEF Envelope
    <3> QED
      BY <3>1, <3>2, RowsStayGood
  <2>2. CASE b = a
    <3>1. S = Chargeable(a)
      BY <2>2 DEF TypeOK
    <3>2. \A f \in S : phase[f] # "new"
      BY <3>1, LedgerIsStable DEF Chargeable
    <3>3. Total(S)' = Total(S) /\ Total(S) <= MaxInt64
      BY <3>1, <3>2, TotalIsStable DEF Envelope, AddsUp
    <3>4. Chargeable(a) \subseteq Chargeable(a)'
      BY <1>1, LedgerIsStable
    <3> QED
      BY <2>2, <3>1, <3>3, <3>4
  <2> QED
    BY <2>1, <2>2
<1>4. InvoicesAdd'
  <2> SUFFICES ASSUME NEW b \in Attempts, NEW S \in SUBSET Attempts,
                      invoices'[b] # None, invoices'[b].lines = S
               PROVE  Kind(b)' = "invoice" /\ (S \subseteq Chargeable(b))'
                        /\ invoices'[b].subtotal = Total(S)'
    BY Zenon DEF InvoicesAdd
  <2> QED
    BY RowsStayGood
<1>5. PeriodsHeld'
  <2> SUFFICES ASSUME NEW x \in Attempts, NEW y \in Attempts, (y \in SamePeriod(x))'
               PROVE  /\ phase'[x] = "written" /\ Kind(x)' = "invoice" =>
                           invoices'[y] = None /\ (phase'[y] = "written" => y = x)
                      /\ invoices'[x] # None /\ invoices'[y] # None => y = x
    BY Zenon DEF PeriodsHeld
  <2>1. \A z \in Attempts : phase'[z] = "written" => phase[z] = "written"
    BY DEF TypeOK
  <2>2. \A z \in Attempts : phase'[z] # "new" => phase[z] # "new"
    BY <1>1, <1>2
  <2>3. ASSUME phase[x] # "new"
        PROVE  y \in SamePeriod(x) /\ Kind(x)' = Kind(x)
    <3>1. phase'[y] # "new"
      BY DEF SamePeriod
    <3> QED
      BY <2>2, <2>3, <3>1, PeriodIsStable, SentIsStable DEF Envelope
  <2>4. invoices[x] # None => phase[x] # "new"
    BY InvoicesAreDone
  <2> QED
    BY <2>1, <2>3, <2>4 DEF Invoicing, PeriodsHeld
<1> QED
  BY <1>3, <1>4, <1>5 DEF Invoicing

\* An invoice that is inserted: no other of its period is.
LEMMA InsertInvoiceKeepsInvoices ==
    ASSUME TypeOK, Envelope, Invoicing, [Next]_vars, NEW a \in Attempts, InsertInvoice(a),
           ~Taken(a), phase' = [phase EXCEPT ![a] = "written"],
           UNCHANGED <<read, invoices>>
    PROVE  Invoicing'
<1>1. /\ phase[a] = "checked" /\ Kind(a) = "invoice"
      /\ \A b \in SamePeriod(a) : phase[b] # "written" /\ invoices[b] = None
  BY DEF InsertInvoice, Taken
<1>2. phase'[a] = "written" /\ \A b \in Attempts : b # a => phase'[b] = phase[b]
  BY DEF TypeOK
<1>3. ReadsMatch'
  <2> SUFFICES ASSUME NEW b \in Attempts, NEW S \in SUBSET Attempts,
                      phase'[b] \in {"checked", "written"}, Kind(b)' = "invoice", read'[b] = S
               PROVE  (S \subseteq Chargeable(b))' /\ (Total(S) <= MaxInt64)'
    BY Zenon DEF ReadsMatch
  <2>1. phase[b] \in {"checked", "written"} /\ read[b] = S
    BY <1>1, <1>2
  <2>2. Kind(b) = "invoice"
    BY <2>1, SentIsStable DEF Envelope
  <2> QED
    BY <2>1, <2>2, RowsStayGood
<1>4. InvoicesAdd'
  <2> SUFFICES ASSUME NEW b \in Attempts, NEW S \in SUBSET Attempts,
                      invoices'[b] # None, invoices'[b].lines = S
               PROVE  Kind(b)' = "invoice" /\ (S \subseteq Chargeable(b))'
                        /\ invoices'[b].subtotal = Total(S)'
    BY Zenon DEF InvoicesAdd
  <2> QED
    BY RowsStayGood
<1>5. PeriodsHeld'
  <2> SUFFICES ASSUME NEW x \in Attempts, NEW y \in Attempts, (y \in SamePeriod(x))'
               PROVE  /\ phase'[x] = "written" /\ Kind(x)' = "invoice" =>
                           invoices'[y] = None /\ (phase'[y] = "written" => y = x)
                      /\ invoices'[x] # None /\ invoices'[y] # None => y = x
    BY Zenon DEF PeriodsHeld
  <2>1. \A z \in Attempts : phase'[z] # "new" => phase[z] # "new"
    BY <1>1, <1>2
  <2>2. phase'[y] # "new"
    BY DEF SamePeriod
  <2>3. ASSUME phase[x] # "new", Kind(x) = "invoice"
        PROVE  x \in SamePeriod(y)
    <3>1. y \in SamePeriod(x)
      BY <2>1, <2>2, <2>3, PeriodIsStable
    <3> QED
      BY <2>3, <3>1 DEF SamePeriod
  <2>4. phase[x] # "new" => Kind(x)' = Kind(x) /\ y \in SamePeriod(x)
    BY <2>1, <2>2, PeriodIsStable, SentIsStable DEF Envelope
  <2>5. ASSUME phase'[x] = "written", Kind(x)' = "invoice"
        PROVE  invoices'[y] = None /\ (phase'[y] = "written" => y = x)
    <3>1. phase[x] # "new" /\ Kind(x) = "invoice"
      BY <2>1, <2>4, <2>5
    <3>2. CASE x = a
      BY <1>1, <1>2, <2>4, <3>1, <3>2
    <3>3. CASE x # a
      <4>1. phase[x] = "written"
        BY <1>2, <2>5, <3>3
      <4>2. invoices[y] = None /\ (phase[y] = "written" => y = x)
        BY <2>4, <3>1, <4>1 DEF Invoicing, PeriodsHeld
      <4>3. y # a
        BY <1>1, <2>3, <3>1, <4>1
      <4> QED
        BY <1>2, <4>2, <4>3
    <3> QED
      BY <3>2, <3>3
  <2>6. invoices[x] # None => phase[x] # "new"
    BY InvoicesAreDone
  <2>7. invoices[x] # None /\ invoices[y] # None => y = x
    BY <2>4, <2>6 DEF Invoicing, PeriodsHeld
  <2> QED
    BY <2>5, <2>7
<1> QED
  BY <1>3, <1>4, <1>5 DEF Invoicing

\* An invoice that is committed: its rows are what it listed.
LEMMA CommitKeepsInvoices ==
    ASSUME TypeOK, Envelope, Invoicing, [Next]_vars, NEW a \in Attempts, Commit(a),
           Kind(a) = "invoice"
    PROVE  Invoicing'
<1>1. PICK R \in SUBSET Attempts : R = read[a]
  BY DEF TypeOK
<1>2. /\ phase[a] = "written" /\ phase' = [phase EXCEPT ![a] = "done"]
      /\ read' = [read EXCEPT ![a] = {}]
      /\ invoices' = [invoices EXCEPT ![a] = [lines |-> R, subtotal |-> Total(R)]]
  BY <1>1 DEF Commit, Ends, Goes
<1>3. /\ phase'[a] = "done"
      /\ invoices'[a] = [lines |-> R, subtotal |-> Total(R)]
      /\ \A b \in Attempts : b # a => /\ phase'[b] = phase[b] /\ read'[b] = read[b]
                                      /\ invoices'[b] = invoices[b]
  BY <1>2 DEF TypeOK
<1>4. R \subseteq Chargeable(a) /\ (R \subseteq Chargeable(a))' /\ Total(R)' = Total(R)
  <2>1. R \subseteq Chargeable(a)
    BY <1>1, <1>2 DEF Invoicing, ReadsMatch
  <2>2. \A f \in R : phase[f] # "new"
    BY <2>1, LedgerIsStable DEF Chargeable
  <2>3. Chargeable(a) \subseteq Chargeable(a)'
    BY <1>2, LedgerIsStable
  <2> QED
    BY <2>1, <2>2, <2>3, TotalIsStable DEF Envelope
<1>5. ReadsMatch'
  <2> SUFFICES ASSUME NEW b \in Attempts, NEW S \in SUBSET Attempts,
                      phase'[b] \in {"checked", "written"}, Kind(b)' = "invoice", read'[b] = S
               PROVE  (S \subseteq Chargeable(b))' /\ (Total(S) <= MaxInt64)'
    BY Zenon DEF ReadsMatch
  <2>1. phase[b] \in {"checked", "written"} /\ read[b] = S
    BY <1>3
  <2>2. Kind(b) = "invoice"
    BY <2>1, SentIsStable DEF Envelope
  <2> QED
    BY <2>1, <2>2, RowsStayGood
<1>6. InvoicesAdd'
  <2> SUFFICES ASSUME NEW b \in Attempts, NEW S \in SUBSET Attempts,
                      invoices'[b] # None, invoices'[b].lines = S
               PROVE  Kind(b)' = "invoice" /\ (S \subseteq Chargeable(b))'
                        /\ invoices'[b].subtotal = Total(S)'
    BY Zenon DEF InvoicesAdd
  <2>1. CASE b = a
    <3>1. Kind(a)' = "invoice"
      BY <1>2, SentIsStable DEF Envelope
    <3> QED
      BY <1>3, <1>4, <2>1, <3>1
  <2>2. CASE b # a
    BY <1>3, <2>2, RowsStayGood
  <2> QED
    BY <2>1, <2>2
<1>7. PeriodsHeld'
  <2> SUFFICES ASSUME NEW x \in Attempts, NEW y \in Attempts, (y \in SamePeriod(x))'
               PROVE  /\ phase'[x] = "written" /\ Kind(x)' = "invoice" =>
                           invoices'[y] = None /\ (phase'[y] = "written" => y = x)
                      /\ invoices'[x] # None /\ invoices'[y] # None => y = x
    BY Zenon DEF PeriodsHeld
  <2>1. \A z \in Attempts : phase'[z] # "new" => phase[z] # "new"
    BY <1>2, <1>3
  <2>2. phase'[y] # "new"
    BY DEF SamePeriod
  <2>3. phase[x] # "new" => Kind(x)' = Kind(x) /\ y \in SamePeriod(x)
    BY <2>1, <2>2, PeriodIsStable, SentIsStable DEF Envelope
  <2>4. y \in SamePeriod(x) /\ Kind(x) = "invoice" /\ phase[x] # "new" => x \in SamePeriod(y)
    BY DEF SamePeriod
  <2>5. ASSUME phase'[x] = "written", Kind(x)' = "invoice"
        PROVE  invoices'[y] = None /\ (phase'[y] = "written" => y = x)
    <3>1. x # a /\ phase[x] = "written"
      BY <1>3, <2>5
    <3>2. y \in SamePeriod(x) /\ Kind(x) = "invoice" /\ x \in SamePeriod(y)
      BY <2>3, <2>4, <2>5, <3>1
    <3>3. invoices[y] = None /\ (phase[y] = "written" => y = x)
      BY <3>1, <3>2 DEF Invoicing, PeriodsHeld
    <3>4. y # a
      BY <1>2, <3>1, <3>3
    <3> QED
      BY <1>3, <3>3, <3>4
  <2>6. ASSUME invoices'[x] # None, invoices'[y] # None PROVE y = x
    <3>1. phase[x] # "new"
      BY <1>2, <1>3, <2>6, InvoicesAreDone
    <3>2. CASE x = a
      <4>1. y \in SamePeriod(a) => invoices[y] = None
        BY <1>2 DEF Invoicing, PeriodsHeld
      <4> QED
        BY <1>3, <2>3, <2>6, <3>1, <3>2, <4>1
    <3>3. CASE y = a /\ x # a
      <4>1. invoices[x] # None
        BY <1>3, <2>6, <3>3
      <4>2. Kind(x) = "invoice"
        <5>1. invoices[x] \in InvoiceRow
          BY <4>1 DEF TypeOK
        <5>2. invoices[x].lines \in SUBSET Attempts
          BY <5>1 DEF InvoiceRow
        <5> QED
          BY <4>1, <5>2 DEF Invoicing, InvoicesAdd
      <4>3. x \in SamePeriod(a)
        BY <2>3, <2>4, <3>1, <3>3, <4>2
      <4> QED
        BY <1>2, <4>1, <4>3 DEF Invoicing, PeriodsHeld
    <3>4. CASE x # a /\ y # a
      BY <1>3, <2>3, <2>6, <3>1, <3>4 DEF Invoicing, PeriodsHeld
    <3> QED
      BY <3>2, <3>3, <3>4
  <2> QED
    BY <2>5, <2>6
<1> QED
  BY <1>5, <1>6, <1>7 DEF Invoicing

LEMMA InvoicingKept ==
    ASSUME TypeOK, Envelope, Invoicing, [Next]_vars
    PROVE  Invoicing'
<1>1. CASE UNCHANGED vars
  <2>1. UNCHANGED <<request, phase, read, ledger, invoices>>
    BY <1>1 DEF vars
  <2>2. \A a : Body(a)' = Body(a) /\ Kind(a)' = Kind(a) /\ Amount(a)' = Amount(a)
    BY <2>1 DEF Body, Kind, Amount
  <2>3. \A a : Chargeable(a)' = Chargeable(a) /\ SamePeriod(a)' = SamePeriod(a)
    BY <2>1, <2>2 DEF Chargeable, SamePeriod
  <2>4. \A S : Total(S)' = Total(S)
    BY <2>2 DEF Total, Units
  <2>5. ReadsMatch'
    BY <2>1, <2>2, <2>3, <2>4 DEF Invoicing, ReadsMatch
  <2>6. InvoicesAdd'
    BY <2>1, <2>2, <2>3, <2>4 DEF Invoicing, InvoicesAdd
  <2>7. PeriodsHeld'
    BY <2>1, <2>2, <2>3 DEF Invoicing, PeriodsHeld
  <2> QED
    BY <2>5, <2>6, <2>7 DEF Invoicing
<1>2. ASSUME NEW a \in Attempts, NEW key \in Keys, NEW content \in Contents, Send(a, key, content)
      PROVE Invoicing'
  <2>1. /\ invoices' = invoices /\ phase'[a] = "sent"
        /\ \A b \in Attempts : b # a => phase'[b] = phase[b] /\ read'[b] = read[b]
    BY <1>2 DEF Send, tables, TypeOK
  <2> QED
    BY <2>1, QuietStepKeepsInvoices
<1>3. ASSUME NEW a \in Attempts, NEW r, EndsWithout(a, r)
      PROVE Invoicing'
  <2>1. /\ invoices' = invoices /\ phase'[a] = "done"
        /\ \A b \in Attempts : b # a => phase'[b] = phase[b] /\ read'[b] = read[b]
    BY <1>3 DEF EndsWithout, Ends, Goes, tables, TypeOK
  <2> QED
    BY <2>1, QuietStepKeepsInvoices
<1>4. ASSUME NEW a \in Attempts, Admit(a) PROVE Invoicing'
  <2>1. /\ invoices' = invoices /\ phase'[a] = "admitted"
        /\ \A b \in Attempts : b # a => phase'[b] = phase[b] /\ read'[b] = read[b]
    BY <1>4 DEF Admit, Goes, tables, TypeOK
  <2> QED
    BY <2>1, QuietStepKeepsInvoices
<1>5. ASSUME NEW a \in Attempts,
             WithoutBudget(a) \/ WithinBudget(a) \/ InsertCredit(a) \/ UpsertBudget(a)
      PROVE Invoicing'
  <2>1. /\ invoices' = invoices /\ phase[a] # "new" /\ Kind(a) # "invoice"
        /\ \A b \in Attempts : b # a => phase'[b] = phase[b] /\ read'[b] = read[b]
    BY <1>5 DEF WithoutBudget, WithinBudget, ReadsBudget, InsertCredit, UpsertBudget, Goes, tables,
                TypeOK
  <2> QED
    BY <2>1, QuietStepKeepsInvoices
<1>6. ASSUME NEW a \in Attempts, SumUsage(a) PROVE Invoicing'
  <2>1. CASE Covers(a)
    <3>1. /\ invoices' = invoices /\ phase[a] # "new" /\ Kind(a) # "invoice"
          /\ \A b \in Attempts : b # a => phase'[b] = phase[b] /\ read'[b] = read[b]
      BY <1>6, <2>1 DEF SumUsage, Goes, tables, TypeOK
    <3> QED
      BY <3>1, QuietStepKeepsInvoices
  <2>2. CASE ~Covers(a)
    BY <1>3, <1>6, <2>2 DEF SumUsage
  <2> QED
    BY <2>1, <2>2
<1>7. ASSUME NEW a \in Attempts, ListUsage(a) PROVE Invoicing'
  <2>1. CASE AddsUp(Chargeable(a))
    <3>1. /\ phase' = [phase EXCEPT ![a] = "checked"]
          /\ read' = [read EXCEPT ![a] = Chargeable(a)]
          /\ invoices' = invoices /\ ledger' = ledger
      BY <1>7, <2>1 DEF ListUsage, Chargeable, Goes, tables
    <3> QED
      BY <1>7, <2>1, <3>1, ListUsageKeepsInvoices
  <2>2. CASE ~AddsUp(Chargeable(a))
    <3>1. EndsWithout(a, Refused)
      BY <1>7, <2>2 DEF ListUsage, Chargeable
    <3> QED
      BY <1>3, <3>1
  <2> QED
    BY <2>1, <2>2
<1>8. ASSUME NEW a \in Attempts, InsertInvoice(a) PROVE Invoicing'
  <2>1. CASE Taken(a)
    BY <1>3, <1>8, <2>1 DEF InsertInvoice
  <2>2. CASE ~Taken(a)
    <3>1. phase' = [phase EXCEPT ![a] = "written"] /\ UNCHANGED <<read, invoices>>
      BY <1>8, <2>2 DEF InsertInvoice, Goes, tables
    <3> QED
      BY <1>8, <2>2, <3>1, InsertInvoiceKeepsInvoices
  <2> QED
    BY <2>1, <2>2
<1>9. ASSUME NEW a \in Attempts, Commit(a) PROVE Invoicing'
  <2>1. CASE Kind(a) = "invoice"
    BY <1>9, <2>1, CommitKeepsInvoices
  <2>2. CASE Kind(a) # "invoice"
    <3>1. /\ invoices' = invoices /\ phase'[a] = "done"
          /\ \A b \in Attempts : b # a => phase'[b] = phase[b] /\ read'[b] = read[b]
      BY <1>9, <2>2 DEF Commit, Ends, Goes, TypeOK
    <3> QED
      BY <3>1, QuietStepKeepsInvoices
  <2> QED
    BY <2>1, <2>2
<1>10. ASSUME NEW a \in Attempts, Step(a) \/ Abort(a) PROVE Invoicing'
  <2>1. CASE RefuseUnrated(a) \/ Replay(a) \/ Conflict(a) \/ BeyondBudget(a) \/ Abort(a)
    BY <1>3, <2>1 DEF RefuseUnrated, Replay, Conflict, BeyondBudget, Abort
  <2> QED
    BY <1>4, <1>5, <1>6, <1>7, <1>8, <1>9, <1>10, <2>1 DEF Step
<1> QED
  BY <1>1, <1>2, <1>10 DEF Next

-----------------------------------------------------------------------------
(* Theorems: types and invoices *)

\* What holds of every reachable state.
Kept == TypeOK /\ Envelope /\ Invoicing

LEMMA KeptInitially == Init => Kept
<1> SUFFICES ASSUME Init PROVE Kept
  OBVIOUS
<1>1. \A a \in Attempts : phase[a] = "new" /\ request[a] = None /\ answer[a] = None
                          /\ invoices[a] = None /\ read[a] = {}
  BY DEF Init
<1>2. TypeOK
  BY DEF Init, TypeOK
<1>3. Effects = {}
  BY <1>1 DEF Init, Effects
<1>4. Envelope
  BY <1>1, <1>3 DEF Init, Envelope, Lifecycle, KeysHeld, RecordsTrue, EffectsRecorded, Open
<1>5. Invoicing
  BY <1>1 DEF Invoicing, ReadsMatch, InvoicesAdd, PeriodsHeld
<1> QED
  BY <1>2, <1>4, <1>5 DEF Kept

THEOREM KeptAlways == Spec => []Kept
<1>1. Init => Kept
  BY KeptInitially
<1>2. Kept /\ [Next]_vars => Kept'
  BY TypeKept, EnvelopeKept, InvoicingKept DEF Kept, Envelope, Invoicing
<1> QED
  BY <1>1, <1>2, PTL DEF Spec

\* Every variable keeps its type.
THEOREM TypeCorrect == Spec => []TypeOK
<1>1. Kept => TypeOK
  BY DEF Kept
<1> QED
  BY <1>1, KeptAlways, PTL

\* However usage is recorded while invoices are made, an invoice charges debits
\* of its period that are in the ledger, adds them up within an int64, and is its
\* period's only one.
THEOREM InvoicesCorrect == Spec => []InvoicesMatchLedger
<1>1. ASSUME Kept PROVE InvoicesMatchLedger
  <2> SUFFICES ASSUME NEW a \in Attempts, invoices[a] # None
               PROVE  /\ invoices[a].lines \subseteq Chargeable(a)
                      /\ invoices[a].subtotal = Total(invoices[a].lines)
                      /\ invoices[a].subtotal <= MaxInt64
                      /\ \A b \in SamePeriod(a) : invoices[b] # None => b = a
    BY Zenon DEF InvoicesMatchLedger, Chargeable
  <2>1. invoices[a].lines \in SUBSET Attempts /\ invoices[a].subtotal \in 0..MaxInt64
    BY <1>1 DEF Kept, TypeOK, InvoiceRow
  <2>2. invoices[a].lines \subseteq Chargeable(a) /\ invoices[a].subtotal = Total(invoices[a].lines)
    BY <1>1, <2>1 DEF Kept, Invoicing, InvoicesAdd
  <2>3. ASSUME NEW b \in SamePeriod(a), invoices[b] # None PROVE b = a
    BY <1>1, <2>3 DEF Kept, Invoicing, PeriodsHeld, SamePeriod
  <2> QED
    BY <2>1, <2>2, <2>3, LedgerAssumption
<1> QED
  BY <1>1, KeptAlways, PTL

-----------------------------------------------------------------------------
(* Ledger implements Acceptance *)

\* What Acceptance sees of a request.
Asked(a) == IF request[a] = None THEN None ELSE [scope |-> Scope(a), content |-> Body(a)]

AllAsked == [a \in Attempts |-> Asked(a)]

\* A sent request is seen, with its scope and its body.
LEMMA AskedSays ==
    ASSUME TypeOK, NEW a \in Attempts, request[a] # None
    PROVE  /\ AllAsked[a] = [scope |-> Scope(a), content |-> Body(a)]
           /\ AllAsked[a] # None
<1>1. Scope(a) \in Kinds \X Keys /\ Body(a) \in Contents
  BY RequestType
<1>2. [scope |-> Scope(a), content |-> Body(a)] # None
  BY <1>1, RowAssumption
<1> QED
  BY <1>2 DEF AllAsked, Asked

\* A request in the works waits for its answer.
LEMMA WaitingForAnswer ==
    ASSUME TypeOK, Envelope, NEW a \in Attempts, phase[a] \in Open \cup {"sent"}
    PROVE  request[a] # None /\ AllAsked[a] # None /\ answer[a] = None /\ Promise!Waiting(a)
<1>1. phase[a] # "new" /\ phase[a] # "done"
  BY DEF Open
<1>2. request[a] # None /\ answer[a] = None
  BY <1>1 DEF Envelope, Lifecycle
<1>3. AllAsked[a] # None
  BY <1>2, AskedSays
<1> QED
  BY <1>2, <1>3 DEF Promise!Waiting, AllAsked, Asked

\* A record is the effect of a request of that scope and that body.
LEMMA RecordIsEffect ==
    ASSUME TypeOK, Envelope, NEW s \in Kinds \X Keys, records[s] # None
    PROVE  /\ records[s].resource \in Effects
           /\ AllAsked[records[s].resource] = [scope |-> s, content |-> records[s].content]
<1>1. records[s] \in RecordRow
  BY DEF TypeOK
<1>2. PICK b \in Attempts : records[s].resource = b
  BY <1>1 DEF RecordRow
<1>3. b \in Effects /\ Scope(b) = s /\ Body(b) = records[s].content
  BY <1>2 DEF Envelope, RecordsTrue
<1>4. request[b] # None
  BY <1>3 DEF Envelope, EffectsRecorded, Lifecycle
<1>5. AllAsked[b] = [scope |-> Scope(b), content |-> Body(b)]
  BY <1>4, AskedSays
<1> QED
  BY <1>2, <1>3, <1>5

LEMMA PromiseInit == Init => Promise!Init
<1> SUFFICES ASSUME Init PROVE Promise!Init
  OBVIOUS
<1>1. Effects = {}
  BY DEF Init, Effects
<1> QED
  BY <1>1 DEF Init, Promise!Init, Effects

\* A step that commits nothing answers, or shows nothing.
LEMMA QuietStepKeepsPromise ==
    ASSUME TypeOK, Envelope, NEW a \in Attempts, UNCHANGED <<request, operations, ledger, invoices>>,
           \/ answer' = answer
           \/ /\ Promise!Waiting(a)
              /\ \/ \E r \in {Refused, Failed} : answer' = [answer EXCEPT ![a] = r]
                 \/ \E b \in Effects : AllAsked[b] = AllAsked[a]
                                       /\ answer' = [answer EXCEPT ![a] = b]
                 \/ \E b \in Effects : /\ AllAsked[b].scope = AllAsked[a].scope
                                       /\ AllAsked[b].content # AllAsked[a].content
                                       /\ answer' = [answer EXCEPT ![a] = Conflicting]
    PROVE  [Promise!Next]_(Promise!vars)
<1>1. AllAsked' = AllAsked
  BY DEF AllAsked, Asked, Scope, Kind, Body
<1>2. Effects' = Effects
  BY DEF Effects
<1>3. CASE answer' = answer
  BY <1>1, <1>2, <1>3 DEF Promise!vars, AllAsked, Asked, Effects
<1>4. CASE Promise!Waiting(a) /\ \E r \in {Refused, Failed} : answer' = [answer EXCEPT ![a] = r]
  <2>1. Promise!Refuse(a)
    BY <1>1, <1>2, <1>4 DEF Promise!Refuse, Promise!Answers, AllAsked, Asked, Effects
  <2> QED
    BY <2>1 DEF Promise!Next, Promise!Respond
<1>5. CASE /\ Promise!Waiting(a)
           /\ \E b \in Effects : AllAsked[b] = AllAsked[a] /\ answer' = [answer EXCEPT ![a] = b]
  <2>1. Promise!Replay(a)
    BY <1>1, <1>2, <1>5 DEF Promise!Replay, Promise!Answers, AllAsked, Asked, Effects
  <2> QED
    BY <2>1 DEF Promise!Next, Promise!Respond
<1>6. CASE /\ Promise!Waiting(a)
           /\ \E b \in Effects : /\ AllAsked[b].scope = AllAsked[a].scope
                                 /\ AllAsked[b].content # AllAsked[a].content
                                 /\ answer' = [answer EXCEPT ![a] = Conflicting]
  <2>1. Promise!Conflict(a)
    BY <1>1, <1>2, <1>6 DEF Promise!Conflict, Promise!Answers, AllAsked, Asked, Effects
  <2> QED
    BY <2>1 DEF Promise!Next, Promise!Respond
<1> QED
  BY <1>3, <1>4, <1>5, <1>6

\* A request that arrives is the abstract one that arrives.
LEMMA SendKeepsPromise ==
    ASSUME TypeOK, Envelope, NEW a \in Attempts, NEW key \in Keys, NEW content \in Contents,
           Send(a, key, content)
    PROVE  Promise!Next
<1> DEFINE s == <<content.kind, key>>
<1>1. /\ phase[a] = "new" /\ request[a] = None
      /\ request' = [request EXCEPT ![a] = [key |-> key, content |-> content]]
      /\ UNCHANGED <<answer, operations, ledger, invoices>>
  BY DEF Send, tables, Envelope, Lifecycle
<1>2. s \in Kinds \X Keys
  BY ContentType
<1>3. [key |-> key, content |-> content] # None
  BY RowAssumption DEF Request
<1>4. Effects' = Effects
  BY <1>1 DEF Effects
<1>5. AllAsked[a] = None
  BY <1>1 DEF AllAsked, Asked
<1>6. AllAsked' = [AllAsked EXCEPT ![a] = [scope |-> s, content |-> content]]
  <2>1. request'[a] = [key |-> key, content |-> content]
        /\ \A b \in Attempts : b # a => request'[b] = request[b]
    BY <1>1 DEF TypeOK
  <2>2. Asked(a)' = [scope |-> s, content |-> content]
    BY <1>3, <2>1 DEF Asked, Scope, Kind, Body
  <2>3. \A b \in Attempts : b # a => Asked(b)' = Asked(b)
    BY <2>1 DEF Asked, Scope, Kind, Body
  <2> QED
    BY <2>2, <2>3 DEF AllAsked
<1>7. Promise!Send(a, s, content)
  BY <1>1, <1>4, <1>5, <1>6 DEF Promise!Send, AllAsked, Asked, Effects
<1> QED
  BY <1>2, <1>7 DEF Promise!Next

\* A commit is the abstract effect.
LEMMA CommitKeepsPromise ==
    ASSUME TypeOK, Envelope, NEW a \in Attempts, Commit(a)
    PROVE  Promise!Next
<1>1. /\ phase[a] = "written" /\ phase[a] \in Open /\ request' = request
      /\ operations' = operations \cup {a}
      /\ \/ answer' = [answer EXCEPT ![a] = a]
         \/ answer' = [answer EXCEPT ![a] = Failed]
  BY DEF Commit, Ends, Open
<1>2. AllAsked' = AllAsked
  BY <1>1 DEF AllAsked, Asked, Scope, Kind, Body
<1>3. Effects' = Effects \cup {a}
  <2>1. ledger \subseteq ledger' /\ ledger' \subseteq ledger \cup {a}
    BY DEF Commit
  <2>2. ASSUME NEW b \in Attempts, b # a PROVE invoices'[b] = invoices[b]
    BY <2>2 DEF Commit, TypeOK
  <2> QED
    BY <1>1, <2>1, <2>2 DEF Effects
<1>4. Promise!Waiting(a)
  BY <1>1, WaitingForAnswer
<1>5. ASSUME NEW b \in Effects PROVE AllAsked[b].scope # AllAsked[a].scope
  <2>1. b \in Attempts /\ request[b] # None /\ Scope(b) # Scope(a)
    BY <1>1 DEF Effects, Envelope, EffectsRecorded, KeysHeld, Lifecycle
  <2>2. AllAsked[b] = [scope |-> Scope(b), content |-> Body(b)]
    BY <2>1, AskedSays
  <2>3. AllAsked[a] = [scope |-> Scope(a), content |-> Body(a)]
    BY <1>1, WaitingForAnswer, AskedSays
  <2> QED
    BY <2>1, <2>2, <2>3
<1>6. Promise!Accept(a)
  BY <1>1, <1>2, <1>3, <1>4, <1>5 DEF Promise!Accept, Promise!Answers, AllAsked, Asked, Effects
<1> QED
  BY <1>6 DEF Promise!Next, Promise!Respond

LEMMA PromiseNext ==
    ASSUME TypeOK, Envelope, [Next]_vars
    PROVE  [Promise!Next]_(Promise!vars)
<1>1. CASE UNCHANGED vars
  <2>1. AllAsked' = AllAsked /\ Effects' = Effects /\ answer' = answer
    BY <1>1 DEF vars, AllAsked, Asked, Scope, Kind, Body, Effects
  <2> QED
    BY <2>1 DEF Promise!vars, AllAsked, Asked, Effects
<1>2. ASSUME NEW a \in Attempts, NEW key \in Keys, NEW content \in Contents, Send(a, key, content)
      PROVE [Promise!Next]_(Promise!vars)
  BY <1>2, SendKeepsPromise
<1>3. ASSUME NEW a \in Attempts, Step(a) \/ Abort(a) PROVE [Promise!Next]_(Promise!vars)
  <2>1. CASE Admit(a) \/ Moves(a)
    BY <2>1, QuietStepKeepsPromise DEF Admit, Moves, tables
  <2>2. CASE Stops(a)
    <3>1. PICK r \in {Refused, Failed} : EndsWithout(a, r)
      BY <2>2 DEF Stops
    <3>2. Promise!Waiting(a)
      BY <2>2, WaitingForAnswer DEF Stops
    <3> QED
      BY <3>1, <3>2, QuietStepKeepsPromise DEF EndsWithout, Ends, tables
  <2>3. ASSUME Admissible(a), records[Scope(a)] # None
        PROVE  /\ Promise!Waiting(a)
               /\ AllAsked[a] = [scope |-> Scope(a), content |-> Body(a)]
               /\ records[Scope(a)].resource \in Effects
               /\ AllAsked[records[Scope(a)].resource]
                    = [scope |-> Scope(a), content |-> records[Scope(a)].content]
    <3>1. phase[a] \in Open \cup {"sent"}
      BY <2>3 DEF Admissible, HasKey
    <3>2. request[a] # None
      BY <3>1, WaitingForAnswer
    <3> QED
      BY <2>3, <3>1, <3>2, WaitingForAnswer, AskedSays, RecordIsEffect, RequestType
  <2>4. CASE Replay(a)
    <3>1. /\ Admissible(a) /\ records[Scope(a)] # None /\ records[Scope(a)].content = Body(a)
          /\ answer' = [answer EXCEPT ![a] = records[Scope(a)].resource]
          /\ UNCHANGED <<request, operations, ledger, invoices>>
      BY <2>4 DEF Replay, Recorded, EndsWithout, Ends, tables
    <3> QED
      BY <2>3, <3>1, QuietStepKeepsPromise
  <2>5. CASE Conflict(a)
    <3>1. /\ Admissible(a) /\ records[Scope(a)] # None /\ records[Scope(a)].content # Body(a)
          /\ answer' = [answer EXCEPT ![a] = Conflicting]
          /\ UNCHANGED <<request, operations, ledger, invoices>>
      BY <2>5 DEF Conflict, Recorded, EndsWithout, Ends, tables
    <3>2. Promise!Waiting(a)
      BY <2>3, <3>1
    <3>3. \E b \in Effects : /\ AllAsked[b].scope = AllAsked[a].scope
                            /\ AllAsked[b].content # AllAsked[a].content
      BY <2>3, <3>1
    <3> QED
      BY <3>1, <3>2, <3>3, QuietStepKeepsPromise
  <2>6. CASE Commit(a)
    BY <2>6, CommitKeepsPromise
  <2> QED
    BY <1>3, <2>1, <2>2, <2>4, <2>5, <2>6, StepShape
<1> QED
  BY <1>1, <1>2, <1>3 DEF Next

\* Whatever is repeated, in parallel, after a failure or with another body, an
\* idempotency key takes effect once, and every repetition is told of it.
THEOREM KeysTakeEffectOnce == Spec => AcceptanceKept
<1>1. Init => Promise!Init
  BY PromiseInit
<1>2. Kept /\ [Next]_vars => [Promise!Next]_(Promise!vars)
  BY PromiseNext DEF Kept
<1> QED
  BY <1>1, <1>2, KeptAlways, PTL DEF Spec, AcceptanceKept, Promise!Spec

-----------------------------------------------------------------------------
(* The budget *)

\* The debits that count against a budget, and the credits.
Debits == Entries("fact", BillingCurrency) \ unchecked

Credits == Entries("credit", BillingCurrency)

\* A fact that was found to be within the budget and is about to be committed.
Spends(a) == phase[a] = "written" /\ Kind(a) = "fact" /\ a \notin unchecked

\* Only facts that have a price are recorded.
Rating == \A a \in Attempts : phase[a] \in Open /\ Kind(a) = "fact" => Rated(Body(a)) # None

\* Who spends, and who changes the budget, has locked its row.
LockHeld ==
    \A a \in Attempts :
      Spends(a) \/ (phase[a] = "written" /\ Kind(a) = "budget") => budgetLock = a

\* What was within the budget when the fact was checked still is.
Room ==
    \A a \in Attempts, D, C \in SUBSET Attempts :
      Spends(a) /\ D = Debits /\ C = Credits =>
        budget # None /\ Total(D) + Amount(a) <= budget.limit + Total(C)

Budgeting == Rating /\ LockHeld /\ Room

\* What an open transaction would debit is a number.
LEMMA AmountType ==
    ASSUME TypeOK, Lifecycle, Rating, NEW a \in Attempts, phase[a] \in Open, Kind(a) = "fact"
    PROVE  Amount(a) \in 0..MaxInt64
<1>1. request[a] # None
  BY DEF Lifecycle, Open
<1>2. Body(a) \in Usage
  BY <1>1, RequestType, ContentType DEF Kind
<1>3. Rated(Body(a)) # None
  BY DEF Rating
<1> QED
  BY <1>2, <1>3, RatedType DEF Amount

\* What a step of a transaction may do to the ledger and the budget.
LEMMA BudgetStep ==
    ASSUME TypeOK, Envelope, NEW a \in Attempts, Step(a) \/ Abort(a)
    PROVE  /\ \A b \in Attempts : b # a => phase'[b] = phase[b]
           /\ request' = request /\ phase[a] # "new" /\ phase'[a] # "new"
           /\ phase'[a] \in Open => phase[a] \in Open \/ Admit(a)
           /\ budgetLock' = budgetLock \/ budgetLock = None \/ budgetLock = a
           /\ unchecked \subseteq unchecked'
           /\ (ledger' = ledger /\ budget' = budget) \/ Commit(a)
           /\ phase'[a] = "written" => \/ WithinBudget(a) \/ UpsertBudget(a)
                                       \/ Kind(a) \notin {"fact", "budget"}
                                       \/ (Kind(a) = "fact" /\ a \in unchecked')
<1>1. ASSUME NEW r, EndsWithout(a, r)
      PROVE  /\ phase' = [phase EXCEPT ![a] = "done"] /\ request' = request
             /\ budgetLock' = budgetLock \/ budgetLock = a
             /\ UNCHANGED <<unchecked, ledger, budget>>
  BY <1>1 DEF EndsWithout, Ends, Goes, tables
<1>2. CASE RefuseUnrated(a) \/ Replay(a) \/ Conflict(a) \/ BeyondBudget(a) \/ Abort(a)
  <2>1. (\E r : EndsWithout(a, r)) /\ phase[a] # "new"
    BY <1>2 DEF RefuseUnrated, Replay, Conflict, BeyondBudget, ReadsBudget, Abort, Admissible,
                HasKey, Open
  <2> QED
    BY <1>1, <2>1 DEF TypeOK, Open
<1>3. CASE Admit(a)
  BY <1>3 DEF Admit, Admissible, HasKey, Goes, TypeOK, tables, Open
<1>4. CASE WithoutBudget(a)
  BY <1>4 DEF WithoutBudget, ReadsBudget, Goes, TypeOK, tables, Open
<1>5. CASE WithinBudget(a)
  BY <1>5 DEF WithinBudget, ReadsBudget, LocksBudget, Goes, TypeOK, tables, Open
<1>6. CASE InsertCredit(a)
  BY <1>6 DEF InsertCredit, Goes, TypeOK, tables, Open
<1>7. CASE SumUsage(a)
  <2>1. CASE Covers(a)
    BY <1>7, <2>1 DEF SumUsage, Goes, TypeOK, tables, Open
  <2>2. CASE ~Covers(a)
    <3>1. EndsWithout(a, Refused) /\ phase[a] # "new"
      BY <1>7, <2>2 DEF SumUsage
    <3> QED
      BY <1>1, <3>1 DEF TypeOK, Open
  <2> QED
    BY <2>1, <2>2
<1>8. CASE UpsertBudget(a)
  BY <1>8 DEF UpsertBudget, Goes, TypeOK, tables, Open
<1>9. CASE ListUsage(a)
  <2>1. CASE AddsUp(Chargeable(a))
    BY <1>9, <2>1 DEF ListUsage, Chargeable, Goes, TypeOK, tables, Open
  <2>2. CASE ~AddsUp(Chargeable(a))
    <3>1. EndsWithout(a, Refused) /\ phase[a] # "new"
      BY <1>9, <2>2 DEF ListUsage, Chargeable
    <3> QED
      BY <1>1, <3>1 DEF TypeOK, Open
  <2> QED
    BY <2>1, <2>2
<1>10. CASE InsertInvoice(a)
  <2>1. CASE Taken(a)
    <3>1. EndsWithout(a, Refused) /\ phase[a] # "new"
      BY <1>10, <2>1 DEF InsertInvoice
    <3> QED
      BY <1>1, <3>1 DEF TypeOK, Open
  <2>2. CASE ~Taken(a)
    BY <1>10, <2>2 DEF InsertInvoice, Goes, TypeOK, tables, Open
  <2> QED
    BY <2>1, <2>2
<1>11. CASE Commit(a)
  BY <1>11 DEF Commit, Ends, Goes, TypeOK, Open
<1> QED
  BY <1>2, <1>3, <1>4, <1>5, <1>6, <1>7, <1>8, <1>9, <1>10, <1>11 DEF Step

\* Entries stay entries, and new ones were requested.
LEMMA EntriesStay ==
    ASSUME TypeOK, Envelope, [Next]_vars
    PROVE  /\ \A f \in ledger' : f \in Attempts /\ phase[f] # "new"
           /\ Credits \subseteq Credits' /\ Credits' \subseteq ledger' /\ Debits' \subseteq ledger'
           /\ unchecked \subseteq unchecked' =>
                Debits' \subseteq Debits \cup ((ledger' \ ledger) \ unchecked')
<1>1. \A f \in ledger' : f \in ledger \/ (f \in Attempts /\ Commit(f))
  <2>1. CASE UNCHANGED vars
    BY <2>1 DEF vars
  <2>2. ASSUME NEW a \in Attempts, NEW key \in Keys, NEW content \in Contents, Send(a, key, content)
        PROVE ledger' = ledger
    BY <2>2 DEF Send, tables
  <2>3. ASSUME NEW a \in Attempts, Step(a) \/ Abort(a)
        PROVE ledger' \subseteq ledger \/ (Commit(a) /\ ledger' \subseteq ledger \cup {a})
    BY <2>3, BudgetStep DEF Commit
  <2> QED
    BY <2>1, <2>2, <2>3 DEF Next
<1>2. \A f \in ledger' : f \in Attempts /\ phase[f] # "new"
  BY <1>1, LedgerIsStable DEF Commit
<1>3. \A f \in ledger' : Kind(f)' = Kind(f) /\ Currency(f)' = Currency(f)
  BY <1>2, SentIsStable DEF Envelope
<1>4. Credits \subseteq Credits'
  BY <1>3, LedgerIsStable DEF Credits, Entries
<1>5. Credits' \subseteq ledger' /\ Debits' \subseteq ledger'
  BY DEF Credits, Debits, Entries
<1>6. unchecked \subseteq unchecked' => Debits' \subseteq Debits \cup ((ledger' \ ledger) \ unchecked')
  BY <1>3 DEF Debits, Entries
<1> QED
  BY <1>2, <1>4, <1>5, <1>6

\* Room stays while no debit is added and the budget is not changed.
LEMMA RoomStays ==
    ASSUME TypeOK, Envelope, [Next]_vars, NEW a \in Attempts, phase[a] # "new",
           Amount(a) \in 0..MaxInt64, budget # None,
           NEW D \in SUBSET Attempts, NEW C \in SUBSET Attempts,
           NEW E \in SUBSET Attempts, NEW F \in SUBSET Attempts,
           D = Debits, C = Credits, E = Debits', F = Credits', E \subseteq D,
           Total(D) + Amount(a) <= budget.limit + Total(C)
    PROVE  Total(E)' + Amount(a)' <= budget.limit + Total(F)'
<1>1. (\A f \in E : phase[f] # "new") /\ (\A f \in F : phase[f] # "new") /\ C \subseteq F
  BY EntriesStay
<1>2. Total(E)' = Total(E) /\ Total(F)' = Total(F) /\ Amount(a)' = Amount(a)
  BY <1>1, TotalIsStable, SentIsStable DEF Envelope
<1>3. Total(E) <= Total(D) /\ Total(C) <= Total(F)
  BY <1>1, TotalGrows
<1>4. /\ Total(C) \in Nat /\ Total(D) \in Nat /\ Total(E) \in Nat /\ Total(F) \in Nat
      /\ Amount(a) \in Nat /\ budget.limit \in Nat
  BY TotalType, LedgerAssumption DEF TypeOK, BudgetRow
<1> QED
  BY <1>2, <1>3, <1>4

LEMMA RatingKept ==
    ASSUME TypeOK, Envelope, Budgeting, [Next]_vars
    PROVE  Rating'
<1> SUFFICES ASSUME NEW b \in Attempts, phase'[b] \in Open, Kind(b)' = "fact"
             PROVE  Rated(Body(b)') # None
  BY Zenon DEF Rating
<1>1. ASSUME phase[b] \in Open PROVE Rated(Body(b)') # None
  <2>1. Kind(b) = "fact" /\ Body(b)' = Body(b)
    BY <1>1, SentIsStable DEF Envelope, Open
  <2> QED
    BY <1>1, <2>1 DEF Budgeting, Rating
<1>2. CASE UNCHANGED vars
  BY <1>1, <1>2 DEF vars
<1>3. ASSUME NEW a \in Attempts, NEW key \in Keys, NEW content \in Contents, Send(a, key, content)
      PROVE Rated(Body(b)') # None
  <2>1. phase[b] = phase'[b] \/ phase'[b] = "sent"
    BY <1>3 DEF Send, TypeOK
  <2> QED
    BY <1>1, <2>1 DEF Open
<1>4. ASSUME NEW a \in Attempts, Step(a) \/ Abort(a) PROVE Rated(Body(b)') # None
  <2>1. phase[b] \in Open \/ Admit(b)
    BY <1>4, BudgetStep
  <2>2. CASE Admit(b)
    <3>1. Kind(b) = "fact" /\ Body(b)' = Body(b)
      BY <2>2, SentIsStable DEF Envelope, Admit, Admissible, HasKey
    <3> QED
      BY <2>2, <3>1 DEF Admit, Admissible
  <2> QED
    BY <1>1, <2>1, <2>2
<1> QED
  BY <1>2, <1>3, <1>4 DEF Next

LEMMA LockHeldKept ==
    ASSUME TypeOK, Envelope, Budgeting, [Next]_vars
    PROVE  LockHeld'
<1> SUFFICES ASSUME NEW x \in Attempts,
                    phase'[x] = "written",
                    (Kind(x)' = "fact" /\ x \notin unchecked') \/ Kind(x)' = "budget"
             PROVE  budgetLock' = x
  BY Zenon DEF LockHeld, Spends
<1>1. ASSUME phase[x] = "written", unchecked \subseteq unchecked' PROVE budgetLock = x
  <2>1. Kind(x)' = Kind(x)
    BY <1>1, SentIsStable DEF Envelope
  <2> QED
    BY <1>1, <2>1 DEF Budgeting, LockHeld, Spends
<1>2. CASE UNCHANGED vars
  BY <1>1, <1>2 DEF vars
<1>3. ASSUME NEW a \in Attempts, NEW key \in Keys, NEW content \in Contents, Send(a, key, content)
      PROVE budgetLock' = x
  <2>1. phase[x] = "written" /\ UNCHANGED <<budgetLock, unchecked>>
    BY <1>3 DEF Send, TypeOK
  <2> QED
    BY <1>1, <2>1
<1>4. ASSUME NEW a \in Attempts, Step(a) \/ Abort(a) PROVE budgetLock' = x
  <2>1. CASE x # a
    <3>1. phase[x] = "written" /\ unchecked \subseteq unchecked'
      BY <1>4, <2>1, BudgetStep
    <3>2. budgetLock = x
      BY <1>1, <3>1
    <3> QED
      BY <1>4, <2>1, <3>2, BudgetStep, LedgerAssumption
  <2>2. CASE x = a
    <3>1. phase[x] # "new" /\ Kind(x)' = Kind(x)
      BY <1>4, <2>2, BudgetStep, SentIsStable DEF Envelope
    <3>2. Kind(x) = "budget" \/ (Kind(x) = "fact" /\ x \notin unchecked')
      BY <3>1
    <3>3. \/ WithinBudget(x) \/ UpsertBudget(x)
          \/ Kind(x) \notin {"fact", "budget"} \/ (Kind(x) = "fact" /\ x \in unchecked')
      BY <1>4, <2>2, BudgetStep
    <3>4. WithinBudget(x) \/ UpsertBudget(x)
      BY <3>2, <3>3
    <3> QED
      BY <3>4 DEF WithinBudget, LocksBudget, UpsertBudget
  <2> QED
    BY <2>1, <2>2
<1> QED
  BY <1>2, <1>3, <1>4 DEF Next

LEMMA RoomKept ==
    ASSUME TypeOK, Envelope, Budgeting, [Next]_vars
    PROVE  Room'
<1> SUFFICES ASSUME NEW x \in Attempts, NEW E \in SUBSET Attempts, NEW F \in SUBSET Attempts,
                    phase'[x] = "written", Kind(x)' = "fact", x \notin unchecked',
                    E = Debits', F = Credits'
             PROVE  budget' # None /\ Total(E)' + Amount(x)' <= budget'.limit + Total(F)'
  BY Zenon DEF Room, Spends
<1> PICK D \in SUBSET Attempts : D = Debits
  BY DEF Debits, Entries, TypeOK
<1> PICK C \in SUBSET Attempts : C = Credits
  BY DEF Credits, Entries, TypeOK
<1>1. ASSUME phase[x] \in Open, Kind(x) = "fact", budget # None, budget' = budget, E \subseteq D,
             Total(D) + Amount(x) <= budget.limit + Total(C)
      PROVE  budget' # None /\ Total(E)' + Amount(x)' <= budget'.limit + Total(F)'
  <2>1. phase[x] # "new" /\ Amount(x) \in 0..MaxInt64
    BY <1>1, AmountType DEF Open, Envelope, Budgeting
  <2>2. Total(E)' + Amount(x)' <= budget.limit + Total(F)'
    BY <1>1, <2>1, RoomStays
  <2> QED
    BY <1>1, <2>2
<1>2. ASSUME phase[x] = "written", unchecked \subseteq unchecked', budget' = budget, E \subseteq D
      PROVE  budget' # None /\ Total(E)' + Amount(x)' <= budget'.limit + Total(F)'
  <2>1. Kind(x) = "fact" /\ Spends(x)
    BY <1>2, SentIsStable DEF Envelope, Spends
  <2>2. budget # None /\ Total(D) + Amount(x) <= budget.limit + Total(C)
    BY <2>1 DEF Budgeting, Room
  <2> QED
    BY <1>1, <1>2, <2>1, <2>2 DEF Open
<1>3. CASE UNCHANGED vars
  <2>1. E \subseteq D
    BY <1>3 DEF Debits, Entries, Kind, Currency, Body, vars
  <2> QED
    BY <1>2, <1>3, <2>1 DEF vars
<1>4. ASSUME NEW a \in Attempts, NEW key \in Keys, NEW content \in Contents, Send(a, key, content)
      PROVE budget' # None /\ Total(E)' + Amount(x)' <= budget'.limit + Total(F)'
  <2>1. phase[x] = "written" /\ UNCHANGED <<budget, ledger, unchecked>>
    BY <1>4 DEF Send, tables, TypeOK
  <2>2. E \subseteq D
    BY <2>1, EntriesStay
  <2> QED
    BY <1>2, <2>1, <2>2
<1>5. ASSUME NEW a \in Attempts, Step(a) \/ Abort(a)
      PROVE budget' # None /\ Total(E)' + Amount(x)' <= budget'.limit + Total(F)'
  <2>1. unchecked \subseteq unchecked'
    BY <1>5, BudgetStep
  <2>2. CASE x # a
    <3>1. phase[x] = "written"
      BY <1>5, <2>2, BudgetStep
    <3>2. Spends(x)
      BY <2>1, <3>1, SentIsStable DEF Envelope, Spends
    <3>3. budgetLock = x
      BY <3>2 DEF Budgeting, LockHeld
    <3>4. budget' = budget /\ E \subseteq D
      <4>1. CASE ledger' = ledger /\ budget' = budget
        BY <2>1, <4>1, EntriesStay
      <4>2. CASE Commit(a)
        <5>1. phase[a] = "written" /\ ledger' \subseteq ledger \cup {a} /\ unchecked' = unchecked
          BY <4>2 DEF Commit
        <5>2. ~Spends(a) /\ Kind(a) # "budget"
          BY <2>2, <3>3, <5>1 DEF Budgeting, LockHeld
        <5>3. budget' = budget
          BY <4>2, <5>2 DEF Commit
        <5>4. a \in unchecked \/ Kind(a)' # "fact"
          BY <5>1, <5>2, SentIsStable DEF Spends, Envelope
        <5>5. a \notin Debits'
          BY <5>1, <5>4 DEF Debits, Entries
        <5>6. E \subseteq D
          BY <2>1, <5>1, <5>5, EntriesStay
        <5> QED
          BY <5>3, <5>6
      <4> QED
        BY <1>5, <4>1, <4>2, BudgetStep
    <3> QED
      BY <1>2, <2>1, <3>1, <3>4
  <2>3. CASE x = a
    <3>1. Kind(a) = "fact"
      BY <1>5, <2>3, BudgetStep, SentIsStable DEF Envelope
    <3>2. WithinBudget(a)
      BY <1>5, <2>3, <3>1, BudgetStep DEF UpsertBudget
    <3>3. /\ phase[a] \in Open /\ budget # None /\ Affords(a)
          /\ UNCHANGED <<ledger, budget, unchecked>>
      BY <3>2 DEF WithinBudget, ReadsBudget, LocksBudget, Open, tables
    <3>4. E \subseteq D
      BY <3>3, EntriesStay
    <3>5. Total(D) + Amount(a) <= budget.limit + Total(C)
      <4>1. PICK G \in SUBSET Attempts : G = Entries("fact", BillingCurrency)
        BY DEF Entries, TypeOK
      <4>2. Total(G) - Total(C) <= budget.limit - Amount(a)
        BY <3>3, <4>1 DEF Affords, Used, Credits
      <4>3. Total(D) <= Total(G)
        BY <4>1, TotalGrows DEF Debits
      <4>4. /\ Total(C) \in Nat /\ Total(D) \in Nat /\ Total(G) \in Nat
            /\ budget.limit \in Nat /\ Amount(a) \in Nat
        BY <3>1, <3>3, AmountType, TotalType, LedgerAssumption
           DEF TypeOK, BudgetRow, Envelope, Budgeting
      <4> QED
        BY <4>2, <4>3, <4>4
    <3> QED
      BY <1>1, <2>3, <3>1, <3>3, <3>4, <3>5
  <2> QED
    BY <2>2, <2>3
<1> QED
  BY <1>3, <1>4, <1>5 DEF Next

\* However facts, credits and changes of the budget overlap, a fact that is
\* written under a budget does not take the project over its limit.
THEOREM BudgetRespected == Spec => DebitsWithinBudget
<1> DEFINE Within ==
      \A a \in Attempts \ unchecked :
        a \in ledger' \ ledger /\ Kind(a) = "fact" =>
          /\ budget # None
          /\ Total(Entries("fact", BillingCurrency)' \ unchecked)
               <= budget.limit + Total(Entries("credit", BillingCurrency))
<1>1. Init => Budgeting
  BY DEF Init, Budgeting, Rating, LockHeld, Room, Spends, Open
<1>2. Kept /\ Budgeting /\ [Next]_vars => Budgeting'
  BY RatingKept, LockHeldKept, RoomKept DEF Kept, Budgeting
<1>3. ASSUME Kept, Budgeting, [Next]_vars PROVE [Within]_vars
  <2> SUFFICES ASSUME NEW a \in Attempts \ unchecked, a \in ledger' \ ledger, Kind(a) = "fact"
               PROVE  /\ budget # None
                      /\ Total(Entries("fact", BillingCurrency)' \ unchecked)
                           <= budget.limit + Total(Entries("credit", BillingCurrency))
    OBVIOUS
  <2> USE DEF Kept
  <2>1. Commit(a)
    <3>1. ~UNCHANGED vars
      BY DEF vars
    <3>2. ASSUME NEW b \in Attempts, NEW key \in Keys, NEW content \in Contents, Send(b, key, content)
          PROVE ledger' = ledger
      BY <3>2 DEF Send, tables
    <3>3. ASSUME NEW b \in Attempts, Step(b) \/ Abort(b)
          PROVE ledger' = ledger \/ (Commit(b) /\ ledger' \subseteq ledger \cup {b})
      BY <1>3, <3>3, BudgetStep DEF Commit
    <3> QED
      BY <1>3, <3>1, <3>2, <3>3 DEF Next
  <2>2. phase[a] = "written" /\ phase[a] \in Open /\ Spends(a) /\ ledger' \subseteq ledger \cup {a}
    BY <2>1 DEF Commit, Spends, Open
  <2>3. PICK D \in SUBSET Attempts : D = Debits
    BY <1>3 DEF Debits, Entries, TypeOK
  <2>4. PICK C \in SUBSET Attempts : C = Entries("credit", BillingCurrency)
    BY <1>3 DEF Entries, TypeOK
  <2>5. budget # None /\ Total(D) + Amount(a) <= budget.limit + Total(C)
    BY <1>3, <2>2, <2>3, <2>4 DEF Budgeting, Room, Credits
  <2>6. Amount(a) \in 0..MaxInt64
    BY <1>3, <2>2, AmountType DEF Envelope, Budgeting
  <2>7. PICK G \in SUBSET Attempts : G = Entries("fact", BillingCurrency)' \ unchecked
    BY <1>3, EntriesStay DEF Entries
  <2>8. G \subseteq D \cup {a}
    <3>1. \A f \in ledger' : Kind(f)' = Kind(f) /\ Currency(f)' = Currency(f)
      BY <1>3, EntriesStay, SentIsStable DEF Envelope
    <3> QED
      BY <2>2, <2>3, <2>7, <3>1 DEF Debits, Entries
  <2>9. Total(D \cup {a}) = Total(D) + Amount(a)
    BY <2>3, <2>6, TotalAdds DEF Debits, Entries
  <2>10. Total(G) <= Total(D \cup {a})
    BY <2>8, TotalGrows
  <2>11. /\ Total(D) \in Nat /\ Total(C) \in Nat /\ Total(G) \in Nat
         /\ Amount(a) \in Nat /\ budget.limit \in Nat
    BY <1>3, <2>5, <2>6, TotalType, LedgerAssumption DEF TypeOK, BudgetRow
  <2>12. Total(G) <= budget.limit + Total(C)
    BY <2>5, <2>9, <2>10, <2>11
  <2> QED
    BY <2>4, <2>5, <2>7, <2>12
<1>4. Kept /\ Budgeting /\ [Next]_vars => [Within]_vars
  BY <1>3
<1> HIDE DEF Within
<1>5. Spec => [][Within]_vars
  BY <1>1, <1>2, <1>4, KeptAlways, PTL DEF Spec
<1> QED
  BY <1>5 DEF DebitsWithinBudget, Within

-----------------------------------------------------------------------------
(* The locks *)

\* The lock of the budget row is in the hands of who has written and will end.
LockOwned ==
    budgetLock # None => budgetLock \in Attempts /\ phase[budgetLock] = "written"

LEMMA LockOwnedKept ==
    ASSUME TypeOK, Envelope, LockOwned, [Next]_vars
    PROVE  LockOwned'
<1>1. CASE UNCHANGED vars
  BY <1>1 DEF vars, LockOwned
<1>2. ASSUME NEW a \in Attempts, NEW key \in Keys, NEW content \in Contents, Send(a, key, content)
      PROVE  LockOwned'
  BY <1>2 DEF Send, LockOwned, TypeOK
<1>3. ASSUME NEW a \in Attempts, Step(a) \/ Abort(a)
      PROVE  LockOwned'
  <2>1. CASE \E r : Ends(a, r)
    BY <2>1 DEF Ends, Goes, LockOwned, TypeOK
  <2>2. CASE WithinBudget(a) \/ UpsertBudget(a)
    BY <2>2 DEF WithinBudget, LocksBudget, UpsertBudget, Goes, LockOwned, TypeOK
  <2>3. CASE budgetLock' = budgetLock /\ phase[a] # "written" /\ \E p : Goes(a, p)
    BY <2>3 DEF Goes, LockOwned, TypeOK
  <2>4. CASE Commit(a)
    BY <2>1, <2>4 DEF Commit
  <2>5. CASE Abort(a) \/ RefuseUnrated(a) \/ Replay(a) \/ Conflict(a) \/ BeyondBudget(a)
    BY <2>1, <2>5 DEF Abort, RefuseUnrated, Replay, Conflict, BeyondBudget, EndsWithout
  <2>6. CASE Admit(a) \/ WithoutBudget(a) \/ InsertCredit(a)
    BY <2>3, <2>6 DEF Admit, Admissible, HasKey, WithoutBudget, ReadsBudget, InsertCredit
  <2>7. CASE SumUsage(a) \/ ListUsage(a) \/ InsertInvoice(a)
    <3>1. EndsWithout(a, Refused) \/
            (budgetLock' = budgetLock /\ phase[a] # "written" /\ \E p : Goes(a, p))
      BY <2>7 DEF SumUsage, ListUsage, InsertInvoice
    <3> QED
      BY <2>1, <2>3, <3>1 DEF EndsWithout
  <2> QED
    BY <1>3, <2>2, <2>4, <2>5, <2>6, <2>7 DEF Step
<1> QED
  BY <1>1, <1>2, <1>3 DEF Next

\* Waiting is for somebody who is further, and while a transaction is under way,
\* one of them waits for nobody.
WaitsInOrder ==
    /\ \A a, b \in Attempts : Awaits(a, b) => Position(a) < Position(b)
    /\ (\E a \in Attempts : phase[a] \in Open \cup {"sent"}) =>
          \E a \in Attempts : /\ phase[a] \in Open \cup {"sent"}
                              /\ \A b \in Attempts : ~Awaits(a, b)

\* acceptMutation takes the lock of its key before any other, and a mutation
\* takes at most one more, with its last statement: no number of transactions,
\* over any keys and periods, can wait for each other in a circle.
THEOREM LocksInOrder == Spec => []WaitsInOrder
<1>1. Init => LockOwned
  BY DEF Init, LockOwned
<1>2. Kept /\ LockOwned /\ [Next]_vars => LockOwned'
  BY LockOwnedKept DEF Kept
<1>3. Kept /\ LockOwned => WaitsInOrder
  <2> SUFFICES ASSUME Kept, LockOwned PROVE WaitsInOrder
    OBVIOUS
  <2>1. ASSUME NEW a \in Attempts, NEW b \in Attempts, Awaits(a, b)
        PROVE  /\ Position(a) < Position(b)
               /\ phase[b] = "written" \/ (phase[b] \in Open /\ phase[a] = "sent")
    <3>1. b # None
      BY LedgerAssumption
    <3>2. CASE phase[a] = "sent" /\ phase[b] \in Open
      BY <3>2 DEF Position, Open
    <3>3. CASE phase[a] \in {"admitted", "checked"} /\ phase[b] = "written"
      BY <3>3 DEF Position
    <3>4. budgetLock = b => phase[b] = "written"
      BY <3>1 DEF LockOwned
    <3>5. \/ phase[a] = "sent" /\ phase[b] \in Open
          \/ phase[a] \in {"admitted", "checked"} /\ phase[b] = "written"
      BY <2>1, <3>4, Zenon DEF Awaits
    <3> QED
      BY <3>2, <3>3, <3>5
  <2>2. ASSUME NEW a \in Attempts, phase[a] \in Open \cup {"sent"}
        PROVE  \E c \in Attempts : /\ phase[c] \in Open \cup {"sent"}
                                   /\ \A b \in Attempts : ~Awaits(c, b)
    <3>1. CASE \E c \in Attempts : phase[c] = "written"
      BY <3>1 DEF Awaits, Open
    <3>2. CASE /\ \A b \in Attempts : phase[b] # "written"
               /\ \E c \in Attempts : phase[c] \in Open
      BY <2>1, <3>2 DEF Open
    <3>3. CASE \A b \in Attempts : phase[b] \notin Open
      BY <2>1, <2>2, <3>3 DEF Open
    <3> QED
      BY <3>1, <3>2, <3>3 DEF Open
  <2> QED
    BY <2>1, <2>2 DEF WaitsInOrder
<1> QED
  BY <1>1, <1>2, <1>3, KeptAlways, PTL DEF Spec

=============================================================================
