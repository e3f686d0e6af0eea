------------------------------- MODULE Ledger -------------------------------
(***************************************************************************)
(* The financial records of one project and the envelope every mutation of *)
(* the API runs in.                                                        *)
(*                                                                         *)
(* acceptMutation opens a transaction, takes an advisory lock on the       *)
(* idempotency key, looks for a record of it, applies the mutation, and    *)
(* writes the operation, its events, the audit row and the idempotency     *)
(* record before it commits.  The mutations are usage facts (with their    *)
(* rating and debit), credits, the project's budget and invoices.          *)
(*                                                                         *)
(* Transactions run in READ COMMITTED mode: what one writes shows at its   *)
(* commit, each statement sees what was committed when it started, and     *)
(* only locked rows make it wait.                                          *)
(***************************************************************************)
EXTENDS Integers, FiniteSets

CONSTANTS
    MaxAttempts,      \* bound: requests, repetitions included
    Keys,             \* idempotency keys of one principal
    Contents,         \* the bodies the requests may have
    Currencies,
    BillingCurrency,  \* the currency of the configured rate
    MinorPerUnit,     \* its price of a unit in a moment
    LastTime,         \* bound: allocation intervals and periods end at LastTime
    MaxInt64,         \* largest value of an int64
    None,             \* an absent row, an unsent request, an unlocked row
    Conflicting,      \* ErrIdempotencyConflict
    Refused,          \* any other answer that says the request is wrong
    Failed            \* an internal error, or no answer

\* The requests in the order they arrive; also the identities of what they create.
Attempts == 1..MaxAttempts

Time == 0..LastTime

Interval == {i \in Time \X Time : i[1] < i[2]}

Usage == [kind : {"fact"}, quantity : (Nat \ {0}) \X (Nat \ {0}), interval : Interval]

Credit == [kind : {"credit"}, amount : 1..MaxInt64, currency : Currencies]

SetLimit == [kind : {"budget"}, limit : 0..MaxInt64, currency : Currencies]

Period == [kind : {"invoice"}, interval : Interval]

Kinds == {"fact", "credit", "budget", "invoice"}

ASSUME LedgerAssumption ==
    /\ MaxAttempts \in Nat
    /\ {None, Conflicting, Refused, Failed} \cap Attempts = {}
    /\ None \notin {Conflicting, Refused, Failed} /\ Conflicting \notin {Refused, Failed}
    /\ LastTime \in Nat /\ MinorPerUnit \in Nat \ {0} /\ MaxInt64 \in Nat
    /\ BillingCurrency \in Currencies
    /\ Contents \subseteq Usage \cup Credit \cup SetLimit \cup Period

VARIABLES
    request,     \* key and body of each attempt
    phase,       \* how far its transaction is
    answer,      \* what its client was told
    read,        \* what an open invoice transaction has listed
    budgetLock,  \* the open transaction that locks the project_budgets row
    records,     \* idempotency_records, by scope
    operations,  \* attempts with rows in operations, outbox_events and audit_events
    ledger,      \* attempts with a ledger_entries row (and usage_facts, rated_usage)
    budget,      \* the project_budgets row
    invoices,    \* invoices and invoice_lines rows
    unchecked    \* facts admitted when there was no budget (history)

vars == <<request, phase, answer, read, budgetLock, records, operations, ledger,
          budget, invoices, unchecked>>

tables == <<records, operations, ledger, budget, invoices>>

-----------------------------------------------------------------------------
(* Rating of a usage fact *)

\* big.Rat keeps n/d in lowest terms.
Denominator(n, d) ==
    CHOOSE q \in 1..d : /\ (n * q) % d = 0
                        /\ \A p \in 1..d : (n * p) % d = 0 => q <= p

Numerator(n, d) == (n * Denominator(n, d)) \div d

Ceiling(n, d) == (n \div d) + (IF n % d = 0 THEN 0 ELSE 1)

\* ceilRatInt64: a fraction is refused when its numerator has more than 62
\* bits, also when it would fit.
Rated(content) ==
    LET n == content.quantity[1] * (content.interval[2] - content.interval[1]) * MinorPerUnit
        d == content.quantity[2]
    IN IF n % d # 0 /\ Numerator(n, d) > MaxInt64 \div 2 THEN None
       ELSE IF Ceiling(n, d) > MaxInt64 THEN None
       ELSE Ceiling(n, d)

-----------------------------------------------------------------------------
(* Rows *)

Body(a) == request[a].content

Kind(a) == Body(a).kind

Scope(a) == <<Kind(a), request[a].key>>

Amount(a) == IF Kind(a) = "fact" THEN Rated(Body(a)) ELSE Body(a).amount

Currency(a) == IF Kind(a) = "fact" THEN BillingCurrency ELSE Body(a).currency

Overlaps(i, j) == i[1] < j[2] /\ i[2] > j[1]

\* The total of some ledger entries, counted one by one.
Units(S) == {u \in S \X (1..MaxInt64) : u[2] <= Amount(u[1])}

Total(S) == Cardinality(Units(S))

Entries(kind, currency) == {a \in ledger : Kind(a) = kind /\ Currency(a) = currency}

\* Debits minus credits.
Used(currency) == Total(Entries("fact", currency)) - Total(Entries("credit", currency))

-----------------------------------------------------------------------------
(* Types *)

Request == [key : Keys, content : Contents]

RecordRow == [content : Contents, resource : Attempts]

BudgetRow == [limit : 0..MaxInt64, currency : Currencies]

InvoiceRow == [lines : SUBSET Attempts, subtotal : 0..MaxInt64]

ASSUME RowAssumption ==
    None \notin Request \cup RecordRow \cup BudgetRow \cup InvoiceRow
               \cup [scope : Kinds \X Keys, content : Contents]

Open == {"admitted", "checked", "written"}

TypeOK ==
    /\ request \in [Attempts -> Request \cup {None}]
    /\ phase \in [Attempts -> {"new", "sent", "done"} \cup Open]
    /\ answer \in [Attempts -> Attempts \cup {None, Conflicting, Refused, Failed}]
    /\ read \in [Attempts -> SUBSET Attempts]
    /\ budgetLock \in Attempts \cup {None}
    /\ records \in [Kinds \X Keys -> RecordRow \cup {None}]
    /\ operations \subseteq Attempts /\ ledger \subseteq Attempts /\ unchecked \subseteq Attempts
    /\ budget \in BudgetRow \cup {None}
    /\ invoices \in [Attempts -> InvoiceRow \cup {None}]

Init ==
    /\ request = [a \in Attempts |-> None]
    /\ phase = [a \in Attempts |-> "new"]
    /\ answer = [a \in Attempts |-> None]
    /\ read = [a \in Attempts |-> {}]
    /\ budgetLock = None
    /\ records = [s \in Kinds \X Keys |-> None]
    /\ operations = {} /\ ledger = {} /\ unchecked = {}
    /\ budget = None
    /\ invoices = [a \in Attempts |-> None]

-----------------------------------------------------------------------------
(* The envelope: acceptMutation *)

\* The next request arrives: a new one, or one more attempt at an earlier one.
Send(a, key, content) ==
    /\ phase[a] = "new"
    /\ \A b \in Attempts : b < a => phase[b] # "new"
    /\ request' = [request EXCEPT ![a] = [key |-> key, content |-> content]]
    /\ phase' = [phase EXCEPT ![a] = "sent"]
    /\ UNCHANGED <<answer, read, budgetLock, tables, unchecked>>

Goes(a, p) == phase' = [phase EXCEPT ![a] = p]

\* Mutant of Ends: the lock on the budget outlives the transaction.
EndsLocked(a, result) ==
    /\ Goes(a, "done")
    /\ answer' = [answer EXCEPT ![a] = result]
    /\ read' = [read EXCEPT ![a] = {}]
    /\ UNCHANGED <<request, budgetLock>>

\* The transaction ends, and with it its locks.
Ends(a, result) ==
    /\ Goes(a, "done")
    /\ answer' = [answer EXCEPT ![a] = result]
    /\ read' = [read EXCEPT ![a] = {}]
    /\ budgetLock' = IF budgetLock = a THEN None ELSE budgetLock
    /\ UNCHANGED request

EndsWithout(a, result) ==
    /\ Ends(a, result)
    /\ UNCHANGED <<tables, unchecked>>

\* Mutant of HasKey: there is no advisory lock.
HasKeyAlways(a) == phase[a] = "sent"

\* pg_advisory_xact_lock on the scope and key is granted.
HasKey(a) ==
    /\ phase[a] = "sent"
    /\ \A b \in Attempts : phase[b] \in Open => Scope(b) # Scope(a)

\* Rating precedes the transaction.
RefuseUnrated(a) ==
    /\ phase[a] = "sent" /\ Kind(a) = "fact" /\ Rated(Body(a)) = None
    /\ EndsWithout(a, Refused)

Admissible(a) == HasKey(a) /\ (Kind(a) = "fact" => Rated(Body(a)) # None)

Admit(a) ==
    /\ Admissible(a)
    /\ records[Scope(a)] = None
    /\ Goes(a, "admitted")
    /\ UNCHANGED <<request, answer, read, budgetLock, tables, unchecked>>

Recorded(a) == records[Scope(a)] # None /\ records[Scope(a)].content = Body(a)

Replay(a) ==
    /\ Admissible(a)
    /\ Recorded(a)
    /\ EndsWithout(a, records[Scope(a)].resource)

Conflict(a) ==
    /\ Admissible(a)
    /\ records[Scope(a)] # None
    /\ ~Recorded(a)
    /\ EndsWithout(a, Conflicting)

\* A statement fails, the request is cancelled or the process ends.
Abort(a) ==
    /\ phase[a] \in Open \cup {"sent"}
    /\ EndsWithout(a, Failed)

-----------------------------------------------------------------------------
(* Usage facts: enforceProjectBudget, then three inserts *)

ReadsBudget(a) ==
    /\ phase[a] = "admitted" /\ Kind(a) = "fact"

WithoutBudget(a) ==
    /\ ReadsBudget(a)
    /\ budget = None
    /\ Goes(a, "written")
    /\ unchecked' = unchecked \cup {a}
    /\ UNCHANGED <<request, answer, read, budgetLock, tables>>

\* Mutant of LocksBudget: SELECT without FOR UPDATE.
LocksBudgetNot(a) == budget # None /\ UNCHANGED budgetLock

\* SELECT ... FOR UPDATE finds the row and waits for its lock; then the sum.
LocksBudget(a) ==
    /\ budget # None
    /\ budgetLock = None
    /\ budgetLock' = a

Affords(a) ==
    /\ budget.currency = BillingCurrency
    /\ Used(BillingCurrency) <= MaxInt64
    /\ Used(BillingCurrency) <= budget.limit - Amount(a)

WithinBudget(a) ==
    /\ ReadsBudget(a)
    /\ LocksBudget(a)
    /\ Affords(a)
    /\ Goes(a, "written")
    /\ UNCHANGED <<request, answer, read, tables, unchecked>>

BeyondBudget(a) ==
    /\ ReadsBudget(a)
    /\ budget # None /\ budgetLock = None
    /\ ~Affords(a)
    /\ EndsWithout(a, Refused)

-----------------------------------------------------------------------------
(* Credits, the budget, invoices *)

InsertCredit(a) ==
    /\ phase[a] = "admitted" /\ Kind(a) = "credit"
    /\ Goes(a, "written")
    /\ UNCHANGED <<request, answer, read, budgetLock, tables, unchecked>>

\* SetBudget sums the ledger, without a lock ...
Covers(a) == Used(Body(a).currency) <= MaxInt64 /\ Used(Body(a).currency) <= Body(a).limit

SumUsage(a) ==
    /\ phase[a] = "admitted" /\ Kind(a) = "budget"
    /\ IF Covers(a)
         THEN Goes(a, "checked") /\ UNCHANGED <<request, answer, read, budgetLock, tables, unchecked>>
         ELSE EndsWithout(a, Refused)

\* ... and then inserts or updates the row, once nobody else does.
UpsertBudget(a) ==
    /\ phase[a] = "checked" /\ Kind(a) = "budget"
    /\ budgetLock = None
    /\ budgetLock' = a
    /\ Goes(a, "written")
    /\ UNCHANGED <<request, answer, read, tables, unchecked>>

\* Mutant of AddsUp: the overflow goes unnoticed.
AddsUpAlways(lines) == TRUE

AddsUp(lines) == Total(lines) <= MaxInt64

\* CreateInvoice lists the facts that overlap the period and adds them up ...
ListUsage(a) ==
    LET lines == {f \in ledger : Kind(f) = "fact" /\ Overlaps(Body(f).interval, Body(a).interval)} IN
    /\ phase[a] = "admitted" /\ Kind(a) = "invoice"
    /\ IF AddsUp(lines)
         THEN /\ Goes(a, "checked")
              /\ read' = [read EXCEPT ![a] = lines]
              /\ UNCHANGED <<request, answer, budgetLock, tables, unchecked>>
         ELSE EndsWithout(a, Refused)

SamePeriod(a) == {b \in Attempts : phase[b] # "new" /\ Kind(b) = "invoice"
                                     /\ Body(b).interval = Body(a).interval}

\* Mutant of Taken: no unique constraint.
TakenNever(a) == FALSE

\* UNIQUE (project_id, period_from, period_to)
Taken(a) == \E b \in SamePeriod(a) : invoices[b] # None

\* ... and inserts the invoice and its lines; the insert waits for another one
\* of the same period.
InsertInvoice(a) ==
    /\ phase[a] = "checked" /\ Kind(a) = "invoice"
    /\ \A b \in SamePeriod(a) : phase[b] # "written"
    /\ IF Taken(a)
         THEN EndsWithout(a, Refused)
         ELSE Goes(a, "written") /\ UNCHANGED <<request, answer, read, budgetLock, tables, unchecked>>

-----------------------------------------------------------------------------
(* Commit: the rows of the mutation and of the envelope *)

Record(a) == [records EXCEPT ![Scope(a)] = [content |-> Body(a), resource |-> a]]

Commit(a) ==
    /\ phase[a] = "written"
    /\ operations' = operations \cup {a}
    /\ records' = Record(a)
    /\ ledger' = IF Kind(a) \in {"fact", "credit"} THEN ledger \cup {a} ELSE ledger
    /\ budget' = IF Kind(a) = "budget"
                   THEN [limit |-> Body(a).limit, currency |-> Body(a).currency] ELSE budget
    /\ invoices' = IF Kind(a) = "invoice"
                     THEN [invoices EXCEPT ![a] = [lines |-> read[a], subtotal |-> Total(read[a])]]
                     ELSE invoices
    /\ Ends(a, a) \/ Ends(a, Failed)  \* the connection is lost after the commit
    /\ UNCHANGED unchecked

-----------------------------------------------------------------------------
(* Specification *)

Step(a) ==
    \/ RefuseUnrated(a) \/ Admit(a) \/ Replay(a) \/ Conflict(a)
    \/ WithoutBudget(a) \/ WithinBudget(a) \/ BeyondBudget(a)
    \/ InsertCredit(a) \/ SumUsage(a) \/ UpsertBudget(a)
    \/ ListUsage(a) \/ InsertInvoice(a) \/ Commit(a)

Next ==
    \E a \in Attempts :
      \/ \E key \in Keys, content \in Contents : Send(a, key, content)
      \/ Step(a) \/ Abort(a)

Spec == Init /\ [][Next]_vars

-----------------------------------------------------------------------------
(* Properties *)

\* Whatever a client repeats, in parallel, after a failure or with a changed
\* body: one key takes effect once, with its operation, and every repetition
\* is told about that effect.
Promise == INSTANCE Acceptance WITH
    Scopes <- Kinds \X Keys,
    request <- [a \in Attempts |-> IF request[a] = None THEN None
                                   ELSE [scope |-> Scope(a), content |-> Body(a)]],
    effects <- {a \in Attempts : a \in operations \cup ledger \/ invoices[a] # None}

AcceptanceKept == Promise!Spec

\* The next statement of a needs a lock of b: on the key, the budget row, or the
\* period of an invoice that is not committed yet.
Awaits(a, b) ==
    \/ phase[a] = "sent" /\ phase[b] \in Open /\ Scope(b) = Scope(a)
    \/ /\ budgetLock = b
       /\ \/ phase[a] = "admitted" /\ Kind(a) = "fact" /\ budget # None
          \/ phase[a] = "checked" /\ Kind(a) = "budget"
    \/ phase[a] = "checked" /\ Kind(a) = "invoice" /\ b \in SamePeriod(a) /\ phase[b] = "written"

\* How far a transaction is.
Position(a) ==
    CASE phase[a] = "admitted" -> 1 [] phase[a] = "checked" -> 2 [] phase[a] = "written" -> 3
      [] OTHER -> 0

\* A transaction can go on, or needs a lock of one that is further than itself,
\* so that no circle of them, over keys, the budget and periods, stands still.
NoStandstill ==
    \A a \in Attempts :
        phase[a] \in Open \cup {"sent"} =>
            ENABLED Step(a) \/ \E b \in Attempts : Awaits(a, b) /\ Position(a) < Position(b)

\* While a project has a budget, a fact that is written does not take it over
\* its limit, however facts, credits and changes of the budget overlap.  Facts
\* admitted while there was no budget do not count.
DebitsWithinBudget ==
    [][\A a \in Attempts \ unchecked :
         a \in ledger' \ ledger /\ Kind(a) = "fact" =>
           /\ budget # None
           /\ Total(Entries("fact", BillingCurrency)' \ unchecked)
                <= budget.limit + Total(Entries("credit", BillingCurrency))]_vars

\* An invoice is what the ledger says: each of its lines is a debit that
\* overlaps its period, its subtotal is the sum of those debits and fits an
\* int64, and no period of the project has two invoices.
InvoicesMatchLedger ==
    \A a \in Attempts :
      invoices[a] # None =>
        /\ invoices[a].lines \subseteq {f \in ledger : Kind(f) = "fact" /\ Overlaps(Body(f).interval, Body(a).interval)}
        /\ invoices[a].subtotal = Total(invoices[a].lines) /\ invoices[a].subtotal <= MaxInt64
        /\ \A b \in SamePeriod(a) : invoices[b] # None => b = a

=============================================================================
