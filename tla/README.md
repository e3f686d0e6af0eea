# Verification of the GPU rental platform

TLA+ specifications of the platform's Go control plane
(`src/apps/control-plane`) and of the reservations of its TypeScript reference
API (`src/apps/api`), model-checked with TLC on small instances and proved with
TLAPS for every size. Each definition names, in `PROJECT.json` under `map`, the
lines of the source it models.

## 1. The system

A control-plane Deployment of several replicas serves an HTTP API over one
PostgreSQL database and drives managed Kubernetes clusters through an Open
Cluster Management (OCM) hub. A request changes rows in one transaction and
inserts an event into `outbox_events`; background runners in every replica
claim events, turn the current rows into a ManifestWork, apply it on the hub,
wait for its conditions and write the result back. A work agent in the managed
cluster applies the ManifestWork, and an add-on agent publishes an inventory
report that another background loop copies into the database.

| Component | Source (under `apps/control-plane/internal` unless said) | State | Operations | What is hard | What makes it correct |
|---|---|---|---|---|---|
| Outbox and event runners | `storage/postgres/repository.go`, `sharedisolation/runner.go`, `workspace/runner.go` | `outbox_events`: lease, holder, attempts, available_at, delivered_at, dead_lettered_at; each runner's claim | Claim, Mark{Delivered,Failed,DeadLettered}, poll, process | replicas, crashes, leases that expire, statements that execute late | a settlement belongs to the claim that earned it; settled once; bounded retries; every event settled |
| Shared isolation | `sharedisolation/*`, `storage/postgres/shared_isolation.go` | isolation columns of `projects`, `operations` | Reconcile = load, start, apply, complete or fail | quota changes while its predecessor is applied; replicas; late PATCHes; deadlines | the ManifestWork carries the current limit; status and operation say what happened |
| Fleet client | `fleet/ocm/client.go` | the ManifestWork (spec, conditions) | ApplyWork, ReadInventory | server-side apply answers late or never; conditions of an older spec | succeeded means enforced |
| Workspaces | `workspace/*`, `storage/postgres/workspace.go` | `workspaces`, `workspace_snapshots` | CreateWorkspace, SetWorkspaceDesiredState, CreateSnapshot, Reconcile | as above, plus generation fences and two kinds of events | the last desired state reaches the cluster; the row never lies about a generation |
| Project quota | `storage/postgres/tenancy.go`, `storage/postgres/workspace.go` | `project_quotas`, `quota_reservations` | SetQuota, ReserveQuota, commit/release/expire, workspace start and stop | overlapping READ COMMITTED transactions on two rows each | counters equal the rows they summarise, and stay within the limit |
| Mutation acceptance | `storage/postgres/tenancy.go` (`acceptMutation`), `operation/*` | `idempotency_records`, `operations`, `audit_events` | accept, replay | duplicate requests in parallel | one effect per key; operation, event and audit row appear together |
| Tenants, projects, bindings | `storage/postgres/tenancy.go` | `tenants`, `projects`, `role_bindings` | create | — | single inserts |
| Access tokens | `storage/postgres/workspace.go` | `workspace_access_tokens` | CreateAccessToken, RevokeAccessToken, InspectAccessToken | overlapping revocations of one row, a repeated issue, a lost answer | what a client was told of a token stays true; one effect per key |
| Inventory and catalog | `inventorysync/*`, `storage/postgres/catalog.go`, `clusterstate/state.go` | `clusters`, `node_pools`, `nodes`, `gpu_devices`, inventories | Sync, ObserveClusterHeartbeat, ReplaceClusterInventory | several replicas, agent restarts, reports out of order, a retry | no older report over a newer one; generation and contents move together |
| Placement | `storage/postgres/placement.go` | `capacity_pools`, `placement_decisions` | CreatePlacement | SKIP LOCKED | never over capacity |
| Metering and billing | `storage/postgres/{metering,billing,budgets,credits}.go`, `billing/fixed.go` | `usage_facts`, `ledger_entries`, `project_budgets`, `invoices` | CreateUsageFact, SetBudget, CreateCreditAdjustment, CreateInvoice | sums read without a lock; overlapping periods | usage within the budget; nothing billed twice |
| Audit archive | `auditarchive/*`, `cmd/audit-archive` | one object per month in S3 | Archive = export, stat, put, verify | transactions still open when the month ends, overlapping and failing runs, a month asked for by name | the object holds every event of the month; runs never contradict each other |
| Schema migrations | `platform/postgres/migrate.go`, `cmd/migrate` | `schema_migrations`, the schema, a session's advisory lock and open transaction | ApplyMigrations, statement by statement | jobs of several releases side by side, lost processes whose session lives on, rows older than the checksums | the history is the schema; releases do not mix; no job waits for ever |
| HTTP, authn/authz, process wiring | `httpapi`, `authn`, `authorization`, `config`, `cmd/control-plane` | — | — | — | — |
| Add-on agent | `apps/gpu-platform-addon` | ConfigMap report, epoch, sequence | report | restarts | monotone sequence per epoch |
| Reference API (TypeScript) | `apps/api/src/{orders,gpu-resources,instances,cloud-accounts,redis}` | MongoDB documents: orders, listings, instances, accounts; Redis locks | create, return, cancel, set a listing's status; start, stop, terminate; charge, refund, top up; two sweeps | locks that lapse under their holder, documents saved over a change made since they were read, a create that fails half way | one active order of a GPU; an order that ended stays ended; refunds within charges; every lease ends |
| Web console | `apps/web` | — | — | — | — |

Components interact through the database (rows, row locks, advisory locks, the
outbox), through the ManifestWork and, for the archive, through the bucket and
the clock that dates audit events. Nothing else is shared, so a component's
model is its tables plus, for runners, the local state of each process.

The reference API stands by itself: it shares no database with the control
plane and calls nothing of it. Its handlers interact through MongoDB documents,
which they change without transactions, through Redis locks, and through the
sweeps that every API instance runs each minute.

## 2. Modules

```
EventDelivery          what publishers may rely on (abstract)
     ^ refined by
Outbox  <--INSTANCE--  SharedIsolation  --INSTANCE-->  Fleet
        <--INSTANCE--  Workspace        --INSTANCE-->  Fleet

Allocation             what a project may rely on when it asks for GPUs (abstract)
     ^ refined by
Quota                  (project quota, reservations, workspaces' GPUs)

Inventory              (add-on agents, sync loops, catalog, capacity, placement)

Acceptance             what a client may rely on when it repeats a mutation (abstract)
     ^ refined by
Ledger                 (acceptMutation around facts, credits, budgets, invoices)
AccessTokens           (token requests: the same promise, other tables)

AuditLog               (the clock, the stamps and the committed audit events)
     ^ EXTENDS              ^ EXTENDS
AccessTokens           AuditArchive   (runs of the monthly archive)
     ^ EXTENDS              ^ EXTENDS
          AuditTrail           (both over one database and one clock)

Migrations             (ApplyMigrations by jobs of several releases)

Bookings               (reference API: orders, listings, the Redis lock)
     ^ EXTENDS
Leases                 (the booking saga, instances, a wallet)
     | refines
Rental                 what a renter of the reference API may rely on (abstract)

*Proofs                theorems about Outbox, SharedIsolation, Workspace, Ledger,
                       Migrations, AuditTrail and Inventory
ReservationProofs      theorems about Quota and about Leases
MC*                    small instances for TLC
```

**Outbox** — the table (`outbox`), the runners (`runner`), the mark statements
of dead processes that may still execute (`sent`), a fault counter and a
history variable, `reconciled`, of the claims whose reconcile succeeded. One
action per SQL statement: `Claim` is the `WITH candidates … UPDATE` of
`Claim`, `Mark` executes the statement `process()` chose under the `WHERE`
clause the three marks share (`OwnsClaim`). The database clock occurs only
through the comparisons the statements make: `due` (available_at <= now) and
`lease` (locked_until against now). `Crash`, `ClaimLost`, `MarkLost`,
`LateMark` and `Stall` are the failures; a commit whose answer is lost is the
statement followed by `Crash`. What a reconcile does is left open here. The
runner handles one event at a time; a runner of several event types is several
runners that never overlap, which is a subset of these behaviours.

**EventDelivery** — the promise: published, tried, and settled once, as
delivered or (after enough tries) dead. `Outbox!DeliverySpec` is the
refinement mapping. SharedIsolation and Workspace are compositions around an
Outbox, and each of their steps keeps the same promise (`EventsAreDelivered`,
section 4).

**Fleet** — one ManifestWork: `Accept` is the forced server-side apply, `late`
holds requests whose caller gave up, `Verdict` is one poll of the conditions,
`AgentApplies` and `AgentDegrades` are the external work agent.

**SharedIsolation** and **Workspace** carry a rigid variable, `scenario`: which
replicas run, how many changes users make, whether a runner may stall and
whether a PATCH may arrive late. It is chosen initially from the constant
`Scenarios`, so one run covers the single replica with stalls and the two
replicas with late PATCHes, and a property that some scenarios cannot keep names
its premise. `Alone` is one replica and no late PATCH: nobody else touches the
ManifestWork. `Exclusive` is that no two runners work on one event, which takes
a runner that outlives its lease and another replica to claim the event from
it; so it holds of one replica and of any number without stalls. `LeaseDuration`
is longer than the reconcile timeout, so a stall is a paused process.

**SharedIsolation** — one project. `LoadProject`/`LoadQuota` are the two
statements of `LoadProjectForIsolation`; `Ready` is the shortcut of
`Reconcile`; `StartSharedIsolation`, `CompleteSharedIsolation` and
`FailSharedIsolation` are the one-transaction write-backs, unfenced as in the
code; `Patch`, `Poll` and their failures are `ApplyWork`. `expired` is a
reconcile whose context ended: its last write-back is refused.

**Workspace** — one workspace. Same reconcile, with the generation fences
(`Current`), the snapshot events that bypass the shortcut, the manifests told
apart by whether they hold the volume, the pod and which VolumeSnapshots, and
the two unfenced-together statements of `CompleteWorkspace`. The quota effect
of a desired-state change is in Quota.

**Quota** — one project's quota row and everything that charges it, as
overlapping transactions: a transaction opens by locking the row it charges
for and deciding what to write, then updates the quota row (its lock is held
until the end), then commits or is rolled back. What it writes shows at its
commit, as in READ COMMITTED.

**Allocation** — the same project with neither transactions nor counters: a
limit, what each reservation and workspace holds, and whole operations one
after the other, each of which must fit within the limit as the one before left
it. `Quota!Promise` maps the committed rows to it and `AllocationKept` is the
claim that the transactions are serialisable in the order of their commits,
which READ COMMITTED does not give by itself. With `Accounting` it implies that
the counters stay within the limit (`WithinLimit`).

**Inventory** — one managed cluster. `agent` and `hub` are the add-on's
reporter and its ConfigMap: `Collect` lists the nodes and numbers a report,
`PushReport` is the `Update` that `RetryOnConflict` gets through, without a
look at the epoch it overwrites. `replica` is the poll loop of each
control-plane process, split where another process can come in between: the
list of clusters (and their generation), the read of the ConfigMap, and the
one transaction of `ObserveClusterHeartbeat` or `ReplaceClusterInventory`,
which locks the clusters row first. That transaction is `Replay`,
`GenerationConflict` (and one `ReloadGeneration`), `DropStaleReport`,
`RefreshObservation` or `ReplaceInventory`; the last one upserts the catalog
rows (`Upserted`), marks those of older generations (`MarkedStale`) and
recomputes every capacity pool (`Refreshed`). `ReadPoolInventory` and
`InsertPool` are the two statements of `CreateCapacityPool`; `CreatePlacement`
is the conditional update it ends in. The clock is a counter, for the fences
compare report times and the thresholds of `clusterstate` are durations.
`ObserveClusterHeartbeat` reads it when it has the row; `acceptMutation` reads
it before the transaction waits for the row, so `RefreshObservation` and
`ReplaceInventory` store a state evaluated for any moment since the replica got
what it submits (`since`, `StartedAt`).

**Ledger** — one project and one principal. `request`, `phase` and `answer`
are the requests in the order they arrive, how far the transaction of each is,
and what its client was told; a lost answer is `Failed` after the commit.
`HasKey` is the advisory lock on the idempotency key, `Replay` and `Conflict`
are `loadIdempotencyAcceptance`, and `Commit` writes the rows of the mutation,
its operation with outbox and audit rows, and the idempotency record. Between
them each mutation has one action per statement that others can interleave
with: the budget check under `FOR UPDATE`, the sum and the upsert of
`SetBudget`, the list and the insert of `CreateInvoice` (which waits, as a
unique constraint does, for another uncommitted invoice of the period).
`Rated` is `RateUsage` with `ceilRatInt64`: the exact fraction, rounded up,
with its overflow guard.

**Acceptance** — a request is sent, then answered once: with its own effect,
with an earlier effect of the same key and contents, with a conflict, or with
a failure. `Ledger!Promise` is the refinement mapping: an attempt took effect
when any of its rows exists (operation, ledger entry or invoice), so the
refinement also says that these rows appear together.

**AuditLog** — `now`, the time each transaction has read (`stamp`) and the
committed events. A mutation reads the clock once, inside its transaction, and
the row and its event carry that time; they show when it commits, later.
`Tick` leaves no transaction open longer than `LongestOpen`.

**AccessTokens** — `CreateAccessToken` with its own copy of the mutation
envelope and `RevokeAccessToken` inside `acceptMutation`: key lock (`HasKey`),
look-up (`Admit`, `Replay`, `Conflict`), the statement (`InsertToken`,
`UpdateToken` with its WHERE clause in `Hits` and PostgreSQL's row lock in
`RowLocked`), `Commit` with record and audit event, `Abort`. `Inspects` is
`InspectAccessToken`, a read of one row at any time.

**AuditArchive** — `StartScheduled` is `resolveMonth` without
`AUDIT_ARCHIVE_MONTH`, `StartExplicit` with it (any month, the running one too);
`Export`, `FindsSame`/`FindsOther`/`FindsNone`, `Put` and `Verify` are the steps
of `Archive`, `Fail` an error, the timeout or the end of the process between
any two of them, and a `Put` may succeed without its answer. `early` remembers
the months somebody asked for by name before they were old enough.

**Migrations** — one action per statement of `ApplyMigrations`: advisory lock
with its `lock_timeout`, `CREATE TABLE`, `ADD COLUMN`, per script the look-up,
the script, the row and the commit of its transaction, the `SET NOT NULL`, the
unlock. `Lose` ends a process whose session PostgreSQL still runs
(`SessionEnds`), `StatementFails` is any error, `Review` the manual review of
rows without a checksum that the error text asks for. A release is an image: a
function from versions to files.

**Bookings** — the order documents, the listings and, per resource, the holder
of its lock. A request is one handler, with one action for each call it awaits:
`Acquire` is `SET NX EX`, `Find` to `SaveListing` are the calls inside
`withResourceLock`, `Release` is the script that compares the token, `ReleaseFails` the
error that is logged and swallowed. `Lapse` is the end of the lock's time to
live at any moment, also under a handler that goes on; `lapsed` and `overrun`
remember where that happened. `ReturnOrder`, `CancelOrder` and
`ExpireDueOrders` take no lock: each is an update filtered by the status, so
that an order which has ended stays ended, and a second active order is kept out
by the unique index in `Insert`; both are part of what Rental asks of Leases.
Time is what is left of a lease (`left`); what passes between reading
the clock and the statement that uses it is not counted.

**Leases** — what follows the lock in `OrdersController.create`: `ChargeOrder`,
`CreateForOrder` and the compensation (`Undo`, `FindByOrder`, `UndoRefund`),
each of which may fail, with its effect or without, or die. A rigid `scenario`
gives the opening balance and what may happen to it. `Terminate`,
`Sweep` and `FindByOrder` are the ways into `terminateDocument`
(`SaveTerminated`, `ReturnTerminated`, `RefundTerminated`, document by document
as the sweep takes them). `work` holds the documents a handler has read; `Saved`
is Mongoose's `save()`, which writes the fields that were assigned and checks no
version, and `torn` remembers that a save went over a change made since the
read. `run` and `ran` are `runningSince` and `accumulatedRunSeconds` in units of
a lease, each of which costs one unit of the wallet.

**Rental** — orders, payments and repayments without handlers, locks or
documents: an order begins on a resource nobody rents, ends once, is paid at
most once and only after it began, and repaid at most once, only what was paid.
`Leases!Renting` maps the order documents and the billing entries to it
(`RentalKept`, which implies `RefundFollowsCharge`). It says nothing of
instances and of the balance: those are saved over each other, and what still
holds of them is stated in Leases.

## 3. Runs

| Run | Instance | What it shows |
|---|---|---|
| `outbox` | 2 replicas, 2 events, 2 attempts, 2 faults, fair | every settlement is earned by the latest claim; the outbox implements EventDelivery, liveness included (that a live claim is not taken, distinct claims, final rows and bounded attempts are proved, section 4) |
| `isolation` | two scenarios, 2 attempts and 1 fault each, fair: 1 replica with 2 quota updates and stalls; 2 replicas with 1 update and late PATCHes | with one replica a project shown as succeeded shows the quota of its ManifestWork, after all events are delivered the ManifestWork carries the current limit, and the last quota reaches the cluster or an event is dead-lettered (`Alone`); a delivered event's operation has succeeded (`Exclusive`); that a settled operation is final is proved |
| `workspace` | two scenarios, 2 attempts and 1 fault each, fair: 1 replica with a termination, a snapshot and stalls; 2 replicas with 1 change and late PATCHes | with one replica the same for workspaces and their snapshots (`Alone`); the row converges to the latest generation (`Exclusive`); a delivered snapshot is recorded (always); that the row never goes back is proved |
| `quota` | 2 open transactions, 2 reservations, 2 workspaces, 1-2 GPUs | counters equal rows; Quota implements Allocation: overlapping operations have the outcome of one after the other, within the limit; both are proved |
| `inventory` | 2 agents of either release that overlap (2 and 1 reports), 2 replicas, 2 nodes in one pool, profiles of 1 and 2 GPUs, times 0..2, 1 change, symmetric nodes and replicas; pools and the second agent exclude each other (`MCBound`) | the stored inventory moves forward in time, and the heartbeat but for one step of an upgrade; one agent's reports are stored in order and no fence or replay drops one that is newer than what is stored; the catalog rows are those of the stored report; a pool's total is that of the stored inventory and covers what is reserved |
| `ledger` | 3 requests, 2 symmetric keys, 7 bodies (three facts, a credit, a budget in either currency, an invoice), int64 cut to 0..7 | Ledger implements Acceptance; debits stay within a budget; invoices agree with the ledger and fit an int64; who cannot go on needs a lock of somebody further (that this orders all waiting is proved) |
| `migrations` | 2 jobs at a time, repeated without limit, 3 versions, 4 releases, 2 faults, fair | the history is the schema; what a successful job left stays; a script is applied only behind the earlier ones of its own release; a refusal is due; every job ends although a lost session may keep the lock for ever |
| `audit_trail` | 3 requests with 2 symmetric keys on the tokens of 2 workspaces, 2 symmetric archive runs, 1 month, times 0..3, transactions open for 1 moment | what clients were told of tokens stays true; token requests implement Acceptance; the object of a month holds every event of it, and the events account for the tokens |
| `leases` | 2 handlers and the sweep, 1 resource, 1 order of 1 unit, three scenarios: a crash or failed call; a top-up; listings that change and locks that lapse at any moment, with a wallet that cannot pay; fair | of two handlers in a section one has outlived its lock, and nothing but such a lock takes a resource offline under an order; a create that answers with an error has repaid its charge; what a terminated instance did not use comes back; the balance is the sum of its entries unless a top-up was torn; Leases implements Rental: refunds follow charges and stay within them, an order that ended stays ended (with one order, that a resource has one active order says nothing here: the proof is for any number); every lease ends, with its order terminal and no instance running; all but the last are proved, too |

Three runs end in a counterexample, each against a sentence or a test of the
repository (quoted in `PROJECT.json` under `findings`):

* `isolation_enforced`: `Applied`/`Available` are read without
  `observedGeneration`, so the conditions of the previous spec may complete
  the operation of the new one.
* `isolation_deadletter`: when the last attempt ends with its deadline,
  `FailSharedIsolation` runs with the expired context; the event is
  dead-lettered and the operation stays `running`.
* `workspace_converge`: with two replicas, a PATCH built from a row loaded
  before a termination may come last; every event is delivered, the row says
  terminated, the pod stays. A project's quota is exposed to the same order of
  steps, which is why `QuotaConverged` is stated for a single replica (`Alone`).

**Bounds.** Two replicas, two events and two attempts are the smallest numbers
at which a claim can be lost, taken over by somebody else and marked late, and
at which a retry differs from a terminal attempt; one fault on top of retries
reaches every error path, and the outbox is checked with two so that a late
mark can meet a reclaimed row. One change behind the creation event already
gives two concurrent generations; the `isolation` run has two so that an
update can arrive behind an update. Two holders of each kind and two open
transactions are what a lost update of a counter needs; limits 1, 2 and 4 make
both refusals happen. In `inventory` two agents, one with two reports, are
what reordering needs across and within epochs; two nodes tell apart a row
that is replaced from one that is marked stale, and a profile of two GPUs
beside one of one makes a pool's total round down. `MCBound` starts the second
agent only where there is no pool, and a pool only where there is one agent:
what a pool gets depends on the stored rows and not on who sent them, and no
fence looks at a pool. Three requests in `ledger` are an effect, a
repetition and a conflict of one key, or a budget and two facts that are each
within it and together beyond it, or a fact and two invoices of its period. The
amounts 4, 2 and 1 against the limit 5 and the int64 bound 7 make every
refusal happen, the numerator guard of `ceilRatInt64` included. Four releases
in `migrations` are the smallest set with an upgrade, a checkout with other
line endings, an edited script and a branch that lacks one; two jobs at a time
are all that one lock can order, and since an ended job starts again with any
release, any sequence of releases is reached. Three requests in `audit_trail`
are an issue and two revocations that overlap on its row, or an effect, a
repetition and a conflict; with one month between the times 1 and 2 an event is
before, in or after it, committed before or after its end. `MCBound` leaves out
only states in which three requests meet two archive runs. Two handlers in
`leases` are one that outlives its lock and its successor, which the first may
follow again if it released a lock that was not its own; or two saves over one
document, with the sweep as a third. One order, because its instance, its refund
and its entry in the wallet are touched by no other's; one unit, because a
refund of all or nothing tells a lease repaid twice from one repaid once. The
scenarios keep apart what is large together: a fault, a top-up, and locks that
lapse under their holders, which decide who reserves but nothing behind that.

**Fairness.** Weak fairness of each replica's claim, reconcile and mark steps:
`Run` polls for ever and `context.WithTimeout` ends every reconcile, so a live
replica never stays at a step. Weak fairness of back-off and lease expiry:
they are comparisons with the database clock. Weak fairness of the work agent:
it reconciles continuously. Nothing is assumed of users, faults, late requests
or failed statements. Deadlock checking is off where the system may come to
rest (all events settled, no user request left within the bounds, the clock at
its bound); Quota and Inventory are checked for deadlock. Migrations has weak
fairness of each living process's statements: `configureMigrationSession` sets
`lock_timeout` and `statement_timeout`, so none of them lasts for ever; nothing
is assumed of the end of a lost session. Requests of Ledger end, so it has
`NoStandstill` instead: a transaction can take a step other than to fail, or
needs a lock of one that is further. No liveness is claimed of Quota, Inventory,
Ledger or AuditTrail: their transactions end or are rolled back, and nothing must follow.
In Leases the two sweeps are fair, since `@Interval` fires for ever in every API
instance, and so is each living handler, since what it awaits answers or fails;
time passes. Nothing is assumed of users or of a handler that died. The run
rests when its one lease is over.

## 4. Proofs

`OutboxProofs` proves for any sets of runners and events and any bounds:
`TypeCorrect`, `DeliveryIsEarned`, `DeadLetterIsEarned`, `ClaimExclusion`,
`RetriesBounded`, `SettledForGood`, `ClaimIsKept` and `OutboxDelivers` (each
step of Outbox is a step of EventDelivery or a stutter). The only assumptions
are `OutboxAssumption`: the null values are not identities and MaxAttempts is
positive. None of the properties is inductive alone. The invariant `Inv` adds:
`RowsConsistent` (a row is leased exactly when held, a settled row is not),
`ClaimsCounted` (no claim in anybody's hands is newer than the row's
attempts), `ClaimsUnique` (a claim number is in one runner or one late
statement, and the number that settled its event in none), `ResultsRecorded`
(what a runner or a late statement will write agrees with what its reconcile
returned) and `BudgetKept` (attempts beyond the limit are paid for by faults,
with the latest claim counted as lost when nobody works on it).

`ReservationProofs` is about the two ways GPUs are reserved, which share
nothing. Of Quota it proves `TypeCorrect`, `CountersMatchRows`,
`LimitRespected`, `AllocationExact` (the clamp at zero of a workspace's quota
update never changes the result), `LifecycleRespected` and `QuotaIsSerial`
(`Spec => AllocationKept`) for any number of
clients, reservations and workspaces, under `QuotaAssumption`. The invariant `Inv` says
that each open transaction holds the lock of the row it decided from
(`RowsLocked`), that its two deltas are what its status change means
(`AllSound`), that an increase it is about to commit fits under the lock of the
quota row (`QuotaLocked`). Sums over rows are cardinalities of a set of
(row, unit) pairs, so a step adds or removes one row's units and no induction
over data is needed. For `QuotaIsSerial` only a commit and `SetQuota` are steps
of Allocation: what a commit writes was decided at the first statement, and
`AllSound` and `QuotaLocked` say that it is still allowed of the row and still
fits.

Of Leases it proves, for any handlers, resources, orders, lengths of a lease and
scenarios, `LeasesTypeCorrect`, all five invariants of the `leases` run
(`LockExcludes`, `ActiveIsListed`, `RefusalRepays`, `UnusedIsRepaid`,
`BalanceMatchesEntries`), that it implements Rental
(`LeasesRent`: `LeasesSpec => RentalKept`) and facts no run is spent on:
refunds follow charges (`RefundOfCharge`), a resource never has two active
orders (`ResourceRentedOnce`), an order moves
from active to one of its ends and stays there (`OrderLifecycle`), billing
entries, top-ups included, are never taken back (`SettledOnce`), and a
terminated instance comes back only by a save over a change made since the read
(`TerminatedForGood`). For the refinement, an insert begins a rental because the
order is the handler's own and the index lets no second one in, the ends of
orders and both sweeps end some (`EndsRental`), a charge pays an order that was
not paid, which `OrdersOwned` knows, and a refund repays a paid one, which
`Paying` knows after the step. The assumptions are `BookingsAssumption` and
`LeasesAssumption`: null values are not identities, a lease has a length, the
bounds are numbers. None of it is inductive alone. `LeasesInv` says what a
handler may still rely on behind each `await`:

* `Locking`: who is in a section holds the lock, or it lapsed there and that is
  on record (`SectionHeld`); what the section has looked at — the listing is
  online, no order is active — is still so, or a lock lapsed (`StillSo`). A
  second active order is excluded without any of that (`OneActiveOrder`).
* `OrdersOwned`: the order a handler is about to insert exists nowhere yet,
  and one it has inserted is charged by nobody else, so a charge is always of
  an order without one.
* `Paying`: work that supposes a charge was preceded by it (`WorkPaid`), an
  instance exists only of a charged order, and what a compensation has behind
  it when it is about to answer.
* `Provisioned`: an instance is inserted once, by the handler that was
  charged; who is about to start one has read it stopped, who is about to stop
  one has read it running. Otherwise a save could replace a terminated
  instance without a trace in `torn`.
* `RepaymentAwaited`: what a terminated instance did not use was repaid or
  some handler is at the refund with the same accumulated time (`Repays`),
  unless a fault or a torn save explains its absence. This is `UnusedComesBack`
  with the handlers in between.
* `Booked`: the balance is what the entries add up to. Its totals are
  cardinalities again (`charged`, and `Repaid`, the refunded units), so that
  "at most one refund of an order" is what a refund step needs.

Most steps concern one of these parts only. `Outside` (steps that leave locks,
listings and new orders alone), `Aside` (steps that leave money and instances
alone) and `Frame` (a handler changes nothing of another) are these three
frames, and each step is shown to be in one before an invariant is looked at.

`LedgerProofs` proves for any number of requests, keys, bodies and amounts:
`TypeCorrect`, `InvoicesCorrect`, `KeysTakeEffectOnce` (each step of Ledger is
a step of Acceptance or a stutter, so `Spec => AcceptanceKept`),
`BudgetRespected` and `LocksInOrder`. It assumes `LedgerAssumption` (the answers that are no
resources are not requests, bodies are of the four kinds, the price of a unit
is positive) and `RowAssumption` (an absent row is no row). The invariant has
three parts. `Envelope`: a key is in one open transaction and that transaction
found no record of it (`KeysHeld`); a record is the effect of a finished
request of its scope and body, and every effect has its record (`RecordsTrue`,
`EffectsRecorded`) — the commit of a second request with one key is excluded
only by all of these together. `Invoicing`: what an open invoice listed is
still in the ledger and adds up, and at most one invoice of a period is about
to be committed. `Budgeting`: who is about to debit, or to change the budget,
holds the row's lock (`LockHeld`), and what was within the budget at the check
still is (`Room`), because meanwhile only credits and unchecked facts can
commit. `LockOwned` (the lock of the budget row is with a transaction whose next
step is its end) orders all waiting by how far a transaction is, so that no
number of them can stand still; that one which needs no lock has a step is the
part of `NoStandstill` that only TLC checks. Totals are again cardinalities: `TotalAdds` and `TotalGrows` are the
only facts about them the rest needs.

`MigrationsProofs` proves `TypeCorrect`, `SchemaAndHistoryAgree`,
`RefusalsDue`, `SuccessKept` and `OneSourceOnly` for any number of jobs,
releases, versions and faults, under `MigrationsAssumption` (versions are
numbers, so that a release's scripts have a first one). The invariant says what
the position of a job in the script means while it holds the lock: who is
behind the lock statement holds it and nobody else does; the scripts it has
passed are in the history as in its own release; what its open transaction
holds is the effect, then effect and row, of the script it looked up as
missing; the table's shape only grows. A lost session is one more job that
holds the lock, which is why the lock and not the process is what the
invariant talks about.

`AuditTrailProofs` proves `TypeCorrect`, `AnswersKept`,
`TokensOnlyAdvance`, `TokenKeysTakeEffectOnce` (`Spec => AcceptanceKept`),
`ArchiveCorrect` and `ArchiveAccountsForTokens` for any number of requests,
keys, tokens and runs and any calendar. `TokensOnlyAdvance` is an action
theorem that no run checks: a step that changes a token's row commits the one
event of that change with it, and after its insertion a row is only ever
revoked, once. The assumptions of the module are `AuditLogAssumption`, `TokensAssumption`,
`TokenRowAssumption` (the answers that are no tokens and the absent rows are
distinct from the rest) and `ArchiveAssumption`, of which two parts are about
the deployment and not in the code: all processes share one clock, and a
transaction ends within `LongestOpen <= MinAge` of reading it
(`AUDIT_ARCHIVE_MIN_AGE` is what makes a month final only if this is so). The
invariant has three parts: `Envelope` and `Effects`, as for Ledger, with
`RowsHeld` (an open revocation that has hit a row is the only one of that
token, and the row is still as its WHERE clause asked); and `Archived`: a stamp
whose event is not visible yet is at most LongestOpen old (`StampsKept`), so no
event is still to come into a month that is old enough (`SettledUnchanged`),
so an export, an object and a repeated export of it are all the same set
(`ObjectsKept`, `RunsKept`).

`SharedIsolationProofs` and `WorkspaceProofs` prove every safety property the
two runs check, their type invariants, `SettledOperationIsFinal` and
`ObservedNeverRegresses`, for any replicas, changes, snapshots, attempts and faults. They
take what `OutboxProofs` proves by `INSTANCE`, since a reconcile here is one of
the reconciles Outbox leaves open: `NextOf(R, stalls)` is the outbox with the
replicas `R`, whose reconciles may meet a fault, and the lemmas next to it say
what a module may rely on — the invariant of Outbox (`NextOfInv`), that a runner
holds the latest claim of its event unless one of several replicas stalls
(`HeldStep`), and that an attempt is counted by a claim only, which has no
result yet (`RowStep`). On top of it stand, for SharedIsolation: the operation
of an event whose latest claim was reconciled has succeeded (`Recorded`, which
needs that the runner of an older claim is gone); with one replica, a
ManifestWork is touched only while the project does not show `succeeded`
(`SingleRunner`), a quota somebody loaded is the limit or the event of a later
one is still untried (`LoadedQuota`), so a project that does not show the limit
is owed a reconcile (`NothingForgotten`). For Workspace: one generation has one
desired state (`Generations`), a listed snapshot exists and a reconciled one is
recorded (`SnapshotsKnown`); unless the latest generation is provisioned, some
event is owed a reconcile whose runner, if it has one, has loaded that
generation or not loaded anything yet (`StatusOwed`); with one replica, what the
row shows and what its runner knows pin the ManifestWork down to the snapshots
still owed (`Accurate`, `RunnerKnows`). The assumptions are
`IsolationAssumption` and `WorkspaceAssumption` (the types of the constants),
`RunnersAssumption` (null values are not identities, at least one attempt) and
`ManifestsAssumption` (no ManifestWork is not a ManifestWork). `EventsAreDelivered`
of both modules carries `OutboxDelivers` over to the composition: whatever the
reconciler, the users and the cluster do in a step, the events see a step of
EventDelivery or nothing.

`InventoryProofs` proves `TypeCorrect` and the six properties of `inventory`
for any agents, nodes, pools, replicas, reports and times, under
`InventoryAssumption` (the types, finitely many nodes, a profile has a GPU, a cluster is degraded
before it is offline) and `ReportAssumption` (a report is not the null value).
The invariant: `Numbering` — each number an agent gave belongs to one
observation, in the order of observation, wherever the report is now (on the
hub, in a replica, in the catalog), and an agent sends either heartbeats or
inventories; `Stored` — once a replacement is stored, every report of its epoch
with its number or a lower one is obsolete, and while a detailed agent was the
last to report, the time of the inventory is that of the heartbeat, so that the
fence by number and the fence by time agree; `Rows` and `Pools` — no row and no
total somebody is about to insert is of a later generation than the cluster's,
and a total of the current one is what the stored contents say.

Model-checked only: liveness (`DeliverySpec`'s fairness part,
`QuotaReachesCluster`, `DesiredReachesCluster`, `EveryJobEnds`, `LeasesEnd`) and
the ENABLED in `NoStandstill` — both out of the prover's reach — and
the three counterexamples.

## 5. What the models found beside the counterexamples

Behaviours the models reach and no property forbids; each follows from the
lines named (under `apps/control-plane/internal` unless said).

* `docs/architecture.md:121-122` and `docs/control-plane-v2.md:110` say that
  disconnected clusters receive no placement; `CreatePlacement`
  (`storage/postgres/placement.go:40`) looks at pools only and reads neither
  `schedulable` nor `connection_state`. These are evaluated when a report is
  written (`storage/postgres/catalog.go:251`) and stay as they were when reports
  stop, so the modules state no property of them.
* `ReplaceClusterInventory` compares a report with `last_inventory_at` only
  (`storage/postgres/catalog.go:174`), so an inventory may move
  `last_heartbeat_at` back. `HeartbeatMovesForward` shows the one step where
  it does: from the heartbeats of the previous release to an inventory.
* `CreateCapacityPool` inserts a total it computed before: a replacement in
  between leaves it stale until the next one.
* Two profiles over one node pool count the same GPUs.
* `SetBudget` sums without a lock (`storage/postgres/budgets.go:37`): a fact
  that commits meanwhile leaves a limit below the usage. A fact that found no
  budget row is not checked, also when the first budget commits before it does.
* Only an identical period is refused (`storage/postgres/billing.go:75`):
  overlapping periods bill a fact twice, and a fact recorded after its period
  was invoiced is not billed by that period.
* Operations that are not completed in their own transaction stay `queued`:
  only shared isolation moves them on (`storage/postgres/tenancy.go:492`).
* A reservation's `expires_at` is stored and compared by nothing: it holds its
  GPUs until somebody calls expire (`storage/postgres/tenancy.go:395`).
* `AUDIT_ARCHIVE_MONTH` accepts the running month (`auditarchive/config.go:88`):
  the object then misses the rest of the month, and every later run of it ends
  in a conflict.
* A repeated issue returns the stored response, also when the token has expired
  or was revoked meanwhile (`storage/postgres/workspace.go:303`).
* `CompleteWorkspace` (`storage/postgres/workspace.go:193`) marks every pending
  snapshot as succeeded, also one accepted after the reconcile listed them, which
  `docs/control-plane-v2.md:91` says of a completed snapshot event only; its own
  event puts it into the ManifestWork later.
* `ceilRatInt64` (`billing/fixed.go:102`) refuses a fraction with a numerator
  of more than 62 bits although the amount would fit.

And of the reference API (under `apps/api/src`):

* `start` and `stop` look at the status, then save
  (`instances/instances.service.ts:138` and `:158`), although "a terminal
  instance cannot change status" (`:261`): a termination in between is undone,
  after its refund, and the instance is `running` or `stopped` again until the
  sweep ends it.
* `topUp` reads, adds and saves (`cloud-accounts/cloud-accounts.service.ts:65`):
  a charge or a refund in between is lost from the balance, though its entry
  stays.
* `terminateDocument` saves before it refunds
  (`instances/instances.service.ts:211`): after a crash in between, the sweep
  finds nothing to do, and only another terminate by the owner repays.
* A charge whose answer was lost counts as none
  (`orders/orders.controller.ts:52`), and a compensation whose order was ended
  by somebody else throws before it refunds: neither is repaid by the create.
* `createForOrder` does not look at the order again
  (`orders/orders.controller.ts:48`): one that was returned or cancelled
  meanwhile gets an instance that runs until its lease is over.
* A lock that lapses inside its section lets a resource go offline under an
  active order (`redis/distributed-lock.service.ts:45`); a second active order
  is kept out by the unique index alone.

## 6. Not modelled, and the plan

Not modelled: HTTP decoding, validation and authorisation (stateless), the
wiring of the process, the single inserts of tenants, projects and role
bindings, and the web console. The texts of conditions, messages
and manifests are abstracted to what the properties tell apart.

Left out of the modules: an administrator's own `PUT` of an inventory, clock
skew between agents, the creation of profiles, more than one cluster
(Inventory); more than one project or principal, and `expires_at` of the
idempotency records, which no code sweeps or compares (Ledger); a second
currency of facts, because `cmd/control-plane/main.go:45` configures one rate.

Left out of Migrations and AuditTrail: down scripts, which `ApplyMigrations`
never runs; the retention and the version
history of objects, which the store keeps; audit events of other mutations,
whose transactions commit them in the same way.

Left out of Bookings and Leases: users, sessions and teams with their project
bookings; keys, firewall rules, volumes, snapshots and notifications, which are
arrays of the account document and touch no order; several resources, leases or
wallets in one run; two sweeps of one process that overlap.

Left for later: the inserts of tenants, projects and role bindings in the
envelope of Ledger, and an administrator's inventory in Inventory.
