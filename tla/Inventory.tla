------------------------------ MODULE Inventory ------------------------------
(***************************************************************************)
(* The inventory of one managed cluster, from its add-on agents to the     *)
(* capacity a placement may reserve.                                       *)
(*                                                                         *)
(* An agent process (one epoch) lists the nodes and writes a report into a *)
(* ConfigMap on the hub.  Every control-plane replica polls the ConfigMap  *)
(* and writes what it read into the database: a report without node pools, *)
(* from an agent of the previous release, as a heartbeat, any other as the *)
(* cluster's inventory.  The database transactions lock the clusters row   *)
(* first, so each is one action; what happens between the read of a        *)
(* report and its transaction is not atomic, and two agents overlap while  *)
(* the add-on is rolled out.                                               *)
(***************************************************************************)
EXTENDS Integers, FiniteSets

CONSTANTS
    Epochs,         \* agent processes
    Replicas,       \* control-plane processes that poll
    Nodes,          \* nodes of the managed cluster
    NodePools,      \* its node pools
    PoolOf,         \* the node pool each node is labelled with
    Profiles,       \* accelerator profiles
    GPUCount,       \* whole GPUs of one unit of each profile
    None,           \* a column, a ConfigMap or a table row is absent
    DegradedAfter,  \* clusterstate thresholds, in ticks of the clock
    OfflineAfter,
    MaxTime,        \* bound: ticks of the clock
    MaxReports,     \* bound: reports of each agent
    MaxChanges      \* bound: changes of the managed cluster

ASSUME InventoryAssumption ==
    /\ IsFiniteSet(Nodes)
    /\ PoolOf \in [Nodes -> NodePools]
    /\ GPUCount \in [Profiles -> Nat \ {0}]
    /\ {DegradedAfter, OfflineAfter, MaxTime, MaxChanges} \subseteq Nat
    /\ MaxReports \in [Epochs -> Nat]
    /\ DegradedAfter < OfflineAfter
    /\ None \notin Epochs \cup Nat

VARIABLES
    now,       \* the clock
    physical,  \* the nodes as they are, and how often they may still change
    agent,     \* the agent processes
    hub,       \* the report in the ConfigMap
    replica,   \* the poll loop of each replica
    cluster,   \* the clusters row
    facts,     \* node_pools, nodes and gpu_devices rows
    replaced,  \* idempotency records of inventory replacements
    capacity,  \* capacity_pools rows, with the generation of their total
    creating   \* CreateCapacityPool transactions that read but did not insert yet

vars == <<now, physical, agent, hub, replica, cluster, facts, replaced,
          capacity, creating>>

reporting == <<now, physical, agent, hub>>

catalog == <<cluster, facts, replaced>>

-----------------------------------------------------------------------------
(* Types *)

\* A node the agent lists: usable with its GPU; healthy without GPU labels; not
\* healthy (or cordoned); or not in the list.
NodeState == {"ready", "bare", "failed", "absent"}

Health == {"healthy", "failed", "unreachable"}

Contents == [Nodes -> NodeState]

Time == 0..MaxTime

Sequence == {0} \cup UNION {0..MaxReports[e] : e \in Epochs}

\* A legacy report has no node pools: contents is None.
Report == [epoch : Epochs, sequence : Sequence, observedAt : Time,
           contents : Contents \cup {None}]

Generation == Nat

ASSUME ReportAssumption ==
    None \notin Report \cup Contents

TypeOK ==
    /\ now \in Time
    /\ physical \in [nodes : Contents, changes : 0..MaxChanges]
    /\ agent \in [Epochs -> [phase : {"new", "idle", "report"}, detailed : BOOLEAN,
                             sequence : Sequence, observedAt : Time \cup {None},
                             report : Report \cup {None}]]
    /\ hub \in Report \cup {None}
    /\ replica \in [Replicas -> [phase : {"idle", "listed", "read", "conflict", "retry"},
                                 generation : Generation, report : Report \cup {None},
                                 since : Time]]
    /\ cluster \in [epoch : Epochs \cup {None}, sequence : Sequence, generation : Generation,
                    source : Contents \cup {None}, heartbeatAt : Time \cup {None},
                    inventoryAt : Time \cup {None}, state : {"connected", "degraded", "offline"},
                    schedulable : BOOLEAN]
    /\ facts \in [node : [Nodes -> [seen : Generation, health : Health]],
                  device : [Nodes -> [seen : Generation, allocatable : BOOLEAN]],
                  pool : [NodePools -> [seen : Generation, enabled : BOOLEAN]]]
    /\ replaced \subseteq Epochs \X Sequence
    /\ capacity \in [NodePools \X Profiles ->
                       [total : Nat, reserved : Nat, asOf : Generation] \cup {None}]
    /\ creating \in [NodePools \X Profiles -> [total : Nat, asOf : Generation] \cup {None}]

\* A replica between two polls; since is when it got what it submits.
Resting == [phase |-> "idle", generation |-> 0, report |-> None, since |-> 0]

Init ==
    /\ now = 0
    /\ physical = [nodes |-> [n \in Nodes |-> "ready"], changes |-> MaxChanges]
    /\ agent = [e \in Epochs |-> [phase |-> "new", detailed |-> TRUE, sequence |-> 0,
                                  observedAt |-> None, report |-> None]]
    /\ hub = None
    /\ replica = [r \in Replicas |-> Resting]
    /\ cluster = [epoch |-> None, sequence |-> 0, generation |-> 0, source |-> None,
                  heartbeatAt |-> None, inventoryAt |-> None, state |-> "offline",
                  schedulable |-> FALSE]
    /\ facts = [node |-> [n \in Nodes |-> [seen |-> 0, health |-> "unreachable"]],
                device |-> [n \in Nodes |-> [seen |-> 0, allocatable |-> FALSE]],
                pool |-> [p \in NodePools |-> [seen |-> 0, enabled |-> FALSE]]]
    /\ replaced = {}
    /\ capacity = [c \in NodePools \X Profiles |-> None]
    /\ creating = [c \in NodePools \X Profiles |-> None]

-----------------------------------------------------------------------------
(* The managed cluster and its agents *)

Tick ==
    /\ now < MaxTime
    /\ now' = now + 1
    /\ UNCHANGED <<physical, agent, hub, replica, catalog, capacity, creating>>

NodeChanges(n, s) ==
    /\ physical.changes > 0
    /\ s # physical.nodes[n]
    /\ physical' = [nodes |-> [physical.nodes EXCEPT ![n] = s], changes |-> physical.changes - 1]
    /\ UNCHANGED <<now, agent, hub, replica, catalog, capacity, creating>>

\* A process starts with a new epoch; the rolling update starts it before its
\* predecessor ends.  A process that ends takes no further step.
StartAgent(e, detailed) ==
    /\ agent[e].phase = "new"
    /\ agent' = [agent EXCEPT ![e].phase = "idle", ![e].detailed = detailed]
    /\ UNCHANGED <<now, physical, hub, replica, catalog, capacity, creating>>

\* One tick of the reporter: list the nodes, build the report, number it.
Collect(e) ==
    LET a == agent[e] IN
    /\ a.phase \in {"idle", "report"}
    /\ a.sequence < MaxReports[e]
    /\ a.observedAt # None => a.observedAt < now
    /\ agent' = [agent EXCEPT ![e].phase = "report", ![e].sequence = @ + 1, ![e].observedAt = now,
                   ![e].report = [epoch |-> e, sequence |-> a.sequence + 1, observedAt |-> now,
                                  contents |-> IF a.detailed THEN physical.nodes ELSE None]]
    /\ UNCHANGED <<now, physical, hub, replica, catalog, capacity, creating>>

\* Get and Update of the ConfigMap, with RetryOnConflict: whatever was written
\* in between is read again and overwritten, without a look at its epoch, so
\* the report replaces the stored one at the moment an Update succeeds.  A
\* report that no Update stores is dropped with the next tick.
PushReport(e) ==
    /\ agent[e].phase = "report"
    /\ hub' = agent[e].report
    /\ agent' = [agent EXCEPT ![e].phase = "idle", ![e].report = None]
    /\ UNCHANGED <<now, physical, replica, catalog, capacity, creating>>

-----------------------------------------------------------------------------
(* Fences and state of the clusters row *)

\* Mutant of Superseded: the epoch is ignored.
SupersededByNumber(report) == report.sequence <= cluster.sequence

\* The sequence number orders reports of the epoch that reported last.
Superseded(report) ==
    cluster.epoch = report.epoch /\ report.sequence <= cluster.sequence

\* Mutant of StaleHeartbeat: no comparison of times.
StaleHeartbeatByNumber(report) == Superseded(report)

StaleHeartbeat(report) ==
    \/ Superseded(report)
    \/ cluster.heartbeatAt # None /\ report.observedAt < cluster.heartbeatAt

\* Mutants of StaleInventory: no comparison of times; only within an epoch.
StaleInventoryByNumber(report) == Superseded(report)

StaleInventoryOfAgent(report) ==
    cluster.epoch = report.epoch /\
      (report.sequence <= cluster.sequence \/ report.observedAt < cluster.inventoryAt)

StaleInventory(report) ==
    \/ Superseded(report)
    \/ cluster.inventoryAt # None /\ report.observedAt < cluster.inventoryAt

Within(time, threshold, at) == time # None /\ at - time <= threshold

ConnectionState(heartbeatAt, at) ==
    IF ~Within(heartbeatAt, OfflineAfter, at) THEN "offline"
    ELSE IF ~Within(heartbeatAt, DegradedAfter, at) THEN "degraded" ELSE "connected"

\* Evaluate for an enabled cluster whose report is healthy and not fenced, the
\* only reports an agent makes.
Schedulable(heartbeatAt, inventoryAt, at) ==
    ConnectionState(heartbeatAt, at) = "connected" /\ Within(inventoryAt, DegradedAfter, at)

\* What either transaction writes into the clusters row; the state is
\* evaluated for the time it was given and stored.
Observed(report, inventoryAt, at) ==
    [cluster EXCEPT !.epoch = report.epoch, !.sequence = report.sequence,
                    !.heartbeatAt = report.observedAt, !.inventoryAt = inventoryAt,
                    !.state = ConnectionState(report.observedAt, at),
                    !.schedulable = Schedulable(report.observedAt, inventoryAt, at)]

-----------------------------------------------------------------------------
(* What a replacement makes of the catalog *)

HealthOf(s) == IF s = "failed" THEN "failed" ELSE "healthy"

Present(report, p) == \E n \in Nodes : PoolOf[n] = p /\ report.contents[n] # "absent"

\* The upserts of everything the report contains.
Upserted(report, g) ==
    [node |-> [n \in Nodes |->
                 IF report.contents[n] = "absent" THEN facts.node[n]
                 ELSE [seen |-> g, health |-> HealthOf(report.contents[n])]],
     device |-> [n \in Nodes |->
                   IF report.contents[n] \in {"absent", "bare"} THEN facts.device[n]
                   ELSE [seen |-> g, allocatable |-> report.contents[n] = "ready"]],
     pool |-> [p \in NodePools |->
                 IF Present(report, p) THEN [seen |-> g, enabled |-> TRUE] ELSE facts.pool[p]]]

\* Mutant of MarkedStale: only the nodes are marked.
MarkedStaleNodes(f, g) ==
    [f EXCEPT !.node = [n \in Nodes |-> IF f.node[n].seen < g
                                          THEN [f.node[n] EXCEPT !.health = "unreachable"]
                                          ELSE f.node[n]]]

\* markStaleCatalogResources: rows last seen in an older generation.
MarkedStale(f, g) ==
    [node |-> [n \in Nodes |->
                 IF f.node[n].seen < g THEN [f.node[n] EXCEPT !.health = "unreachable"] ELSE f.node[n]],
     device |-> [n \in Nodes |->
                   IF f.device[n].seen < g THEN [f.device[n] EXCEPT !.allocatable = FALSE]
                   ELSE f.device[n]],
     pool |-> [p \in NodePools |->
                 IF f.pool[p].seen < g THEN [f.pool[p] EXCEPT !.enabled = FALSE] ELSE f.pool[p]]]

\* The GPUs of a node pool that count as inventory.
PoolTotal(f, p) ==
    Cardinality({n \in Nodes : /\ PoolOf[n] = p
                               /\ f.device[n].allocatable
                               /\ f.node[n].health = "healthy"
                               /\ f.pool[p].enabled})

Units(f, c) == PoolTotal(f, c[1]) \div GPUCount[c[2]]

\* Mutant of AtLeast: what is reserved is ignored.
AtLeastReported(a, b) == a

AtLeast(a, b) == IF a >= b THEN a ELSE b

\* The last statement of refreshCatalogInventories, on the rows it sees.
Refreshed(f, g) ==
    [c \in DOMAIN capacity |->
       IF capacity[c] = None THEN None
       ELSE [capacity[c] EXCEPT !.total = AtLeast(Units(f, c), capacity[c].reserved),
                                !.asOf = g]]

-----------------------------------------------------------------------------
(* The poll loop of a replica *)

Finish(r) ==
    replica' = [replica EXCEPT ![r] = Resting]

ListClusters(r) ==
    /\ replica[r].phase = "idle"
    /\ replica' = [replica EXCEPT ![r].phase = "listed", ![r].generation = cluster.generation]
    /\ UNCHANGED <<reporting, catalog, capacity, creating>>

ReadInventory(r) ==
    /\ replica[r].phase = "listed"
    /\ IF hub = None
         THEN Finish(r)
         ELSE replica' = [replica EXCEPT ![r].phase = "read", ![r].report = hub,
                                       ![r].since = now]
    /\ UNCHANGED <<reporting, catalog, capacity, creating>>

\* ObserveClusterHeartbeat, for a report without node pools; it reads the clock
\* when it has the row.
ObserveHeartbeat(r) ==
    LET report == replica[r].report IN
    /\ replica[r].phase = "read" /\ report.contents = None
    /\ cluster' = IF StaleHeartbeat(report) THEN cluster ELSE Observed(report, cluster.inventoryAt, now)
    /\ Finish(r)
    /\ UNCHANGED <<reporting, facts, replaced, capacity, creating>>

\* A replica is about to run ReplaceClusterInventory.
Replaces(r) ==
    \/ replica[r].phase = "retry"
    \/ replica[r].phase = "read" /\ replica[r].report.contents # None

Identity(report) == <<report.epoch, report.sequence>>

\* The idempotency record of the report exists: its acceptance is returned.
Replay(r) ==
    /\ Replaces(r)
    /\ Identity(replica[r].report) \in replaced
    /\ Finish(r)
    /\ UNCHANGED <<reporting, catalog, capacity, creating>>

\* The first conflict is retried, the second one is an error.
GenerationConflict(r) ==
    /\ Replaces(r)
    /\ Identity(replica[r].report) \notin replaced
    /\ replica[r].generation # cluster.generation
    /\ IF replica[r].phase = "read"
         THEN replica' = [replica EXCEPT ![r].phase = "conflict"]
         ELSE Finish(r)
    /\ UNCHANGED <<reporting, catalog, capacity, creating>>

ReloadGeneration(r) ==
    /\ replica[r].phase = "conflict"
    /\ replica' = [replica EXCEPT ![r].phase = "retry", ![r].generation = cluster.generation,
                               ![r].since = now]
    /\ UNCHANGED <<reporting, catalog, capacity, creating>>

\* The transaction gets to the fences.
Admitted(r) ==
    /\ Replaces(r)
    /\ Identity(replica[r].report) \notin replaced
    /\ replica[r].generation = cluster.generation

DropStaleReport(r) ==
    /\ Admitted(r)
    /\ StaleInventory(replica[r].report)
    /\ Finish(r)
    /\ UNCHANGED <<reporting, catalog, capacity, creating>>

\* acceptMutation reads the clock once it has the lock of the key, before the
\* transaction waits for the clusters row.
StartedAt(r) == {t \in Time : replica[r].since <= t /\ t <= now}

\* The source generation is the digest of the contents, hence the contents.
Unchanged(report) == cluster.source = report.contents

RefreshObservation(r) ==
    LET report == replica[r].report IN
    /\ Admitted(r)
    /\ ~StaleInventory(report)
    /\ Unchanged(report)
    /\ \E at \in StartedAt(r) : cluster' = Observed(report, report.observedAt, at)
    /\ replaced' = replaced \cup {Identity(report)}
    /\ Finish(r)
    /\ UNCHANGED <<reporting, facts, capacity, creating>>

ReplaceInventory(r) ==
    LET report == replica[r].report
        generation == cluster.generation + 1
        stored == MarkedStale(Upserted(report, generation), generation)
    IN
    /\ Admitted(r)
    /\ ~StaleInventory(report)
    /\ ~Unchanged(report)
    /\ facts' = stored
    /\ capacity' = Refreshed(stored, generation)
    /\ \E at \in StartedAt(r) :
         cluster' = [Observed(report, report.observedAt, at) EXCEPT !.generation = generation,
                                                                   !.source = report.contents]
    /\ replaced' = replaced \cup {Identity(report)}
    /\ Finish(r)
    /\ UNCHANGED <<reporting, creating>>

\* A read or a statement fails, or the deadline of the synchronisation ends:
\* logged, and the next poll starts over.
SyncFails(r) ==
    /\ replica[r].phase # "idle"
    /\ Finish(r)
    /\ UNCHANGED <<reporting, catalog, capacity, creating>>

SyncStep(r) ==
    \/ ListClusters(r) \/ ReadInventory(r) \/ ObserveHeartbeat(r)
    \/ Replay(r) \/ GenerationConflict(r) \/ ReloadGeneration(r)
    \/ DropStaleReport(r) \/ RefreshObservation(r) \/ ReplaceInventory(r)

-----------------------------------------------------------------------------
(* Capacity pools and placements *)

\* CreateCapacityPool computes the total from the inventory it reads, without
\* a lock; asOf is the generation it read (history) ...
ReadPoolInventory(c) ==
    /\ facts.pool[c[1]].seen > 0
    /\ capacity[c] = None /\ creating[c] = None
    /\ creating' = [creating EXCEPT ![c] = [total |-> Units(facts, c), asOf |-> cluster.generation]]
    /\ UNCHANGED <<reporting, replica, catalog, capacity>>

\* ... and inserts the row in a later statement.
InsertPool(c) ==
    /\ creating[c] # None
    /\ capacity' = [capacity EXCEPT ![c] = [total |-> creating[c].total, reserved |-> 0,
                                            asOf |-> creating[c].asOf]]
    /\ creating' = [creating EXCEPT ![c] = None]
    /\ UNCHANGED <<reporting, replica, catalog>>

Available(c) == capacity[c].total - capacity[c].reserved

\* CreatePlacement takes an enabled pool with enough left that nobody locks.
CreatePlacement(c, quantity) ==
    /\ capacity[c] # None
    /\ Available(c) >= quantity
    /\ capacity' = [capacity EXCEPT ![c].reserved = @ + quantity]
    /\ UNCHANGED <<reporting, replica, catalog, creating>>

-----------------------------------------------------------------------------
(* Specification *)

Next ==
    \/ Tick
    \/ \E n \in Nodes, s \in NodeState : NodeChanges(n, s)
    \/ \E e \in Epochs :
         \/ \E d \in BOOLEAN : StartAgent(e, d)
         \/ Collect(e) \/ PushReport(e)
    \/ \E r \in Replicas : SyncStep(r) \/ SyncFails(r)
    \/ \E c \in NodePools \X Profiles :
         \/ ReadPoolInventory(c) \/ InsertPool(c)
         \/ \E q \in 1..Cardinality(Nodes) : CreatePlacement(c, q)

Spec == Init /\ [][Next]_vars

-----------------------------------------------------------------------------
(* Properties *)

\* The rows are what the last replaced contents say: resources it omits are
\* out of the schedulable inventory and nothing survives from older reports,
\* although reports with unchanged contents do not touch the rows.
CatalogIsSource ==
    cluster.source # None =>
      \A n \in Nodes :
        /\ (facts.node[n].health = "healthy") <=> (cluster.source[n] \in {"ready", "bare"})
        /\ (facts.device[n].allocatable) <=> (cluster.source[n] = "ready")
        /\ (\A m \in Nodes : PoolOf[m] = PoolOf[n] => cluster.source[m] = "absent")
             <=> ~facts.pool[PoolOf[n]].enabled

\* A pool whose total was derived from the stored inventory has exactly that
\* total, or what is reserved when GPUs went away; placements never exceed it.
\* (A pool created while a replacement commits keeps the older total until
\* the contents change again.)
CapacityMatchesInventory ==
    \A c \in DOMAIN capacity :
      capacity[c] # None =>
        /\ capacity[c].reserved <= capacity[c].total
        /\ capacity[c].asOf = cluster.generation =>
             capacity[c].total = AtLeast(Units(facts, c), capacity[c].reserved)

\* Whatever replicas and overlapping agents do, the inventory only moves to
\* reports observed later.
InventoryMovesForward ==
    [][cluster.inventoryAt # None =>
         cluster'.inventoryAt # None /\ cluster'.inventoryAt >= cluster.inventoryAt]_vars

\* Nor does the heartbeat, from which the state of the cluster is evaluated,
\* go back, whichever of two overlapping agents is late.  Only the first inventory after heartbeats of an agent of the
\* previous release may: a replacement compares its time with the inventory's.
HeartbeatMovesForward ==
    [][cluster.heartbeatAt # None /\ cluster'.heartbeatAt # cluster.heartbeatAt =>
         \/ cluster'.heartbeatAt # None /\ cluster'.heartbeatAt > cluster.heartbeatAt
         \/ \A d, e \in Epochs : cluster.epoch = d /\ cluster'.epoch = e =>
              ~agent[d].detailed /\ agent[e].detailed]_vars

\* Reports of one agent are stored in order and at most once each, although
\* every replica submits each of them again with every poll and another agent
\* may have reported in between.
ReportsStoredInOrder ==
    [][\A e \in Epochs : \A s, t \in Sequence :
         <<e, s>> \in replaced' \ replaced /\ <<e, t>> \in replaced => t < s]_vars

\* A report that a replica is done with has been stored or is obsolete: no
\* fence and no replay drops something newer than what the catalog then holds.
\* (A report given up after a failure or a second conflict is read again with
\* the next poll.)
NothingNewerIsDropped ==
    [][\A r \in Replicas :
         LET report == replica[r].report IN
         /\ ObserveHeartbeat(r) =>
              cluster'.heartbeatAt # None /\ cluster'.heartbeatAt >= report.observedAt
         /\ Replay(r) \/ DropStaleReport(r) \/ RefreshObservation(r) \/ ReplaceInventory(r) =>
              cluster'.inventoryAt # None /\ cluster'.inventoryAt >= report.observedAt]_vars

=============================================================================
