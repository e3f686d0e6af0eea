--------------------------- MODULE InventoryProofs ---------------------------
(***************************************************************************)
(* The safety properties of Inventory for any number of agents, replicas,  *)
(* nodes, pools and profiles and every threshold.  The inductive invariant *)
(* relates every number an agent gave a report to the time it observed it  *)
(* (Numbering), what the catalog has stored to those numbers (Stored), and *)
(* every derived row to the generation it was derived from (Rows, Pools).  *)
(***************************************************************************)
EXTENDS Inventory, FiniteSetTheorems, TLAPS

-----------------------------------------------------------------------------
(* The invariant *)

\* A replica that is past the read has a report, one with contents when it
\* retries a replacement.
Polling ==
    \A r \in Replicas :
        /\ replica[r].phase \in {"read", "conflict", "retry"} => replica[r].report \in Report
        /\ replica[r].phase \in {"conflict", "retry"} => replica[r].report.contents # None

\* The reports that an agent, the hub or a replica holds.
InFlight ==
    {x \in {hub} \cup {replica[r].report : r \in Replicas} \cup {agent[e].report : e \in Epochs} :
       x # None}

\* The numbers in use, each with its agent and the time of the observation.
Marks ==
    {<<x.epoch, x.sequence, x.observedAt>> : x \in InFlight}
      \cup {<<e, agent[e].sequence, agent[e].observedAt>> :
              e \in {d \in Epochs : agent[d].sequence > 0}}
      \cup {<<e, cluster.sequence, cluster.heartbeatAt>> :
              e \in {d \in Epochs : cluster.epoch = d}}

\* Agents number what they observe in the order of time ...
Ordered ==
    \A m, k \in Marks : m[1] = k[1] =>
        /\ m[2] < k[2] => m[3] < k[3]
        /\ m[2] = k[2] => m[3] = k[3]

\* ... and each report came from an agent, of one release, that started.
Numbering ==
    /\ \A e \in Epochs :
         /\ agent[e].phase = "new" => agent[e].sequence = 0
         /\ agent[e].phase = "report" => agent[e].report # None
         /\ agent[e].sequence > 0 => agent[e].observedAt \in Time
    /\ \A m \in Marks : m[2] >= 1 /\ m[2] <= agent[m[1]].sequence /\ m[3] \in Time
    /\ Ordered
    /\ \A x \in InFlight : agent[x.epoch].detailed <=> x.contents # None

\* The clusters row is what the last report made of it; a stored replacement
\* makes every report with its number or a lower one obsolete.
Stored ==
    /\ \A e \in Epochs : cluster.epoch = e /\ agent[e].detailed =>
         cluster.inventoryAt # None /\ cluster.inventoryAt = cluster.heartbeatAt
    /\ \A e \in Epochs, t \in Sequence : <<e, t>> \in replaced =>
         /\ cluster.inventoryAt # None
         /\ t <= agent[e].sequence
         /\ \A m \in Marks : m[1] = e =>
              /\ m[2] <= t => m[3] <= cluster.inventoryAt
              /\ m[2] < t => m[3] < cluster.inventoryAt

\* No row was seen in a generation that is still to come.
Rows ==
    /\ \A n \in Nodes : facts.node[n].seen <= cluster.generation
    /\ \A n \in Nodes : facts.device[n].seen <= cluster.generation
    /\ \A p \in NodePools : facts.pool[p].seen <= cluster.generation

\* A total about to be inserted is that of the generation it was read in.
Pools ==
    \A c \in NodePools \X Profiles :
        /\ capacity[c] # None => capacity[c].asOf <= cluster.generation
        /\ creating[c] # None =>
             /\ creating[c].asOf <= cluster.generation
             /\ creating[c].asOf = cluster.generation => creating[c].total = Units(facts, c)

Catalog == Rows /\ CatalogIsSource /\ Pools /\ CapacityMatchesInventory

IInv == TypeOK /\ Polling /\ Numbering /\ Stored /\ Catalog

-----------------------------------------------------------------------------
(* Types *)

AgentRow == [phase : {"new", "idle", "report"}, detailed : BOOLEAN, sequence : Sequence,
             observedAt : Time \cup {None}, report : Report \cup {None}]

ReplicaRow == [phase : {"idle", "listed", "read", "conflict", "retry"},
               generation : Generation, report : Report \cup {None}, since : Time]

ClusterRow == [epoch : Epochs \cup {None}, sequence : Sequence, generation : Generation,
               source : Contents \cup {None}, heartbeatAt : Time \cup {None},
               inventoryAt : Time \cup {None}, state : {"connected", "degraded", "offline"},
               schedulable : BOOLEAN]

NodeRow == [seen : Generation, health : Health]

DeviceRow == [seen : Generation, allocatable : BOOLEAN]

PoolRow == [seen : Generation, enabled : BOOLEAN]

FactRows == [node : [Nodes -> NodeRow], device : [Nodes -> DeviceRow],
             pool : [NodePools -> PoolRow]]

CapacityRow == [total : Nat, reserved : Nat, asOf : Generation]

CreatingRow == [total : Nat, asOf : Generation]

LEMMA Typed ==
    TypeOK <=>
      /\ now \in Time
      /\ physical \in [nodes : Contents, changes : 0..MaxChanges]
      /\ agent \in [Epochs -> AgentRow]
      /\ hub \in Report \cup {None}
      /\ replica \in [Replicas -> ReplicaRow]
      /\ cluster \in ClusterRow
      /\ facts \in FactRows
      /\ replaced \subseteq Epochs \X Sequence
      /\ capacity \in [NodePools \X Profiles -> CapacityRow \cup {None}]
      /\ creating \in [NodePools \X Profiles -> CreatingRow \cup {None}]
<1> QED
  BY DEF TypeOK, AgentRow, ReplicaRow, ClusterRow, NodeRow, DeviceRow, PoolRow, FactRows,
         CapacityRow, CreatingRow

\* Numbers and times are naturals, and a report can number one more than its
\* agent has while the bound allows it.
LEMMA Numbers ==
    /\ Sequence \subseteq Nat
    /\ Time \subseteq Nat
    /\ None \notin Time /\ None \notin Nat /\ None \notin Epochs
    /\ 0 \in Time
    /\ \A e \in Epochs, s \in Nat : s < MaxReports[e] => s + 1 \in Sequence
<1> QED
  BY InventoryAssumption DEF Sequence, Time

LEMMA ReportType ==
    ASSUME NEW x \in Report
    PROVE  /\ x.epoch \in Epochs /\ x.sequence \in Sequence /\ x.observedAt \in Time
           /\ x.contents \in Contents \cup {None}
           /\ x # None
<1> QED
  BY ReportAssumption DEF Report

\* What either transaction leaves in the clusters row.
LEMMA ObservedType ==
    ASSUME TypeOK, NEW x \in Report, NEW t \in Time \cup {None}, NEW at
    PROVE  /\ Observed(x, t, at) \in ClusterRow
           /\ Observed(x, t, at).epoch = x.epoch
           /\ Observed(x, t, at).sequence = x.sequence
           /\ Observed(x, t, at).heartbeatAt = x.observedAt
           /\ Observed(x, t, at).inventoryAt = t
           /\ Observed(x, t, at).generation = cluster.generation
           /\ Observed(x, t, at).source = cluster.source
<1>1. cluster \in ClusterRow
  BY Typed
<1>2. ConnectionState(x.observedAt, at) \in {"connected", "degraded", "offline"}
  BY DEF ConnectionState
<1>3. Schedulable(x.observedAt, t, at) \in BOOLEAN
  BY DEF Schedulable
<1> QED
  BY <1>1, <1>2, <1>3, ReportType DEF Observed, ClusterRow

\* The rows of a pool are finitely many, and units are counted in whole.
LEMMA UnitsType ==
    ASSUME NEW f, NEW c \in NodePools \X Profiles
    PROVE  Units(f, c) \in Nat
<1> DEFINE S == {n \in Nodes : /\ PoolOf[n] = c[1]
                               /\ f.device[n].allocatable
                               /\ f.node[n].health = "healthy"
                               /\ f.pool[c[1]].enabled}
<1>1. IsFiniteSet(S)
  <2>1. S \subseteq Nodes
    OBVIOUS
  <2> QED
    BY <2>1, InventoryAssumption, FS_Subset
<1>2. Cardinality(S) \in Nat
  BY <1>1, FS_CardinalityType
<1>3. PoolTotal(f, c[1]) \in Nat
  BY <1>2 DEF PoolTotal
<1>4. GPUCount[c[2]] \in Nat \ {0}
  BY InventoryAssumption
<1>5. \A a \in Nat, b \in Nat \ {0} : a \div b \in Nat
  OBVIOUS
<1> QED
  BY <1>3, <1>4, <1>5 DEF Units

-----------------------------------------------------------------------------
(* Steps of a replica *)

\* What every step of a poll does to the replicas.
Polls ==
    /\ replica' \in [Replicas -> ReplicaRow]
    /\ Polling'
    /\ \A x \in Replicas : replica'[x].report \in {replica[x].report, hub, None}

LEMMA FinishPolls ==
    ASSUME TypeOK, Polling, NEW r \in Replicas, Finish(r)
    PROVE  Polls
<1>1. replica \in [Replicas -> ReplicaRow]
  BY Typed
<1>2. \A x \in Replicas : replica'[x] = IF x = r THEN Resting ELSE replica[x]
  BY <1>1 DEF Finish
<1>3. Resting \in ReplicaRow /\ Resting.phase = "idle" /\ Resting.report = None
  BY Numbers DEF Resting, ReplicaRow, Generation
<1>4. replica' \in [Replicas -> ReplicaRow]
  BY <1>1, <1>3 DEF Finish
<1>5. Polling'
  BY <1>2, <1>3 DEF Polling
<1> QED
  BY <1>2, <1>3, <1>4, <1>5 DEF Polls

\* A step that changes one row of the replicas, to one with a good report.
LEMMA RowPolls ==
    ASSUME TypeOK, Polling, NEW r \in Replicas, NEW x \in ReplicaRow,
           replica' = [replica EXCEPT ![r] = x],
           x.report \in {replica[r].report, hub, None},
           x.phase \in {"read", "conflict", "retry"} => x.report \in Report,
           x.phase \in {"conflict", "retry"} => x.report.contents # None
    PROVE  Polls
<1>1. replica \in [Replicas -> ReplicaRow]
  BY Typed
<1>2. \A y \in Replicas : replica'[y] = IF y = r THEN x ELSE replica[y]
  BY <1>1
<1>3. replica' \in [Replicas -> ReplicaRow]
  BY <1>1
<1>4. Polling'
  BY <1>2 DEF Polling
<1> QED
  BY <1>2, <1>3, <1>4 DEF Polls

LEMMA ReplacesReport ==
    ASSUME TypeOK, Polling, NEW r \in Replicas, Replaces(r)
    PROVE  replica[r].report \in Report /\ replica[r].report.contents \in Contents
<1>1. replica[r].report \in Report /\ replica[r].report.contents # None
  BY DEF Replaces, Polling
<1> QED
  BY <1>1, ReportType

LEMMA SyncPolls ==
    ASSUME TypeOK, Polling, NEW r \in Replicas, SyncStep(r) \/ SyncFails(r)
    PROVE  Polls
<1>0. /\ replica \in [Replicas -> ReplicaRow] /\ hub \in Report \cup {None}
      /\ replica[r] \in ReplicaRow /\ now \in Time
  BY Typed
<1>1. CASE ListClusters(r)
  <2> DEFINE x == [replica[r] EXCEPT !.phase = "listed", !.generation = cluster.generation]
  <2>1. replica' = [replica EXCEPT ![r] = x]
    BY <1>0, <1>1 DEF ListClusters
  <2>2. x \in ReplicaRow /\ x.phase = "listed" /\ x.report = replica[r].report
    <3>1. cluster.generation \in Generation
      BY Typed DEF ClusterRow
    <3> QED
      BY <1>0, <3>1 DEF ReplicaRow
  <2> HIDE DEF x
  <2> QED
    BY <2>1, <2>2, RowPolls
<1>2. CASE ReadInventory(r)
  <2>1. CASE hub = None
    BY <1>2, <2>1, FinishPolls DEF ReadInventory
  <2>2. CASE hub # None
    <3> DEFINE x == [replica[r] EXCEPT !.phase = "read", !.report = hub, !.since = now]
    <3>1. replica' = [replica EXCEPT ![r] = x]
      BY <1>0, <1>2, <2>2 DEF ReadInventory
    <3>2. x \in ReplicaRow /\ x.phase = "read" /\ x.report = hub
      BY <1>0 DEF ReplicaRow
    <3> HIDE DEF x
    <3>3. hub \in Report
      BY <1>0, <2>2
    <3> QED
      BY <3>1, <3>2, <3>3, RowPolls
  <2> QED
    BY <2>1, <2>2
<1>3. CASE GenerationConflict(r)
  <2>1. CASE replica[r].phase = "read"
    <3> DEFINE x == [replica[r] EXCEPT !.phase = "conflict"]
    <3>1. replica' = [replica EXCEPT ![r] = x]
      BY <1>0, <1>3, <2>1 DEF GenerationConflict
    <3>2. x \in ReplicaRow /\ x.phase = "conflict" /\ x.report = replica[r].report
      BY <1>0 DEF ReplicaRow
    <3> HIDE DEF x
    <3>3. replica[r].report \in Report /\ replica[r].report.contents # None
      BY <1>3, <2>1 DEF GenerationConflict, Replaces, Polling
    <3> QED
      BY <3>1, <3>2, <3>3, RowPolls
  <2>2. CASE replica[r].phase # "read"
    BY <1>3, <2>2, FinishPolls DEF GenerationConflict
  <2> QED
    BY <2>1, <2>2
<1>4. CASE ReloadGeneration(r)
  <2> DEFINE x == [replica[r] EXCEPT !.phase = "retry", !.generation = cluster.generation,
                            !.since = now]
  <2>1. replica' = [replica EXCEPT ![r] = x]
    BY <1>0, <1>4 DEF ReloadGeneration
  <2>2. x \in ReplicaRow /\ x.phase = "retry" /\ x.report = replica[r].report
    <3>1. cluster.generation \in Generation
      BY Typed DEF ClusterRow
    <3> QED
      BY <1>0, <3>1 DEF ReplicaRow
  <2> HIDE DEF x
  <2>3. replica[r].report \in Report /\ replica[r].report.contents # None
    BY <1>4 DEF ReloadGeneration, Polling
  <2> QED
    BY <2>1, <2>2, <2>3, RowPolls
<1>5. CASE ObserveHeartbeat(r) \/ Replay(r) \/ DropStaleReport(r) \/ RefreshObservation(r)
           \/ ReplaceInventory(r) \/ SyncFails(r)
  BY <1>5, FinishPolls
     DEF ObserveHeartbeat, Replay, DropStaleReport, RefreshObservation, ReplaceInventory, SyncFails
<1> QED
  BY <1>1, <1>2, <1>3, <1>4, <1>5 DEF SyncStep

-----------------------------------------------------------------------------
(* What a replacement stores *)

\* A row that is taken out of service keeps its generation.
LEMMA MarkedRow ==
    /\ \A x \in NodeRow :
         /\ [x EXCEPT !.health = "unreachable"] \in NodeRow
         /\ [x EXCEPT !.health = "unreachable"].seen = x.seen
         /\ [x EXCEPT !.health = "unreachable"].health = "unreachable"
    /\ \A x \in DeviceRow :
         /\ [x EXCEPT !.allocatable = FALSE] \in DeviceRow
         /\ [x EXCEPT !.allocatable = FALSE].seen = x.seen
         /\ [x EXCEPT !.allocatable = FALSE].allocatable = FALSE
    /\ \A x \in PoolRow :
         /\ [x EXCEPT !.enabled = FALSE] \in PoolRow
         /\ [x EXCEPT !.enabled = FALSE].seen = x.seen
         /\ [x EXCEPT !.enabled = FALSE].enabled = FALSE
<1> QED
  BY DEF NodeRow, Health, DeviceRow, PoolRow

\* A row that the report does not list is not in service; the others are what
\* the report says; no row is of a later generation.
LEMMA StoredRows ==
    ASSUME TypeOK, Rows, NEW x \in Report, x.contents \in Contents,
           NEW f, f = MarkedStale(Upserted(x, cluster.generation + 1), cluster.generation + 1)
    PROVE  /\ f \in FactRows
           /\ \A n \in Nodes :
                /\ f.node[n].seen <= cluster.generation + 1
                /\ f.device[n].seen <= cluster.generation + 1
                /\ f.node[n].health = "healthy" <=> x.contents[n] \in {"ready", "bare"}
                /\ f.device[n].allocatable <=> x.contents[n] = "ready"
           /\ \A p \in NodePools :
                /\ f.pool[p].seen <= cluster.generation + 1
                /\ f.pool[p].enabled <=> Present(x, p)
<1> DEFINE g == cluster.generation + 1
           u == Upserted(x, g)
<1>0. /\ facts \in FactRows /\ cluster.generation \in Nat /\ g \in Nat
      /\ cluster.generation < g /\ x.contents \in [Nodes -> NodeState]
  BY Typed DEF ClusterRow, Generation, Contents
<1> DEFINE nodes == [n \in Nodes |->
                       IF x.contents[n] = "absent" THEN facts.node[n]
                       ELSE [seen |-> g, health |-> HealthOf(x.contents[n])]]
           devices == [n \in Nodes |->
                         IF x.contents[n] \in {"absent", "bare"} THEN facts.device[n]
                         ELSE [seen |-> g, allocatable |-> x.contents[n] = "ready"]]
           pools == [p \in NodePools |->
                       IF Present(x, p) THEN [seen |-> g, enabled |-> TRUE] ELSE facts.pool[p]]
           markedNodes == [n \in Nodes |->
                             IF nodes[n].seen < g THEN [nodes[n] EXCEPT !.health = "unreachable"]
                             ELSE nodes[n]]
           markedDevices == [n \in Nodes |->
                               IF devices[n].seen < g
                                 THEN [devices[n] EXCEPT !.allocatable = FALSE]
                                 ELSE devices[n]]
           markedPools == [p \in NodePools |->
                             IF pools[p].seen < g THEN [pools[p] EXCEPT !.enabled = FALSE]
                             ELSE pools[p]]
<1>1. u.node = nodes /\ u.device = devices /\ u.pool = pools
  BY DEF Upserted
<1>2. f.node = markedNodes /\ f.device = markedDevices /\ f.pool = markedPools
      /\ f = [node |-> markedNodes, device |-> markedDevices, pool |-> markedPools]
  BY <1>1 DEF MarkedStale
<1> HIDE DEF u, g
<1>3. ASSUME NEW n \in Nodes
      PROVE  /\ markedNodes[n] \in NodeRow
             /\ markedNodes[n].seen <= g
             /\ markedNodes[n].health = "healthy" <=> x.contents[n] \in {"ready", "bare"}
  <2>1. /\ facts.node[n] \in NodeRow /\ facts.node[n].seen < g
        /\ x.contents[n] \in NodeState
    BY <1>0 DEF Rows, FactRows, NodeRow, Generation
  <2>2. CASE x.contents[n] = "absent"
    <3>1. nodes[n] = facts.node[n]
      BY <2>2
    <3>2. markedNodes[n] = [facts.node[n] EXCEPT !.health = "unreachable"]
      BY <2>1, <3>1
    <3> HIDE DEF markedNodes, nodes
    <3> QED
      BY <1>0, <2>1, <2>2, <3>2, MarkedRow DEF NodeRow, Generation
  <2>3. CASE x.contents[n] # "absent"
    <3>1. nodes[n] = [seen |-> g, health |-> HealthOf(x.contents[n])]
      BY <2>3
    <3>2. markedNodes[n] = [seen |-> g, health |-> HealthOf(x.contents[n])]
      BY <1>0, <3>1
    <3> HIDE DEF markedNodes, nodes
    <3> QED
      BY <1>0, <2>1, <2>3, <3>2 DEF NodeRow, Health, NodeState, HealthOf, Generation
  <2> QED
    BY <2>2, <2>3
<1>4. ASSUME NEW n \in Nodes
      PROVE  /\ markedDevices[n] \in DeviceRow
             /\ markedDevices[n].seen <= g
             /\ markedDevices[n].allocatable <=> x.contents[n] = "ready"
  <2>1. /\ facts.device[n] \in DeviceRow /\ facts.device[n].seen < g
        /\ x.contents[n] \in NodeState
    BY <1>0 DEF Rows, FactRows, DeviceRow, Generation
  <2>2. CASE x.contents[n] \in {"absent", "bare"}
    <3>1. devices[n] = facts.device[n]
      BY <2>2
    <3>2. markedDevices[n] = [facts.device[n] EXCEPT !.allocatable = FALSE]
      BY <2>1, <3>1
    <3> HIDE DEF markedDevices, devices
    <3> QED
      BY <1>0, <2>1, <2>2, <3>2, MarkedRow DEF DeviceRow, Generation
  <2>3. CASE x.contents[n] = "ready"
    <3>1. devices[n] = [seen |-> g, allocatable |-> TRUE]
      BY <2>3
    <3>2. markedDevices[n] = [seen |-> g, allocatable |-> TRUE]
      BY <1>0, <3>1
    <3> HIDE DEF markedDevices, devices
    <3> QED
      BY <1>0, <2>1, <2>3, <3>2 DEF DeviceRow, Generation
  <2>4. CASE x.contents[n] = "failed"
    <3>1. devices[n] = [seen |-> g, allocatable |-> FALSE]
      BY <2>4
    <3>2. markedDevices[n] = [seen |-> g, allocatable |-> FALSE]
      BY <1>0, <3>1
    <3> HIDE DEF markedDevices, devices
    <3> QED
      BY <1>0, <2>1, <2>4, <3>2 DEF DeviceRow, Generation
  <2> QED
    BY <2>1, <2>2, <2>3, <2>4 DEF NodeState
<1>5. ASSUME NEW p \in NodePools
      PROVE  /\ markedPools[p] \in PoolRow
             /\ markedPools[p].seen <= g
             /\ markedPools[p].enabled <=> Present(x, p)
  <2>1. facts.pool[p] \in PoolRow /\ facts.pool[p].seen < g
    BY <1>0 DEF Rows, FactRows, PoolRow, Generation
  <2>2. CASE ~Present(x, p)
    <3>1. pools[p] = facts.pool[p]
      BY <2>2
    <3>2. markedPools[p] = [facts.pool[p] EXCEPT !.enabled = FALSE]
      BY <2>1, <3>1
    <3> HIDE DEF markedPools, pools
    <3> QED
      BY <1>0, <2>1, <2>2, <3>2, MarkedRow DEF PoolRow, Generation
  <2>3. CASE Present(x, p)
    <3>1. pools[p] = [seen |-> g, enabled |-> TRUE]
      BY <2>3
    <3>2. markedPools[p] = [seen |-> g, enabled |-> TRUE]
      BY <1>0, <3>1
    <3> HIDE DEF markedPools, pools
    <3> QED
      BY <1>0, <2>1, <2>3, <3>2 DEF PoolRow, Generation
  <2> QED
    BY <2>2, <2>3
<1>6. /\ markedNodes \in [Nodes -> NodeRow] /\ markedDevices \in [Nodes -> DeviceRow]
      /\ markedPools \in [NodePools -> PoolRow]
  BY <1>3, <1>4, <1>5
<1> HIDE DEF markedNodes, markedDevices, markedPools, nodes, devices, pools
<1>7. f \in FactRows
  BY <1>2, <1>6 DEF FactRows
<1> QED
  BY <1>2, <1>3, <1>4, <1>5, <1>7 DEF g

\* The totals that the last statement derives.
LEMMA RefreshedRows ==
    ASSUME TypeOK, NEW f, NEW g \in Nat
    PROVE  /\ Refreshed(f, g) \in [NodePools \X Profiles -> CapacityRow \cup {None}]
           /\ \A c \in NodePools \X Profiles : Refreshed(f, g)[c] # None =>
                /\ capacity[c] # None
                /\ Refreshed(f, g)[c].asOf = g
                /\ Refreshed(f, g)[c].reserved = capacity[c].reserved
                /\ Refreshed(f, g)[c].total = AtLeast(Units(f, c), capacity[c].reserved)
<1>0. capacity \in [NodePools \X Profiles -> CapacityRow \cup {None}]
  BY Typed
<1>1. ASSUME NEW c \in NodePools \X Profiles, capacity[c] # None
      PROVE  /\ Refreshed(f, g)[c] \in CapacityRow
             /\ Refreshed(f, g)[c].asOf = g
             /\ Refreshed(f, g)[c].reserved = capacity[c].reserved
             /\ Refreshed(f, g)[c].total = AtLeast(Units(f, c), capacity[c].reserved)
  <2>1. Refreshed(f, g)[c] =
          [capacity[c] EXCEPT !.total = AtLeast(Units(f, c), capacity[c].reserved), !.asOf = g]
    BY <1>0, <1>1 DEF Refreshed
  <2>2. capacity[c] \in CapacityRow
    BY <1>0, <1>1
  <2>3. AtLeast(Units(f, c), capacity[c].reserved) \in Nat
    <3>1. Units(f, c) \in Nat
      BY UnitsType
    <3> QED
      BY <2>2, <3>1 DEF CapacityRow, AtLeast
  <2> QED
    BY <2>1, <2>2, <2>3 DEF CapacityRow, Generation
<1>2. \A c \in NodePools \X Profiles : capacity[c] = None => Refreshed(f, g)[c] = None
  BY <1>0 DEF Refreshed
<1>3. Refreshed(f, g) = [c \in NodePools \X Profiles |-> Refreshed(f, g)[c]]
  BY <1>0 DEF Refreshed
<1> QED
  BY <1>0, <1>1, <1>2, <1>3

-----------------------------------------------------------------------------
(* The numbers of the reports *)

LEMMA InFlightFacts ==
    ASSUME TypeOK, NEW x \in InFlight
    PROVE  /\ x \in Report /\ x.epoch \in Epochs /\ x.contents \in Contents \cup {None}
           /\ <<x.epoch, x.sequence, x.observedAt>> \in Marks
<1>1. x \in Report
  <2>1. /\ hub \in Report \cup {None}
        /\ \A r \in Replicas : replica[r].report \in Report \cup {None}
        /\ \A e \in Epochs : agent[e].report \in Report \cup {None}
    BY Typed DEF ReplicaRow, AgentRow
  <2> QED
    BY <2>1 DEF InFlight
<1> QED
  BY <1>1, ReportType DEF Marks

LEMMA MarkType ==
    ASSUME TypeOK, Numbering, NEW m \in Marks
    PROVE  m[1] \in Epochs /\ m[2] \in Sequence /\ m[2] \in Nat /\ m[3] \in Time /\ m[3] \in Nat
<1>1. m[1] \in Epochs /\ m[2] \in Sequence
  <2>1. CASE \E x \in InFlight : m = <<x.epoch, x.sequence, x.observedAt>>
    BY <2>1, InFlightFacts, ReportType
  <2>2. CASE \E e \in Epochs : m = <<e, agent[e].sequence, agent[e].observedAt>>
    BY <2>2, Typed DEF AgentRow
  <2>3. CASE \E e \in Epochs : m = <<e, cluster.sequence, cluster.heartbeatAt>>
    BY <2>3, Typed DEF ClusterRow
  <2> QED
    BY <2>1, <2>2, <2>3 DEF Marks
<1> QED
  BY <1>1, Numbers DEF Numbering

\* An agent that numbered a report is not new.
LEMMA MarkedStarted ==
    ASSUME TypeOK, Numbering, NEW m \in Marks
    PROVE  agent[m[1]].phase # "new"
<1> QED
  BY MarkType, Typed, Numbers DEF Numbering, AgentRow

\* What every step but the collection of a report does to the agents.
AgentsKept ==
    \A e \in Epochs :
        /\ agent'[e].sequence = agent[e].sequence
        /\ agent'[e].observedAt = agent[e].observedAt
        /\ agent[e].phase # "new" =>
             agent'[e].phase # "new" /\ agent'[e].detailed = agent[e].detailed
        /\ agent'[e].phase = "report" => agent'[e].report # None

LEMMA MarksShrink ==
    ASSUME AgentsKept, InFlight' \subseteq InFlight,
           \A e \in Epochs : cluster'.epoch = e =>
             <<e, cluster'.sequence, cluster'.heartbeatAt>> \in Marks
    PROVE  Marks' \subseteq Marks
<1> SUFFICES ASSUME NEW m \in Marks'
             PROVE  m \in Marks
  OBVIOUS
<1>1. CASE \E x \in InFlight' : m = <<x.epoch, x.sequence, x.observedAt>>
  BY <1>1 DEF Marks
<1>2. CASE \E e \in Epochs : /\ agent'[e].sequence > 0
                             /\ m = <<e, agent'[e].sequence, agent'[e].observedAt>>
  BY <1>2 DEF Marks, AgentsKept
<1>3. CASE \E e \in Epochs : /\ cluster'.epoch = e
                             /\ m = <<e, cluster'.sequence, cluster'.heartbeatAt>>
  BY <1>3
<1> QED
  BY <1>1, <1>2, <1>3 DEF Marks

LEMMA NumberingKept ==
    ASSUME TypeOK, Numbering, AgentsKept, InFlight' \subseteq InFlight, Marks' \subseteq Marks
    PROVE  Numbering'
<1>1. \A e \in Epochs :
        /\ agent'[e].phase = "new" => agent'[e].sequence = 0
        /\ agent'[e].phase = "report" => agent'[e].report # None
        /\ agent'[e].sequence > 0 => agent'[e].observedAt \in Time
  BY DEF Numbering, AgentsKept
<1>2. \A m \in Marks' : m[2] >= 1 /\ m[2] <= agent'[m[1]].sequence /\ m[3] \in Time
  BY MarkType DEF Numbering, AgentsKept
<1>3. Ordered'
  BY DEF Numbering, Ordered
<1>4. \A x \in InFlight' : agent'[x.epoch].detailed <=> x.contents # None
  <2> SUFFICES ASSUME NEW x \in InFlight'
               PROVE  agent'[x.epoch].detailed <=> x.contents # None
    OBVIOUS
  <2>1. x \in InFlight /\ x.epoch \in Epochs
    BY InFlightFacts
  <2>2. <<x.epoch, x.sequence, x.observedAt>> \in Marks
    BY <2>1, InFlightFacts
  <2>3. agent[x.epoch].phase # "new"
    BY <2>2, MarkedStarted
  <2> QED
    BY <2>1, <2>3 DEF Numbering, AgentsKept
<1> QED
  BY <1>1, <1>2, <1>3, <1>4 DEF Numbering

LEMMA StoredKept ==
    ASSUME TypeOK, Numbering, Stored, AgentsKept, Marks' \subseteq Marks,
           UNCHANGED <<cluster, replaced>>
    PROVE  Stored'
<1>1. ASSUME NEW e \in Epochs, cluster.epoch = e, agent'[e].detailed
      PROVE  cluster.inventoryAt # None /\ cluster.inventoryAt = cluster.heartbeatAt
  <2>1. <<e, cluster.sequence, cluster.heartbeatAt>> \in Marks
    BY <1>1 DEF Marks
  <2>2. agent[e].phase # "new"
    BY <2>1, MarkedStarted
  <2> QED
    BY <1>1, <2>2 DEF AgentsKept, Stored
<1> QED
  BY <1>1 DEF Stored, AgentsKept

LEMMA CollectNumbers ==
    ASSUME TypeOK, Numbering, Stored, NEW e \in Epochs, Collect(e)
    PROVE  Numbering' /\ Stored' /\ agent' \in [Epochs -> AgentRow]
<1> DEFINE a == agent[e]
           s == a.sequence + 1
           x == [epoch |-> e, sequence |-> s, observedAt |-> now,
                 contents |-> IF a.detailed THEN physical.nodes ELSE None]
           b == [a EXCEPT !.phase = "report", !.sequence = s, !.observedAt = now, !.report = x]
           k == <<e, s, now>>
<1>0. /\ agent \in [Epochs -> AgentRow] /\ a \in AgentRow /\ a.sequence \in Nat
      /\ now \in Time /\ physical.nodes \in Contents
      /\ a.phase # "new"
      /\ a.observedAt # None => a.observedAt < now
      /\ UNCHANGED <<cluster, replaced, hub, replica>>
  BY Typed, Numbers DEF Collect, AgentRow, catalog
<1>1. agent' = [agent EXCEPT ![e] = b]
  BY <1>0 DEF Collect
<1>2. \A d \in Epochs : agent'[d] = IF d = e THEN b ELSE agent[d]
  BY <1>0, <1>1
<1>3. /\ b.phase = "report" /\ b.sequence = s /\ b.observedAt = now /\ b.report = x
      /\ b.detailed = a.detailed
  BY <1>0 DEF AgentRow
<1>4. x \in Report /\ x # None
  <2>1. s \in Sequence
    BY <1>0, Numbers DEF Collect
  <2>2. x \in [epoch : {e}, sequence : {s}, observedAt : {now}, contents : Contents \cup {None}]
    BY <1>0
  <2>3. x \in Report
    BY <1>0, <2>1, <2>2 DEF Report
  <2> QED
    BY <2>3, ReportType
<1>5. /\ x.epoch = e /\ x.sequence = s /\ x.observedAt = now
      /\ x.contents = IF a.detailed THEN physical.nodes ELSE None
  OBVIOUS
<1>6. ASSUME NEW m \in Marks, m[1] = e
      PROVE  m[2] < s /\ m[3] < now
  <2>1. m[2] \in Nat /\ m[3] \in Nat /\ m[2] >= 1 /\ m[2] <= a.sequence
    BY <1>6, MarkType DEF Numbering
  <2>2. a.sequence > 0
    BY <1>0, <2>1
  <2>3. <<e, a.sequence, a.observedAt>> \in Marks
    BY <2>2 DEF Marks
  <2>4. a.observedAt \in Time /\ a.observedAt \in Nat /\ a.observedAt < now
    BY <1>0, <2>2, Numbers DEF Numbering
  <2>5. m[2] < a.sequence => m[3] < a.observedAt
    BY <1>6, <2>3 DEF Numbering, Ordered
  <2>6. m[2] = a.sequence => m[3] = a.observedAt
    BY <1>6, <2>3 DEF Numbering, Ordered
  <2>7. now \in Nat
    BY <1>0, Numbers
  <2> HIDE DEF a
  <2> QED
    BY <1>0, <2>1, <2>4, <2>5, <2>6, <2>7
<1> HIDE DEF x
<1>a. agent' \in [Epochs -> AgentRow]
  <2>1. s \in Sequence
    BY <1>0, Numbers DEF Collect
  <2>2. b \in AgentRow
    BY <1>0, <1>4, <2>1 DEF AgentRow
  <2> QED
    BY <1>0, <1>1, <2>2
<1> HIDE DEF b
<1>7. InFlight' \subseteq InFlight \cup {x}
  BY <1>0, <1>2, <1>3 DEF InFlight
<1>8. Marks' \subseteq Marks \cup {k}
  <2> SUFFICES ASSUME NEW m \in Marks'
               PROVE  m \in Marks \cup {k}
    OBVIOUS
  <2>1. CASE \E y \in InFlight' : m = <<y.epoch, y.sequence, y.observedAt>>
    BY <1>5, <1>7, <2>1 DEF Marks
  <2>2. CASE \E d \in Epochs : /\ agent'[d].sequence > 0
                               /\ m = <<d, agent'[d].sequence, agent'[d].observedAt>>
    BY <1>2, <1>3, <2>2 DEF Marks
  <2>3. CASE \E d \in Epochs : /\ cluster'.epoch = d
                               /\ m = <<d, cluster'.sequence, cluster'.heartbeatAt>>
    BY <1>0, <2>3 DEF Marks
  <2> QED
    BY <2>1, <2>2, <2>3 DEF Marks
<1>9. k[1] = e /\ k[2] = s /\ k[3] = now /\ s \in Nat /\ s > 0 /\ now \in Nat
  BY <1>0, Numbers
<1>10. Numbering'
  <2>1. \A d \in Epochs :
          /\ agent'[d].phase = "new" => agent'[d].sequence = 0
          /\ agent'[d].phase = "report" => agent'[d].report # None
          /\ agent'[d].sequence > 0 => agent'[d].observedAt \in Time
    BY <1>0, <1>2, <1>3, <1>4 DEF Numbering
  <2>2. ASSUME NEW m \in Marks'
        PROVE  m[2] >= 1 /\ m[2] <= agent'[m[1]].sequence /\ m[3] \in Time
    <3>1. CASE m = k
      BY <1>0, <1>2, <1>3, <1>9, <3>1
    <3>2. CASE m \in Marks /\ m[1] = e
      <4>1. m[2] \in Nat /\ m[2] >= 1 /\ m[3] \in Time /\ m[2] < s
        BY <1>6, <3>2, MarkType DEF Numbering
      <4> QED
        BY <1>2, <1>3, <1>9, <3>2, <4>1
    <3>3. CASE m \in Marks /\ m[1] # e
      <4>1. m[1] \in Epochs
        BY <3>3, MarkType
      <4> QED
        BY <1>2, <3>3, <4>1 DEF Numbering
    <3> QED
      BY <1>8, <3>1, <3>2, <3>3
  <2>3. Ordered'
    <3> SUFFICES ASSUME NEW m \in Marks \cup {k}, NEW l \in Marks \cup {k}, m[1] = l[1]
                 PROVE  /\ m[2] < l[2] => m[3] < l[3]
                        /\ m[2] = l[2] => m[3] = l[3]
      BY <1>8 DEF Ordered
    <3>1. CASE m = k /\ l = k
      BY <1>9, <3>1
    <3>2. CASE m = k /\ l \in Marks
      <4>1. l[2] \in Nat /\ l[2] < s
        BY <1>6, <1>9, <3>2, MarkType
      <4> QED
        BY <1>9, <3>2, <4>1
    <3>3. CASE m \in Marks /\ l = k
      <4>1. m[2] \in Nat /\ m[2] < s /\ m[3] < now
        BY <1>6, <1>9, <3>3, MarkType
      <4> QED
        BY <1>9, <3>3, <4>1
    <3>4. CASE m \in Marks /\ l \in Marks
      BY <3>4 DEF Numbering, Ordered
    <3> QED
      BY <3>1, <3>2, <3>3, <3>4
  <2>4. ASSUME NEW y \in InFlight'
        PROVE  agent'[y.epoch].detailed <=> y.contents # None
    <3>1. CASE y = x
      <4>1. physical.nodes # None
        BY <1>0, ReportAssumption
      <4> QED
        BY <1>2, <1>3, <1>5, <3>1, <4>1
    <3>2. CASE y \in InFlight
      <4>1. y.epoch \in Epochs /\ (agent[y.epoch].detailed <=> y.contents # None)
        BY <3>2, InFlightFacts DEF Numbering
      <4> QED
        BY <1>2, <1>3, <4>1
    <3> QED
      BY <1>7, <3>1, <3>2
  <2> QED
    BY <2>1, <2>2, <2>3, <2>4 DEF Numbering
<1>11. Stored'
  <2>1. \A d \in Epochs : cluster.epoch = d /\ agent'[d].detailed =>
          cluster.inventoryAt # None /\ cluster.inventoryAt = cluster.heartbeatAt
    BY <1>2, <1>3 DEF Stored
  <2>2. ASSUME NEW d \in Epochs, NEW t \in Sequence, <<d, t>> \in replaced
        PROVE  /\ cluster.inventoryAt # None
               /\ t <= agent'[d].sequence
               /\ \A m \in Marks' : m[1] = d =>
                    /\ m[2] <= t => m[3] <= cluster.inventoryAt
                    /\ m[2] < t => m[3] < cluster.inventoryAt
    <3>1. t \in Nat /\ agent[d].sequence \in Nat
      BY Typed, Numbers DEF AgentRow
    <3>2. cluster.inventoryAt # None /\ t <= agent[d].sequence
      BY <2>2 DEF Stored
    <3>3. t <= agent'[d].sequence /\ (d = e => t < s)
      BY <1>0, <1>2, <1>3, <3>1, <3>2
    <3>4. ASSUME NEW m \in Marks', m[1] = d
          PROVE  /\ m[2] <= t => m[3] <= cluster.inventoryAt
                 /\ m[2] < t => m[3] < cluster.inventoryAt
      <4>1. CASE m \in Marks
        BY <2>2, <3>4, <4>1 DEF Stored
      <4>2. CASE m = k
        <5>1. d = e /\ m[2] = s
          BY <1>9, <3>4, <4>2
        <5>2. t < s
          BY <3>3, <5>1
        <5> QED
          BY <1>9, <3>1, <5>1, <5>2
      <4> QED
        BY <1>8, <4>1, <4>2
    <3> QED
      BY <3>2, <3>3, <3>4
  <2> QED
    BY <1>0, <2>1, <2>2 DEF Stored
<1> QED
  BY <1>a, <1>10, <1>11

-----------------------------------------------------------------------------
(* What the three transactions write *)

\* The part of the row that the properties are about, after report x.
RowAfter(x, inventoryAt) ==
    /\ cluster' \in ClusterRow
    /\ cluster'.epoch = x.epoch
    /\ cluster'.sequence = x.sequence
    /\ cluster'.heartbeatAt = x.observedAt
    /\ cluster'.inventoryAt = inventoryAt

\* Report x has none, or its transaction stores it as a heartbeat ...
Beats(x) ==
    /\ x \in InFlight /\ x \in Report /\ x.contents = None
    /\ UNCHANGED <<reporting, facts, replaced, capacity, creating>>
    /\ \/ StaleHeartbeat(x) /\ cluster' = cluster
       \/ /\ ~StaleHeartbeat(x) /\ RowAfter(x, cluster.inventoryAt)
          /\ UNCHANGED <<cluster.generation, cluster.source>>

\* ... or as the inventory, whose rows it may leave alone.
Inventories(x) ==
    /\ x \in InFlight /\ x \in Report /\ x.contents \in Contents
    /\ ~StaleInventory(x)
    /\ Identity(x) \notin replaced
    /\ replaced' = replaced \cup {Identity(x)}
    /\ RowAfter(x, x.observedAt)
    /\ UNCHANGED <<reporting, creating>>

LEMMA ReplicaInFlight ==
    ASSUME NEW r \in Replicas, replica[r].report \in Report
    PROVE  replica[r].report \in InFlight
<1> QED
  BY ReportType DEF InFlight

LEMMA HeartbeatBeats ==
    ASSUME TypeOK, Polling, NEW r \in Replicas, ObserveHeartbeat(r)
    PROVE  Beats(replica[r].report)
<1> SUFFICES ASSUME NEW x, x = replica[r].report
             PROVE  Beats(x)
  OBVIOUS
<1>1. x \in Report /\ x.contents = None
  BY DEF ObserveHeartbeat, Polling
<1>2. x \in InFlight
  BY <1>1, ReplicaInFlight
<1>3. cluster \in ClusterRow /\ cluster.inventoryAt \in Time \cup {None}
  BY Typed DEF ClusterRow
<1>4. UNCHANGED <<reporting, facts, replaced, capacity, creating>>
  BY DEF ObserveHeartbeat
<1>5. CASE StaleHeartbeat(x)
  <2>1. cluster' = cluster
    BY <1>5 DEF ObserveHeartbeat
  <2> QED
    BY <1>1, <1>2, <1>4, <1>5, <2>1 DEF Beats
<1>6. CASE ~StaleHeartbeat(x)
  <2>1. cluster' = Observed(x, cluster.inventoryAt, now)
    BY <1>6 DEF ObserveHeartbeat
  <2>2. RowAfter(x, cluster.inventoryAt) /\ UNCHANGED <<cluster.generation, cluster.source>>
    BY <1>1, <1>3, <2>1, ObservedType DEF RowAfter
  <2> QED
    BY <1>1, <1>2, <1>4, <1>6, <2>2 DEF Beats
<1> QED
  BY <1>5, <1>6

LEMMA RefreshInventories ==
    ASSUME TypeOK, Polling, NEW r \in Replicas, RefreshObservation(r)
    PROVE  /\ Inventories(replica[r].report)
           /\ UNCHANGED <<facts, capacity, cluster.generation, cluster.source>>
<1> DEFINE x == replica[r].report
<1>1. x \in Report /\ x.contents \in Contents
  BY ReplacesReport DEF RefreshObservation, Admitted
<1>2. x \in InFlight
  BY <1>1, ReplicaInFlight
<1>3. /\ ~StaleInventory(x) /\ Identity(x) \notin replaced
      /\ replaced' = replaced \cup {Identity(x)}
      /\ \E at \in Time : cluster' = Observed(x, x.observedAt, at)
      /\ UNCHANGED <<reporting, facts, capacity, creating>>
  BY DEF RefreshObservation, Admitted, StartedAt
<1> HIDE DEF x
<1>4. x.observedAt \in Time \cup {None}
  BY <1>1, ReportType
<1>5. RowAfter(x, x.observedAt) /\ UNCHANGED <<cluster.generation, cluster.source>>
  BY <1>1, <1>3, <1>4, ObservedType DEF RowAfter
<1>6. Inventories(x)
  BY <1>1, <1>2, <1>3, <1>5 DEF Inventories
<1> QED
  BY <1>3, <1>5, <1>6 DEF x

LEMMA ReplaceInventories ==
    ASSUME TypeOK, Polling, NEW r \in Replicas, ReplaceInventory(r)
    PROVE  LET x == replica[r].report
               g == cluster.generation + 1
           IN  /\ Inventories(x)
               /\ cluster'.generation = g /\ cluster'.source = x.contents
               /\ facts' = MarkedStale(Upserted(x, g), g)
               /\ capacity' = Refreshed(facts', g)
<1> DEFINE x == replica[r].report
           g == cluster.generation + 1
<1>1. x \in Report /\ x.contents \in Contents
  BY ReplacesReport DEF ReplaceInventory, Admitted
<1>2. x \in InFlight
  BY <1>1, ReplicaInFlight
<1>3. /\ ~StaleInventory(x) /\ Identity(x) \notin replaced
      /\ replaced' = replaced \cup {Identity(x)}
      /\ UNCHANGED <<reporting, creating>>
      /\ facts' = MarkedStale(Upserted(x, g), g)
      /\ capacity' = Refreshed(facts', g)
  BY DEF ReplaceInventory, Admitted
<1>a. PICK at \in Time : cluster' = [Observed(x, x.observedAt, at) EXCEPT !.generation = g,
                                                                       !.source = x.contents]
  BY DEF ReplaceInventory, StartedAt
<1>4. cluster.generation \in Nat /\ g \in Generation
  BY Typed DEF ClusterRow, Generation
<1> HIDE DEF x, g
<1>5. x.observedAt \in Time \cup {None}
  BY <1>1, ReportType
<1>6. Observed(x, x.observedAt, at) \in ClusterRow
  BY <1>1, <1>5, ObservedType
<1>7. /\ cluster' \in ClusterRow
      /\ cluster'.generation = g /\ cluster'.source = x.contents
      /\ cluster'.epoch = Observed(x, x.observedAt, at).epoch
      /\ cluster'.sequence = Observed(x, x.observedAt, at).sequence
      /\ cluster'.heartbeatAt = Observed(x, x.observedAt, at).heartbeatAt
      /\ cluster'.inventoryAt = Observed(x, x.observedAt, at).inventoryAt
  BY <1>1, <1>a, <1>4, <1>6 DEF ClusterRow
<1>8. RowAfter(x, x.observedAt)
  BY <1>1, <1>5, <1>7, ObservedType DEF RowAfter
<1>9. Inventories(x)
  BY <1>1, <1>2, <1>3, <1>8 DEF Inventories
<1> QED
  BY <1>3, <1>7, <1>9 DEF x, g

-----------------------------------------------------------------------------
(* Numbers and what is stored, in the steps of a replica *)

LEMMA AgentsUnchanged ==
    ASSUME TypeOK, Numbering, agent' = agent
    PROVE  AgentsKept
<1> QED
  BY DEF Numbering, AgentsKept

LEMMA PollsFlight ==
    ASSUME Polls, UNCHANGED <<agent, hub>>
    PROVE  InFlight' \subseteq InFlight
<1> QED
  BY DEF Polls, InFlight

LEMMA PollNumbers ==
    ASSUME TypeOK, Numbering, Stored, Polls, UNCHANGED <<reporting, cluster, replaced>>
    PROVE  Numbering' /\ Stored'
<1>1. AgentsKept /\ InFlight' \subseteq InFlight
  BY AgentsUnchanged, PollsFlight DEF reporting
<1>2. \A e \in Epochs : cluster'.epoch = e =>
        <<e, cluster'.sequence, cluster'.heartbeatAt>> \in Marks
  BY DEF Marks
<1>3. Marks' \subseteq Marks
  BY <1>1, <1>2, MarksShrink
<1> QED
  BY <1>1, <1>3, NumberingKept, StoredKept

\* A row that report x made adds no number.
LEMMA RowAfterNumbers ==
    ASSUME TypeOK, Numbering, Polls, UNCHANGED reporting,
           NEW x \in InFlight, NEW t, RowAfter(x, t)
    PROVE  Numbering' /\ Marks' \subseteq Marks
<1>1. AgentsKept /\ InFlight' \subseteq InFlight
  BY AgentsUnchanged, PollsFlight DEF reporting
<1>2. \A e \in Epochs : cluster'.epoch = e =>
        <<e, cluster'.sequence, cluster'.heartbeatAt>> \in Marks
  BY InFlightFacts DEF RowAfter
<1>3. Marks' \subseteq Marks
  BY <1>1, <1>2, MarksShrink
<1> QED
  BY <1>1, <1>3, NumberingKept

LEMMA BeatNumbers ==
    ASSUME TypeOK, Numbering, Stored, Polls, NEW x, Beats(x)
    PROVE  Numbering' /\ Stored'
<1>1. CASE cluster' = cluster
  <2>1. UNCHANGED <<reporting, cluster, replaced>>
    BY <1>1 DEF Beats
  <2> QED
    BY <2>1, PollNumbers
<1>2. CASE RowAfter(x, cluster.inventoryAt)
  <2>1. /\ x \in InFlight /\ x \in Report /\ x.contents = None
        /\ UNCHANGED <<reporting, replaced>> /\ agent' = agent
    BY DEF Beats, reporting
  <2>2. Numbering' /\ Marks' \subseteq Marks
    BY <1>2, <2>1, RowAfterNumbers
  <2>3. ~agent[x.epoch].detailed
    BY <2>1 DEF Numbering
  <2>4. Stored'
    BY <1>2, <2>1, <2>2, <2>3 DEF Stored, RowAfter
  <2> QED
    BY <2>2, <2>4
<1> QED
  BY <1>1, <1>2 DEF Beats

LEMMA InventoryNumbers ==
    ASSUME TypeOK, Numbering, Stored, Polls, NEW x, Inventories(x)
    PROVE  Numbering' /\ Stored'
<1>1. /\ x \in InFlight /\ x \in Report /\ x.contents \in Contents
      /\ UNCHANGED reporting /\ agent' = agent
      /\ RowAfter(x, x.observedAt)
      /\ replaced' = replaced \cup {<<x.epoch, x.sequence>>}
  BY DEF Inventories, reporting, Identity
<1>2. Numbering' /\ Marks' \subseteq Marks
  BY <1>1, RowAfterNumbers
<1>3. /\ x.observedAt \in Time /\ x.observedAt \in Nat /\ x.observedAt # None
      /\ x.sequence \in Nat
      /\ cluster'.inventoryAt = x.observedAt /\ cluster'.heartbeatAt = x.observedAt
  BY <1>1, ReportType, Numbers DEF RowAfter
<1>4. cluster.inventoryAt # None =>
        cluster.inventoryAt \in Nat /\ cluster.inventoryAt <= x.observedAt
  <2>1. cluster.inventoryAt \in Time \cup {None}
    BY Typed DEF ClusterRow
  <2>2. cluster.inventoryAt # None => ~(x.observedAt < cluster.inventoryAt)
    BY DEF Inventories, StaleInventory
  <2>3. cluster.inventoryAt # None => cluster.inventoryAt \in Nat
    BY <2>1, Numbers
  <2> QED
    BY <1>3, <2>2, <2>3
<1>5. ASSUME NEW e \in Epochs, NEW t \in Sequence, <<e, t>> \in replaced'
      PROVE  /\ t <= agent[e].sequence
             /\ \A m \in Marks : m[1] = e =>
                  /\ m[2] <= t => m[3] <= x.observedAt
                  /\ m[2] < t => m[3] < x.observedAt
  <2>1. CASE <<e, t>> \in replaced
    <3>1. /\ cluster.inventoryAt # None
          /\ t <= agent[e].sequence
          /\ \A m \in Marks : m[1] = e =>
               /\ m[2] <= t => m[3] <= cluster.inventoryAt
               /\ m[2] < t => m[3] < cluster.inventoryAt
      BY <2>1 DEF Stored
    <3>2. \A m \in Marks : m[3] \in Nat
      BY MarkType
    <3> QED
      BY <1>3, <1>4, <3>1, <3>2
  <2>2. CASE e = x.epoch /\ t = x.sequence
    <3> DEFINE k == <<x.epoch, x.sequence, x.observedAt>>
    <3>1. k \in Marks /\ k[1] = e /\ k[2] = t /\ k[3] = x.observedAt
      BY <1>1, <2>2, InFlightFacts
    <3> HIDE DEF k
    <3>2. t <= agent[e].sequence
      BY <3>1 DEF Numbering
    <3>3. ASSUME NEW m \in Marks, m[1] = e
          PROVE  /\ m[2] <= t => m[3] <= x.observedAt
                 /\ m[2] < t => m[3] < x.observedAt
      <4>1. m[2] \in Nat /\ m[3] \in Nat /\ t \in Nat
        BY <1>3, <2>2, MarkType
      <4>2. m[2] < t => m[3] < x.observedAt
        BY <3>1, <3>3 DEF Numbering, Ordered
      <4>3. m[2] = t => m[3] = x.observedAt
        BY <3>1, <3>3 DEF Numbering, Ordered
      <4> QED
        BY <1>3, <4>1, <4>2, <4>3
    <3> QED
      BY <3>2, <3>3
  <2> QED
    BY <1>1, <1>5, <2>1, <2>2
<1>6. Stored'
  BY <1>1, <1>2, <1>3, <1>5 DEF Stored
<1> QED
  BY <1>2, <1>6

-----------------------------------------------------------------------------
(* The catalog and the pools *)

\* A step that leaves the rows and their generation alone.
LEMMA CatalogKept ==
    ASSUME Catalog,
           UNCHANGED <<facts, capacity, creating, cluster.generation, cluster.source>>
    PROVE  Catalog'
<1>1. Rows'
  BY DEF Catalog, Rows
<1>2. CatalogIsSource'
  BY DEF Catalog, CatalogIsSource
<1>3. Pools'
  BY DEF Catalog, Pools
<1>4. CapacityMatchesInventory'
  BY DEF Catalog, CapacityMatchesInventory
<1> QED
  BY <1>1, <1>2, <1>3, <1>4 DEF Catalog

\* A replacement derives every row anew, in a generation nobody has read.
LEMMA CatalogReplaced ==
    ASSUME TypeOK, Catalog, NEW x \in Report, x.contents \in Contents,
           NEW g, g = cluster.generation + 1,
           cluster'.generation = g, cluster'.source = x.contents,
           facts' = MarkedStale(Upserted(x, g), g),
           capacity' = Refreshed(facts', g),
           creating' = creating
    PROVE  /\ facts' \in FactRows
           /\ capacity' \in [NodePools \X Profiles -> CapacityRow \cup {None}]
           /\ Catalog'
<1>0. cluster.generation \in Nat /\ g \in Nat /\ cluster.generation < g
  BY Typed DEF ClusterRow, Generation
<1> DEFINE f == facts'
<1>1. /\ f \in FactRows
      /\ \A n \in Nodes :
           /\ f.node[n].seen <= g
           /\ f.device[n].seen <= g
           /\ f.node[n].health = "healthy" <=> x.contents[n] \in {"ready", "bare"}
           /\ f.device[n].allocatable <=> x.contents[n] = "ready"
      /\ \A p \in NodePools :
           /\ f.pool[p].seen <= g
           /\ f.pool[p].enabled <=> Present(x, p)
  <2>1. PICK y : y = f
    OBVIOUS
  <2>2. y = MarkedStale(Upserted(x, cluster.generation + 1), cluster.generation + 1)
    BY <2>1
  <2>3. Rows
    BY DEF Catalog
  <2> QED
    BY <2>1, <2>2, <2>3, StoredRows
<1>2. /\ capacity' \in [NodePools \X Profiles -> CapacityRow \cup {None}]
      /\ \A c \in NodePools \X Profiles : capacity'[c] # None =>
           /\ capacity[c] # None
           /\ capacity'[c].asOf = g
           /\ capacity'[c].reserved = capacity[c].reserved
           /\ capacity'[c].total = AtLeast(Units(f, c), capacity[c].reserved)
  <2>1. PICK y : y = f
    OBVIOUS
  <2>2. capacity' = Refreshed(y, g)
    BY <2>1
  <2>3. /\ Refreshed(y, g) \in [NodePools \X Profiles -> CapacityRow \cup {None}]
        /\ \A c \in NodePools \X Profiles : Refreshed(y, g)[c] # None =>
             /\ capacity[c] # None
             /\ Refreshed(y, g)[c].asOf = g
             /\ Refreshed(y, g)[c].reserved = capacity[c].reserved
             /\ Refreshed(y, g)[c].total = AtLeast(Units(y, c), capacity[c].reserved)
    BY <1>0, RefreshedRows, ZenonT(60)
  <2>4. /\ capacity' \in [NodePools \X Profiles -> CapacityRow \cup {None}]
        /\ \A c \in NodePools \X Profiles : capacity'[c] # None =>
             /\ capacity[c] # None
             /\ capacity'[c].asOf = g
             /\ capacity'[c].reserved = capacity[c].reserved
             /\ capacity'[c].total = AtLeast(Units(y, c), capacity[c].reserved)
    BY <2>2, <2>3, Zenon
  <2> HIDE DEF f
  <2> QED
    BY <2>1, <2>4
<1>3. Rows'
  BY <1>1 DEF Rows
<1>4. CatalogIsSource'
  <2>1. ASSUME NEW n \in Nodes
        PROVE  f.pool[PoolOf[n]].enabled <=> Present(x, PoolOf[n])
    BY <1>1, InventoryAssumption
  <2>2. \A n \in Nodes :
          (\A m \in Nodes : PoolOf[m] = PoolOf[n] => x.contents[m] = "absent")
            <=> ~Present(x, PoolOf[n])
    BY DEF Present
  <2> QED
    BY <1>1, <2>1, <2>2 DEF CatalogIsSource
<1>5. Pools'
  <2> SUFFICES ASSUME NEW c \in NodePools \X Profiles
               PROVE  /\ capacity'[c] # None => capacity'[c].asOf <= g
                      /\ creating[c] # None =>
                           /\ creating[c].asOf <= g
                           /\ creating[c].asOf = g => creating[c].total = Units(facts', c)
    BY DEF Pools
  <2>1. capacity'[c] # None => capacity'[c].asOf <= g
    BY <1>0, <1>2
  <2>2. ASSUME creating[c] # None
        PROVE  creating[c].asOf \in Nat /\ creating[c].asOf <= cluster.generation
    <3>1. creating[c] \in CreatingRow
      BY <2>2, Typed
    <3> QED
      BY <2>2, <3>1 DEF Catalog, Pools, CreatingRow, Generation
  <2>3. creating[c] # None => creating[c].asOf < g
    BY <1>0, <2>2
  <2> QED
    BY <1>0, <2>1, <2>2, <2>3
<1>6. CapacityMatchesInventory'
  <2> SUFFICES ASSUME NEW c \in NodePools \X Profiles, capacity'[c] # None
               PROVE  /\ capacity'[c].reserved <= capacity'[c].total
                      /\ capacity'[c].asOf = g =>
                           capacity'[c].total = AtLeast(Units(f, c), capacity'[c].reserved)
    BY <1>2 DEF CapacityMatchesInventory
  <2>1. /\ capacity'[c].reserved = capacity[c].reserved
        /\ capacity'[c].total = AtLeast(Units(f, c), capacity[c].reserved)
    BY <1>2
  <2>2. capacity[c].reserved \in Nat
    BY <1>2, Typed DEF CapacityRow
  <2>3. Units(f, c) \in Nat
    <3>1. PICK y : y = f
      OBVIOUS
    <3> QED
      BY <3>1, UnitsType
  <2> QED
    BY <2>1, <2>2, <2>3 DEF AtLeast
<1>7. Catalog'
  BY <1>3, <1>4, <1>5, <1>6 DEF Catalog
<1> QED
  BY <1>1, <1>2, <1>7

\* CreateCapacityPool, its read and its insert, and a placement.
LEMMA PoolSteps ==
    ASSUME TypeOK, Catalog, NEW c \in NodePools \X Profiles,
           \/ ReadPoolInventory(c) \/ InsertPool(c)
           \/ \E q \in 1..Cardinality(Nodes) : CreatePlacement(c, q)
    PROVE  TypeOK' /\ Catalog'
<1>0. /\ capacity \in [NodePools \X Profiles -> CapacityRow \cup {None}]
      /\ creating \in [NodePools \X Profiles -> CreatingRow \cup {None}]
      /\ cluster.generation \in Nat
      /\ Units(facts, c) \in Nat
      /\ UNCHANGED <<reporting, replica, catalog>>
  BY Typed, UnitsType DEF ClusterRow, Generation, ReadPoolInventory, InsertPool, CreatePlacement
<1>1. /\ now' \in Time
      /\ physical' \in [nodes : Contents, changes : 0..MaxChanges]
      /\ agent' \in [Epochs -> AgentRow] /\ hub' \in Report \cup {None}
      /\ replica' \in [Replicas -> ReplicaRow] /\ cluster' \in ClusterRow
      /\ facts' \in FactRows /\ replaced' \subseteq Epochs \X Sequence
      /\ facts' = facts /\ cluster' = cluster
  BY <1>0, Typed DEF reporting, catalog
<1>2. Rows' /\ CatalogIsSource'
  BY <1>1 DEF Catalog, Rows, CatalogIsSource
<1>3. CASE ReadPoolInventory(c)
  <2> DEFINE x == [total |-> Units(facts, c), asOf |-> cluster.generation]
  <2>1. creating' = [creating EXCEPT ![c] = x] /\ capacity' = capacity
    BY <1>3 DEF ReadPoolInventory
  <2>2. x \in CreatingRow /\ x.asOf = cluster.generation /\ x.total = Units(facts, c)
    BY <1>0 DEF CreatingRow, Generation
  <2> HIDE DEF x
  <2>3. creating' \in [NodePools \X Profiles -> CreatingRow \cup {None}]
    BY <1>0, <2>1, <2>2
  <2>4. TypeOK'
    BY <1>0, <1>1, <2>1, <2>3, Typed DEF AgentRow, ReplicaRow, ClusterRow, NodeRow, DeviceRow,
       PoolRow, FactRows, CapacityRow, CreatingRow, TypeOK
  <2>5. \A d \in NodePools \X Profiles : creating'[d] = IF d = c THEN x ELSE creating[d]
    BY <1>0, <2>1
  <2>6. Pools'
    BY <1>0, <1>1, <2>1, <2>2, <2>5 DEF Catalog, Pools
  <2>7. CapacityMatchesInventory'
    BY <1>1, <2>1 DEF Catalog, CapacityMatchesInventory
  <2> QED
    BY <1>2, <2>4, <2>6, <2>7 DEF Catalog
<1>4. CASE InsertPool(c)
  <2> DEFINE x == [total |-> creating[c].total, reserved |-> 0, asOf |-> creating[c].asOf]
  <2>1. /\ capacity' = [capacity EXCEPT ![c] = x]
        /\ creating' = [creating EXCEPT ![c] = None]
        /\ creating[c] # None
    BY <1>4 DEF InsertPool
  <2>2. /\ x \in CapacityRow /\ x.asOf = creating[c].asOf /\ x.reserved = 0
        /\ x.total = creating[c].total /\ x.total \in Nat
    <3>1. creating[c] \in CreatingRow
      BY <1>0, <2>1
    <3> QED
      BY <3>1 DEF CreatingRow, CapacityRow
  <2> HIDE DEF x
  <2>3. /\ creating' \in [NodePools \X Profiles -> CreatingRow \cup {None}]
        /\ capacity' \in [NodePools \X Profiles -> CapacityRow \cup {None}]
    BY <1>0, <2>1, <2>2
  <2>4. TypeOK'
    BY <1>0, <1>1, <2>3 DEF AgentRow, ReplicaRow, ClusterRow, NodeRow, DeviceRow,
       PoolRow, FactRows, CapacityRow, CreatingRow, TypeOK
  <2>5. \A d \in NodePools \X Profiles :
          /\ creating'[d] = IF d = c THEN None ELSE creating[d]
          /\ capacity'[d] = IF d = c THEN x ELSE capacity[d]
    BY <1>0, <2>1
  <2>6. /\ x.asOf <= cluster.generation
        /\ x.asOf = cluster.generation => x.total = AtLeast(Units(facts, c), 0)
    <3>1. /\ creating[c].asOf <= cluster.generation
          /\ creating[c].asOf = cluster.generation => creating[c].total = Units(facts, c)
      BY <2>1 DEF Catalog, Pools
    <3>2. AtLeast(Units(facts, c), 0) = Units(facts, c)
      BY <1>0 DEF AtLeast
    <3> QED
      BY <2>2, <3>1, <3>2
  <2>7. Pools'
    BY <1>1, <2>5, <2>6 DEF Catalog, Pools
  <2>8. CapacityMatchesInventory'
    <3> SUFFICES ASSUME NEW d \in NodePools \X Profiles, capacity'[d] # None
                 PROVE  /\ capacity'[d].reserved <= capacity'[d].total
                        /\ capacity'[d].asOf = cluster.generation =>
                             capacity'[d].total = AtLeast(Units(facts, d), capacity'[d].reserved)
      BY <1>1, <2>3 DEF CapacityMatchesInventory
    <3>1. CASE d = c
      BY <2>2, <2>5, <2>6, <3>1
    <3>2. CASE d # c
      BY <1>0, <2>5, <3>2 DEF Catalog, CapacityMatchesInventory
    <3> QED
      BY <3>1, <3>2
  <2> QED
    BY <1>2, <2>4, <2>7, <2>8 DEF Catalog
<1>5. ASSUME NEW q \in 1..Cardinality(Nodes), CreatePlacement(c, q)
      PROVE  TypeOK' /\ Catalog'
  <2>0. q \in Nat /\ q >= 1
    BY InventoryAssumption, FS_CardinalityType
  <2> DEFINE x == [capacity[c] EXCEPT !.reserved = @ + q]
  <2>1. /\ capacity' = [capacity EXCEPT ![c] = x]
        /\ creating' = creating
        /\ capacity[c] # None
        /\ capacity[c].total - capacity[c].reserved >= q
    BY <1>0, <1>5 DEF CreatePlacement, Available
  <2>2. capacity[c] \in CapacityRow
    BY <1>0, <2>1
  <2>3. /\ x \in CapacityRow /\ x.asOf = capacity[c].asOf /\ x.total = capacity[c].total
        /\ x.reserved = capacity[c].reserved + q
        /\ capacity[c].total \in Nat /\ capacity[c].reserved \in Nat
    BY <2>0, <2>2 DEF CapacityRow
  <2> HIDE DEF x
  <2>4. capacity' \in [NodePools \X Profiles -> CapacityRow \cup {None}]
    BY <1>0, <2>1, <2>3
  <2>5. TypeOK'
    BY <1>0, <1>1, <2>1, <2>4 DEF AgentRow, ReplicaRow, ClusterRow, NodeRow, DeviceRow,
       PoolRow, FactRows, CapacityRow, CreatingRow, TypeOK
  <2>6. \A d \in NodePools \X Profiles : capacity'[d] = IF d = c THEN x ELSE capacity[d]
    BY <1>0, <2>1
  <2>7. Pools'
    BY <1>1, <2>1, <2>3, <2>6 DEF Catalog, Pools
  <2>8. CapacityMatchesInventory'
    <3> SUFFICES ASSUME NEW d \in NodePools \X Profiles, capacity'[d] # None
                 PROVE  /\ capacity'[d].reserved <= capacity'[d].total
                        /\ capacity'[d].asOf = cluster.generation =>
                             capacity'[d].total = AtLeast(Units(facts, d), capacity'[d].reserved)
      BY <1>1, <2>4 DEF CapacityMatchesInventory
    <3>1. CASE d = c
      <4>1. capacity[c].asOf = cluster.generation =>
              capacity[c].total = AtLeast(Units(facts, c), capacity[c].reserved)
        BY <1>0, <2>1 DEF Catalog, CapacityMatchesInventory
      <4>2. x.reserved <= x.total
        BY <2>0, <2>1, <2>3
      <4>3. x.asOf = cluster.generation => x.total = AtLeast(Units(facts, c), x.reserved)
        BY <1>0, <2>0, <2>1, <2>3, <4>1, <4>2 DEF AtLeast
      <4> QED
        BY <2>6, <3>1, <4>2, <4>3
    <3>2. CASE d # c
      BY <1>0, <2>6, <3>2 DEF Catalog, CapacityMatchesInventory
    <3> QED
      BY <3>1, <3>2
  <2> QED
    BY <1>2, <2>5, <2>7, <2>8 DEF Catalog
<1> QED
  BY <1>3, <1>4, <1>5

-----------------------------------------------------------------------------
(* The invariant *)

LEMMA InitIInv ==
    ASSUME Init
    PROVE  IInv
<1>0. 0 \in Sequence /\ 0 \in Time /\ 0 \in Generation /\ MaxChanges \in 0..MaxChanges
  BY InventoryAssumption DEF Sequence, Time, Generation
<1>1. TypeOK
  <2>1. physical \in [nodes : Contents, changes : 0..MaxChanges]
    BY <1>0 DEF Init, Contents, NodeState
  <2>2. agent \in [Epochs -> AgentRow] /\ replica \in [Replicas -> ReplicaRow]
    BY <1>0 DEF Init, Resting, AgentRow, ReplicaRow
  <2>3. cluster \in ClusterRow
    BY <1>0 DEF Init, ClusterRow
  <2>4. facts \in FactRows
    BY <1>0 DEF Init, FactRows, NodeRow, DeviceRow, PoolRow, Health
  <2>5. /\ now \in Time /\ hub \in Report \cup {None} /\ replaced \subseteq Epochs \X Sequence
        /\ capacity \in [NodePools \X Profiles -> CapacityRow \cup {None}]
        /\ creating \in [NodePools \X Profiles -> CreatingRow \cup {None}]
    BY <1>0 DEF Init
  <2> QED
    BY <2>1, <2>2, <2>3, <2>4, <2>5, Typed
<1>2. Polling
  BY DEF Init, Resting, Polling
<1>3. Marks = {} /\ InFlight = {}
  <2>1. InFlight = {}
    BY DEF Init, Resting, InFlight
  <2>2. cluster.epoch \notin Epochs
    BY Numbers DEF Init
  <2>3. \A e \in Epochs : agent[e].sequence = 0
    BY DEF Init
  <2> QED
    BY <2>1, <2>2, <2>3 DEF Marks
<1>4. Numbering
  BY <1>3 DEF Init, Numbering, Ordered
<1>5. Stored
  BY Numbers DEF Init, Stored
<1>6. Catalog
  <2>1. Rows /\ CatalogIsSource
    BY DEF Init, Rows, CatalogIsSource
  <2>2. Pools /\ CapacityMatchesInventory
    BY DEF Init, Pools, CapacityMatchesInventory
  <2> QED
    BY <2>1, <2>2 DEF Catalog
<1> QED
  BY <1>1, <1>2, <1>4, <1>5, <1>6 DEF IInv

\* The clock, the nodes, and an agent that starts or pushes its report.
LEMMA ReportingSteps ==
    ASSUME IInv,
           \/ Tick
           \/ \E n \in Nodes, s \in NodeState : NodeChanges(n, s)
           \/ \E e \in Epochs : (\E d \in BOOLEAN : StartAgent(e, d)) \/ PushReport(e)
    PROVE  IInv'
<1>0. /\ TypeOK /\ Polling /\ Numbering /\ Stored /\ Catalog
      /\ UNCHANGED <<replica, cluster, facts, replaced, capacity, creating>>
  BY DEF IInv, Tick, NodeChanges, StartAgent, PushReport, catalog
<1>1. Polling' /\ Catalog'
  BY <1>0, CatalogKept DEF Polling
<1>2. ASSUME now' \in Time, physical' \in [nodes : Contents, changes : 0..MaxChanges],
             agent' \in [Epochs -> AgentRow], hub' \in Report \cup {None},
             AgentsKept, InFlight' \subseteq InFlight
      PROVE  IInv'
  <2>1. TypeOK'
    BY <1>0, <1>2 DEF AgentRow, TypeOK
  <2>2. \A e \in Epochs : cluster'.epoch = e =>
          <<e, cluster'.sequence, cluster'.heartbeatAt>> \in Marks
    BY <1>0 DEF Marks
  <2>3. Marks' \subseteq Marks
    BY <1>2, <2>2, MarksShrink
  <2>4. Numbering' /\ Stored'
    BY <1>0, <1>2, <2>3, NumberingKept, StoredKept
  <2> QED
    BY <1>1, <2>1, <2>4 DEF IInv
<1>3. /\ now \in Time /\ physical \in [nodes : Contents, changes : 0..MaxChanges]
      /\ agent \in [Epochs -> AgentRow] /\ hub \in Report \cup {None}
  BY <1>0, Typed
<1>4. CASE Tick
  <2>1. now' \in Time /\ UNCHANGED <<physical, agent, hub, replica>>
    BY <1>3, <1>4, InventoryAssumption DEF Tick, Time
  <2>2. AgentsKept /\ InFlight' \subseteq InFlight
    BY <1>0, <2>1, AgentsUnchanged DEF InFlight
  <2> QED
    BY <1>2, <1>3, <2>1, <2>2
<1>5. CASE \E n \in Nodes, s \in NodeState : NodeChanges(n, s)
  <2> PICK n \in Nodes, s \in NodeState : NodeChanges(n, s)
    BY <1>5
  <2>1. UNCHANGED <<now, agent, hub, replica>>
    BY DEF NodeChanges
  <2>2. physical' \in [nodes : Contents, changes : 0..MaxChanges]
    <3>1. /\ physical' = [nodes |-> [physical.nodes EXCEPT ![n] = s],
                          changes |-> physical.changes - 1]
          /\ physical.changes > 0
      BY DEF NodeChanges
    <3>2. physical.nodes \in Contents /\ physical.changes \in 0..MaxChanges
      BY <1>3
    <3>3. [physical.nodes EXCEPT ![n] = s] \in Contents
      BY <3>2 DEF Contents
    <3>4. physical.changes - 1 \in 0..MaxChanges
      BY <3>1, <3>2, InventoryAssumption
    <3> QED
      BY <3>1, <3>3, <3>4
  <2>3. AgentsKept /\ InFlight' \subseteq InFlight
    BY <1>0, <2>1, AgentsUnchanged DEF InFlight
  <2> QED
    BY <1>2, <1>3, <2>1, <2>2, <2>3
<1>6. ASSUME NEW e \in Epochs, NEW d \in BOOLEAN, StartAgent(e, d)
      PROVE  IInv'
  <2> DEFINE x == [agent[e] EXCEPT !.phase = "idle", !.detailed = d]
  <2>1. /\ agent' = [agent EXCEPT ![e] = x] /\ agent[e].phase = "new"
        /\ UNCHANGED <<now, physical, hub, replica>>
    BY <1>3, <1>6 DEF StartAgent
  <2>2. /\ x \in AgentRow /\ x.phase = "idle" /\ x.sequence = agent[e].sequence
        /\ x.observedAt = agent[e].observedAt /\ x.report = agent[e].report
    BY <1>3 DEF AgentRow
  <2> HIDE DEF x
  <2>3. \A c \in Epochs : agent'[c] = IF c = e THEN x ELSE agent[c]
    BY <1>3, <2>1
  <2>4. agent' \in [Epochs -> AgentRow]
    BY <1>3, <2>1, <2>2
  <2>5. AgentsKept
    BY <1>0, <2>1, <2>2, <2>3 DEF Numbering, AgentsKept
  <2>6. InFlight' \subseteq InFlight
    BY <2>1, <2>2, <2>3 DEF InFlight
  <2> QED
    BY <1>2, <1>3, <2>1, <2>4, <2>5, <2>6
<1>7. ASSUME NEW e \in Epochs, PushReport(e)
      PROVE  IInv'
  <2> DEFINE x == [agent[e] EXCEPT !.phase = "idle", !.report = None]
  <2>1. /\ agent' = [agent EXCEPT ![e] = x] /\ agent[e].phase = "report"
        /\ hub' = agent[e].report
        /\ UNCHANGED <<now, physical, replica>>
    BY <1>3, <1>7 DEF PushReport
  <2>2. /\ x \in AgentRow /\ x.phase = "idle" /\ x.sequence = agent[e].sequence
        /\ x.observedAt = agent[e].observedAt /\ x.report = None
        /\ x.detailed = agent[e].detailed
        /\ agent[e].report \in Report \cup {None}
    BY <1>3 DEF AgentRow
  <2> HIDE DEF x
  <2>3. \A c \in Epochs : agent'[c] = IF c = e THEN x ELSE agent[c]
    BY <1>3, <2>1
  <2>4. agent' \in [Epochs -> AgentRow] /\ hub' \in Report \cup {None}
    BY <1>3, <2>1, <2>2
  <2>5. AgentsKept
    BY <1>0, <2>1, <2>2, <2>3 DEF Numbering, AgentsKept
  <2>6. InFlight' \subseteq InFlight
    BY <2>1, <2>2, <2>3 DEF InFlight
  <2> QED
    BY <1>2, <1>3, <2>1, <2>4, <2>5, <2>6
<1> QED
  BY <1>4, <1>5, <1>6, <1>7

LEMMA CollectStep ==
    ASSUME IInv, NEW e \in Epochs, Collect(e)
    PROVE  IInv'
<1>1. TypeOK /\ Polling /\ Numbering /\ Stored /\ Catalog
  BY DEF IInv
<1>2. UNCHANGED <<now, physical, hub, replica, cluster, facts, replaced, capacity, creating>>
  BY DEF Collect, catalog
<1>3. Numbering' /\ Stored' /\ agent' \in [Epochs -> AgentRow]
  BY <1>1, CollectNumbers
<1>4. TypeOK'
  BY <1>1, <1>2, <1>3 DEF AgentRow, TypeOK
<1>5. Polling' /\ Catalog'
  BY <1>1, <1>2, CatalogKept DEF Polling
<1> QED
  BY <1>3, <1>4, <1>5 DEF IInv

\* Types and catalog after a transaction.
LEMMA StoreStep ==
    ASSUME IInv, Polls, UNCHANGED <<reporting, creating>>,
           cluster' \in ClusterRow, facts' \in FactRows,
           replaced' \subseteq Epochs \X Sequence,
           capacity' \in [NodePools \X Profiles -> CapacityRow \cup {None}],
           Numbering', Stored', Catalog'
    PROVE  IInv'
<1>1. TypeOK'
  BY DEF IInv, Polls, reporting, TypeOK, ReplicaRow, ClusterRow, NodeRow, DeviceRow,
     PoolRow, FactRows, CapacityRow
<1> QED
  BY <1>1 DEF IInv, Polls

LEMMA SyncSteps ==
    ASSUME IInv, NEW r \in Replicas, SyncStep(r) \/ SyncFails(r)
    PROVE  IInv'
<1>0. /\ TypeOK /\ Polling /\ Numbering /\ Stored /\ Catalog
      /\ cluster \in ClusterRow /\ facts \in FactRows
      /\ replaced \subseteq Epochs \X Sequence
      /\ capacity \in [NodePools \X Profiles -> CapacityRow \cup {None}]
  BY Typed DEF IInv
<1>1. Polls
  BY <1>0, SyncPolls
<1>2. CASE \/ ListClusters(r) \/ ReadInventory(r) \/ Replay(r) \/ GenerationConflict(r)
           \/ ReloadGeneration(r) \/ DropStaleReport(r) \/ SyncFails(r)
  <2>1. UNCHANGED <<reporting, cluster, facts, replaced, capacity, creating>>
    BY <1>2 DEF ListClusters, ReadInventory, Replay, GenerationConflict, ReloadGeneration,
                DropStaleReport, SyncFails, catalog
  <2>2. Numbering' /\ Stored'
    BY <1>0, <1>1, <2>1, PollNumbers
  <2>3. Catalog'
    BY <1>0, <2>1, CatalogKept
  <2> QED
    BY <1>0, <1>1, <2>1, <2>2, <2>3, StoreStep
<1>3. CASE ObserveHeartbeat(r)
  <2>1. PICK x : Beats(x)
    BY <1>0, <1>3, HeartbeatBeats
  <2>2. Numbering' /\ Stored'
    BY <1>0, <1>1, <2>1, BeatNumbers
  <2>3. /\ UNCHANGED <<reporting, facts, replaced, capacity, creating>>
        /\ cluster' \in ClusterRow
        /\ UNCHANGED <<cluster.generation, cluster.source>>
    BY <1>0, <2>1 DEF Beats, RowAfter
  <2>4. Catalog'
    BY <1>0, <2>3, CatalogKept
  <2> QED
    BY <1>0, <1>1, <2>2, <2>3, <2>4, StoreStep
<1>4. ASSUME NEW x, Inventories(x)
      PROVE  /\ Numbering' /\ Stored'
             /\ UNCHANGED <<reporting, creating>>
             /\ cluster' \in ClusterRow
             /\ replaced' \subseteq Epochs \X Sequence
  <2>1. Identity(x) \in Epochs \X Sequence
    BY <1>4, ReportType DEF Inventories, Identity
  <2> QED
    BY <1>0, <1>1, <1>4, <2>1, InventoryNumbers DEF Inventories, RowAfter
<1>5. CASE RefreshObservation(r)
  <2>1. /\ Inventories(replica[r].report)
        /\ UNCHANGED <<facts, capacity, cluster.generation, cluster.source>>
    BY <1>0, <1>5, RefreshInventories
  <2>2. /\ Numbering' /\ Stored'
        /\ UNCHANGED <<reporting, creating>>
        /\ cluster' \in ClusterRow
        /\ replaced' \subseteq Epochs \X Sequence
    BY <1>4, <2>1
  <2>3. Catalog'
    BY <1>0, <2>1, <2>2, CatalogKept
  <2> QED
    BY <1>0, <1>1, <2>1, <2>2, <2>3, StoreStep
<1>6. CASE ReplaceInventory(r)
  <2>1. PICK x, g : /\ x = replica[r].report /\ g = cluster.generation + 1
    OBVIOUS
  <2>2. /\ Inventories(x)
        /\ cluster'.generation = g /\ cluster'.source = x.contents
        /\ facts' = MarkedStale(Upserted(x, g), g)
        /\ capacity' = Refreshed(facts', g)
    BY <1>0, <1>6, <2>1, ReplaceInventories
  <2>3. /\ Numbering' /\ Stored'
        /\ UNCHANGED <<reporting, creating>>
        /\ cluster' \in ClusterRow
        /\ replaced' \subseteq Epochs \X Sequence
    BY <1>4, <2>2
  <2>4. x \in Report /\ x.contents \in Contents
    BY <2>2 DEF Inventories
  <2>5. /\ facts' \in FactRows
        /\ capacity' \in [NodePools \X Profiles -> CapacityRow \cup {None}]
        /\ Catalog'
    BY <1>0, <2>1, <2>2, <2>3, <2>4, CatalogReplaced
  <2> QED
    BY <1>0, <1>1, <2>3, <2>5, StoreStep
<1> QED
  BY <1>2, <1>3, <1>5, <1>6 DEF SyncStep

LEMMA NextIInv ==
    ASSUME IInv, [Next]_vars
    PROVE  IInv'
<1>1. CASE Tick \/ (\E n \in Nodes, s \in NodeState : NodeChanges(n, s))
           \/ \E e \in Epochs : (\E d \in BOOLEAN : StartAgent(e, d)) \/ PushReport(e)
  BY <1>1, ReportingSteps
<1>2. CASE \E e \in Epochs : Collect(e)
  BY <1>2, CollectStep
<1>3. CASE \E r \in Replicas : SyncStep(r) \/ SyncFails(r)
  BY <1>3, SyncSteps
<1>4. CASE \E c \in NodePools \X Profiles :
             \/ ReadPoolInventory(c) \/ InsertPool(c)
             \/ \E q \in 1..Cardinality(Nodes) : CreatePlacement(c, q)
  <2>1. PICK c \in NodePools \X Profiles :
               \/ ReadPoolInventory(c) \/ InsertPool(c)
               \/ \E q \in 1..Cardinality(Nodes) : CreatePlacement(c, q)
    BY <1>4
  <2>2. UNCHANGED <<reporting, replica, catalog>>
    BY <2>1 DEF ReadPoolInventory, InsertPool, CreatePlacement
  <2>3. TypeOK /\ Polling /\ Numbering /\ Stored /\ Catalog
    BY DEF IInv
  <2>4. TypeOK' /\ Catalog'
    BY <2>1, <2>3, PoolSteps
  <2>5. UNCHANGED <<agent, hub, replica, cluster, replaced>>
    BY <2>2 DEF reporting, catalog
  <2>6. Polling'
    BY <2>3, <2>5 DEF Polling
  <2>7. InFlight' = InFlight /\ Marks' = Marks
    BY <2>5 DEF InFlight, Marks
  <2>8. Numbering' /\ Stored'
    BY <2>3, <2>5, <2>7, AgentsUnchanged, NumberingKept, StoredKept
  <2> QED
    BY <2>4, <2>6, <2>8 DEF IInv
<1>5. CASE UNCHANGED vars
  <2>1. UNCHANGED <<now, physical, agent, hub, replica, cluster, facts, replaced, capacity, creating>>
    BY <1>5 DEF vars
  <2>2. TypeOK' /\ Polling'
    BY <2>1 DEF IInv, TypeOK, Polling
  <2>3. InFlight' = InFlight /\ Marks' = Marks
    BY <2>1 DEF InFlight, Marks
  <2>4. Numbering' /\ Stored'
    BY <2>1, <2>3, AgentsUnchanged, NumberingKept, StoredKept DEF IInv
  <2>5. Catalog'
    BY <2>1, CatalogKept DEF IInv
  <2> QED
    BY <2>2, <2>4, <2>5 DEF IInv
<1> QED
  BY <1>1, <1>2, <1>3, <1>4, <1>5 DEF Next

LEMMA InvariantHolds == Spec => []IInv
<1>1. Init => IInv
  BY InitIInv
<1>2. IInv /\ [Next]_vars => IInv'
  BY NextIInv
<1> QED
  BY <1>1, <1>2, PTL DEF Spec

-----------------------------------------------------------------------------
(* Theorems *)

\* Every variable keeps its type.
THEOREM TypeCorrect == Spec => []TypeOK
<1>1. IInv => TypeOK
  BY DEF IInv
<1> QED
  BY <1>1, InvariantHolds, PTL

\* The rows of the catalog are what the last stored contents say.
THEOREM CatalogFollowsSource == Spec => []CatalogIsSource
<1>1. IInv => CatalogIsSource
  BY DEF IInv, Catalog
<1> QED
  BY <1>1, InvariantHolds, PTL

\* Pools have the total of their inventory, never less than is placed.
THEOREM CapacityFollowsInventory == Spec => []CapacityMatchesInventory
<1>1. IInv => CapacityMatchesInventory
  BY DEF IInv, Catalog
<1> QED
  BY <1>1, InvariantHolds, PTL

\* Only the two stores of a report write the row and the idempotency records.
LEMMA Writes ==
    ASSUME IInv, [Next]_vars
    PROVE  \/ UNCHANGED <<cluster, replaced>>
           \/ \E x : Beats(x) \/ Inventories(x)
<1>0. TypeOK /\ Polling
  BY DEF IInv
<1>1. CASE \E r \in Replicas : ObserveHeartbeat(r)
  BY <1>0, <1>1, HeartbeatBeats
<1>2. CASE \E r \in Replicas : RefreshObservation(r)
  BY <1>0, <1>2, RefreshInventories
<1>3. CASE \E r \in Replicas : ReplaceInventory(r)
  BY <1>0, <1>3, ReplaceInventories
<1>4. CASE \E r \in Replicas :
             \/ ListClusters(r) \/ ReadInventory(r) \/ Replay(r) \/ GenerationConflict(r)
             \/ ReloadGeneration(r) \/ DropStaleReport(r) \/ SyncFails(r)
  BY <1>4 DEF ListClusters, ReadInventory, Replay, GenerationConflict, ReloadGeneration,
              DropStaleReport, SyncFails, catalog
<1>5. CASE Tick \/ (\E n \in Nodes, s \in NodeState : NodeChanges(n, s))
           \/ \E e \in Epochs :
                (\E d \in BOOLEAN : StartAgent(e, d)) \/ Collect(e) \/ PushReport(e)
  BY <1>5 DEF Tick, NodeChanges, StartAgent, Collect, PushReport, catalog
<1>6. CASE \E c \in NodePools \X Profiles :
             \/ ReadPoolInventory(c) \/ InsertPool(c)
             \/ \E q \in 1..Cardinality(Nodes) : CreatePlacement(c, q)
  BY <1>6 DEF ReadPoolInventory, InsertPool, CreatePlacement, catalog
<1>7. CASE UNCHANGED vars
  BY <1>7 DEF vars
<1> QED
  BY <1>1, <1>2, <1>3, <1>4, <1>5, <1>6, <1>7 DEF Next, SyncStep

\* What a report must be to be stored as the inventory.
LEMMA StoredIsNewer ==
    ASSUME IInv, NEW x, Inventories(x)
    PROVE  /\ cluster'.inventoryAt = x.observedAt /\ x.observedAt \in Nat
           /\ x.observedAt # None
           /\ cluster.inventoryAt # None =>
                cluster.inventoryAt \in Nat /\ cluster.inventoryAt <= x.observedAt
<1>1. /\ cluster'.inventoryAt = x.observedAt /\ x.observedAt \in Nat
      /\ x.observedAt # None
  BY ReportType, Numbers DEF Inventories, RowAfter
<1>2. cluster.inventoryAt # None => cluster.inventoryAt \in Nat
  BY Typed, Numbers DEF IInv, ClusterRow
<1>3. cluster.inventoryAt # None => ~(x.observedAt < cluster.inventoryAt)
  BY DEF Inventories, StaleInventory
<1> QED
  BY <1>1, <1>2, <1>3

\* The inventory only moves to reports observed later.
THEOREM InventoryForward == Spec => InventoryMovesForward
<1>1. ASSUME IInv, [Next]_vars
      PROVE  [cluster.inventoryAt # None =>
                cluster'.inventoryAt # None /\ cluster'.inventoryAt >= cluster.inventoryAt]_vars
  <2> SUFFICES ASSUME cluster.inventoryAt # None
               PROVE  cluster'.inventoryAt # None /\ cluster'.inventoryAt >= cluster.inventoryAt
    OBVIOUS
  <2>1. cluster.inventoryAt \in Nat
    BY <1>1, Typed, Numbers DEF IInv, ClusterRow
  <2>2. CASE cluster'.inventoryAt = cluster.inventoryAt
    BY <2>1, <2>2
  <2>3. CASE \E x : Inventories(x)
    BY <1>1, <2>3, StoredIsNewer
  <2>4. ASSUME NEW x, Beats(x)
        PROVE  cluster'.inventoryAt = cluster.inventoryAt
    BY <2>4 DEF Beats, RowAfter
  <2> QED
    BY <1>1, <2>2, <2>3, <2>4, Writes
<1> QED
  BY <1>1, InvariantHolds, PTL DEF Spec, InventoryMovesForward

\* The heartbeat only moves to reports observed later, but for an inventory that
\* follows heartbeats of an agent of the previous release.
THEOREM HeartbeatForward == Spec => HeartbeatMovesForward
<1>1. ASSUME IInv, [Next]_vars
      PROVE  [cluster.heartbeatAt # None /\ cluster'.heartbeatAt # cluster.heartbeatAt =>
                \/ cluster'.heartbeatAt # None /\ cluster'.heartbeatAt > cluster.heartbeatAt
                \/ \A d, e \in Epochs : cluster.epoch = d /\ cluster'.epoch = e =>
                     ~agent[d].detailed /\ agent[e].detailed]_vars
  <2> SUFFICES ASSUME cluster.heartbeatAt # None, cluster'.heartbeatAt # cluster.heartbeatAt,
                      NEW d \in Epochs, NEW e \in Epochs,
                      cluster.epoch = d, cluster'.epoch = e,
                      ~(~agent[d].detailed /\ agent[e].detailed)
               PROVE  cluster'.heartbeatAt # None /\ cluster'.heartbeatAt > cluster.heartbeatAt
    OBVIOUS
  <2>1. cluster.heartbeatAt \in Nat
    BY <1>1, Typed, Numbers DEF IInv, ClusterRow
  <2>2. ASSUME NEW x, Beats(x)
        PROVE  cluster'.heartbeatAt # None /\ cluster'.heartbeatAt > cluster.heartbeatAt
    <3>1. /\ cluster'.heartbeatAt = x.observedAt /\ ~StaleHeartbeat(x)
          /\ x.observedAt \in Nat /\ x.observedAt # None
      BY <2>2, ReportType, Numbers DEF Beats, RowAfter
    <3>2. ~(x.observedAt < cluster.heartbeatAt)
      BY <3>1 DEF StaleHeartbeat
    <3> QED
      BY <2>1, <3>1, <3>2
  <2>3. ASSUME NEW x, Inventories(x)
        PROVE  cluster'.heartbeatAt # None /\ cluster'.heartbeatAt > cluster.heartbeatAt
    <3>1. /\ cluster'.heartbeatAt = x.observedAt /\ x.epoch = e
          /\ x.contents # None /\ x \in InFlight
      BY <2>3, ReportAssumption DEF Inventories, RowAfter
    <3>2. agent[e].detailed
      BY <1>1, <3>1 DEF IInv, Numbering
    <3>3. cluster.inventoryAt # None /\ cluster.inventoryAt = cluster.heartbeatAt
      BY <1>1, <3>2 DEF IInv, Stored
    <3>4. x.observedAt \in Nat /\ x.observedAt # None /\ cluster.heartbeatAt <= x.observedAt
      BY <1>1, <2>3, <3>3, StoredIsNewer
    <3> QED
      BY <2>1, <3>1, <3>4
  <2> QED
    BY <1>1, <2>2, <2>3, Writes
<1> QED
  BY <1>1, InvariantHolds, PTL DEF Spec, HeartbeatMovesForward

\* Reports of one agent are stored in order and at most once each.
THEOREM StoredInOrder == Spec => ReportsStoredInOrder
<1>1. ASSUME IInv, [Next]_vars
      PROVE  [\A e \in Epochs : \A s, t \in Sequence :
                <<e, s>> \in replaced' \ replaced /\ <<e, t>> \in replaced => t < s]_vars
  <2> SUFFICES ASSUME NEW e \in Epochs, NEW s \in Sequence, NEW t \in Sequence,
                      <<e, s>> \in replaced', <<e, s>> \notin replaced, <<e, t>> \in replaced
               PROVE  t < s
    OBVIOUS
  <2>1. PICK x : Inventories(x)
    BY <1>1, Writes DEF Beats
  <2>2. /\ x.epoch = e /\ x.sequence = s /\ x \in InFlight
        /\ s # t
    BY <2>1 DEF Inventories, Identity
  <2>3. s \in Nat /\ t \in Nat
    BY Numbers
  <2>4. ASSUME s < t
        PROVE  FALSE
    <3> DEFINE k == <<x.epoch, x.sequence, x.observedAt>>
    <3>1. k \in Marks /\ k[1] = e /\ k[2] = s /\ k[3] = x.observedAt
      BY <1>1, <2>2, InFlightFacts DEF IInv
    <3> HIDE DEF k
    <3>2. cluster.inventoryAt # None /\ x.observedAt < cluster.inventoryAt
      BY <1>1, <2>4, <3>1 DEF IInv, Stored
    <3>3. cluster.inventoryAt \in Nat /\ cluster.inventoryAt <= x.observedAt
             /\ x.observedAt \in Nat
      BY <1>1, <2>1, <3>2, StoredIsNewer
    <3> QED
      BY <3>2, <3>3
  <2> QED
    BY <2>2, <2>3, <2>4
<1> QED
  BY <1>1, InvariantHolds, PTL DEF Spec, ReportsStoredInOrder

\* What the fence on numbers calls superseded was observed no later than the
\* heartbeat of the row.
LEMMA SupersededIsOlder ==
    ASSUME IInv, NEW x \in InFlight, Superseded(x)
    PROVE  cluster.heartbeatAt # None /\ cluster.heartbeatAt >= x.observedAt
<1> DEFINE k == <<x.epoch, x.sequence, x.observedAt>>
           l == <<x.epoch, cluster.sequence, cluster.heartbeatAt>>
<1>1. /\ cluster.epoch = x.epoch /\ x.sequence <= cluster.sequence
      /\ x.epoch \in Epochs
  BY InFlightFacts DEF IInv, Superseded
<1>2. k \in Marks
  BY InFlightFacts DEF IInv
<1>3. l \in Marks
  BY <1>1 DEF Marks
<1>4. /\ k[1] = l[1] /\ k[2] = x.sequence /\ k[3] = x.observedAt
      /\ l[2] = cluster.sequence /\ l[3] = cluster.heartbeatAt
  OBVIOUS
<1> HIDE DEF k, l
<1>5. /\ k[2] \in Nat /\ k[3] \in Nat /\ l[2] \in Nat /\ l[3] \in Nat /\ l[3] \in Time
  BY <1>2, <1>3, MarkType DEF IInv
<1>6. /\ k[2] < l[2] => k[3] < l[3]
      /\ k[2] = l[2] => k[3] = l[3]
  BY <1>2, <1>3, <1>4 DEF IInv, Numbering, Ordered
<1>7. cluster.heartbeatAt # None
  BY <1>4, <1>5, Numbers
<1> QED
  BY <1>1, <1>4, <1>5, <1>6, <1>7

\* A report that a replica is done with has been stored or is obsolete.
THEOREM NothingNewerDropped == Spec => NothingNewerIsDropped
<1>1. ASSUME IInv, [Next]_vars
      PROVE  [\A r \in Replicas :
                LET report == replica[r].report IN
                /\ ObserveHeartbeat(r) =>
                     cluster'.heartbeatAt # None /\ cluster'.heartbeatAt >= report.observedAt
                /\ Replay(r) \/ DropStaleReport(r) \/ RefreshObservation(r) \/ ReplaceInventory(r) =>
                     cluster'.inventoryAt # None
                       /\ cluster'.inventoryAt >= report.observedAt]_vars
  <2>0. TypeOK /\ Polling /\ Numbering /\ Stored
    BY <1>1 DEF IInv
  <2>1. ASSUME NEW r \in Replicas, ObserveHeartbeat(r)
        PROVE  /\ cluster'.heartbeatAt # None
               /\ cluster'.heartbeatAt >= replica[r].report.observedAt
    <3>1. PICK x : x = replica[r].report
      OBVIOUS
    <3>2. Beats(x)
      BY <2>0, <2>1, <3>1, HeartbeatBeats
    <3>3. x \in InFlight /\ x.observedAt \in Nat /\ x.observedAt # None
      BY <3>2, ReportType, Numbers DEF Beats
    <3>4. CASE RowAfter(x, cluster.inventoryAt)
      BY <3>1, <3>3, <3>4 DEF RowAfter
    <3>5. CASE StaleHeartbeat(x) /\ cluster' = cluster
      <4>1. CASE Superseded(x)
        BY <1>1, <3>1, <3>3, <3>5, <4>1, SupersededIsOlder
      <4>2. CASE cluster.heartbeatAt # None /\ x.observedAt < cluster.heartbeatAt
        <5>1. cluster.heartbeatAt \in Nat
          BY <2>0, <4>2, Typed, Numbers DEF ClusterRow
        <5> QED
          BY <3>1, <3>3, <3>5, <4>2, <5>1
      <4> QED
        BY <3>5, <4>1, <4>2 DEF StaleHeartbeat
    <3> QED
      BY <3>2, <3>4, <3>5 DEF Beats
  <2>2. ASSUME NEW r \in Replicas, NEW x, x = replica[r].report,
               Replay(r) \/ DropStaleReport(r) \/ RefreshObservation(r) \/ ReplaceInventory(r)
        PROVE  cluster'.inventoryAt # None /\ cluster'.inventoryAt >= x.observedAt
    <3>1. x \in Report /\ x.contents \in Contents /\ x \in InFlight
          /\ x.observedAt \in Nat /\ x.sequence \in Sequence /\ x.epoch \in Epochs
      <4>1. Replaces(r)
        BY <2>2 DEF Replay, DropStaleReport, RefreshObservation, ReplaceInventory, Admitted
      <4>2. x \in Report /\ x.contents \in Contents
        BY <2>0, <2>2, <4>1, ReplacesReport
      <4> QED
        BY <2>2, <4>2, ReportType, ReplicaInFlight, Numbers
    <3>2. cluster.inventoryAt # None => cluster.inventoryAt \in Nat
      BY <2>0, Typed, Numbers DEF ClusterRow
    <3>3. CASE Replay(r)
      <4>1. cluster' = cluster /\ <<x.epoch, x.sequence>> \in replaced
        BY <2>2, <3>3 DEF Replay, Identity, catalog
      <4> DEFINE k == <<x.epoch, x.sequence, x.observedAt>>
      <4>2. k \in Marks /\ k[1] = x.epoch /\ k[2] = x.sequence /\ k[3] = x.observedAt
        BY <2>0, <3>1, InFlightFacts
      <4> HIDE DEF k
      <4>3. x.sequence <= x.sequence
        <5>1. x.sequence \in Nat
          BY <3>1, Numbers
        <5> QED
          BY <5>1
      <4>4. cluster.inventoryAt # None /\ x.observedAt <= cluster.inventoryAt
        BY <2>0, <3>1, <4>1, <4>2, <4>3 DEF Stored
      <4> QED
        BY <3>1, <3>2, <4>1, <4>4
    <3>4. CASE DropStaleReport(r)
      <4>1. cluster' = cluster /\ StaleInventory(x)
        BY <2>2, <3>4 DEF DropStaleReport, catalog
      <4>2. CASE Superseded(x)
        <5>1. agent[x.epoch].detailed
          <6>1. x.contents # None
            BY <3>1, ReportAssumption
          <6> QED
            BY <2>0, <3>1, <6>1 DEF Numbering
        <5>2. cluster.inventoryAt # None /\ cluster.inventoryAt = cluster.heartbeatAt
          BY <2>0, <3>1, <4>2, <5>1 DEF Superseded, Stored
        <5> QED
          BY <1>1, <3>1, <4>1, <4>2, <5>2, SupersededIsOlder
      <4>3. CASE cluster.inventoryAt # None /\ x.observedAt < cluster.inventoryAt
        BY <3>1, <3>2, <4>1, <4>3
      <4> QED
        BY <4>1, <4>2, <4>3 DEF StaleInventory
    <3>5. CASE RefreshObservation(r) \/ ReplaceInventory(r)
      <4>1. Inventories(replica[r].report)
        <5>1. CASE RefreshObservation(r)
          BY <2>0, <5>1, RefreshInventories
        <5>2. CASE ReplaceInventory(r)
          BY <2>0, <5>2, ReplaceInventories
        <5> QED
          BY <3>5, <5>1, <5>2
      <4> QED
        BY <1>1, <2>2, <4>1, StoredIsNewer
    <3> QED
      BY <2>2, <3>3, <3>4, <3>5
  <2> QED
    BY <2>1, <2>2
<1> QED
  BY <1>1, InvariantHolds, PTL DEF Spec, NothingNewerIsDropped

=============================================================================
