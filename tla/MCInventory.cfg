\* Two agents that overlap and two replicas; with one agent a pool as well.
SPECIFICATION Spec
CONSTANTS
    e1 = e1
    e2 = e2
    pool = pool
    pair = pair
    Epochs = {e1, e2}
    Replicas = {k1, k2}
    Nodes = {n1, n2}
    NodePools = {pool}
    PoolOf <- MCPoolOf
    Profiles = {pair, single}
    GPUCount <- MCGPUCount
    None = None
    DegradedAfter = 1
    OfflineAfter = 2
    MaxTime = 2
    MaxReports <- MCMaxReports
    MaxChanges = 1
SYMMETRY Symmetry
CONSTRAINT MCBound
INVARIANTS
    CatalogIsSource
    CapacityMatchesInventory
PROPERTIES
    InventoryMovesForward
    HeartbeatMovesForward
    ReportsStoredInOrder
    NothingNewerIsDropped
