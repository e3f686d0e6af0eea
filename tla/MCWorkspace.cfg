\* The two scenarios: two attempts and one fault each.
SPECIFICATION FairSpec
CONSTANTS
    w1 = w1
    w2 = w2
    Workers <- MCWorkers
    NoWorker = NoWorker
    NoEvent = NoEvent
    NoSpec = NoSpec
    MaxAttempts = 2
    MaxFaults = 1
    Changes = 1
    Snapshots = 1
    Targets = {"stopped", "terminated"}
    Scenarios <- MCScenarios
INVARIANTS
    SucceededIsAccurate
    WorkConverged
    DeliveredSnapshotRecorded
    StatusConverged
PROPERTIES
    DesiredReachesCluster
\* The system rests once every event is settled.
CHECK_DEADLOCK FALSE
