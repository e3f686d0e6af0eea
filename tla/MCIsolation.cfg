\* The two scenarios: two attempts and one fault each.
SPECIFICATION FairSpec
CONSTANTS
    w1 = w1
    w2 = w2
    Workers <- MCWorkers
    NoWorker = NoWorker
    NoEvent = NoEvent
    MaxAttempts = 2
    MaxFaults = 1
    Updates = 2
    Quotas = {1}
    Scenarios <- MCScenarios
INVARIANTS
    SucceededIsAccurate
    QuotaConverged
    DeliveredOperationSucceeded
PROPERTIES
    QuotaReachesCluster
\* The system rests once every event is settled.
CHECK_DEADLOCK FALSE
