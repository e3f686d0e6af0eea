SPECIFICATION Spec
CONSTANTS
    w1 = w1
    w2 = w2
    Workers <- MCWorkers
    NoWorker = NoWorker
    NoEvent = NoEvent
    NoSpec = NoSpec
    MaxAttempts = 1
    MaxFaults = 0
    Changes = 1
    Snapshots = 0
    Targets = {"stopped", "terminated"}
    Scenarios <- Termination
INVARIANTS
    TerminatedIsCleanedUp
\* The system rests once every event is settled.
CHECK_DEADLOCK FALSE
