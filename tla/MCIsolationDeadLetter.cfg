SPECIFICATION Spec
CONSTANTS
    w1 = w1
    w2 = w2
    Workers <- MCWorkers
    NoWorker = NoWorker
    NoEvent = NoEvent
    MaxAttempts = 2
    MaxFaults = 0
    Updates = 1
    Quotas = {1}
    Scenarios <- PlainScenario
INVARIANTS
    DeadLetterRecorded
CHECK_DEADLOCK FALSE
