\* Two replicas and two events, two attempts, two faults: enough for a claim
\* to be lost, reclaimed by the same or the other runner, and marked late.
SPECIFICATION Spec
CONSTANTS
    w1 = w1
    w2 = w2
    e1 = e1
    e2 = e2
    Workers <- MCWorkers
    Events <- MCEvents
    NoWorker = NoWorker
    NoEvent = NoEvent
    MaxAttempts = 2
    MaxFaults = 2
INVARIANTS
    DeliveredBySuccess
    DeadLetteredByExhaustion
PROPERTIES
    DeliverySpec
\* The system rests once every event is settled.
CHECK_DEADLOCK FALSE
