SPECIFICATION LeasesSpec
CONSTANTS
    Requests = {p1, p2, s1}
    Sweepers = {s1}
    Resources = {r1}
    Orders = {o1}
    Targets = {"online", "offline"}
    NoRequest = NoRequest
    NoResource = NoResource
    NoOrder = NoOrder
    NoTarget = NoTarget
    Duration = 1
    MaxFaults = 1
    Amount = 1
    Scenarios <- MCScenarios
INVARIANTS
    SectionIsExclusive
    ActiveOrderIsListed
    RefusedIsRepaid
    UnusedComesBack
    BalanceIsLedger
PROPERTIES
    LeasesEnd
    RentalKept
CHECK_DEADLOCK FALSE
