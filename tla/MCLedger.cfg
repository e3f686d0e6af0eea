\* Three overlapping requests with two keys.
SPECIFICATION Spec
CONSTANTS
    k1 = k1
    k2 = k2
    MaxAttempts = 3
    Keys <- MCKeys
    Contents <- MCContents
    Currencies = {"CNY", "USD"}
    BillingCurrency = "CNY"
    MinorPerUnit = 1
    LastTime = 3
    MaxInt64 = 7
    None = None
    Conflicting = Conflicting
    Refused = Refused
    Failed = Failed
SYMMETRY Symmetry
CHECK_DEADLOCK FALSE
INVARIANTS
    InvoicesMatchLedger
    NoStandstill
PROPERTIES
    AcceptanceKept
    DebitsWithinBudget
