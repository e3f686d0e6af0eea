SPECIFICATION Spec
CONSTANTS
    Attempts <- MCAttempts
    LastTime = 3
    LongestOpen = 1
    None = None
    Keys = {k1, k2}
    Workspaces = {"w1", "w2"}
    Contents <- MCContents
    TTL = 1
    Conflicting = Conflicting
    Refused = Refused
    Failed = Failed
    Runs = {r1, r2}
    LastMonth = 0
    MonthStart <- MCMonthStart
    MinAge = 1
SYMMETRY MCSymmetry
CONSTRAINT MCBound
INVARIANTS
    AnswersHold
    ArchiveHoldsEveryChange
    ArchiveIsComplete
PROPERTIES
    AcceptanceKept
CHECK_DEADLOCK FALSE
