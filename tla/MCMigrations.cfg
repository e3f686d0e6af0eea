SPECIFICATION Spec
CONSTANTS
    Jobs = {j1, j2}
    Versions <- MCVersions
    Texts <- MCTexts
    Images <- MCImages
    NoJob = NoJob
    NoRow = NoRow
    NoChecksum = NoChecksum
    MaxFaults = 2
INVARIANTS
    SchemaMatchesHistory
    SuccessLasts
    RefusalsAreDue
PROPERTIES
    BuiltOnOwnRelease
    EveryJobEnds
CHECK_DEADLOCK FALSE
