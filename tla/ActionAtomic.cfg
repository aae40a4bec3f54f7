SPECIFICATION Spec
CONSTANTS
    k1 = k1
    k2 = k2
    v1 = v1
    v2 = v2
    Null = Null
    Runs = {r1, r2}
    Outsiders = {o1, o2}
    Keys = {k1, k2}
    Values = {v1, v2}
    MaxAttempts = 3
    MaxLogAttempts = 1
    Semantic = TRUE
    Renamable = {}
    FlakyProbe = FALSE
    StorageFaults = FALSE
    Jobs <- CoreJobs
    Contents <- Loads
SYMMETRY Symmetric
INVARIANTS
    TypeOK
    ReadIsCurrent
    LoomNeverDuplicatesAKey
    ConflictMeansOvertaken
PROPERTIES
    EditsAreAtomic
    OnlyAdmittedRowsLeave
    UnmappedColumnSurvives
CHECK_DEADLOCK FALSE
