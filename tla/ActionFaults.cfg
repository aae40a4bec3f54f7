SPECIFICATION Spec
CONSTANTS
    k1 = k1
    k2 = k2
    v1 = v1
    v2 = v2
    Null = Null
    Runs = {r1, r2}
    Outsiders = {o1}
    Keys = {k1}
    Values = {v1, v2}
    MaxAttempts = 2
    MaxLogAttempts = 2
    Semantic = TRUE
    Renamable = {"property"}
    FlakyProbe = TRUE
    StorageFaults = TRUE
    Jobs <- FaultJobs
    Contents <- Loads
SYMMETRY Symmetric
INVARIANTS
    OutcomeAgreesWithHistory
    EndedRunsAreAccountedFor
CHECK_DEADLOCK FALSE
