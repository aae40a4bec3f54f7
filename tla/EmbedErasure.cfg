SPECIFICATION Spec
CONSTANTS
    t1 = t1
    t2 = t2
    m1 = m1
    m2 = m2
    Blank = Blank
    Targets <- OneType
    Keys = {k1, k2}
    Texts = {a}
    Models = {m1, m2}
    Reconciles = {p1}
    Deletes = {d1}
    Options <- TwoModels
    BatchRows = 1
    MaxAttempts = 2
    MaxCommits = 4
    MaxEdits = 2
    MaxFaults = 1
    FlakyProbe = FALSE
SYMMETRY Symmetric
INVARIANTS
    TypeOK
    NeverRefusesItself
    OnlyOvertakenRunsOutliveAnErasure
CHECK_DEADLOCK FALSE
