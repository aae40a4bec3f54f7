SPECIFICATION Spec
CONSTANTS
    t1 = t1
    t2 = t2
    m1 = m1
    m2 = m2
    Blank = Blank
    Targets <- OneType
    Keys = {k1, k2}
    Texts = {a}
    Models = {m1, m2}
    Reconciles = {p1, p2}
    Deletes = {}
    Options <- TwoModels
    BatchRows = 1
    MaxAttempts = 2
    MaxCommits = 2
    MaxEdits = 0
    MaxFaults = 0
    FlakyProbe = FALSE
SYMMETRY Symmetric
INVARIANTS
    OneModelUnlessRemodel
CHECK_DEADLOCK FALSE
