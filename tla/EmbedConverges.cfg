SPECIFICATION FairSpec
CONSTANTS
    t1 = t1
    t2 = t2
    m1 = m1
    m2 = m2
    Blank = Blank
    Targets <- OneType
    Keys = {k1}
    Texts = {a, b}
    Models = {m1, m2}
    Reconciles = {p1, p2}
    Deletes = {}
    Options <- OneModel
    BatchRows = 1
    MaxAttempts = 2
    MaxCommits = 100
    MaxEdits = 2
    MaxFaults = 1
    FlakyProbe = FALSE
PROPERTIES
    SidecarConverges
