SPECIFICATION Spec
CONSTANTS
    NoName = NoName
    Virtual = Virtual
    Operators = {o1, o2}
    Specs <- MCSpecs
    FirstSpec = "first"
    Ontology <- MCOntology
    Tables <- MCTables
    CatalogOf <- MCCatalogOf
    ReadOnly = {}
    MaxRuns = 3
    MaxTogether = 2
    MaxEdits = 1
    MaxFaults = 1
    t1 = t1
    t2 = t2
    c1 = c1
    c2 = c2
SYMMETRY Symmetry
INVARIANTS
    TypeOK
    AppliedMeansLive
    HistoryTellsWhatLanded
    VersionsPassWhatWasRecorded
    FilesFollowTheLake
    RollbackNamesWhatItStrands
    RollbackFindsTheColumns
PROPERTIES
    NothingStoredIsLost
CHECK_DEADLOCK FALSE
