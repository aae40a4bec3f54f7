SPECIFICATION Spec
CONSTANTS
    NoName = NoName
    Virtual = Virtual
    Operators = {o1}
    Specs <- MCSpecs
    FirstSpec = "first"
    Ontology <- MCOntology
    Tables <- MCTables
    CatalogOf <- MCCatalogOf
    ReadOnly = {}
    MaxRuns = 4
    MaxTogether = 1
    MaxEdits = 1
    MaxFaults = 1
    t1 = t1
    t2 = t2
    c1 = c1
    c2 = c2
INVARIANTS
    RollbackSaysWhatItCannotReverse
CHECK_DEADLOCK FALSE
