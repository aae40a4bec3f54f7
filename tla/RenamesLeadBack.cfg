SPECIFICATION Spec
CONSTANTS
    NoName = NoName
    Virtual = Virtual
    Operators = {o1}
    Specs <- RenameSpecs
    FirstSpec = "one"
    Ontology <- RenameOntology
    Tables <- OneTable
    CatalogOf <- OneCatalogOf
    ReadOnly = {}
    MaxRuns = 4
    MaxTogether = 1
    MaxEdits = 1
    MaxFaults = 1
    t1 = t1
    t2 = t2
    c1 = c1
    c2 = c2
INVARIANTS
    RenamesLeadBack
CHECK_DEADLOCK FALSE
