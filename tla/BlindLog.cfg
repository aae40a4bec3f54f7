CONSTANTS
    k1 = k1
    k2 = k2
    append = append
    merge = merge
    replace = replace
    secret = secret
    Keys = {k1, k2}
    NullKey = NullKey
    Mapped = {"mapped"}
    Demanded = {}
    Unmapped = {"unmapped"}
    Orphaned = {}
    NoValue = NoValue
    Invocations = {i1, i2}
    Outsiders = {o1}
    Files <- MCFiles
    Entries <- MCEntries
    Jobs <- MCJobs
    Contents <- MCContents
    StorageFaults = TRUE
SYMMETRY Symmetry
SPECIFICATION Spec
INVARIANT RecordedBatchIsRefused
CHECK_DEADLOCK FALSE
