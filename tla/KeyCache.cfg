CONSTANTS
    Kids = {k1, k2}
    NoKid = NoKid
    Window = 4
SPECIFICATION FairSpec
INVARIANTS
    TypeOK
    BelievesOnlyTheLastKeySet
    OutageLogsOutNobody
    FetchesAreSpaced
PROPERTY NewKeyIsKnown
