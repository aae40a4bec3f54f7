SPECIFICATION Spec
CONSTANTS
    Claims <- TokenClaims
    NaNRank = 99
    AsDouble <- NearestDouble
    Objects <- Ontology
    Links <- LinkTypes
    Actions <- ActionTypes
    Cases <- AllCases
    Edits <- ShopEdits
    MaxEdits = 1
    Substring <- Parts
    NoneText = 9
    MaxPage = 100
    DefaultPage = 50
INVARIANTS
    AnswersWhatActionsAdmit
    MissingClaimShowsNoMore
    MaskedIsUnreadable
CHECK_DEADLOCK FALSE
