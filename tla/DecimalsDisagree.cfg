SPECIFICATION Spec
CONSTANTS
    Claims <- TokenClaims
    NaNRank = 99
    AsDouble <- NearestDouble
    Objects <- Ontology
    Links <- LinkTypes
    Actions <- ActionTypes
    Cases <- DecimalCases
    Edits <- ShopEdits
    MaxEdits = 0
    Substring <- Parts
    NoneText = 9
    MaxPage = 100
    DefaultPage = 50
INVARIANT PlanesAgree
CHECK_DEADLOCK FALSE
