CONSTANTS
    a = a
    b = b
    c = c
    Players <- ThreePlayers
    Scores <- TwoScores
    Times <- OneTime
    MaxSizes <- TwoPlaces
    HighestFirst = FALSE
    MaxId = 2
SPECIFICATION Spec
INVARIANTS SortDirection
