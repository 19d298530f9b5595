CONSTANTS
    a = a
    b = b
    c = c
    Players <- ThreePlayers
    Scores <- TwoScores
    Times <- OneTime
    MaxSizes <- TwoPlaces
    HighestFirst = TRUE
    MaxId = 3
SPECIFICATION Spec
PROPERTIES UpdatesImproveRanking
