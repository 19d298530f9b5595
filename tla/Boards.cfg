CONSTANTS
    a = a
    b = b
    c = c
    Players <- ThreePlayers
    Scores <- TwoScores
    Times <- TwoTimes
    MaxSizes <- TwoSizes
    HighestFirst = TRUE
    MaxId = 4
    Names <- ThreePlayers
    Clock <- TwoTimes
    Capacities <- SizesFromZero
    MaxEntries = 4
    Indices <- UpToPastTheEnd
SPECIFICATION BoardSpec
SYMMETRY Symmetry
INVARIANTS RankingMatchesEntries PlacementReported BestScoresKept ListMatchesRanking LatestNamesKept PagesCoverBoard
PROPERTIES ReloadRestoresRanking ReloadRestoresNames ReloadRestoresStream
