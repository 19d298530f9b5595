CONSTANTS
    a = a
    b = b
    c = c
    Names <- ThreeNames
    Times <- TwoTimes
    MaxSizes <- TwoPlaces
    MaxId = 4
SPECIFICATION Spec
INVARIANT PositionReported
