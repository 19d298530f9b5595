SPECIFICATION Spec
CONSTANTS
    small = small
    large = large
    t1 = t1
    t2 = t2
    t3 = t3
    t4 = t4
    Items <- MCItems
    Size <- MCSize
    SizeMod = 8
    EnableMaxSize = TRUE
    EnableMaxBytes = TRUE
    maximum_size = 3
    maximum_bytes = 4
    LengthBound = 4
    Threads <- FourThreads
    Programs <- AnyProgram
INVARIANTS BytesAccounted WithinLimits NoLostWakeup
PROPERTIES StopReleasesWaiters ImplementsContract
