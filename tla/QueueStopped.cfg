SPECIFICATION Spec
CONSTANTS
    small = small
    large = large
    t1 = t1
    t2 = t2
    t3 = t3
    t4 = t4
    Items <- MCItems
    Size <- MCSize
    SizeMod = 8
    EnableMaxSize = TRUE
    EnableMaxBytes = TRUE
    maximum_size = 2
    maximum_bytes = 4
    LengthBound = 2
    Threads <- ThreeThreads
    Programs <- OnlyChecked
PROPERTIES StoppedQueueThrows
