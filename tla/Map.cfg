CONSTANTS
    t1 = t1
    t2 = t2
    t3 = t3
    k1 = k1
    k2 = k2
    Absent = Absent
    Threads <- ThreeThreads
    Keys <- TwoKeys
    Values <- Counts
    Changed <- Increment
SPECIFICATION MapSpec
INVARIANTS LockedValueStable
PROPERTIES ImplementsContract MutexReleased
