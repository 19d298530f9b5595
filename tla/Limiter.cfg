CONSTANTS
    a = a
    b = b
    Identifiers <- TwoClients
    Costs <- SomeCosts
    max_tokens = 3
    refill_rate = 1
    IdleDurations <- SomeDurations
    MaxTime = 4
SPECIFICATION Spec
INVARIANT AdmissionBounded
PROPERTIES ImplementsTokenBucket DestructorReturns
CHECK_DEADLOCK FALSE
