CONSTANTS
    c1 = c1
    c2 = c2
    w1 = w1
    w2 = w2
    Connections <- TwoConnections
    Workers <- TwoWorkers
    BodySizes <- EmptyAndLarge
    MaxRequests = 2
    max_pending_requests = 2
    max_request_bytes = 3
    SizeMod = 8
SPECIFICATION Spec
INVARIANTS TakenInOrder UnansweredBounded StopDrains
PROPERTIES ConnectionsBehave StopReturns ServerAnswers
CHECK_DEADLOCK FALSE
