SPECIFICATION Spec
CONSTANTS
    c1 = c1
    c2 = c2
    Connections <- OneConnection
    MaxRequests = 4
INVARIANTS ResponsesInOrder OneWriteAtATime EveryRequestHeld NextResponseIsBeingWritten RejectionIsLast LastResponseCloses
PROPERTIES EveryRequestAnswered
CHECK_DEADLOCK FALSE
