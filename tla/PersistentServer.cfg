CONSTANTS
    s1 = s1
    s2 = s2
    t1 = t1
    t2 = t2
    Sessions <- TwoSessions
    Callers <- TwoCallers
    PayloadSize <- SmallAndLarge
    MaxMessages = 2
    MaxPackets = 1
    max_incoming_packets = 1
    max_incoming_bytes = 3
    SizeMod = 8
SPECIFICATION Spec
INVARIANTS TypeOK MessagesInOrder OneWriteAtATime StoppedServerIsQuiet
PROPERTIES StopReturns PacketsBroadcast MessagesWritten
CHECK_DEADLOCK FALSE
