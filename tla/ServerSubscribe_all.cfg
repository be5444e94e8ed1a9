SPECIFICATION FairSpec
CONSTANTS
    s1 = s1
    s2 = s2
    c1 = c1
    c2 = c2
    Streams = {s1, s2}
    Clients = {c1, c2}
    ClientOf <- DistinctClientOf
    Events = {e1, e2}
    Cap = 1
    None = None
    ConcurrentReuse = FALSE
INVARIANTS
    TypeOK
    NoSendOnClosed
    
    BroadcastOrder
PROPERTIES
    ImplementsDelivery
    BroadcastNeverBlocks
    DisconnectReclaims
CHECK_DEADLOCK FALSE
