SPECIFICATION MCSpec
CONSTANTS
    s1 = s1
    s2 = s2
    s3 = s3
    s4 = s4
    c1 = c1
    c2 = c2
    EmptyId = EmptyId
    Streams = {s1, s2, s3, s4}
    Clients = {c1, c2, EmptyId}
    ClientOf <- MCClientOf
    Events = {e1, e2}
    Cap = 1
    None = None
SYMMETRY EventSymmetry
INVARIANTS
    RegistryIsLiveStreams
    NoSendOnClosed
PROPERTY
    ImplementsDelivery
