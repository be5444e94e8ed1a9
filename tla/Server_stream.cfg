SPECIFICATION FairSpec
CONSTANTS
    r1 = r1
    r2 = r2
    i1 = i1
    i2 = i2
    i3 = i3
    Reqs = {r1}
    Writers = {r1, h}
    Readers = {}
    Streams = {s1}
    EventIds = {i1, i2, i3}
    VectorIds = {v1}
    Users = {}
    EventOf <- MCEventOf
    ResponseId <- MCResponseId
    IsFact <- MCIsFact
    Provider <- MCProvider
    HasEmbedding = TRUE
    MayFail = FALSE
    ServeMayFail = FALSE
    TopK = 1
    OverFetch = 2
    AllowCrash = FALSE
    SaveMayFail = FALSE
    MissingFileIsError = FALSE
    MaxStarts = 1
    None = None
PROPERTY
    SignalLeadsToExit
CHECK_DEADLOCK FALSE
