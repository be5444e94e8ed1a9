SPECIFICATION FairSpec
CONSTANTS
    r1 = r1
    r2 = r2
    i1 = i1
    i2 = i2
    i3 = i3
    Reqs = {r1, r2}
    Writers = {r1, r2, h}
    Readers = {}
    Streams = {s1}
    EventIds = {i1, i2, i3}
    VectorIds = {v1}
    Users = {}
    EventOf <- MCEventOf
    ResponseId <- MCResponseId
    IsFact <- MCIsFact
    Provider <- MCProvider
    HasEmbedding = TRUE
    MayFail = TRUE
    ServeMayFail = TRUE
    TopK = 1
    OverFetch = 2
    AllowCrash = TRUE
    SaveMayFail = TRUE
    MissingFileIsError = FALSE
    MaxStarts = 2
    None = None
INVARIANTS
    TypeOK
    AcknowledgedFactsSurvive
    BroadcastResponsesStored
    StorageClosedLast
PROPERTIES
    ImplementsStorage
    PublishReturns
    SignalEndsOnceClientsLeave
CHECK_DEADLOCK FALSE
