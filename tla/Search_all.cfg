SPECIFICATION MCSpec
CONSTANTS
    i0 = i0  i1 = i1
    n1 = n1  n2 = n2  n3 = n3
    v1 = v1  v2 = v2
    u1 = u1  u2 = u2
    EventIds = {i0, i1}
    VectorIds = {n1, n2, n3, v1, v2}
    Users = {u1, u2}
    Writers = {w1, w2}
    Readers = {r1}
    Similarity <- MCSimilarity
    TopK = 2
    OverFetch = 2
    AllowCrash = TRUE
    SaveMayFail = TRUE
    MissingFileIsError = FALSE
    MaxStarts = 1
    None = None
SYMMETRY Symmetry
INVARIANTS
    StorageTypeOK
    EdgesResolve
    OneEventPerVector
    IndexIsStored
    UserIsolation
    ScoresMatchEvents
    
PROPERTY
    RowsAreImmutable
