SPECIFICATION MCSpec
CONSTANTS
    EventIds = {i1, i2}
    VectorIds = {v1, v2, v3}
    Users = {u1, u2}
    Writers = {w1}
    Readers = {}
    TopK = 1
    OverFetch = 2
    AllowCrash = TRUE
    SaveMayFail = FALSE
    MissingFileIsError = TRUE
    MaxStarts = 3
    None = None
SYMMETRY Symmetry
INVARIANT
    EmbeddedEventsSearchable
