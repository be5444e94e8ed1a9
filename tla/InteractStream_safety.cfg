SPECIFICATION FairSpec
CONSTANTS
    Cap = 1
    ErrCap = 2
    Chunks = 3
INVARIANTS
    TypeOK
    SuccessIsComplete
PROPERTIES
    GoroutinesTerminate
    ClientEndEndsCall
CHECK_DEADLOCK FALSE
