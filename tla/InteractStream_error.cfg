SPECIFICATION FairSpec
CONSTANTS
    Cap = 1
    ErrCap = 2
    Chunks = 3
INVARIANT
    ErrorIsReported
CHECK_DEADLOCK FALSE
