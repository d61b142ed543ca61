CONSTANTS
    Totals = {0, 3}
    ChunkSize = 2
    MaxRetries = 1
    MaxRestarts = 1
SPECIFICATION FairSpec
INVARIANTS
    TypeOK
    StreamInOrder
PROPERTIES
    ImplementsPromise
    OffsetSettles
CHECK_DEADLOCK FALSE
