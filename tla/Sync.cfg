SPECIFICATION FairSpec
CONSTANTS
    Items <- TwoKeys
    MaxItems = 2
    Concurrency = 2
    TransformKey <- Swap
    MaxEdits = 1
    MaxRuns = 2
INVARIANTS
    TypeOK
    OncePerItem
    MirrorWhenQuiet
PROPERTIES
    DestSpared
    CountsAddUp
    SyncReturns
CHECK_DEADLOCK FALSE
