CONSTANTS
    LastKey = 3
    MaxRefusals = 1
    MaxCalls = 2
    MaxReads = 1
SPECIFICATION FairSpec
CONSTRAINT Scope
INVARIANTS
    TypeOK
    OneCopy
    ReadIsCurrent
    ListedInFull
PROPERTIES
    ListingEnds
CHECK_DEADLOCK FALSE
