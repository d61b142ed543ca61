SPECIFICATION Spec
CONSTANTS
    a = a
    b = b
    t1 = t1
    Keys <- TwoKeys
    Threads <- OneThread
    Settings <- OneOrTwo
    KeepsTime = FALSE
    Overlap = FALSE
    Failures = TRUE
    MaxWrites = 2
    MaxTime = 2
SYMMETRY Symmetry
INVARIANTS
    TypeOK
    SafeToWrite
    NothingLost
PROPERTIES
    UndoBringsBackPrior
CHECK_DEADLOCK FALSE
