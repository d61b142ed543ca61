SPECIFICATION Spec
CONSTANTS
    a = a
    b = b
    t1 = t1
    Keys <- OneKey
    Threads <- OneThread
    Settings <- OneNoETags
    KeepsTime = FALSE
    Overlap = FALSE
    Failures = FALSE
    MaxWrites = 3
    MaxTime = 4
SYMMETRY Symmetry
INVARIANTS
    RestoreFindsItsVersion
CHECK_DEADLOCK FALSE
