SPECIFICATION Spec
CONSTANTS
    a = a
    b = b
    t1 = t1
    t2 = t2
    Keys <- TwoKeys
    Threads <- TwoThreads
    Operations = {"head", "url"}
    Ttl = 2
    Lifetime = 1
    MaxEntries = 1
    Settings <- SomeSettings
    MaxWrites = 2
    MaxTime = 3
SYMMETRY Symmetry
CONSTRAINT Scope
INVARIANTS
    TypeOK
    StalenessBounded
PROPERTIES
    HitsAreFresh
    HitUrlsAreValid
CHECK_DEADLOCK FALSE
