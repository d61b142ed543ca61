SPECIFICATION TimedSpec
CONSTANTS
    Source = a
    Target = b
    MaxCalls = 3
    MaxRetries = 2
CONSTRAINT Scope
INVARIANTS
    TypeOK
    NeverLost
    ResolvedMeansMoved
    NotFoundMeansMoved
PROPERTIES
    CallSettles
    NoRequestAfterAbort
CHECK_DEADLOCK FALSE
