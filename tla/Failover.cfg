SPECIFICATION FairSpec
CONSTANTS
    Backends = 3
    ClientOptions <- ClientSetsBoth
    CallOptions <- CallSetsBoth
    MaxRetries = 1
    MaxCalls = 2
    MaxChanges = 1
INVARIANTS
    TypeOK
    ReadYourWrites
PROPERTIES
    FirstReachableAnswers
    CallReturns
CHECK_DEADLOCK FALSE
