SPECIFICATION Spec
CONSTANTS
    Backends = 2
    ClientOptions <- ClientSetsBoth
    CallOptions <- CallSetsBoth
    MaxRetries = 1
    MaxCalls = 1
    MaxChanges = 0
PROPERTIES
    SecondariesRetryAlike
CHECK_DEADLOCK FALSE
