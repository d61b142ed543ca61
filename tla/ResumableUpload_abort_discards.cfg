SPECIFICATION Spec
CONSTANTS
    NumParts = 2
    Workers = {w1, w2}
    MaxRetries = 0
    MaxRestarts = 1
INVARIANT AbortDiscardsSession
CHECK_DEADLOCK FALSE
