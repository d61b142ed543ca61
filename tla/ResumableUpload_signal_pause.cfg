SPECIFICATION FairSpec
CONSTANTS
    NumParts = 2
    Workers = {w1, w2}
    MaxRetries = 0
    MaxRestarts = 0
PROPERTY SignalAbortEndsPause
CHECK_DEADLOCK FALSE
