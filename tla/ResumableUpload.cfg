SPECIFICATION FairSpec
CONSTRAINT RetriesOfS3
CONSTANTS
    NumParts = 2
    Workers = {w1, w2}
    MaxRetries = 1
    MaxRestarts = 1
INVARIANTS
    TypeOK
    CompleteListsEachPartOnce
    TokenKeptUnlessAborted
    StatusReflectsPause
PROPERTIES
    ImplementsPromise
    NoCallOnDeadRun
    UploadSettles
CHECK_DEADLOCK FALSE
