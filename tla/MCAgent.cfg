SPECIFICATION AFairSpec
CONSTANTS
    Worker = {w1, w2}
    EventId <- Ids
    MaxErrors = 1
    MaxForgotten = 1
    Lines = 1
    Rewinds = TRUE
    BatchSize = 1
    MaxRetries = 2
    Attempts = 2
    MaxDraws = 5
INVARIANTS
    QueuedIsAccounted
    CheckpointIsQueued
    RetriesDeduplicated
PROPERTY
    RowsLeave
