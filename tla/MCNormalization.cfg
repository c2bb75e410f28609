SPECIFICATION NFairSpec
CONSTANTS
    Consumer = {w1, w2}
    MaxEntries = 4
    BatchSize = 2
    StreamMaxLen = 2
    NotDict = {2}
    Poison = {1}
    MaxFaults = 1
INVARIANTS
    AckedWasHandled
    DeliveredIsTracked
    AckedIsPublished
    UnpublishedIsRetried
    PublishedIsCommitted
PROPERTIES
    NeverRefetched
    ImplementsAtLeastOnce
    EventuallyAcked
    EventuallyNormalized
