SPECIFICATION NSpec
CONSTANTS
    Consumer = {w1, w2}
    MaxEntries = 2
    BatchSize = 2
    StreamMaxLen = 2
    NotDict = {}
    Poison = {}
    MaxFaults = 1
INVARIANT
    OneRowPerStreamId
