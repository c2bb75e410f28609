SPECIFICATION CSpec
CONSTANTS
    host = host
    other = other
    tree = tree
    NoId = NoId
    Consumer = {w1, w2}
    MaxEntries = 2
    BatchSize = 1
    StreamMaxLen = 2
    NotDict = {}
    Poison = {}
    MaxFaults = 1
    Key = {host, other, tree}
    KeysOf <- Keyed
    Scores = {0, 40}
    Significant = 10
    MaxExpiries = 1
SYMMETRY Workers
CONSTRAINT OneMishap
INVARIANTS
    PublishedIsReadable
    AckedIsCorrelated
    CalmGroupsAreWhole
