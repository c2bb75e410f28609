SPECIFICATION CSpec
CONSTANTS
    host = host
    other = other
    tree = tree
    NoId = NoId
    Consumer = {w1}
    MaxEntries = 2
    BatchSize = 1
    StreamMaxLen = 2
    NotDict = {}
    Poison = {}
    MaxFaults = 0
    Key = {host}
    KeysOf <- OneSession
    Scores = {0, 40}
    Significant = 10
    MaxExpiries = 1
PROPERTY
    HistoryKept
