SPECIFICATION InvSpec
CONSTANTS
    i1 = i1
    Consumer = {w1, w2}
    MaxEntries = 2
    BatchSize = 1
    StreamMaxLen = 2
    NotDict = {}
    Poison = {}
    MaxFaults = 1
    Investigation = {i1}
    Event = {1, 2}
    GroupOf <- OneGroup
    EventOf <- OwnEvent
    Alerting = {1}
    Scores = {70}
    Chosen = {"closed", "investigating"}
    MaxOccurrences = 1
SYMMETRY Workers
CONSTRAINT OneOccurrence
INVARIANTS
    AckedIsReported
    CalmRowsAreWhole
    CalmNoticedOnce
    OnePlaybook
