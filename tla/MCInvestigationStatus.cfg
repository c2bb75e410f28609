SPECIFICATION InvSpec
CONSTANTS
    i1 = i1
    Consumer = {w1}
    MaxEntries = 2
    BatchSize = 1
    StreamMaxLen = 2
    NotDict = {}
    Poison = {}
    MaxFaults = 0
    Investigation = {i1}
    Event = {1, 2}
    GroupOf <- OneGroup
    EventOf <- OwnEvent
    Alerting = {}
    Scores = {70}
    Chosen = {"closed", "triaged"}
    MaxOccurrences = 1
PROPERTIES
    StatusMovesAsAllowed
