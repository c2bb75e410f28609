SPECIFICATION DSpec
CONSTANTS
    burst = burst
    login = login
    shell = shell
    Consumer = {w1, w2}
    MaxEntries = 1
    BatchSize = 1
    StreamMaxLen = 1
    NotDict = {}
    Poison = {}
    MaxFaults = 1
    Rule = {login}
    ThresholdRule = {}
    Threshold = 2
    Rank <- Ranks
    Tactic <- OneTactic
    Ignored = {}
    NoMatch <- MatchAll
    EventOf <- Distinct
    RateLimit = 9
    MaxAlerts = 2
    MaxExpiries = 0
SYMMETRY Workers
INVARIANTS
    FirstAlertFires
