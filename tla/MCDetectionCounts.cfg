SPECIFICATION DSpec
CONSTANTS
    burst = burst
    login = login
    shell = shell
    Consumer = {w1}
    MaxEntries = 3
    BatchSize = 1
    StreamMaxLen = 3
    NotDict = {}
    Poison = {}
    MaxFaults = 0
    Rule = {burst}
    ThresholdRule = {burst}
    Threshold = 2
    Rank <- Ranks
    Tactic <- OneTactic
    Ignored = {}
    NoMatch <- MatchAll
    EventOf <- Distinct
    RateLimit = 5
    MaxAlerts = 1
    MaxExpiries = 0
INVARIANT OnlyFirstFires
