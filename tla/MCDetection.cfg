SPECIFICATION MCDSpec
CONSTANTS
    burst = burst
    login = login
    shell = shell
    Consumer = {w1, w2}
    MaxEntries = 2
    BatchSize = 1
    StreamMaxLen = 2
    NotDict = {}
    Poison = {}
    MaxFaults = 1
    Rule = {burst, shell}
    ThresholdRule = {burst}
    Threshold = 1
    Rank <- Ranks
    Tactic <- OneTactic
    Ignored = {}
    NoMatch <- ShellNever
    EventOf <- Distinct
    RateLimit = 1
    MaxAlerts = 1
    MaxExpiries = 1
SYMMETRY Workers
INVARIANTS
    DTypeOK
    OneAlertPerRuleCountAndPeriod
    CountsDifferentEvents
    QuietKeysHaveAlerts
    AnnouncedIsStored
