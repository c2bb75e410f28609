SPECIFICATION MCPlSpec
CONSTANTS
    a = a
    b = b
    c1 = c1
    c2 = c2
    c3 = c3
    Token = {t1}
    Host = {h1}
    Request = {1, 2, 3, 4}
    NoToken = NoToken
    NoHost = NoHost
    NoRequest = NoRequest
    Call = {1, 2, 3, 4}
    Code = {k1, k2}
    NoCall = NoCall
    Conn = {c1, c2, c3}
    Analyst = {a, b}
    UserOf <- TwoTabs
    NoOne = NoOne
    Alert = {1, 2, 3, 4}
    StageOf <- EachStage
    Chain = {1, 2}
    Stages <- TwoChains
    MinStages <- TwoOfThem
    Window = {30, 60}
    WindowOf <- ShortAndHour
    Limit = 3
    Severe = {1, 3}
    Crowd = 2
    HostLength = 7
    MaxHours = 1
    MaxOccurrences = 2
    Ticket = {x1}
    Sweeper = {w1, w2}
    Editor = {u1, u2}
    Beat = {1, 2}
    Renewal = {3}
    Order = {4, 5, 6}
    Handover = {1, 2, 3}
    Assignee = {a, b}
CHECK_DEADLOCK FALSE
INVARIANTS
    OneAgentPerToken
    RevokedIsUnused
    OneAgentPerHost
    ChainIsLinear
    SessionsEndAtReset
    SpentOnce
    ChangedPasswordStays
    EditorsExclude
    PresenceExpires
    ClusterFiresOnce
    AccumulationIsNoticed
    EscalatedOnce
    HeardIsOnline
    TrailTellsState
    OneAssignee
