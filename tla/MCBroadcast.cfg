SPECIFICATION BSpec
CONSTANTS
    alerts = alerts
    Conn = {c1}
    Channel = {alerts}
    Event = {e1}
    ChannelOf <- OneChannel
    QueueMaxSize = 1
CHECK_DEADLOCK FALSE
PROPERTIES
    BroadcastsArrive
