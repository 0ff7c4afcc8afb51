SPECIFICATION Spec
CONSTANTS
    IPs = {"h1", "h2"}
    WINDOW = 1
    Stdins = {"silent"}
    Shards = 1
    PIPE = 1
    EPOCH = 20
    MaxAlerts = 3
    MaxCalls = 1
    Instants = {21}
CHECK_DEADLOCK FALSE
PROPERTY
    ConnectedToServing
