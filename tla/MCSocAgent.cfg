SPECIFICATION Spec
CONSTANTS
    IPs = {"h1", "h2"}
    WINDOW = 1
    Stdins = {"silent", "eof"}
    Shards = 1
    PIPE = 1
    EPOCH = 20
    MaxAlerts = 3
    MaxCalls = 2
    Instants = {21, 31}
CHECK_DEADLOCK FALSE
INVARIANTS
    TypeOK
    DedupWindow
    BlocksKnown
PROPERTIES
    SuppressedWasStarted
    InvestigationEnds
    DataPlaneUnblocks
    ProbeStops
