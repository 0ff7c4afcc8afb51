SPECIFICATION Spec
CONSTANTS
    Probes = {old, new}
    IPs = {h1, h2}
    Builds = {TRUE, FALSE}
    MAX_ENTRIES = 1
    COUNTER = 2
    MaxObjects = 2
    MaxCalls = 2
SYMMETRY Alike
CHECK_DEADLOCK FALSE
INVARIANTS
    TypeOK
    LoadedEnforces
    NothingLeftBehind
    ReportedBlock
PROPERTIES
    BlockedStaysBlocked
