SPECIFICATION Spec
CONSTANTS
    Reactors = {"shard0"}
    ReactorKinds = {"response"}
    BUFFER = 3
    MaxStatements = 2
CHECK_DEADLOCK FALSE
INVARIANT
    NotificationsIntact
