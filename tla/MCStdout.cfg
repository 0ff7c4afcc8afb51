SPECIFICATION Spec
CONSTANTS
    Reactors = {"shard0"}
    ReactorKinds = {"log", "response"}
    BUFFER = 3
    MaxStatements = 3
CHECK_DEADLOCK FALSE
INVARIANTS
    TypeOK
    LostOnlyByCrossing
    DoneIsVisible
    ReceivedInOrder
PROPERTIES
    EventuallyRead
