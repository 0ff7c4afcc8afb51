SPECIFICATION Spec
CONSTANTS
    Shards = {0, 1}
    Uris = {"u"}
    QueueMax = 1
    MaxSessions = 1
    MaxPosts = 2
    Bodies <- MCBodies
    MaxBroadcasts = 1
CHECK_DEADLOCK FALSE
INVARIANTS
    TypeOK
    OwnAnswersOnce
    UpdatesOnce
    AnswerKept
PROPERTIES
    AnswerArrives
    StopEndsBusyStreams
