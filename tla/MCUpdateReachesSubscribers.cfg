SPECIFICATION Spec
CONSTANTS
    Shards = {0, 1}
    Uris = {"u"}
    QueueMax = 1
    MaxSessions = 1
    MaxPosts = 1
    Bodies <- MCSubscribe
    MaxBroadcasts = 1
CHECK_DEADLOCK FALSE
PROPERTY
    UpdateReachesSubscribers
