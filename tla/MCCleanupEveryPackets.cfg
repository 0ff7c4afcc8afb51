SPECIFICATION Spec
CONSTANTS
    READY = 512
    MAX_FLOW_BUFFER = 4096
    ModelScores = {95, 97}
    MAX_LEN = 512
    Frames <- MCFrames
    MIN_FRAME = 54
    SNAPLEN = 65535
    Threshold = 95
    CLEANUP_EVERY = 2
    TIMEOUT = 1
    MaxFrames = 4
    MaxTime = 1
CHECK_DEADLOCK FALSE
INVARIANT
    CleanupEveryPackets
