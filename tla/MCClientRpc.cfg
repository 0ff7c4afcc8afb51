\* Two cores, a session on each, a queue of one message.
SPECIFICATION Spec
CONSTANTS
    QueueMax = 1
    Shards <- MCShards
    Sessions = {"a", "b"}
    Owner <- MCOwner
    MaxCalls = 3
    MaxAnswers = 2
\* The system stops, and a handler that waits for a client may hold it up.
CHECK_DEADLOCK FALSE
INVARIANTS TypeOK OwnAnswerOnce AnswerAtHomeResolves StopEndsCalls
PROPERTY RequestHeard
