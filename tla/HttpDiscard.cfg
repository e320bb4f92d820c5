\* A response that is ready after more than ten seconds.
CONSTANTS
    Queue = q
    Queues = {q}
    Workers = {w1}
    QueueOf <- MCQueueOf
    Sessions = {s1}
    Tasks = {s1}
    NoTask = NoTask
    FD_SETSIZE = 8
    Pieces = 2
    Pipelining = FALSE
    MaxRequests = 1
    Chunks = {"part", "end"}
SPECIFICATION Spec
CHECK_DEADLOCK FALSE
PROPERTIES
    ReadyResponseIsSent
