\* Two clients, one worker, requests and responses in parts, and an fd_set that the
\* listening socket and two clients overfill: everything asked for is settled.
CONSTANTS
    Queue = q
    Queues = {q}
    Workers = {w1}
    QueueOf <- MCQueueOf
    Sessions = {s1, s2}
    Tasks = {s1, s2}
    NoTask = NoTask
    FD_SETSIZE = 2
    Pieces = 2
    Pipelining = FALSE
    MaxRequests = 2
    Chunks = {"part", "end"}
SPECIFICATION LiveSpec
CHECK_DEADLOCK FALSE
PROPERTIES
    RequestsSettle
    SessionsAreReaped
