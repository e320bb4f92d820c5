\* One client that sends its next request before the response, as HTTP 1.1 allows:
\* reset() clears it with the one that has been answered.
CONSTANTS
    Queue = q
    Queues = {q}
    Workers = {w1}
    QueueOf <- MCQueueOf
    Sessions = {s1}
    Tasks = {s1}
    NoTask = NoTask
    FD_SETSIZE = 8
    Pieces = 1
    Pipelining = TRUE
    MaxRequests = 2
    Chunks = {"end"}
SPECIFICATION Spec
CHECK_DEADLOCK FALSE
INVARIANTS
    RequestsAccounted
