\* Clients that wait for each response, over a kept connection or each over its own,
\* and two workers.
CONSTANTS
    Queue = q
    Queues = {q}
    Workers = {w1, w2}
    QueueOf <- MCQueueOf
    Sessions = {s1, s2}
    Tasks = {s1, s2}
    NoTask = NoTask
    FD_SETSIZE = 8
    Pieces = 2
    Pipelining = FALSE
    MaxRequests = 2
    Chunks = {"part", "end"}
SPECIFICATION Spec
CHECK_DEADLOCK FALSE
CONSTRAINT RequestsBound
SYMMETRY HttpSymmetry
INVARIANTS
    HttpTypeOK
    ProcessingOwnsSession
    RequestsAccounted
PROPERTIES
    ImplementsHandover
