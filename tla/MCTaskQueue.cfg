\* One queue, three workers (the Lab5 shape), three queued tasks at most.
CONSTANTS
    Queues = {q1}
    Workers = {w1, w2, w3}
    QueueOf <- MCQueueOf
    Tasks = {t1}
    NoTask = NoTask
    MaxQueued = 3
    MaxOwed = 2
    MaxResumes = 1
SPECIFICATION MCSpec
INVARIANTS
    QueueTypeOK
    StopReleasesWaiters
    ExitedMeansDrained
    NoLostWakeup
PROPERTIES
    WorkIsTaken
    StopEndsWorkers
