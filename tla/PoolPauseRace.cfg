\* Two controllers pause and resume: the flag and the queues disagree.
CONSTANTS
    t1 = t1
    t2 = t2
    t3 = t3
    QueuesNum = 2
    Queues <- MCQueues
    Workers <- MCQueues
    QueueOf <- MCQueueOf
    Duration <- MCDuration
    INT_MAX = 100
    NoTask = NoTask
    Tasks = {t1}
    Generators = {g1}
    StopCallers = {}
    PauseCallers = {p1, p2}
SPECIFICATION SafetySpec
CHECK_DEADLOCK FALSE
INVARIANTS
    PauseFlagHonoured
