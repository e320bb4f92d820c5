\* Two generators race with stop(): safety with three tasks.
CONSTANTS
    t1 = t1
    t2 = t2
    t3 = t3
    QueuesNum = 2
    Queues <- MCQueues
    Workers <- MCQueues
    QueueOf <- MCQueueOf
    Duration <- MCDuration
    INT_MAX = 100
    NoTask = NoTask
    Tasks = {t1, t2, t3}
    Generators = {g1, g2}
    StopCallers = {s1}
    PauseCallers = {}
SPECIFICATION SafetySpec
CHECK_DEADLOCK FALSE
SYMMETRY GeneratorSymmetry
INVARIANTS
    PoolTypeOK
    LoadAccounting
    StatisticsAddUp
    JoinedMeansSettled
PROPERTIES
    NoStartAfterDrop
