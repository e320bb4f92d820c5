\* Two generators race with stop(), freely or in the program of Lab3, or one controller
\* pauses and resumes while two threads stop the pool: liveness and the abstract
\* specification.
CONSTANTS
    t1 = t1
    t2 = t2
    t3 = t3
    QueuesNum = 2
    Queues <- MCQueues
    Workers <- MCQueues
    QueueOf <- MCQueueOf
    Duration <- MCDuration
    INT_MAX = 100
    NoTask = NoTask
    Tasks = {t1, t2}
    Generators = {g1, g2}
    StopCallers = {s1, s2}
    PauseCallers = {p1}
    Main = s1
SPECIFICATION MCSpec
CHECK_DEADLOCK FALSE
INVARIANTS
    ReportIsFinal
    PauseFlagHonoured
PROPERTIES
    EveryTaskSettles
    ImplementsLifecycle
    TestEnds
    StopReturns
