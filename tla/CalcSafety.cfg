\* Pipelined commands, configurations and starts during a calculation, and an
\* exception in the accept loop while another session and its calculation live.
CONSTANTS
    Clients = {c1}
    Sessions = {s1, s2}
    NoSession = NoSession
    Second = s2
    Sizes = {1, 2}
    ThreadCounts = {0, 3}
    MATRIX_SIZE = 2
    THREADS = 3
    Slots = {1, 2}
    MaxInFlight = 2
SPECIFICATION Spec
CHECK_DEADLOCK FALSE
CONSTRAINT SecondIsIdle
INVARIANTS
    CalcTypeOK
    RepliesFitRequests
    DoneMeansCalculated
    PollSeesOwnResult
    SocketOutlivesUse
