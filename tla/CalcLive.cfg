\* A client that loses its session and connects again.
CONSTANTS
    Clients = {c1}
    Sessions = {s1}
    NoSession = NoSession
    Sizes = {0, 2}
    ThreadCounts = {0, 2}
    MATRIX_SIZE = 2
    THREADS = 2
    Slots = {1}
    MaxInFlight = 2
SPECIFICATION Spec
CHECK_DEADLOCK FALSE
PROPERTIES
    RequestsAnswered
    CalculationEnds
    ScriptEnds
    SocketsAreClosed
