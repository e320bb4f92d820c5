\* A result that is asked for before any start.
CONSTANTS
    Clients = {c1}
    Sessions = {s1}
    NoSession = NoSession
    Sizes = {2}
    ThreadCounts = {2}
    MATRIX_SIZE = 2
    THREADS = 2
    Slots = {1}
    MaxInFlight = 2
SPECIFICATION Spec
CHECK_DEADLOCK FALSE
INVARIANTS
    ResultIsCalculated
