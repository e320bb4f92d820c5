\* Lab1: up to 5 rows, up to 4 threads asked for.  Lab2: vectors of 0, 2 and 4
\* elements around -42, 2 or 3 threads, more threads than elements included.
CONSTANTS
    MatrixSizes = {1, 2, 5}
    RowThreadsNums <- MCRowThreadsNums
    Lengths = {0, 2, 4}
    Elements <- MCElements
    Vectors <- MCVectors
    ThreadsNums <- MCThreadsNums
    INT_MAX = 100
SPECIFICATION MCSpec
CHECK_DEADLOCK FALSE
INVARIANTS
    ForkJoinTypeOK
    RowsAccounted
    MatrixIsReference
    ResultIsReference
    CountAccounts
    MinAccounts
PROPERTIES
    NeverWorse
    CallsReturn
