------------------------------- MODULE RowWorkers -------------------------------
(***************************************************************************)
(* Lab1, for one size: testSolutions() fills a matrix and calls             *)
(* parallelSolution() for each distribution and each number of threads.     *)
(* parallelSolution() creates threads, each of which calculates the rows of *)
(* a block or every k-th row, and joins them in the order of their creation. *)
(*                                                                          *)
(* calculateRow() touches one row only, so a row stands for its contents:   *)
(* as it was filled, calculated, or spoiled because it was calculated again *)
(* (a second call subtracts what the first one put on the diagonal).        *)
(***************************************************************************)
EXTENDS RowPartition, Sequences, FiniteSets

CONSTANTS
    RowThreadsNums,   \* threadsNums of testSolutions(), a sequence
    MatrixSizes       \* numbers of rows

ASSUME RowAssumption == /\ RowThreadsNums \in Seq(Nat \ {0})
                        /\ RowThreadsNums # <<>>
                        /\ MatrixSizes \subseteq Nat \ {0}

VARIABLES
    matrix,       \* row -> what has been done with it
    rowCall,      \* which call of parallelSolution() this is
    nextRow,      \* thread -> the row its loop is at
    rowsCreated,  \* threads created so far
    rowsJoined    \* threads joined so far

rowVars == <<matrix, rowCall, nextRow, rowsCreated, rowsJoined>>

Rows == DOMAIN matrix
size == Cardinality(Rows)

\* The loops over the distributions and over the numbers of threads.
types    == <<"Block", "Cyclic">>
RowCalls == Len(types) * Len(RowThreadsNums)
TypeOf(c)       == types[1 + ((c - 1) \div Len(RowThreadsNums))]
ThreadsOf(c, m) == ThreadsUsed(RowThreadsNums[1 + ((c - 1) % Len(RowThreadsNums))], m)

type == TypeOf(rowCall)
k    == ThreadsOf(rowCall, size)   \* threadsNum after the clamp

CalculatedRow(row) == IF row = "raw" THEN "calculated" ELSE "spoiled"

\* Mutant: the cyclic loop goes on by the length of a block.
RowStepOfBlock == IF type = "Block" THEN 1 ELSE RowsPerThread(k, size)

\* What a thread gets: where its loop starts and ends, and its step.
StartRow(t, c, m) == IF TypeOf(c) = "Block" THEN FirstRow(t, ThreadsOf(c, m), m) ELSE t
EndRow(t) == IF type = "Block" THEN LastRow(t, k, size) ELSE size
RowStep   == IF type = "Block" THEN 1 ELSE k

StartRows(c, m) == [t \in 0 .. ThreadsOf(c, m) - 1 |-> StartRow(t, c, m)]

\* fillMatrix()
Filled(m) == [r \in 0 .. m - 1 |-> "raw"]

RowInit ==
    \E m \in MatrixSizes :
        /\ matrix = Filled(m)
        /\ rowCall = 1
        /\ nextRow = StartRows(1, m)
        /\ rowsCreated = 0
        /\ rowsJoined = 0

CreateRowThread ==
    /\ rowsCreated < k
    /\ rowsCreated' = rowsCreated + 1
    /\ UNCHANGED <<matrix, rowCall, nextRow, rowsJoined>>

RowThreadDone(t) == t < rowsCreated /\ nextRow[t] >= EndRow(t)

CalculateNextRow(t) ==
    /\ t < rowsCreated
    /\ nextRow[t] < EndRow(t)
    /\ matrix' = [matrix EXCEPT ![nextRow[t]] = CalculatedRow(@)]
    /\ nextRow' = [nextRow EXCEPT ![t] = @ + RowStep]
    /\ UNCHANGED <<rowCall, rowsCreated, rowsJoined>>

\* Mutant: only the last thread is waited for.
JoinRowThreadLast ==
    /\ rowsCreated = k
    /\ rowsJoined < k
    /\ RowThreadDone(k - 1)
    /\ rowsJoined' = k
    /\ UNCHANGED <<matrix, rowCall, nextRow, rowsCreated>>

JoinRowThread ==
    /\ rowsCreated = k
    /\ rowsJoined < k
    /\ RowThreadDone(rowsJoined)
    /\ rowsJoined' = rowsJoined + 1
    /\ UNCHANGED <<matrix, rowCall, nextRow, rowsCreated>>

\* parallelSolution() has returned.
RowsReturned == rowsJoined = k

\* The next call, on a matrix of its own.
NextRowCall ==
    /\ RowsReturned
    /\ rowCall < RowCalls
    /\ rowCall' = rowCall + 1
    /\ matrix' = Filled(size)
    /\ nextRow' = StartRows(rowCall + 1, size)
    /\ rowsCreated' = 0
    /\ rowsJoined' = 0

RowNext ==
    \/ CreateRowThread \/ NextRowCall
    \/ \E t \in DOMAIN nextRow : CalculateNextRow(t)
    \/ JoinRowThread

RowSpec == RowInit /\ [][RowNext]_rowVars

--------------------------------------------------------------------------------
\* defaultSolution(): every row once.
DefaultMatrix == [r \in Rows |-> CalculatedRow("raw")]

\* The rows the loop of a thread will still come to.
RowsAhead(t) ==
    {r \in Rows : /\ nextRow[t] <= r
                  /\ r < EndRow(t)
                  /\ (r - nextRow[t]) % RowStep = 0}

\* Types, with the clamp: at least one thread and no more threads than rows
\* (Lab1 line 99), and a thread is joined only after all have been created.
RowTypeOK ==
    /\ matrix \in [Rows -> {"raw", "calculated", "spoiled"}]
    /\ rowCall \in 1 .. RowCalls
    /\ k \in 1 .. size
    /\ nextRow \in [0 .. k - 1 -> Nat]
    /\ rowsCreated \in 0 .. k
    /\ rowsJoined \in 0 .. k
    /\ rowsJoined > 0 => rowsCreated = k

\* Whatever the threads do in between, a row that is still as it was filled lies
\* ahead of exactly one thread, and a calculated one ahead of none: no two
\* threads ever work on one row, and none is forgotten (the loops of Lab1 lines
\* 116 and 124 over the bounds of lines 111, 112 and 124).
RowsAccounted ==
    \A r \in Rows :
        LET ahead == {t \in DOMAIN nextRow : r \in RowsAhead(t)}
        IN  /\ matrix[r] = "raw" => Cardinality(ahead) = 1
            /\ matrix[r] # "raw" => ahead = {}

\* When parallelSolution() returns the matrix is the one defaultSolution() makes
\* of the same input, for both distributions and in every call of testSolutions()
\* (Lab1 lines 61-79, 130-146 and 176-194).
MatrixIsReference == RowsReturned => matrix = DefaultMatrix
================================================================================
