------------------------------ MODULE RowPartition ------------------------------
(***************************************************************************)
(* How rows are dealt out to threads in blocks: Lab1 parallelSolution(),    *)
(* which Lab4 TaskHandler::calculate() repeats and Lab2 has for its elements *)
(* (without the clamp).  Threads are 0 .. k-1, rows 0 .. size-1.            *)
(***************************************************************************)
EXTENDS Integers

\* Mutant: one thread for each one asked for.
ThreadsUsedUnclamped(threadsNum, size) == threadsNum

\* No more threads than rows.
ThreadsUsed(threadsNum, size) == IF threadsNum > size THEN size ELSE threadsNum

RowsPerThread(k, size) == size \div k

\* Consecutive blocks; the last thread also takes the remainder.
FirstRow(i, k, size) == i * RowsPerThread(k, size)
LastRow(i, k, size)  == IF i = k - 1 THEN size
                                     ELSE FirstRow(i, k, size) + RowsPerThread(k, size)
BlockRows(i, k, size) == FirstRow(i, k, size) .. LastRow(i, k, size) - 1
================================================================================
