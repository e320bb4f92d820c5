------------------------------ MODULE MCTaskQueue ------------------------------
(* TaskQueue on a small instance: one queue that several workers serve, the   *)
(* Lab5 shape, where one notify_one() must find the right worker.             *)
EXTENDS TaskQueue

CONSTANTS
    MaxQueued,   \* bound on the length of a queue
    MaxOwed,     \* bound on the callers of push() before their notify_one()
    MaxResumes   \* bound on the callers of resume() before their notify_all()

\* Every worker serves the only queue.
MCQueueOf == [w \in Workers |-> CHOOSE q \in Queues : TRUE]

WithinBounds ==
    \A q \in Queues :
        /\ Len(innerQueue[q]) <= MaxQueued
        /\ owedOne[q] <= MaxOwed
        /\ owedAll[q] <= MaxResumes

\* The bound is a guard on the callers; the steps under fairness lower the
\* bounded quantities or leave them alone.
MCNext == QueueNext /\ WithinBounds'

MCSpec == QueueInit /\ [][MCNext]_queueVars /\ QueueFairness
================================================================================
