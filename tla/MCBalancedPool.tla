---------------------------- MODULE MCBalancedPool ----------------------------
(* BalancedPool with two queues and tasks of different durations.             *)
EXTENDS PoolAccounting, TLC

CONSTANTS t1, t2, t3

MCQueues   == 0 .. QueuesNum - 1
MCQueueOf  == [w \in Workers |-> w]
MCDuration == [t \in Tasks |-> IF t = t1 THEN 3 ELSE IF t = t2 THEN 2 ELSE 1]

\* Generators run the same code; used where no liveness is checked.
GeneratorSymmetry == Permutations(Generators)
================================================================================
