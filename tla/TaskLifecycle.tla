----------------------------- MODULE TaskLifecycle -----------------------------
(***************************************************************************)
(* What a thread pool promises about each task handed to addTask(): it is   *)
(* run exactly once, or dropped by stop() before it starts, or refused      *)
(* because the pool has been stopped, and nothing else ever happens to it.  *)
(* Neither queues nor threads appear; BalancedPool implements this.         *)
(***************************************************************************)
EXTENDS FiniteSets

CONSTANT Tasks

VARIABLE status

Statuses ==
    {"fresh", "submitted", "queued", "running", "executed", "dropped", "refused"}

LifecycleInit == status = [t \in Tasks |-> "fresh"]

Moves(t, from, to) == status[t] = from /\ status' = [status EXCEPT ![t] = to]

Submit(t)  == Moves(t, "fresh", "submitted")
Enqueue(t) == Moves(t, "submitted", "queued")
Start(t)   == Moves(t, "queued", "running")
Finish(t)  == Moves(t, "running", "executed")

\* The pool is stopped before the task is looked at, or while it is placed.
Refuse(t)  == Moves(t, "fresh", "refused") \/ Moves(t, "submitted", "refused")

\* stop(false) drops all the tasks of a queue at once.
Drop(S) ==
    /\ S # {}
    /\ \A t \in S : status[t] = "queued"
    /\ status' = [t \in Tasks |-> IF t \in S THEN "dropped" ELSE status[t]]

LifecycleNext ==
    \/ \E t \in Tasks : Submit(t) \/ Enqueue(t) \/ Start(t) \/ Finish(t) \/ Refuse(t)
    \/ \E S \in SUBSET Tasks : Drop(S)

LifecycleSpec == LifecycleInit /\ [][LifecycleNext]_status
================================================================================
