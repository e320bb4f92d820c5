----------------------------- MODULE PoolAccounting -----------------------------
(***************************************************************************)
(* The numbers BalancedPool keeps, against the places its tasks are in: the *)
(* load counter of every queue and the two task counters.                   *)
(***************************************************************************)
EXTENDS BalancedPool

\* The sum of the durations of the tasks in S, second by second.
TotalDuration(S) == Cardinality(UNION {{t} \X (1 .. Duration[t]) : t \in S})

InHand(q) == {task[w] : w \in {v \in WorkersOf(q) : at[v] = "got"}}

\* Charged to q by an addTask() that has not pushed yet.
OnTheWay(q) ==
    {gen[g].task : g \in {h \in Generators : gen[h].pc = "push" /\ gen[h].best = q}}

\* Taken out of q by stop(false) and not subtracted yet.
Draining(q) ==
    UNION {{stopper[c].dropped[k] : k \in DOMAIN stopper[c].dropped} :
              c \in {d \in StopCallers : stopper[d].i = q}}

\* At every moment the load of a queue is the total duration of the tasks that
\* have been charged to it and not given back: those on their way to it, in it,
\* in the hands of its worker, drained by stop(), and those it refused, whose
\* charge is never taken back (ThreadPool.h 68-69, ThreadPool.cpp 52, 84).
LoadAccounting ==
    \A q \in Queues :
        load[q] = TotalDuration(Queued(q) \cup InHand(q) \cup OnTheWay(q)
                                \cup Draining(q) \cup leaked[q])

\* No task is lost or counted twice: the tasks that have passed their push()
\* are in a queue, in hand, executed, dropped or refused by a stopped queue, and
\* each is in tasksSubmitted or about to be; tasksCompleted may run ahead of
\* tasksSubmitted by the calls still between push() and the increment
\* (ThreadPool.h 69-71, ThreadPool.cpp 50).
StatisticsAddUp ==
    LET AboutToCount == {g \in Generators : gen[g].pc \in {"notify", "count"}}
        Waiting == {t \in Tasks : \E q \in Queues : t \in Queued(q)}
        Held    == {w \in Workers : Running(w)}
        Fate(f) == {t \in Tasks : fate[t] = f}
    IN
    /\ tasksCompleted = Cardinality(Fate("executed"))
    /\ tasksSubmitted + Cardinality(AboutToCount) =
         Cardinality(Waiting) + Cardinality(Held) + tasksCompleted
         + Cardinality(Fate("dropped")) + Cardinality(UNION {leaked[q] : q \in Queues})
================================================================================
