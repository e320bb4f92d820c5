------------------------------- MODULE TaskQueue -------------------------------
(***************************************************************************)
(* TaskQueue<TaskType> (Lab3/Project1/TaskQueue.h, Lab5/ThreadPool/         *)
(* TaskQueue.h): a FIFO of tasks behind one mutex and one condition         *)
(* variable, and the worker threads that live in its pop().                 *)
(*                                                                         *)
(* Every critical section of a method is one step, because all the state    *)
(* of a queue is accessed under its mutex.  A notification sent after the   *)
(* unlock is a step of its own: owedOne[q] threads stand between the        *)
(* unlock of push() and its notify_one(), owedAll[q] threads between the    *)
(* unlock of resume() and its notify_all().                                 *)
(*                                                                         *)
(* The module keeps an array of queues, each served by the workers that     *)
(* QueueOf assigns to it, so that both pools extend it: Lab3 has six queues *)
(* with one worker each, Lab5 one queue with several workers.               *)
(***************************************************************************)
EXTENDS Naturals, Sequences, FiniteSets

CONSTANTS
    Queues,     \* the TaskQueue objects
    Workers,    \* the threads that call pop()
    QueueOf,    \* the queue each worker pops from
    Tasks,      \* the values pushed
    NoTask      \* what a worker holds before its first pop() succeeds

ASSUME QueueOfAssumption == QueueOf \in [Workers -> Queues]
ASSUME WorkersAssumption == IsFiniteSet(Workers)
ASSUME NoTaskAssumption  == NoTask \notin Tasks

VARIABLES
    innerQueue,      \* innerQueue of each queue
    queueStopFlag,   \* stopFlag of each queue
    queuePauseFlag,  \* pauseFlag of each queue
    owedOne,         \* notify_one() calls not made yet
    owedAll,         \* notify_all() calls of resume() not made yet
    at,              \* where each worker is with respect to pop()
    task             \* the task a worker got from its last successful pop()

queueVars == <<innerQueue, queueStopFlag, queuePauseFlag, owedOne, owedAll, at, task>>

(***************************************************************************)
(* "pop":     about to lock the mutex in pop(), or woken and about to       *)
(*            re-acquire it;                                                *)
(* "waiting": blocked on condVar;                                           *)
(* "got":     pop() returned true, the caller owns the task;                *)
(* "exited":  pop() returned false, and the worker loop ended.              *)
(***************************************************************************)
Places == {"pop", "waiting", "got", "exited"}

QueueTypeOK ==
    /\ innerQueue \in [Queues -> Seq(Tasks)]
    /\ queueStopFlag \in [Queues -> BOOLEAN]
    /\ queuePauseFlag \in [Queues -> BOOLEAN]
    /\ owedOne \in [Queues -> Nat]
    /\ owedAll \in [Queues -> Nat]
    /\ at \in [Workers -> Places]
    /\ task \in [Workers -> Tasks \cup {NoTask}]

QueueInit ==
    /\ innerQueue = [q \in Queues |-> <<>>]
    /\ queueStopFlag = [q \in Queues |-> FALSE]
    /\ queuePauseFlag = [q \in Queues |-> FALSE]
    /\ owedOne = [q \in Queues |-> 0]
    /\ owedAll = [q \in Queues |-> 0]
    /\ at = [w \in Workers |-> "pop"]
    /\ task = [w \in Workers |-> NoTask]

WorkersOf(q)   == {w \in Workers : QueueOf[w] = q}
WaitersOf(q)   == {w \in WorkersOf(q) : at[w] = "waiting"}
PoppersOf(q)   == {w \in WorkersOf(q) : at[w] = "pop"}

\* Mutant: pauseFlag is tested before stopFlag.
PauseTestedFirst(q) == ~queuePauseFlag[q] /\ (queueStopFlag[q] \/ innerQueue[q] # <<>>)

\* The predicate of condVar.wait() in pop().
MayLeaveWait(q) ==
    \/ queueStopFlag[q]
    \/ ~queuePauseFlag[q] /\ innerQueue[q] # <<>>

-------------------------------------------------------------------------------
(* Producers.                                                               *)

\* Mutant: the queue is not checked for having been stopped.
PushUnchecked(q, t) ==
    /\ innerQueue' = [innerQueue EXCEPT ![q] = Append(@, t)]
    /\ owedOne' = [owedOne EXCEPT ![q] = @ + 1]
    /\ UNCHANGED <<queueStopFlag, queuePauseFlag, owedAll, at, task>>

\* Mutant: only the push that makes the queue non-empty notifies.
PushNotifiesFirst(q, t) ==
    /\ ~queueStopFlag[q]
    /\ innerQueue' = [innerQueue EXCEPT ![q] = Append(@, t)]
    /\ owedOne' = [owedOne EXCEPT ![q] = IF innerQueue[q] = <<>> THEN @ + 1 ELSE @]
    /\ UNCHANGED <<queueStopFlag, queuePauseFlag, owedAll, at, task>>

\* push() and emplace(): the critical section when the queue is open.
Push(q, t) ==
    /\ ~queueStopFlag[q]
    /\ innerQueue' = [innerQueue EXCEPT ![q] = Append(@, t)]
    /\ owedOne' = [owedOne EXCEPT ![q] = @ + 1]
    /\ UNCHANGED <<queueStopFlag, queuePauseFlag, owedAll, at, task>>

\* push() and emplace() on a stopped queue: an early return, no notification.
PushRefused(q) ==
    /\ queueStopFlag[q]
    /\ UNCHANGED queueVars

\* notify_one() wakes one waiter, or nobody when nobody waits.
WakeOne(q) ==
    IF WaitersOf(q) = {}
    THEN at' = at
    ELSE \E w \in WaitersOf(q) : at' = [at EXCEPT ![w] = "pop"]

\* Mutant: a notification that no push() owes.
NotifyOneUnowed(q) ==
    /\ owedOne' = [owedOne EXCEPT ![q] = @ - 1]
    /\ WakeOne(q)
    /\ UNCHANGED <<innerQueue, queueStopFlag, queuePauseFlag, owedAll, task>>

\* condVar.notify_one() after push() has released the mutex.
NotifyOne(q) ==
    /\ owedOne[q] > 0
    /\ owedOne' = [owedOne EXCEPT ![q] = @ - 1]
    /\ WakeOne(q)
    /\ UNCHANGED <<innerQueue, queueStopFlag, queuePauseFlag, owedAll, task>>

-------------------------------------------------------------------------------
(* Controllers.                                                             *)

\* notify_all() wakes every waiter of the queue.
WakeAll(q) ==
    at' = [w \in Workers |-> IF w \in WaitersOf(q) THEN "pop" ELSE at[w]]

Clear(q) ==
    /\ innerQueue' = [innerQueue EXCEPT ![q] = <<>>]
    /\ UNCHANGED <<queueStopFlag, queuePauseFlag, owedOne, owedAll, at, task>>

\* Mutant: stop() forgets notify_all().
StopSilently(q, terminateInstantly) ==
    /\ queueStopFlag' = [queueStopFlag EXCEPT ![q] = TRUE]
    /\ queuePauseFlag' = [queuePauseFlag EXCEPT ![q] = FALSE]
    /\ innerQueue' = IF terminateInstantly
                     THEN [innerQueue EXCEPT ![q] = <<>>]
                     ELSE innerQueue
    /\ UNCHANGED <<owedOne, owedAll, at, task>>

\* stop(terminateInstantly); the tasks it returns are innerQueue[q] when it
\* terminates instantly.  notify_all() is called with the mutex held.
Stop(q, terminateInstantly) ==
    /\ queueStopFlag' = [queueStopFlag EXCEPT ![q] = TRUE]
    /\ queuePauseFlag' = [queuePauseFlag EXCEPT ![q] = FALSE]
    /\ innerQueue' = IF terminateInstantly
                     THEN [innerQueue EXCEPT ![q] = <<>>]
                     ELSE innerQueue
    /\ WakeAll(q)
    /\ UNCHANGED <<owedOne, owedAll, task>>

\* pause() notifies nobody: a worker that is already running goes on.
Pause(q) ==
    /\ queuePauseFlag' = [queuePauseFlag EXCEPT ![q] = TRUE]
    /\ UNCHANGED <<innerQueue, queueStopFlag, owedOne, owedAll, at, task>>

\* Mutant: resume() forgets notify_all().
ResumeSilently(q) ==
    /\ queuePauseFlag' = [queuePauseFlag EXCEPT ![q] = FALSE]
    /\ UNCHANGED <<innerQueue, queueStopFlag, owedOne, owedAll, at, task>>

Resume(q) ==
    /\ queuePauseFlag' = [queuePauseFlag EXCEPT ![q] = FALSE]
    /\ owedAll' = [owedAll EXCEPT ![q] = @ + 1]
    /\ UNCHANGED <<innerQueue, queueStopFlag, owedOne, at, task>>

\* condVar.notify_all() after resume() has released the mutex.
NotifyAll(q) ==
    /\ owedAll[q] > 0
    /\ owedAll' = [owedAll EXCEPT ![q] = @ - 1]
    /\ WakeAll(q)
    /\ UNCHANGED <<innerQueue, queueStopFlag, queuePauseFlag, owedOne, task>>

-------------------------------------------------------------------------------
(* Workers inside pop().                                                    *)

\* The predicate is false: the worker blocks and releases the mutex.
PopWait(w) ==
    /\ at[w] = "pop"
    /\ ~MayLeaveWait(QueueOf[w])
    /\ at' = [at EXCEPT ![w] = "waiting"]
    /\ UNCHANGED <<innerQueue, queueStopFlag, queuePauseFlag, owedOne, owedAll, task>>

\* C++ lets wait() return without a notification; the predicate is re-checked.
SpuriousWakeup(w) ==
    /\ at[w] = "waiting"
    /\ at' = [at EXCEPT ![w] = "pop"]
    /\ UNCHANGED <<innerQueue, queueStopFlag, queuePauseFlag, owedOne, owedAll, task>>

\* Mutant: pop() leaves the task in the queue.
PopTaskKept(w) ==
    LET q == QueueOf[w] IN
    /\ at[w] = "pop"
    /\ MayLeaveWait(q)
    /\ innerQueue[q] # <<>>
    /\ task' = [task EXCEPT ![w] = Head(innerQueue[q])]
    /\ at' = [at EXCEPT ![w] = "got"]
    /\ UNCHANGED <<innerQueue, queueStopFlag, queuePauseFlag, owedOne, owedAll>>

\* pop() returns true with the oldest task.
PopTask(w) ==
    LET q == QueueOf[w] IN
    /\ at[w] = "pop"
    /\ MayLeaveWait(q)
    /\ innerQueue[q] # <<>>
    /\ task' = [task EXCEPT ![w] = Head(innerQueue[q])]
    /\ innerQueue' = [innerQueue EXCEPT ![q] = Tail(@)]
    /\ at' = [at EXCEPT ![w] = "got"]
    /\ UNCHANGED <<queueStopFlag, queuePauseFlag, owedOne, owedAll>>

\* pop() returns false and the worker loop breaks.
PopFails(w) ==
    LET q == QueueOf[w] IN
    /\ at[w] = "pop"
    /\ MayLeaveWait(q)
    /\ innerQueue[q] = <<>>
    /\ at' = [at EXCEPT ![w] = "exited"]
    /\ UNCHANGED <<innerQueue, queueStopFlag, queuePauseFlag, owedOne, owedAll, task>>

\* The caller has run the task and calls pop() again.
PopAgain(w) ==
    /\ at[w] = "got"
    /\ at' = [at EXCEPT ![w] = "pop"]
    /\ UNCHANGED <<innerQueue, queueStopFlag, queuePauseFlag, owedOne, owedAll, task>>

Pop(w) == PopWait(w) \/ PopTask(w) \/ PopFails(w)

-------------------------------------------------------------------------------
ProducerStep(q) == (\E t \in Tasks : Push(q, t)) \/ PushRefused(q) \/ NotifyOne(q)

ControllerStep(q) ==
    \/ Clear(q) \/ Pause(q) \/ Resume(q) \/ NotifyAll(q)
    \/ \E terminateInstantly \in BOOLEAN : Stop(q, terminateInstantly)

WorkerStep(w) == Pop(w) \/ SpuriousWakeup(w) \/ PopAgain(w)

QueueNext ==
    \/ \E q \in Queues : ProducerStep(q) \/ ControllerStep(q)
    \/ \E w \in Workers : WorkerStep(w)

QueueSpec == QueueInit /\ [][QueueNext]_queueVars

\* A thread that has unlocked the mutex sends its notification; a worker that
\* is not blocked goes on, and a task ends.  Nothing makes a caller push,
\* pause, resume or stop, and nothing makes a wakeup spurious.
QueueFairness ==
    /\ \A q \in Queues : WF_queueVars(NotifyOne(q)) /\ WF_queueVars(NotifyAll(q))
    /\ \A w \in Workers : WF_queueVars(Pop(w)) /\ WF_queueVars(PopAgain(w))

-------------------------------------------------------------------------------
(* Safety.                                                                  *)

\* Once a queue is stopped nobody is blocked in its pop(): stop() wakes every
\* waiter while it holds the mutex and the predicate lets no worker block
\* again (TaskQueue.h 88, 118, 130).  A waiter left behind would never be
\* joined.
StopReleasesWaiters ==
    \A q \in Queues : queueStopFlag[q] => WaitersOf(q) = {}

\* A worker ends only when its queue is stopped, and then the queue is empty
\* for good: a live pool loses no worker, and no accepted task is left without
\* one (TaskQueue.h 64, 91-101).
ExitedMeansDrained ==
    \A w \in Workers :
        at[w] = "exited" => queueStopFlag[QueueOf[w]] /\ innerQueue[QueueOf[w]] = <<>>

\* No lost wakeup: while a queue is open and not paused, and no resume() owes
\* its notify_all(), every queued task is matched by a notify_one() still to
\* come or by a worker on its way into pop(), unless no worker sleeps at all.
\* So a worker never sleeps while a task has nobody to take it, although
\* notify_one() is sent after the unlock and wakes any waiter
\* (TaskQueue.h 62-67, 87-89, 145-149).
NoLostWakeup ==
    \A q \in Queues :
        /\ ~queueStopFlag[q]
        /\ ~queuePauseFlag[q]
        /\ owedAll[q] = 0
        /\ WaitersOf(q) # {}
        => Len(innerQueue[q]) <= owedOne[q] + Cardinality(PoppersOf(q))

(* Liveness.                                                                *)

\* Work goes on: if from some time on a queue is neither paused nor stopped
\* and never empty, its workers keep taking tasks.
WorkIsTaken ==
    \A q \in Queues :
        <>[](innerQueue[q] # <<>> /\ ~queuePauseFlag[q])
            => []<><<\E w \in WorkersOf(q) : PopTask(w)>>_queueVars

\* A stopped queue lets all its workers go, also when pause() comes after
\* stop() (TaskQueue.h 88: stopFlag is tested before pauseFlag).
StopEndsWorkers ==
    \A q \in Queues :
        queueStopFlag[q] ~> \A w \in WorkersOf(q) : at[w] = "exited"
================================================================================
