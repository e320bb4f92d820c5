------------------------------ MODULE BalancedPool ------------------------------
(***************************************************************************)
(* ThreadPool of Lab3 (Lab3/Project1/ThreadPool.h, ThreadPool.cpp): one     *)
(* queue per worker, and a load counter per queue from which addTask()      *)
(* picks the least loaded one.  Every access to an atomic is a step, so     *)
(* that the generators, the workers and the callers of stop(), pause() and  *)
(* resume() interleave as the threads of the program do.                    *)
(*                                                                         *)
(* The destructor is stop(TRUE) by a caller of its own.  Times are left     *)
(* out: a duration is the weight a task adds to its queue.                  *)
(***************************************************************************)
EXTENDS TaskQueue, Integers

CONSTANTS
    QueuesNum,      \* queuesNum of the constructor
    Generators,     \* threads that call addTask()
    StopCallers,    \* threads that call stop(), once each
    PauseCallers,   \* threads that call pause() and resume()
    Duration,       \* durationSeconds of each task
    INT_MAX         \* above every load

ASSUME QueuesNumAssumption ==
    QueuesNum \in Nat \ {0} /\ Queues = 0 .. QueuesNum - 1
\* workers.emplace_back(&ThreadPool::workerLoop, this, i)
ASSUME WorkerShapeAssumption ==
    Workers = Queues /\ QueueOf = [w \in Workers |-> w]
ASSUME DurationAssumption == Duration \in [Tasks -> Nat \ {0}]
ASSUME IntMaxAssumption == INT_MAX \in Nat

VARIABLES
    load,             \* queueLoadTimes
    stopFlag,         \* stopFlag of the pool
    pauseFlag,        \* pauseFlag of the pool
    tasksSubmitted,
    tasksCompleted,
    counted,          \* counted[w]: the task w holds is in tasksCompleted already
    gen,              \* the call of addTask() each generator is in
    stopper,          \* the call of stop() each caller is in
    pauser,           \* the call of pause() or resume() each caller is in
    fate,             \* history: how far each task has come
    leaked            \* history: tasks charged to a queue that refused them

poolVars == <<load, stopFlag, pauseFlag, tasksSubmitted, tasksCompleted, counted,
              gen, stopper, pauser, fate, leaked>>
vars == <<queueVars, poolVars>>

Fates == {"fresh", "submitted", "executed", "dropped", "refused"}

GenIdle   == [pc |-> "idle", task |-> NoTask, i |-> 0, min |-> INT_MAX, best |-> 0]
PauseIdle == [pc |-> "idle", i |-> 0]
StopIdle  == [pc |-> "idle", i |-> 0, finish |-> TRUE, dropped |-> <<>>]

GenRecords ==
    [pc : {"idle", "scan", "charge", "push", "notify", "count"},
     task : Tasks \cup {NoTask}, i : 0 .. QueuesNum, min : Int, best : Queues]
StopRecords ==
    [pc : {"idle", "closing", "refund", "joining", "returned", "early"},
     i : 0 .. QueuesNum, finish : BOOLEAN, dropped : Seq(Tasks)]
PauseRecords ==
    [pc : {"idle", "pauseSet", "pausing", "resumeSet", "resuming", "resumeNotify"},
     i : 0 .. QueuesNum]

PoolTypeOK ==
    /\ QueueTypeOK
    /\ load \in [Queues -> Int]
    /\ stopFlag \in BOOLEAN
    /\ pauseFlag \in BOOLEAN
    /\ tasksSubmitted \in Nat
    /\ tasksCompleted \in Nat
    /\ counted \in [Workers -> BOOLEAN]
    /\ gen \in [Generators -> GenRecords]
    /\ stopper \in [StopCallers -> StopRecords]
    /\ pauser \in [PauseCallers -> PauseRecords]
    /\ fate \in [Tasks -> Fates]
    /\ leaked \in [Queues -> SUBSET Tasks]

Init ==
    /\ QueueInit
    /\ load = [q \in Queues |-> 0]
    /\ stopFlag = FALSE
    /\ pauseFlag = FALSE
    /\ tasksSubmitted = 0
    /\ tasksCompleted = 0
    /\ counted = [w \in Workers |-> FALSE]
    /\ gen = [g \in Generators |-> GenIdle]
    /\ stopper = [c \in StopCallers |-> StopIdle]
    /\ pauser = [c \in PauseCallers |-> PauseIdle]
    /\ fate = [t \in Tasks |-> "fresh"]
    /\ leaked = [q \in Queues |-> {}]

-------------------------------------------------------------------------------
(* addTask().                                                               *)

\* The early return on stopFlag, or the start of getLeastLoadedQueue().
AddTask(g, t) ==
    /\ gen[g].pc = "idle"
    /\ fate[t] = "fresh"
    /\ IF stopFlag
       THEN /\ fate' = [fate EXCEPT ![t] = "refused"]
            /\ UNCHANGED gen
       ELSE /\ fate' = [fate EXCEPT ![t] = "submitted"]
            /\ gen' = [gen EXCEPT ![g] = [GenIdle EXCEPT !.pc = "scan", !.task = t]]
    /\ UNCHANGED <<queueVars, load, stopFlag, pauseFlag, tasksSubmitted, tasksCompleted,
                   counted, stopper, pauser, leaked>>

\* One iteration of getLeastLoadedQueue(): the first of the smallest loads read.
ScanQueue(g) ==
    LET s == gen[g]
        better == load[s.i] < s.min
    IN
    /\ s.pc = "scan"
    /\ gen' = [gen EXCEPT ![g] =
                 [s EXCEPT !.min  = IF better THEN load[s.i] ELSE s.min,
                           !.best = IF better THEN s.i ELSE s.best,
                           !.i    = s.i + 1,
                           !.pc   = IF s.i + 1 = QueuesNum THEN "charge" ELSE "scan"]]
    /\ UNCHANGED <<queueVars, load, stopFlag, pauseFlag, tasksSubmitted, tasksCompleted,
                   counted, stopper, pauser, fate, leaked>>

\* queueLoadTimes[bestQueueIndex]->fetch_add(durationSeconds)
ChargeQueue(g) ==
    LET q == gen[g].best IN
    /\ gen[g].pc = "charge"
    /\ load' = [load EXCEPT ![q] = @ + Duration[gen[g].task]]
    /\ gen' = [gen EXCEPT ![g].pc = "push"]
    /\ UNCHANGED <<queueVars, stopFlag, pauseFlag, tasksSubmitted, tasksCompleted,
                   counted, stopper, pauser, fate, leaked>>

\* Mutant: the worker of the queue is not notified.
PushTaskSilently(g) ==
    LET q == gen[g].best
        t == gen[g].task
    IN
    /\ gen[g].pc = "push"
    /\ gen' = [gen EXCEPT ![g].pc = "count"]
    /\ \/ Push(q, t) /\ UNCHANGED <<fate, leaked>>
       \/ /\ PushRefused(q)
          /\ fate' = [fate EXCEPT ![t] = "refused"]
          /\ leaked' = [leaked EXCEPT ![q] = @ \cup {t}]
    /\ UNCHANGED <<load, stopFlag, pauseFlag, tasksSubmitted, tasksCompleted,
                   counted, stopper, pauser>>

\* queues[bestQueueIndex]->push(): addTask() cannot tell whether it was refused.
PushTask(g) ==
    LET q == gen[g].best
        t == gen[g].task
    IN
    /\ gen[g].pc = "push"
    /\ \/ /\ Push(q, t)
          /\ gen' = [gen EXCEPT ![g].pc = "notify"]
          /\ UNCHANGED <<fate, leaked>>
       \/ /\ PushRefused(q)
          /\ gen' = [gen EXCEPT ![g].pc = "count"]
          /\ fate' = [fate EXCEPT ![t] = "refused"]
          /\ leaked' = [leaked EXCEPT ![q] = @ \cup {t}]
    /\ UNCHANGED <<load, stopFlag, pauseFlag, tasksSubmitted, tasksCompleted,
                   counted, stopper, pauser>>

NotifyWorker(g) ==
    /\ gen[g].pc = "notify"
    /\ NotifyOne(gen[g].best)
    /\ gen' = [gen EXCEPT ![g].pc = "count"]
    /\ UNCHANGED <<load, stopFlag, pauseFlag, tasksSubmitted, tasksCompleted,
                   counted, stopper, pauser, fate, leaked>>

\* tasksSubmitted.fetch_add(1)
CountSubmitted(g) ==
    /\ gen[g].pc = "count"
    /\ tasksSubmitted' = tasksSubmitted + 1
    /\ gen' = [gen EXCEPT ![g] = GenIdle]
    /\ UNCHANGED <<queueVars, load, stopFlag, pauseFlag, tasksCompleted,
                   counted, stopper, pauser, fate, leaked>>

-------------------------------------------------------------------------------
(* workerLoop().                                                            *)

\* The pop() of the loop; at false the loop breaks.
PopInLoop(w) == Pop(w) /\ UNCHANGED poolVars

SpuriousInLoop(w) == SpuriousWakeup(w) /\ UNCHANGED poolVars

\* Mutant: a worker does not count the task during which the pool is stopped.
CompleteTaskWhileOpen(w) ==
    /\ at[w] = "got"
    /\ ~counted[w]
    /\ counted' = [counted EXCEPT ![w] = TRUE]
    /\ tasksCompleted' = IF stopFlag THEN tasksCompleted ELSE tasksCompleted + 1
    /\ fate' = [fate EXCEPT ![task[w]] = "executed"]
    /\ UNCHANGED <<queueVars, load, stopFlag, pauseFlag, tasksSubmitted,
                   gen, stopper, pauser, leaked>>

\* task.func() returns and tasksCompleted is incremented.
CompleteTask(w) ==
    /\ at[w] = "got"
    /\ ~counted[w]
    /\ counted' = [counted EXCEPT ![w] = TRUE]
    /\ tasksCompleted' = tasksCompleted + 1
    /\ fate' = [fate EXCEPT ![task[w]] = "executed"]
    /\ UNCHANGED <<queueVars, load, stopFlag, pauseFlag, tasksSubmitted,
                   gen, stopper, pauser, leaked>>

\* queueLoadTimes[queueIndex]->fetch_sub(), and the loop goes round.
DischargeTask(w) ==
    /\ counted[w]
    /\ PopAgain(w)
    /\ load' = [load EXCEPT ![w] = @ - Duration[task[w]]]
    /\ counted' = [counted EXCEPT ![w] = FALSE]
    /\ UNCHANGED <<stopFlag, pauseFlag, tasksSubmitted, tasksCompleted,
                   gen, stopper, pauser, fate, leaked>>

-------------------------------------------------------------------------------
(* stop().                                                                  *)

\* stopFlag.exchange(true): only the first caller goes on.
StopCall(c, finish) ==
    /\ stopper[c].pc = "idle"
    /\ stopFlag' = TRUE
    /\ stopper' = [stopper EXCEPT ![c] =
                     [StopIdle EXCEPT !.pc = IF stopFlag THEN "early" ELSE "closing",
                                      !.finish = finish]]
    /\ UNCHANGED <<queueVars, load, pauseFlag, tasksSubmitted, tasksCompleted,
                   counted, gen, pauser, fate, leaked>>

\* Mutant: finishTasks is passed on without being negated.
StopQueueUnnegated(c) ==
    LET i == stopper[c].i
        dropped == IF stopper[c].finish THEN innerQueue[i] ELSE <<>>
    IN
    /\ stopper[c].pc = "closing"
    /\ Stop(i, stopper[c].finish)
    /\ stopper' = [stopper EXCEPT ![c].pc = "refund", ![c].dropped = dropped]
    /\ fate' = [t \in Tasks |->
                  IF \E k \in DOMAIN dropped : dropped[k] = t THEN "dropped" ELSE fate[t]]
    /\ UNCHANGED <<load, stopFlag, pauseFlag, tasksSubmitted, tasksCompleted,
                   counted, gen, pauser, leaked>>

\* droppedTasks = queues[i]->stop(!finishTasks)
StopQueue(c) ==
    LET i == stopper[c].i
        dropped == IF stopper[c].finish THEN <<>> ELSE innerQueue[i]
    IN
    /\ stopper[c].pc = "closing"
    /\ Stop(i, ~stopper[c].finish)
    /\ stopper' = [stopper EXCEPT ![c].pc = "refund", ![c].dropped = dropped]
    /\ fate' = [t \in Tasks |->
                  IF \E k \in DOMAIN dropped : dropped[k] = t THEN "dropped" ELSE fate[t]]
    /\ UNCHANGED <<load, stopFlag, pauseFlag, tasksSubmitted, tasksCompleted,
                   counted, gen, pauser, leaked>>

\* Mutant: only the first dropped task is subtracted.
RefundFirst(c) ==
    LET s == stopper[c] IN
    /\ s.pc = "refund"
    /\ s.dropped # <<>>
    /\ load' = [load EXCEPT ![s.i] = @ - Duration[Head(s.dropped)]]
    /\ stopper' = [stopper EXCEPT ![c].dropped = <<>>]
    /\ UNCHANGED <<queueVars, stopFlag, pauseFlag, tasksSubmitted, tasksCompleted,
                   counted, gen, pauser, fate, leaked>>

\* Mutant: a dropped task is also taken out of tasksSubmitted.
RefundUncounts(c) ==
    LET s == stopper[c] IN
    /\ s.pc = "refund"
    /\ s.dropped # <<>>
    /\ load' = [load EXCEPT ![s.i] = @ - Duration[Head(s.dropped)]]
    /\ tasksSubmitted' = tasksSubmitted - 1
    /\ stopper' = [stopper EXCEPT ![c].dropped = Tail(@)]
    /\ UNCHANGED <<queueVars, stopFlag, pauseFlag, tasksCompleted,
                   counted, gen, pauser, fate, leaked>>

\* One fetch_sub() of the loop over droppedTasks.
RefundDropped(c) ==
    LET s == stopper[c] IN
    /\ s.pc = "refund"
    /\ s.dropped # <<>>
    /\ load' = [load EXCEPT ![s.i] = @ - Duration[Head(s.dropped)]]
    /\ stopper' = [stopper EXCEPT ![c].dropped = Tail(@)]
    /\ UNCHANGED <<queueVars, stopFlag, pauseFlag, tasksSubmitted, tasksCompleted,
                   counted, gen, pauser, fate, leaked>>

\* The end of an iteration of the loop over the queues.
NextQueue(c) ==
    LET s == stopper[c] IN
    /\ s.pc = "refund"
    /\ s.dropped = <<>>
    /\ stopper' = [stopper EXCEPT ![c].i = @ + 1,
                                  ![c].pc = IF s.i + 1 = QueuesNum THEN "joining"
                                                                   ELSE "closing"]
    /\ UNCHANGED <<queueVars, load, stopFlag, pauseFlag, tasksSubmitted, tasksCompleted,
                   counted, gen, pauser, fate, leaked>>

\* Mutant: only the first worker is joined.
JoinFirst(c) ==
    /\ stopper[c].pc = "joining"
    /\ \E w \in Workers : at[w] = "exited"
    /\ stopper' = [stopper EXCEPT ![c].pc = "returned"]
    /\ UNCHANGED <<queueVars, load, stopFlag, pauseFlag, tasksSubmitted, tasksCompleted,
                   counted, gen, pauser, fate, leaked>>

\* The last join() returns.
JoinWorkers(c) ==
    /\ stopper[c].pc = "joining"
    /\ \A w \in Workers : at[w] = "exited"
    /\ stopper' = [stopper EXCEPT ![c].pc = "returned"]
    /\ UNCHANGED <<queueVars, load, stopFlag, pauseFlag, tasksSubmitted, tasksCompleted,
                   counted, gen, pauser, fate, leaked>>

-------------------------------------------------------------------------------
(* pause() and resume().  A call that finds stopFlag set changes nothing.    *)

PauseUnchanged == UNCHANGED <<load, stopFlag, tasksSubmitted, tasksCompleted, counted,
                              gen, stopper, fate, leaked>>

\* stopFlag.load() is false; the exchange of pauseFlag comes next.
BeginCall(c, pc) ==
    /\ pauser[c].pc = "idle"
    /\ ~stopFlag
    /\ pauser' = [pauser EXCEPT ![c].pc = pc]
    /\ PauseUnchanged
    /\ UNCHANGED <<queueVars, pauseFlag>>

PauseCall(c)  == BeginCall(c, "pauseSet")
ResumeCall(c) == BeginCall(c, "resumeSet")

\* pauseFlag.exchange(true): a pool that is paused already is left alone.
PauseExchange(c) ==
    /\ pauser[c].pc = "pauseSet"
    /\ pauseFlag' = TRUE
    /\ pauser' = [pauser EXCEPT ![c].pc = IF pauseFlag THEN "idle" ELSE "pausing"]
    /\ PauseUnchanged
    /\ UNCHANGED queueVars

\* Mutant: the loop ends one queue early.
AfterQueueShort(c, again) ==
    IF pauser[c].i + 2 >= QueuesNum
    THEN PauseIdle
    ELSE [pc |-> again, i |-> pauser[c].i + 1]

\* The loop over the queues after this iteration.
AfterQueue(c, again) ==
    IF pauser[c].i + 1 = QueuesNum
    THEN PauseIdle
    ELSE [pc |-> again, i |-> pauser[c].i + 1]

PauseQueue(c) ==
    /\ pauser[c].pc = "pausing"
    /\ Pause(pauser[c].i)
    /\ pauser' = [pauser EXCEPT ![c] = AfterQueue(c, "pausing")]
    /\ PauseUnchanged
    /\ UNCHANGED pauseFlag

\* pauseFlag.exchange(false): a pool that is not paused is left alone.
ResumeExchange(c) ==
    /\ pauser[c].pc = "resumeSet"
    /\ pauseFlag' = FALSE
    /\ pauser' = [pauser EXCEPT ![c].pc = IF pauseFlag THEN "resuming" ELSE "idle"]
    /\ PauseUnchanged
    /\ UNCHANGED queueVars

ResumeQueue(c) ==
    /\ pauser[c].pc = "resuming"
    /\ Resume(pauser[c].i)
    /\ pauser' = [pauser EXCEPT ![c].pc = "resumeNotify"]
    /\ PauseUnchanged
    /\ UNCHANGED pauseFlag

ResumeNotify(c) ==
    /\ pauser[c].pc = "resumeNotify"
    /\ NotifyAll(pauser[c].i)
    /\ pauser' = [pauser EXCEPT ![c] = AfterQueue(c, "resuming")]
    /\ PauseUnchanged
    /\ UNCHANGED pauseFlag

-------------------------------------------------------------------------------
\* The rest of an addTask() that has begun.
AddStep(g) ==
    \/ ScanQueue(g) \/ ChargeQueue(g) \/ PushTask(g) \/ NotifyWorker(g)
    \/ CountSubmitted(g)

LoopStep(w) == PopInLoop(w) \/ CompleteTask(w) \/ DischargeTask(w)

\* The rest of a stop() that has begun.
StopStep(c) == StopQueue(c) \/ RefundDropped(c) \/ NextQueue(c) \/ JoinWorkers(c)

\* The rest of a pause() or resume() that has begun.
PauseStep(c) ==
    \/ PauseExchange(c) \/ PauseQueue(c)
    \/ ResumeExchange(c) \/ ResumeQueue(c) \/ ResumeNotify(c)

Next ==
    \/ \E g \in Generators : AddStep(g) \/ \E t \in Tasks : AddTask(g, t)
    \/ \E w \in Workers : LoopStep(w) \/ SpuriousInLoop(w)
    \/ \E c \in StopCallers : StopStep(c) \/ \E finish \in BOOLEAN : StopCall(c, finish)
    \/ \E c \in PauseCallers : PauseStep(c) \/ PauseCall(c) \/ ResumeCall(c)

SafetySpec == Init /\ [][Next]_vars

\* A thread inside a call or inside the worker loop goes on, and a task ends;
\* nobody has to call addTask(), stop(), pause() or resume().
Fairness ==
    /\ \A g \in Generators : WF_vars(AddStep(g))
    /\ \A w \in Workers : WF_vars(LoopStep(w))
    /\ \A c \in StopCallers : WF_vars(StopStep(c))
    /\ \A c \in PauseCallers : WF_vars(PauseStep(c))

Spec == SafetySpec /\ Fairness
-------------------------------------------------------------------------------
Queued(q)  == {innerQueue[q][k] : k \in DOMAIN innerQueue[q]}
Running(w) == at[w] = "got" /\ ~counted[w]

\* The one call of stop() that found stopFlag clear.
StopWinner(c) == stopper[c].pc \in {"closing", "refund", "joining", "returned"}

(* What a thread pool promises: BalancedPool implements TaskLifecycle.      *)
StatusOf(t) ==
    IF \E w \in Workers : Running(w) /\ task[w] = t THEN "running"
    ELSE IF \E q \in Queues : t \in Queued(q) THEN "queued"
    ELSE fate[t]

Lifecycle == INSTANCE TaskLifecycle WITH status <- [t \in Tasks |-> StatusOf(t)]

\* Every task handed to addTask() is run exactly once, or dropped before it
\* starts, or refused, whatever the generators, workers and callers of stop()
\* and pause() do at the same time.
ImplementsLifecycle == Lifecycle!LifecycleSpec

(* Safety.                                                                  *)

\* When stop() has returned, all workers have been joined, no queue holds a
\* task, and a task that is not settled is still inside an addTask() that has
\* not reached its push() (ThreadPool.cpp 76-92).
JoinedMeansSettled ==
    \A c \in StopCallers : stopper[c].pc = "returned" =>
        /\ \A w \in Workers : at[w] = "exited"
        /\ \A q \in Queues : innerQueue[q] = <<>>
        /\ \A t \in Tasks : fate[t] = "submitted" =>
              \E g \in Generators : gen[g].task = t /\ gen[g].pc \in {"scan", "charge", "push"}

\* stop(false) drops what has not started: once a queue has been stopped by it,
\* its worker starts no further task, although addTask() may race with the
\* loop over the queues (ThreadPool.cpp 78-86, TaskQueue.h 64, 121-128).
NoStartAfterDrop ==
    [][\A w \in Workers, c \in StopCallers :
          /\ at[w] = "pop" /\ at'[w] = "got"
          /\ queueStopFlag[QueueOf[w]]
          /\ StopWinner(c)
          => stopper[c].finish]_vars

\* While no pause() or resume() is in progress, the flag that isPaused() reports is
\* the flag of every queue that stop() has not come to yet, also when stop() has
\* begun during the call (ThreadPool.cpp 76-86, 95-113).
PauseFlagHonoured ==
    (\A c \in PauseCallers : pauser[c].pc = "idle")
    => \A q \in Queues : ~queueStopFlag[q] => queuePauseFlag[q] = pauseFlag

(* Liveness.                                                                *)

\* If the pool is not paused for ever, by a pause() after every resume() or without
\* one, every task whose addTask() found it open is eventually run, dropped or refused,
\* also if stop() comes in between (TaskQueue.h 117-131, ThreadPool.cpp 95-113).
EveryTaskSettles ==
    <>[]~pauseFlag =>
        \A t \in Tasks :
            fate[t] = "submitted" ~> fate[t] \in {"executed", "dropped", "refused"}

\* stop() returns: every worker is released from its queue, paused or not, and
\* runs out of tasks (ThreadPool.cpp 88-92).
StopReturns ==
    \A c \in StopCallers : stopper[c].pc = "closing" ~> stopper[c].pc = "returned"
================================================================================
