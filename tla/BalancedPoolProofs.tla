--------------------------- MODULE BalancedPoolProofs ---------------------------
(* The safety of BalancedPool for any number of queues, generators, callers    *)
(* and tasks.  The queues of the pool behave as TaskQueue, so the theorems of   *)
(* TaskQueueProofs hold in the pool too.                                        *)
EXTENDS BalancedPool, TaskQueueProofs

-------------------------------------------------------------------------------
(* The inductive invariant behind type correctness, in the parts that one kind *)
(* of thread writes: the indices of the loops in progress stay within the       *)
(* queues, and a call or a worker that needs a task has one.                    *)

CountersOK ==
    /\ load \in [Queues -> Int]
    /\ stopFlag \in BOOLEAN
    /\ pauseFlag \in BOOLEAN
    /\ tasksSubmitted \in Nat
    /\ tasksCompleted \in Nat
    /\ fate \in [Tasks -> Fates]
    /\ leaked \in [Queues -> SUBSET Tasks]

GenOK ==
    /\ gen \in [Generators -> GenRecords]
    /\ \A g \in Generators :
          /\ gen[g].pc = "scan" => gen[g].i \in Queues
          /\ gen[g].pc # "idle" => gen[g].task \in Tasks

StopOK ==
    /\ stopper \in [StopCallers -> StopRecords]
    /\ \A c \in StopCallers :
          stopper[c].pc \in {"closing", "refund"} => stopper[c].i \in Queues

PauseOK ==
    /\ pauser \in [PauseCallers -> PauseRecords]
    /\ \A c \in PauseCallers :
          /\ pauser[c].pc \in {"idle", "pauseSet", "resumeSet"} => pauser[c].i = 0
          /\ pauser[c].pc \in {"pausing", "resuming", "resumeNotify"} =>
                pauser[c].i \in Queues

LoopOK ==
    /\ counted \in [Workers -> BOOLEAN]
    /\ \A w \in Workers :
          /\ at[w] = "got" => task[w] \in Tasks
          /\ counted[w] => at[w] = "got"

PoolInv == QueueTypeOK /\ CountersOK /\ GenOK /\ StopOK /\ PauseOK /\ LoopOK

\* PoolInv is a strengthening of the type invariant.
LEMMA PoolInvIsTyped == PoolInv => PoolTypeOK
  BY DEF PoolInv, PoolTypeOK, CountersOK, GenOK, StopOK, PauseOK, LoopOK

\* A pool has at least one queue.
LEMMA ZeroIsAQueue == 0 \in Queues
  BY QueuesNumAssumption

\* Every step of the pool is a step of its queues or leaves them alone.
LEMMA PoolStepIsQueueStep ==
  ASSUME PoolInv, [Next]_vars
  PROVE  [QueueNext]_queueVars
<1> USE DEF PoolInv
<1>1. ASSUME NEW g \in Generators, AddStep(g) \/ \E t \in Tasks : AddTask(g, t)
      PROVE  [QueueNext]_queueVars
  <2>1. gen[g].best \in Queues
    BY DEF GenOK, GenRecords
  <2>2. CASE PushTask(g)
    <3>1. gen[g].task \in Tasks
      BY <2>2 DEF PushTask, GenOK
    <3>2. ProducerStep(gen[g].best)
      BY <2>2, <3>1 DEF PushTask, ProducerStep
    <3>3. QED  BY <2>1, <3>2 DEF QueueNext
  <2>3. CASE NotifyWorker(g)
    BY <2>1, <2>3 DEF NotifyWorker, QueueNext, ProducerStep
  <2>4. CASE ScanQueue(g) \/ ChargeQueue(g) \/ CountSubmitted(g)
    BY <2>4 DEF ScanQueue, ChargeQueue, CountSubmitted
  <2>5. CASE \E t \in Tasks : AddTask(g, t)
    BY <2>5 DEF AddTask
  <2>6. QED  BY <1>1, <2>2, <2>3, <2>4, <2>5 DEF AddStep
<1>2. ASSUME NEW w \in Workers, LoopStep(w) \/ SpuriousInLoop(w)
      PROVE  [QueueNext]_queueVars
  <2>1. CASE CompleteTask(w)
    BY <2>1 DEF CompleteTask
  <2>2. CASE PopInLoop(w) \/ SpuriousInLoop(w) \/ DischargeTask(w)
    BY <2>2 DEF PopInLoop, SpuriousInLoop, DischargeTask, QueueNext, WorkerStep
  <2>3. QED  BY <1>2, <2>1, <2>2 DEF LoopStep
<1>3. ASSUME NEW c \in StopCallers,
             StopStep(c) \/ \E finish \in BOOLEAN : StopCall(c, finish)
      PROVE  [QueueNext]_queueVars
  <2>1. CASE StopQueue(c)
    <3>1. stopper[c].i \in Queues /\ (~stopper[c].finish) \in BOOLEAN
      BY <2>1 DEF StopQueue, StopOK
    <3>2. ControllerStep(stopper[c].i)
      BY <2>1, <3>1 DEF StopQueue, ControllerStep
    <3>3. QED  BY <3>1, <3>2 DEF QueueNext
  <2>2. CASE RefundDropped(c) \/ NextQueue(c) \/ JoinWorkers(c)
    BY <2>2 DEF RefundDropped, NextQueue, JoinWorkers
  <2>3. CASE \E finish \in BOOLEAN : StopCall(c, finish)
    BY <2>3 DEF StopCall
  <2>4. QED  BY <1>3, <2>1, <2>2, <2>3 DEF StopStep
<1>4. ASSUME NEW c \in PauseCallers, PauseStep(c) \/ PauseCall(c) \/ ResumeCall(c)
      PROVE  [QueueNext]_queueVars
  <2>1. CASE PauseQueue(c) \/ ResumeQueue(c) \/ ResumeNotify(c)
    <3>1. pauser[c].i \in Queues
      BY <2>1 DEF PauseQueue, ResumeQueue, ResumeNotify, PauseOK
    <3>2. ControllerStep(pauser[c].i)
      BY <2>1 DEF PauseQueue, ResumeQueue, ResumeNotify, ControllerStep
    <3>3. QED  BY <3>1, <3>2 DEF QueueNext
  <2>2. CASE PauseExchange(c) \/ ResumeExchange(c) \/ PauseCall(c) \/ ResumeCall(c)
    BY <2>2 DEF PauseExchange, ResumeExchange, PauseCall, ResumeCall, BeginCall
  <2>3. QED  BY <1>4, <2>1, <2>2 DEF PauseStep
<1>5. CASE UNCHANGED vars
  BY <1>5 DEF vars
<1>6. QED  BY <1>1, <1>2, <1>3, <1>4, <1>5 DEF Next

-------------------------------------------------------------------------------
(* Type correctness.                                                          *)

\* PoolInv at the start.
LEMMA PoolInvInit == Init => PoolInv
<1> SUFFICES ASSUME Init PROVE PoolInv
  OBVIOUS
<1>1. QueueTypeOK
  BY NoTaskAssumption DEF Init, QueueInit, QueueTypeOK, Places
<1>2. /\ GenIdle \in GenRecords
      /\ StopIdle \in StopRecords
      /\ PauseIdle \in PauseRecords
  BY ZeroIsAQueue, QueuesNumAssumption, IntMaxAssumption
  DEF GenIdle, StopIdle, PauseIdle, GenRecords, StopRecords, PauseRecords
<1>3. GenOK /\ StopOK /\ PauseOK
  BY <1>2 DEF Init, GenOK, StopOK, PauseOK, GenIdle, StopIdle, PauseIdle
<1>4. CountersOK
  <2>1. load \in [Queues -> Int] /\ leaked \in [Queues -> SUBSET Tasks]
    BY DEF Init
  <2>2. fate \in [Tasks -> Fates]
    BY DEF Init, Fates
  <2>3. stopFlag \in BOOLEAN /\ pauseFlag \in BOOLEAN
    BY DEF Init
  <2>4. tasksSubmitted \in Nat /\ tasksCompleted \in Nat
    BY DEF Init
  <2>5. QED  BY <2>1, <2>2, <2>3, <2>4 DEF CountersOK
<1>5. LoopOK
  BY DEF Init, QueueInit, LoopOK
<1>6. QED  BY <1>1, <1>3, <1>4, <1>5 DEF PoolInv

\* Every step of the pool keeps PoolInv.
LEMMA PoolInvStep ==
  ASSUME PoolInv, [Next]_vars
  PROVE  PoolInv'
<1>0. QueueTypeOK'
  BY PoolStepIsQueueStep, QueueTypeStep DEF PoolInv
<1>a. /\ UNCHANGED gen => GenOK'
      /\ UNCHANGED stopper => StopOK'
      /\ UNCHANGED pauser => PauseOK'
      /\ UNCHANGED <<counted, at, task>> => LoopOK'
      /\ UNCHANGED <<load, stopFlag, pauseFlag, tasksSubmitted, tasksCompleted,
                     fate, leaked>> => CountersOK'
  <2>1. UNCHANGED gen => GenOK'
    BY DEF PoolInv, GenOK
  <2>2. UNCHANGED stopper => StopOK'
    BY DEF PoolInv, StopOK
  <2>3. UNCHANGED pauser => PauseOK'
    BY DEF PoolInv, PauseOK
  <2>4. UNCHANGED <<counted, at, task>> => LoopOK'
    BY DEF PoolInv, LoopOK
  <2>5. UNCHANGED <<load, stopFlag, pauseFlag, tasksSubmitted, tasksCompleted,
                    fate, leaked>> => CountersOK'
    BY DEF PoolInv, CountersOK
  <2>6. QED  BY <2>1, <2>2, <2>3, <2>4, <2>5
<1>b. QueueTypeOK /\ CountersOK /\ GenOK /\ StopOK /\ PauseOK /\ LoopOK
  BY DEF PoolInv
<1>c. SUFFICES CountersOK' /\ GenOK' /\ StopOK' /\ PauseOK' /\ LoopOK'
  BY <1>0 DEF PoolInv
<1>1. ASSUME NEW g \in Generators, NEW t \in Tasks, AddTask(g, t)
      PROVE  CountersOK' /\ GenOK' /\ StopOK' /\ PauseOK' /\ LoopOK'
  <2>1. StopOK' /\ PauseOK' /\ LoopOK'
    BY <1>a, <1>1 DEF AddTask, queueVars
  <2>2. CountersOK'
    BY <1>b, <1>1 DEF AddTask, CountersOK, Fates
  <2>3. GenOK'
    <3> DEFINE begun == [GenIdle EXCEPT !.pc = "scan", !.task = t]
    <3>1. begun \in GenRecords
      <4>1. GenIdle \in GenRecords
        BY ZeroIsAQueue, QueuesNumAssumption, IntMaxAssumption DEF GenIdle, GenRecords
      <4> HIDE DEF GenIdle
      <4>2. QED  BY <4>1 DEF GenRecords
    <3>2. begun.i \in Queues /\ begun.task \in Tasks
      BY ZeroIsAQueue DEF GenIdle
    <3>3. CASE stopFlag
      BY <1>a, <1>1, <3>3 DEF AddTask
    <3>4. CASE ~stopFlag
      <4>1. gen' = [gen EXCEPT ![g] = begun]
        BY <1>1, <3>4 DEF AddTask
      <4> HIDE DEF begun
      <4>2. QED  BY <1>b, <3>1, <3>2, <4>1 DEF GenOK
    <3>5. QED  BY <3>3, <3>4
  <2>4. QED  BY <2>1, <2>2, <2>3
<1>2. ASSUME NEW g \in Generators, ScanQueue(g)
      PROVE  CountersOK' /\ GenOK' /\ StopOK' /\ PauseOK' /\ LoopOK'
  <2>1. StopOK' /\ PauseOK' /\ LoopOK' /\ CountersOK'
    BY <1>a, <1>2 DEF ScanQueue, queueVars
  <2>2. /\ gen[g] \in GenRecords /\ gen[g].task \in Tasks
        /\ gen[g].i \in Queues /\ gen[g].i + 1 \in 0 .. QueuesNum
        /\ gen[g].i + 1 # QueuesNum => gen[g].i + 1 \in Queues
    BY <1>b, <1>2, QueuesNumAssumption DEF ScanQueue, GenOK
  <2>3. PICK m \in Int, b \in Queues, p \in {"scan", "charge"} :
          /\ gen' = [gen EXCEPT ![g] = [gen[g] EXCEPT !.min = m, !.best = b,
                                                      !.i = gen[g].i + 1, !.pc = p]]
          /\ p = "scan" => gen[g].i + 1 # QueuesNum
    <3>1. load[gen[g].i] \in Int /\ gen[g].min \in Int /\ gen[g].best \in Queues
      BY <1>b, <2>2 DEF CountersOK, GenRecords
    <3>2. QED  BY <1>2, <2>2, <3>1 DEF ScanQueue
  <2>4. [gen[g] EXCEPT !.min = m, !.best = b, !.i = gen[g].i + 1, !.pc = p] \in GenRecords
    BY <2>2 DEF GenRecords
  <2>5. GenOK'
    BY <1>b, <2>2, <2>3, <2>4 DEF GenOK
  <2>6. QED  BY <2>1, <2>5
<1>3. ASSUME NEW g \in Generators,
             ChargeQueue(g) \/ PushTask(g) \/ NotifyWorker(g)
      PROVE  CountersOK' /\ GenOK' /\ StopOK' /\ PauseOK' /\ LoopOK'
  <2>1. gen[g] \in GenRecords /\ gen[g].task \in Tasks /\ gen[g].best \in Queues
    BY <1>b, <1>3 DEF ChargeQueue, PushTask, NotifyWorker, GenOK, GenRecords
  <2>2. PICK p \in {"push", "notify", "count"} : gen' = [gen EXCEPT ![g].pc = p]
    BY <1>3 DEF ChargeQueue, PushTask, NotifyWorker
  <2>3. [gen[g] EXCEPT !.pc = p] \in GenRecords
    BY <2>1 DEF GenRecords
  <2>4. GenOK'
    BY <1>b, <2>1, <2>2, <2>3 DEF GenOK
  <2>5. CountersOK'
    <3>1. CASE ChargeQueue(g)
      <4>1. Duration[gen[g].task] \in Int
        BY <2>1, DurationAssumption
      <4>2. load' \in [Queues -> Int]
        BY <1>b, <2>1, <3>1, <4>1 DEF ChargeQueue, CountersOK
      <4>3. QED  BY <1>b, <3>1, <4>2 DEF ChargeQueue, CountersOK
    <3>2. CASE PushTask(g)
      BY <1>b, <2>1, <3>2 DEF PushTask, CountersOK, Fates
    <3>3. CASE NotifyWorker(g)
      BY <1>a, <3>3 DEF NotifyWorker
    <3>4. QED  BY <1>3, <3>1, <3>2, <3>3
  <2>6. StopOK' /\ PauseOK' /\ counted' = counted /\ task' = task
    BY <1>a, <1>3 DEF ChargeQueue, PushTask, NotifyWorker, Push, PushRefused, NotifyOne,
                      queueVars
  <2>7. \A w \in Workers : at'[w] = "got" <=> at[w] = "got"
    BY <1>b, <1>3 DEF ChargeQueue, PushTask, NotifyWorker, Push, PushRefused, NotifyOne,
                      WakeOne, WaitersOf, WorkersOf, queueVars, QueueTypeOK
  <2>8. LoopOK'
    BY <1>b, <2>6, <2>7 DEF LoopOK
  <2>9. QED  BY <2>4, <2>5, <2>6, <2>8
<1>4. ASSUME NEW g \in Generators, CountSubmitted(g)
      PROVE  CountersOK' /\ GenOK' /\ StopOK' /\ PauseOK' /\ LoopOK'
  <2>1. GenIdle \in GenRecords /\ GenIdle.pc = "idle"
    BY ZeroIsAQueue, QueuesNumAssumption, IntMaxAssumption DEF GenIdle, GenRecords
  <2>2. GenOK'
    BY <1>b, <1>4, <2>1 DEF CountSubmitted, GenOK
  <2>3. QED  BY <1>a, <1>b, <1>4, <2>2 DEF CountSubmitted, CountersOK, queueVars
<1>5. ASSUME NEW w \in Workers, PopInLoop(w) \/ SpuriousInLoop(w)
      PROVE  CountersOK' /\ GenOK' /\ StopOK' /\ PauseOK' /\ LoopOK'
  <2>1. UNCHANGED poolVars
    BY <1>5 DEF PopInLoop, SpuriousInLoop
  <2>2. CountersOK' /\ GenOK' /\ StopOK' /\ PauseOK'
    BY <1>a, <2>1 DEF poolVars
  <2>3. LoopOK'
    <3>1. CASE PopTask(w)
      <4>1. innerQueue[QueueOf[w]] \in Seq(Tasks) /\ innerQueue[QueueOf[w]] # <<>>
        BY <1>b, <3>1, QueueOfAssumption DEF PopTask, QueueTypeOK
      <4>2. Head(innerQueue[QueueOf[w]]) \in Tasks
        BY <4>1
      <4>3. QED  BY <1>b, <2>1, <3>1, <4>2 DEF PopTask, QueueTypeOK, LoopOK, poolVars
    <3>2. CASE PopWait(w) \/ PopFails(w) \/ SpuriousWakeup(w)
      BY <1>b, <2>1, <3>2 DEF PopWait, PopFails, SpuriousWakeup, QueueTypeOK, LoopOK,
                              poolVars
    <3>3. QED  BY <1>5, <3>1, <3>2 DEF PopInLoop, SpuriousInLoop, Pop
  <2>4. QED  BY <2>2, <2>3
<1>6. ASSUME NEW w \in Workers, CompleteTask(w)
      PROVE  CountersOK' /\ GenOK' /\ StopOK' /\ PauseOK' /\ LoopOK'
  <2>1. CountersOK'
    <3>1. fate' \in [Tasks -> Fates]
      BY <1>b, <1>6 DEF CompleteTask, CountersOK, Fates
    <3>2. tasksCompleted' \in Nat
      BY <1>b, <1>6 DEF CompleteTask, CountersOK
    <3>3. QED  BY <1>b, <1>6, <3>1, <3>2 DEF CompleteTask, CountersOK
  <2>2. LoopOK'
    BY <1>b, <1>6 DEF CompleteTask, LoopOK, queueVars
  <2>3. QED  BY <1>a, <1>6, <2>1, <2>2 DEF CompleteTask
<1>7. ASSUME NEW w \in Workers, DischargeTask(w)
      PROVE  CountersOK' /\ GenOK' /\ StopOK' /\ PauseOK' /\ LoopOK'
  <2>1. Duration[task[w]] \in Int
    BY <1>b, <1>7, DurationAssumption DEF DischargeTask, LoopOK
  <2>2. CountersOK'
    <3>1. load' \in [Queues -> Int]
      BY <1>b, <1>7, <2>1, WorkerShapeAssumption DEF DischargeTask, CountersOK
    <3>2. QED  BY <1>b, <1>7, <3>1 DEF DischargeTask, CountersOK
  <2>3. LoopOK'
    BY <1>b, <1>7 DEF DischargeTask, PopAgain, QueueTypeOK, LoopOK
  <2>4. QED  BY <1>a, <1>7, <2>2, <2>3 DEF DischargeTask
<1>8. ASSUME NEW c \in StopCallers, NEW finish \in BOOLEAN, StopCall(c, finish)
      PROVE  CountersOK' /\ GenOK' /\ StopOK' /\ PauseOK' /\ LoopOK'
  <2> DEFINE begun == [StopIdle EXCEPT !.pc = IF stopFlag THEN "early" ELSE "closing",
                                       !.finish = finish]
  <2>1. begun \in StopRecords /\ begun.i \in Queues
    <3>1. StopIdle \in StopRecords /\ StopIdle.i = 0
      BY QueuesNumAssumption DEF StopIdle, StopRecords
    <3> HIDE DEF StopIdle
    <3>2. \A p \in {"early", "closing"} :
             LET r == [StopIdle EXCEPT !.pc = p, !.finish = finish] IN
             r \in StopRecords /\ r.i = 0
      BY <3>1 DEF StopRecords
    <3>3. PICK p \in {"early", "closing"} :
            p = IF stopFlag THEN "early" ELSE "closing"
      OBVIOUS
    <3>4. QED  BY <3>2, <3>3, ZeroIsAQueue
  <2>2. stopper' = [stopper EXCEPT ![c] = begun]
    BY <1>8 DEF StopCall
  <2>3. CountersOK'
    BY <1>b, <1>8 DEF StopCall, CountersOK
  <2> HIDE DEF begun
  <2>4. StopOK'
    BY <1>b, <2>1, <2>2 DEF StopOK
  <2>5. QED  BY <1>a, <1>8, <2>3, <2>4 DEF StopCall, queueVars
<1>9. ASSUME NEW c \in StopCallers, StopQueue(c)
      PROVE  CountersOK' /\ GenOK' /\ StopOK' /\ PauseOK' /\ LoopOK'
  <2> DEFINE dropped == IF stopper[c].finish THEN <<>> ELSE innerQueue[stopper[c].i]
             closed  == [stopper[c] EXCEPT !.pc = "refund", !.dropped = dropped]
  <2>1. /\ stopper[c] \in StopRecords /\ stopper[c].i \in Queues
        /\ innerQueue[stopper[c].i] \in Seq(Tasks)
    BY <1>b, <1>9 DEF StopQueue, StopOK, QueueTypeOK
  <2>2. dropped \in Seq(Tasks)
    BY <2>1
  <2>3. /\ stopper' = [stopper EXCEPT ![c] = closed]
        /\ fate' = [t \in Tasks |-> IF \E k \in DOMAIN dropped : dropped[k] = t
                                    THEN "dropped" ELSE fate[t]]
        /\ UNCHANGED <<load, stopFlag, pauseFlag, tasksSubmitted, tasksCompleted,
                       counted, gen, pauser, leaked, task>>
    BY <1>9 DEF StopQueue, Stop
  <2>4. \A w \in Workers : at[w] = "got" <=> at'[w] = "got"
    BY <1>9 DEF StopQueue, Stop, WakeAll, WaitersOf
  <2> HIDE DEF dropped
  <2>5. closed \in StopRecords /\ closed.i \in Queues
    BY <2>1, <2>2 DEF StopRecords
  <2>6. CountersOK'
    BY <1>b, <2>3 DEF CountersOK, Fates
  <2>7. LoopOK'
    BY <1>b, <2>3, <2>4 DEF LoopOK
  <2> HIDE DEF closed
  <2>8. StopOK'
    BY <1>b, <2>3, <2>5 DEF StopOK
  <2>9. QED  BY <1>a, <2>3, <2>6, <2>7, <2>8
<1>10. ASSUME NEW c \in StopCallers, RefundDropped(c)
       PROVE  CountersOK' /\ GenOK' /\ StopOK' /\ PauseOK' /\ LoopOK'
  <2> DEFINE rest == [stopper[c] EXCEPT !.dropped = Tail(stopper[c].dropped)]
  <2>1. /\ stopper[c] \in StopRecords /\ stopper[c].i \in Queues
        /\ stopper[c].dropped \in Seq(Tasks) /\ stopper[c].dropped # <<>>
    BY <1>b, <1>10 DEF RefundDropped, StopOK, StopRecords
  <2>2. Head(stopper[c].dropped) \in Tasks /\ Tail(stopper[c].dropped) \in Seq(Tasks)
    BY <2>1
  <2>3. CountersOK'
    BY <1>b, <1>10, <2>1, <2>2, DurationAssumption DEF RefundDropped, CountersOK
  <2>4. rest \in StopRecords /\ rest.i \in Queues
    BY <2>1, <2>2 DEF StopRecords
  <2>5. stopper' = [stopper EXCEPT ![c] = rest]
    BY <1>10 DEF RefundDropped
  <2> HIDE DEF rest
  <2>6. StopOK'
    BY <1>b, <2>4, <2>5 DEF StopOK
  <2>7. QED  BY <1>a, <1>10, <2>3, <2>6 DEF RefundDropped, queueVars
<1>11. ASSUME NEW c \in StopCallers, NextQueue(c) \/ JoinWorkers(c)
       PROVE  CountersOK' /\ GenOK' /\ StopOK' /\ PauseOK' /\ LoopOK'
  <2>1. stopper[c] \in StopRecords /\ stopper[c].i \in 0 .. QueuesNum
    BY <1>b DEF StopOK, StopRecords
  <2>2. PICK p \in {"closing", "joining", "returned"}, j \in 0 .. QueuesNum :
          /\ stopper' = [stopper EXCEPT ![c] = [stopper[c] EXCEPT !.i = j, !.pc = p]]
          /\ p = "closing" => j \in Queues
    <3>1. CASE NextQueue(c)
      <4>1. stopper[c].i \in Queues /\ stopper[c].i + 1 \in 0 .. QueuesNum
        BY <1>b, <3>1, QueuesNumAssumption DEF NextQueue, StopOK
      <4>2. stopper[c].i + 1 # QueuesNum => stopper[c].i + 1 \in Queues
        BY <4>1, QueuesNumAssumption
      <4>3. QED  BY <3>1, <4>1, <4>2 DEF NextQueue
    <3>2. CASE JoinWorkers(c)
      BY <1>b, <2>1, <3>2 DEF JoinWorkers, StopOK, StopRecords
    <3>3. QED  BY <1>11, <3>1, <3>2
  <2>3. [stopper[c] EXCEPT !.i = j, !.pc = p] \in StopRecords
    BY <2>1 DEF StopRecords
  <2>4. StopOK'
    BY <1>b, <2>1, <2>2, <2>3 DEF StopOK
  <2>5. QED  BY <1>a, <1>11, <2>4 DEF NextQueue, JoinWorkers, queueVars
<1>12. ASSUME NEW c \in PauseCallers,
              PauseCall(c) \/ ResumeCall(c) \/ PauseExchange(c) \/ ResumeExchange(c)
       PROVE  CountersOK' /\ GenOK' /\ StopOK' /\ PauseOK' /\ LoopOK'
  <2>1. pauser[c] \in PauseRecords /\ pauser[c].i = 0
    BY <1>b, <1>12 DEF PauseOK, PauseCall, ResumeCall, BeginCall, PauseExchange,
                       ResumeExchange
  <2>2. PICK p \in {"idle", "pauseSet", "resumeSet", "pausing", "resuming"} :
          pauser' = [pauser EXCEPT ![c].pc = p]
    BY <1>12 DEF PauseCall, ResumeCall, BeginCall, PauseExchange, ResumeExchange
  <2>3. [pauser[c] EXCEPT !.pc = p] \in PauseRecords
    BY <2>1 DEF PauseRecords
  <2>4. PauseOK'
    BY <1>b, <2>1, <2>2, <2>3, ZeroIsAQueue DEF PauseOK
  <2>5. CountersOK'
    BY <1>b, <1>12 DEF PauseCall, ResumeCall, BeginCall, PauseExchange, ResumeExchange,
                       PauseUnchanged, CountersOK
  <2>6. QED
    BY <1>a, <1>12, <2>4, <2>5 DEF PauseCall, ResumeCall, BeginCall, PauseExchange,
                                   ResumeExchange, PauseUnchanged, queueVars
<1>13. ASSUME NEW c \in PauseCallers,
              PauseQueue(c) \/ ResumeQueue(c) \/ ResumeNotify(c)
       PROVE  CountersOK' /\ GenOK' /\ StopOK' /\ PauseOK' /\ LoopOK'
  <2>1. /\ pauser[c] \in PauseRecords
        /\ pauser[c].i \in Queues
        /\ pauser[c].i + 1 \in 0 .. QueuesNum
        /\ pauser[c].i + 1 # QueuesNum => pauser[c].i + 1 \in Queues
    BY <1>b, <1>13, QueuesNumAssumption DEF PauseQueue, ResumeQueue, ResumeNotify, PauseOK
  <2>a. ASSUME NEW again \in {"pausing", "resuming"}
        PROVE  /\ AfterQueue(c, again) \in PauseRecords
               /\ \/ AfterQueue(c, again).pc = "idle" /\ AfterQueue(c, again).i = 0
                  \/ AfterQueue(c, again).pc = again /\ AfterQueue(c, again).i \in Queues
    <3>1. CASE pauser[c].i + 1 = QueuesNum
      <4>1. AfterQueue(c, again) = PauseIdle
        BY <3>1 DEF AfterQueue
      <4>2. QED  BY <4>1, QueuesNumAssumption DEF PauseIdle, PauseRecords
    <3>2. CASE pauser[c].i + 1 # QueuesNum
      <4>1. AfterQueue(c, again) = [pc |-> again, i |-> pauser[c].i + 1]
        BY <3>2 DEF AfterQueue
      <4>2. QED  BY <2>1, <3>2, <4>1 DEF PauseRecords
    <3>3. QED  BY <3>1, <3>2
  <2>2. PICK r \in PauseRecords :
          /\ pauser' = [pauser EXCEPT ![c] = r]
          /\ \/ r.pc = "idle" /\ r.i = 0
             \/ r.pc \in {"pausing", "resuming", "resumeNotify"} /\ r.i \in Queues
    <3>1. CASE PauseQueue(c)
      <4> DEFINE r == AfterQueue(c, "pausing")
      <4>1. /\ r \in PauseRecords
            /\ \/ r.pc = "idle" /\ r.i = 0
               \/ r.pc = "pausing" /\ r.i \in Queues
        BY <2>a
      <4>2. pauser' = [pauser EXCEPT ![c] = r]
        BY <3>1 DEF PauseQueue
      <4> HIDE DEF r
      <4>3. QED  BY <4>1, <4>2
    <3>2. CASE ResumeQueue(c)
      <4>1. [pauser[c] EXCEPT !.pc = "resumeNotify"] \in PauseRecords
        BY <2>1 DEF PauseRecords
      <4>2. pauser' = [pauser EXCEPT ![c] = [pauser[c] EXCEPT !.pc = "resumeNotify"]]
        BY <3>2 DEF ResumeQueue
      <4>3. QED  BY <2>1, <4>1, <4>2 DEF PauseRecords
    <3>3. CASE ResumeNotify(c)
      <4> DEFINE r == AfterQueue(c, "resuming")
      <4>1. /\ r \in PauseRecords
            /\ \/ r.pc = "idle" /\ r.i = 0
               \/ r.pc = "resuming" /\ r.i \in Queues
        BY <2>a
      <4>2. pauser' = [pauser EXCEPT ![c] = r]
        BY <3>3 DEF ResumeNotify
      <4> HIDE DEF r
      <4>3. QED  BY <4>1, <4>2
    <3>4. QED  BY <1>13, <3>1, <3>2, <3>3
  <2>3. PauseOK'
    BY <1>b, <2>2 DEF PauseOK
  <2>4. task' = task /\ \A w \in Workers : at[w] = "got" <=> at'[w] = "got"
    BY <1>13 DEF PauseQueue, ResumeQueue, ResumeNotify, Pause, Resume, NotifyAll,
                 WakeAll, WaitersOf
  <2>5. LoopOK'
    BY <1>b, <1>13, <2>4 DEF LoopOK, PauseQueue, ResumeQueue, ResumeNotify, PauseUnchanged
  <2>6. QED
    BY <1>a, <1>13, <2>3, <2>5 DEF PauseQueue, ResumeQueue, ResumeNotify, PauseUnchanged
<1>14. CASE UNCHANGED vars
  BY <1>a, <1>14 DEF vars, poolVars, queueVars
<1>15. QED
  BY <1>1, <1>2, <1>3, <1>4, <1>5, <1>6, <1>7, <1>8, <1>9, <1>10, <1>11, <1>12, <1>13, <1>14
  DEF Next, AddStep, LoopStep, StopStep, PauseStep

\* Every counter, flag, index and call record of the pool stays in its domain;
\* in particular no loop over the queues runs past the last one, and no worker
\* or call goes on without the task it needs.
THEOREM PoolTypeCorrect == SafetySpec => []PoolTypeOK
<1>1. SafetySpec => []PoolInv
  BY PoolInvInit, PoolInvStep, PTL DEF SafetySpec
<1>2. QED  BY <1>1, PoolInvIsTyped, PTL

-------------------------------------------------------------------------------
(* The queues of the pool are TaskQueues.                                     *)

\* PoolInv holds of every state the pool reaches.
LEMMA PoolInvHolds == SafetySpec => []PoolInv
  BY PoolInvInit, PoolInvStep, PTL DEF SafetySpec

\* The pool uses its queues only through the methods of TaskQueue: what is
\* proved of a TaskQueue holds of every queue of the pool.
THEOREM PoolImplementsTaskQueue == SafetySpec => QueueSpec
<1>1. Init => QueueInit
  BY DEF Init
<1>2. PoolInv /\ [Next]_vars => [QueueNext]_queueVars
  BY PoolStepIsQueueStep
<1>3. QED  BY <1>1, <1>2, PoolInvHolds, PTL DEF SafetySpec, QueueSpec

-------------------------------------------------------------------------------
(* stop(false): what has not started is dropped.                              *)

\* Only one call of stop() goes on, queues are stopped by that call, and a queue
\* it has stopped without finishing the tasks is empty.
ShutdownInv ==
    /\ \A c \in StopCallers : StopWinner(c) => stopFlag
    /\ \A c, d \in StopCallers : StopWinner(c) /\ StopWinner(d) => c = d
    /\ \A q \in Queues : queueStopFlag[q] => stopFlag
    /\ \A c \in StopCallers, q \in Queues :
          StopWinner(c) /\ ~stopper[c].finish /\ queueStopFlag[q] => innerQueue[q] = <<>>

\* What a step that is not a step of stop() does to a stopped queue.
LEMMA StoppedQueueOnlyShrinks ==
  ASSUME PoolInv, [Next]_vars,
         ~\E c \in StopCallers : StopStep(c) \/ \E finish \in BOOLEAN : StopCall(c, finish)
  PROVE  /\ UNCHANGED <<stopper, stopFlag, queueStopFlag>>
         /\ \A q \in Queues : queueStopFlag[q] /\ innerQueue[q] = <<>> => innerQueue'[q] = <<>>
<1> USE DEF PoolInv
<1>1. ASSUME NEW g \in Generators, AddStep(g) \/ \E t \in Tasks : AddTask(g, t)
      PROVE  /\ UNCHANGED <<stopper, stopFlag, queueStopFlag>>
             /\ \A q \in Queues : queueStopFlag[q] /\ innerQueue[q] = <<>>
                                     => innerQueue'[q] = <<>>
  <2>1. CASE PushTask(g)
    BY <2>1 DEF PushTask, Push, PushRefused, queueVars, QueueTypeOK
  <2>2. CASE NotifyWorker(g)
    BY <2>2 DEF NotifyWorker, NotifyOne
  <2>3. CASE ScanQueue(g) \/ ChargeQueue(g) \/ CountSubmitted(g)
    BY <2>3 DEF ScanQueue, ChargeQueue, CountSubmitted, queueVars
  <2>4. CASE \E t \in Tasks : AddTask(g, t)
    BY <2>4 DEF AddTask, queueVars
  <2>5. QED  BY <1>1, <2>1, <2>2, <2>3, <2>4 DEF AddStep
<1>2. ASSUME NEW w \in Workers, LoopStep(w) \/ SpuriousInLoop(w)
      PROVE  /\ UNCHANGED <<stopper, stopFlag, queueStopFlag>>
             /\ \A q \in Queues : queueStopFlag[q] /\ innerQueue[q] = <<>>
                                     => innerQueue'[q] = <<>>
  <2>1. CASE CompleteTask(w)
    BY <2>1 DEF CompleteTask, queueVars
  <2>2. CASE DischargeTask(w)
    BY <2>2 DEF DischargeTask, PopAgain
  <2>3. CASE PopTask(w) /\ UNCHANGED poolVars
    BY <2>3, QueueOfAssumption DEF PopTask, poolVars, QueueTypeOK
  <2>4. CASE (PopWait(w) \/ PopFails(w) \/ SpuriousWakeup(w)) /\ UNCHANGED poolVars
    BY <2>4 DEF PopWait, PopFails, SpuriousWakeup, poolVars
  <2>5. QED  BY <1>2, <2>1, <2>2, <2>3, <2>4 DEF LoopStep, PopInLoop, SpuriousInLoop, Pop
<1>3. ASSUME NEW c \in PauseCallers, PauseStep(c) \/ PauseCall(c) \/ ResumeCall(c)
      PROVE  UNCHANGED <<stopper, stopFlag, queueStopFlag, innerQueue>>
  BY <1>3 DEF PauseStep, PauseCall, ResumeCall, BeginCall, PauseExchange, PauseQueue,
              ResumeExchange, ResumeQueue, ResumeNotify, PauseUnchanged, Pause, Resume,
              NotifyAll, queueVars
<1>4. CASE UNCHANGED vars
  BY <1>4 DEF vars, queueVars, poolVars
<1>5. QED  BY <1>1, <1>2, <1>3, <1>4 DEF Next

\* One call of stop() wins, and the queues it has closed stay closed.
LEMMA ShutdownInvHolds == SafetySpec => []ShutdownInv
<1>1. Init => ShutdownInv
  BY DEF Init, QueueInit, StopIdle, StopWinner, ShutdownInv
<1>2. PoolInv /\ ShutdownInv /\ [Next]_vars => ShutdownInv'
  <2> SUFFICES ASSUME PoolInv, ShutdownInv, [Next]_vars
               PROVE  ShutdownInv'
    OBVIOUS
  <2>0. stopper \in [StopCallers -> StopRecords]
    BY DEF PoolInv, StopOK
  <2>1. ASSUME NEW c \in StopCallers, NEW finish \in BOOLEAN, StopCall(c, finish)
        PROVE  ShutdownInv'
    <3>1. UNCHANGED <<queueStopFlag, innerQueue>> /\ stopFlag'
      BY <2>1 DEF StopCall, queueVars
    <3>2. \A d \in StopCallers \ {c} : stopper'[d] = stopper[d]
      BY <2>0, <2>1 DEF StopCall
    <3>3. ~StopWinner(c)
      BY <2>1 DEF StopCall, StopWinner
    <3>4. CASE stopFlag
      <4>1. ~StopWinner(c)'
        BY <2>0, <2>1, <3>4 DEF StopCall, StopWinner, StopIdle
      <4>2. QED  BY <3>1, <3>2, <3>3, <4>1 DEF ShutdownInv, StopWinner
    <3>5. CASE ~stopFlag
      \* No queue is stopped yet, and no other call has won.
      BY <3>1, <3>2, <3>5 DEF ShutdownInv, StopWinner
    <3>6. QED  BY <3>4, <3>5
  <2>2. ASSUME NEW c \in StopCallers, StopQueue(c)
        PROVE  ShutdownInv'
    <3>1. StopWinner(c) /\ stopFlag /\ stopper[c].i \in Queues
      BY <2>2 DEF StopQueue, StopWinner, ShutdownInv, PoolInv, StopOK
    <3>2. /\ stopFlag' = stopFlag
          /\ \A d \in StopCallers : /\ stopper'[d].finish = stopper[d].finish
                                    /\ StopWinner(d)' <=> StopWinner(d)
      BY <2>0, <2>2 DEF StopQueue, StopWinner, StopRecords
    <3>3. \A q \in Queues :
             /\ q # stopper[c].i => /\ innerQueue'[q] = innerQueue[q]
                                    /\ queueStopFlag'[q] = queueStopFlag[q]
             /\ q = stopper[c].i /\ ~stopper[c].finish => innerQueue'[q] = <<>>
      BY <2>2, <3>1 DEF StopQueue, Stop, PoolInv, QueueTypeOK
    <3>4. QED  BY <3>1, <3>2, <3>3 DEF ShutdownInv
  <2>3. ASSUME NEW c \in StopCallers, RefundDropped(c) \/ NextQueue(c) \/ JoinWorkers(c)
        PROVE  ShutdownInv'
    <3>1. UNCHANGED <<stopFlag, queueStopFlag, innerQueue>>
      BY <2>3 DEF RefundDropped, NextQueue, JoinWorkers, queueVars
    <3>2. \A d \in StopCallers : /\ stopper'[d].finish = stopper[d].finish
                                 /\ StopWinner(d)' <=> StopWinner(d)
      <4>1. CASE RefundDropped(c)
        BY <2>0, <4>1 DEF RefundDropped, StopWinner, StopRecords
      <4>2. CASE NextQueue(c)
        BY <2>0, <4>2 DEF NextQueue, StopWinner, StopRecords
      <4>3. CASE JoinWorkers(c)
        BY <2>0, <4>3 DEF JoinWorkers, StopWinner, StopRecords
      <4>4. QED  BY <2>3, <4>1, <4>2, <4>3
    <3>3. QED  BY <3>1, <3>2 DEF ShutdownInv
  <2>4. CASE ~\E c \in StopCallers : StopStep(c) \/ \E finish \in BOOLEAN : StopCall(c, finish)
    <3>1. UNCHANGED <<stopper, stopFlag, queueStopFlag>>
      BY <2>4, StoppedQueueOnlyShrinks
    <3>2. \A q \in Queues : queueStopFlag[q] /\ innerQueue[q] = <<>> => innerQueue'[q] = <<>>
      BY <2>4, StoppedQueueOnlyShrinks
    <3>3. QED  BY <3>1, <3>2 DEF ShutdownInv, StopWinner
  <2>5. QED  BY <2>1, <2>2, <2>3, <2>4 DEF StopStep
<1>3. QED  BY <1>1, <1>2, PoolInvHolds, PTL DEF SafetySpec

\* Once stop(false) has been through a queue, its worker starts nothing more: a
\* worker can only take what is in the queue, and ShutdownInv says that is
\* nothing, whatever addTask() calls are in flight.
THEOREM NoStartAfterDropHolds == SafetySpec => NoStartAfterDrop
<1>1. PoolInv /\ ShutdownInv /\ [Next]_vars =>
        [\A w \in Workers, c \in StopCallers :
            /\ at[w] = "pop" /\ at'[w] = "got"
            /\ queueStopFlag[QueueOf[w]]
            /\ StopWinner(c)
            => stopper[c].finish]_vars
  <2> SUFFICES ASSUME PoolInv, ShutdownInv, [Next]_vars,
                      NEW w \in Workers, NEW c \in StopCallers,
                      at[w] = "pop", at'[w] = "got", queueStopFlag[QueueOf[w]],
                      StopWinner(c)
               PROVE  stopper[c].finish
    OBVIOUS
  <2>1. [QueueNext]_queueVars
    BY PoolStepIsQueueStep
  <2>2. innerQueue[QueueOf[w]] # <<>>
    <3>1. at \in [Workers -> Places]
      BY DEF PoolInv, QueueTypeOK
    <3>2. \A q \in Queues : ~ProducerStep(q)
      BY <3>1 DEF ProducerStep, Push, PushRefused, NotifyOne, WakeOne, WaitersOf, WorkersOf,
                  queueVars
    <3>3. \A q \in Queues : ~ControllerStep(q)
      BY <3>1 DEF ControllerStep, Clear, Pause, Resume, NotifyAll, Stop, WakeAll
    <3>4. PICK v \in Workers : WorkerStep(v)
      BY <2>1, <3>2, <3>3 DEF QueueNext, queueVars
    <3>5. PopTask(v) /\ v = w
      BY <3>1, <3>4 DEF WorkerStep, Pop, PopTask, PopWait, PopFails, PopAgain, SpuriousWakeup
    <3>6. QED  BY <3>5 DEF PopTask
  <2>3. stopper[c].finish \in BOOLEAN
    BY DEF PoolInv, StopOK, StopRecords
  <2>4. QED  BY <2>2, <2>3, QueueOfAssumption DEF ShutdownInv
<1>2. QED  BY <1>1, PoolInvHolds, ShutdownInvHolds, PTL DEF SafetySpec, NoStartAfterDrop
================================================================================
