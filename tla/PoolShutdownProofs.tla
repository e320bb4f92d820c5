--------------------------- MODULE PoolShutdownProofs ---------------------------
(* What stop() waits for and what it leaves behind, what the program of Lab3    *)
(* reports at the end, and what pause() and resume() do to the flags.           *)
EXTENDS PoolTasksProofs, PoolDriver

-------------------------------------------------------------------------------
(* The queues of the pool, and what stop() has done to them when it joins.     *)

\* What is proved of a TaskQueue holds in the pool: no wakeup is lost, a stopped
\* queue blocks nobody, and only a worker of a drained queue ends.
THEOREM PoolQueuesSound ==
  SafetySpec => [](StopReleasesWaiters /\ ExitedMeansDrained /\ NoLostWakeup)
BY PoolImplementsTaskQueue, StopReleasesWaitersHolds, ExitedMeansDrainedHolds,
   NoLostWakeupHolds, PTL

\* The queues the loop of stop() has been through.
HasStopped(c, q) == q < stopper[c].i \/ (q = stopper[c].i /\ stopper[c].pc = "refund")

\* They are stopped, and the loop goes through all of them.
StopLoopInv ==
    \A c \in StopCallers : StopWinner(c) =>
        /\ \A q \in Queues : HasStopped(c, q) => queueStopFlag[q]
        /\ stopper[c].pc \in {"joining", "returned"} => stopper[c].i = QueuesNum

\* A step that is not one of c leaves what c has stopped as it is.
LEMMA StopLoopKept ==
  ASSUME PoolInv, StopLoopInv, [Next]_vars, NEW c \in StopCallers, stopper'[c] = stopper[c],
         StopWinner(c)'
  PROVE  /\ \A q \in Queues : HasStopped(c, q)' => queueStopFlag'[q]
         /\ stopper'[c].pc \in {"joining", "returned"} => stopper'[c].i = QueuesNum
<1>1. StopWinner(c)
  BY DEF StopWinner
<1>2. \A q \in Queues : HasStopped(c, q)' <=> HasStopped(c, q)
  BY DEF HasStopped
<1>3. \A q \in Queues : queueStopFlag[q] => queueStopFlag'[q]
  BY PoolStepIsQueueStep, StopIsFinal DEF PoolInv
<1>4. QED  BY <1>1, <1>2, <1>3 DEF StopLoopInv

\* Every step of the loop of stop() keeps StopLoopInv.
LEMMA StopLoopStep ==
  ASSUME PoolInv, StopLoopInv, [Next]_vars
  PROVE  StopLoopInv'
<1> SUFFICES ASSUME NEW c \in StopCallers, StopWinner(c)'
             PROVE  /\ \A q \in Queues : HasStopped(c, q)' => queueStopFlag'[q]
                    /\ stopper'[c].pc \in {"joining", "returned"}
                         => stopper'[c].i = QueuesNum
  BY DEF StopLoopInv
<1>0. /\ stopper \in [StopCallers -> StopRecords] /\ stopper[c] \in StopRecords
      /\ queueStopFlag \in [Queues -> BOOLEAN]
      /\ \A q \in Queues : q \in Nat /\ q < QueuesNum
      /\ QueuesNum \in Nat
  BY QueuesNumAssumption DEF PoolInv, StopOK, QueueTypeOK
<1>1. ASSUME NEW finish \in BOOLEAN, StopCall(c, finish)
      PROVE  \A q \in Queues : ~HasStopped(c, q)'
  <2>1. PICK p \in {"early", "closing"} :
          stopper' = [stopper EXCEPT ![c] = [StopIdle EXCEPT !.pc = p, !.finish = finish]]
    BY <1>1 DEF StopCall
  <2>2. stopper'[c].i = 0 /\ stopper'[c].pc # "refund"
    BY <1>0, <2>1 DEF StopIdle
  <2>3. QED  BY <1>0, <2>2 DEF HasStopped
<1>2. CASE \E finish \in BOOLEAN : StopCall(c, finish)
  <2>1. stopper'[c].pc \in {"early", "closing"}
    BY <1>0, <1>2 DEF StopCall, StopIdle
  <2>2. QED  BY <1>1, <1>2, <2>1
<1>3. CASE StopQueue(c)
  <2>1. PICK i \in Queues : i = stopper[c].i
    BY <1>3 DEF StopQueue, PoolInv, StopOK
  <2>2. stopper'[c].i = i /\ stopper'[c].pc = "refund" /\ StopWinner(c)
    BY <1>0, <1>3, <2>1 DEF StopQueue, StopRecords, StopWinner
  <2>3. queueStopFlag' = [queueStopFlag EXCEPT ![i] = TRUE]
    BY <1>3, <2>1 DEF StopQueue, Stop
  <2>4. \A q \in Queues : q < i => queueStopFlag[q]
    BY <2>1, <2>2 DEF StopLoopInv, HasStopped
  <2>5. QED  BY <1>0, <2>1, <2>2, <2>3, <2>4 DEF HasStopped
<1>4. CASE RefundDropped(c)
  <2>1. /\ stopper'[c].i = stopper[c].i /\ stopper'[c].pc = stopper[c].pc
        /\ queueStopFlag' = queueStopFlag /\ StopWinner(c)
        /\ stopper[c].pc = "refund"
    BY <1>0, <1>4 DEF RefundDropped, StopRecords, StopWinner, queueVars
  <2>2. QED  BY <2>1 DEF StopLoopInv, HasStopped
<1>5. CASE NextQueue(c)
  <2>1. PICK i \in Queues : i = stopper[c].i
    BY <1>5 DEF NextQueue, PoolInv, StopOK
  <2>2. /\ stopper[c].pc = "refund" /\ StopWinner(c) /\ queueStopFlag' = queueStopFlag
        /\ stopper'[c].i = i + 1
        /\ stopper'[c].pc = IF i + 1 = QueuesNum THEN "joining" ELSE "closing"
    BY <1>0, <1>5, <2>1 DEF NextQueue, StopRecords, StopWinner, queueVars
  <2>3. \A q \in Queues : q <= i => queueStopFlag[q]
    BY <1>0, <2>1, <2>2 DEF StopLoopInv, HasStopped
  <2>4. \A q \in Queues : HasStopped(c, q)' => q <= i
    BY <1>0, <2>1, <2>2 DEF HasStopped
  <2>5. QED  BY <2>2, <2>3, <2>4
<1>6. CASE JoinWorkers(c)
  <2>1. /\ stopper[c].pc = "joining" /\ StopWinner(c) /\ queueStopFlag' = queueStopFlag
        /\ stopper'[c].i = stopper[c].i /\ stopper'[c].pc = "returned"
    BY <1>0, <1>6 DEF JoinWorkers, StopRecords, StopWinner, queueVars
  <2>2. QED  BY <2>1 DEF StopLoopInv, HasStopped
<1>7. CASE ~(StopStep(c) \/ \E finish \in BOOLEAN : StopCall(c, finish))
  <2>1. stopper'[c] = stopper[c]
    <3>1. ASSUME NEW d \in StopCallers, d # c,
                 StopStep(d) \/ \E finish \in BOOLEAN : StopCall(d, finish)
          PROVE  stopper'[c] = stopper[c]
      BY <1>0, <3>1 DEF StopStep, StopCall, StopQueue, RefundDropped, NextQueue, JoinWorkers
    <3>2. CASE ~\E d \in StopCallers : StopStep(d) \/ \E finish \in BOOLEAN : StopCall(d, finish)
      BY <3>2, StoppedQueueOnlyShrinks
    <3>3. QED  BY <1>7, <3>1, <3>2
  <2>2. QED  BY <2>1, StopLoopKept
<1>8. QED  BY <1>2, <1>3, <1>4, <1>5, <1>6, <1>7 DEF StopStep

\* When stop() comes to its joins, it has stopped every queue and no worker is asleep,
\* whatever pause() and addTask() did in the meantime.
THEOREM JoinsAreReleased ==
  SafetySpec => [](\A c \in StopCallers : stopper[c].pc \in {"joining", "returned"} =>
                     \A q \in Queues : queueStopFlag[q] /\ WaitersOf(q) = {})
<1>1. Init => StopLoopInv
  BY DEF Init, StopIdle, StopWinner, StopLoopInv
<1>2. SafetySpec => []StopLoopInv
  BY <1>1, StopLoopStep, PoolInvHolds, PTL DEF SafetySpec
<1>3. StopLoopInv /\ StopReleasesWaiters =>
        \A c \in StopCallers : stopper[c].pc \in {"joining", "returned"} =>
          \A q \in Queues : queueStopFlag[q] /\ WaitersOf(q) = {}
  BY QueuesNumAssumption DEF StopLoopInv, HasStopped, StopWinner, StopReleasesWaiters
<1>4. QED  BY <1>2, <1>3, PoolQueuesSound, PTL

\* From then on the workers have a number of steps left that no other thread can
\* raise: a queue that stop() has been through only ever gets shorter, also against
\* an addTask() that chose it before. With the scheduler doing its part, stop() returns.
THEOREM PoolStopConverges == SafetySpec => StopConverges
BY PoolImplementsTaskQueue, StopConvergesHolds, PTL

-------------------------------------------------------------------------------
(* A worker that has ended stays ended, so what stop() has joined stays joined. *)

JoinedInv ==
    \A c \in StopCallers : stopper[c].pc = "returned" => \A w \in Workers : at[w] = "exited"

\* When stop() has returned, every worker has ended.
LEMMA JoinedInvHolds == SafetySpec => []JoinedInv
<1>1. Init => JoinedInv
  BY DEF Init, StopIdle, JoinedInv
<1>2. PoolInv /\ JoinedInv /\ [Next]_vars => JoinedInv'
  <2> SUFFICES ASSUME PoolInv, JoinedInv, [Next]_vars,
                      NEW c \in StopCallers, stopper'[c].pc = "returned"
               PROVE  \A w \in Workers : at'[w] = "exited"
    BY DEF JoinedInv
  <2>0. stopper \in [StopCallers -> StopRecords]
    BY DEF PoolInv, StopOK
  <2>1. stopper[c].pc = "returned" \/ JoinWorkers(c)
    <3>1. ASSUME NEW d \in StopCallers, NEW finish \in BOOLEAN, StopCall(d, finish)
          PROVE  stopper[c].pc = "returned"
      <4>1. c # d => stopper'[c] = stopper[c]
        BY <2>0, <3>1 DEF StopCall
      <4>2. stopper'[d].pc \in {"early", "closing"}
        BY <2>0, <3>1 DEF StopCall, StopIdle
      <4>3. QED  BY <4>1, <4>2
    <3>2. ASSUME NEW d \in StopCallers, StopQueue(d) \/ RefundDropped(d) \/ NextQueue(d)
          PROVE  stopper[c].pc = "returned"
      <4>1. c # d => stopper'[c] = stopper[c]
        BY <2>0, <3>2 DEF StopQueue, RefundDropped, NextQueue
      <4>2. stopper'[d].pc # "returned"
        BY <2>0, <3>2 DEF StopQueue, RefundDropped, NextQueue, StopRecords
      <4>3. QED  BY <4>1, <4>2
    <3>3. ASSUME NEW d \in StopCallers, JoinWorkers(d), c # d
          PROVE  stopper[c].pc = "returned"
      BY <2>0, <3>3 DEF JoinWorkers
    <3>4. CASE ~\E d \in StopCallers : StopStep(d) \/ \E finish \in BOOLEAN : StopCall(d, finish)
      BY <3>4, StoppedQueueOnlyShrinks
    <3>5. QED  BY <3>1, <3>2, <3>3, <3>4 DEF StopStep
  <2>2. \A w \in Workers : at[w] = "exited"
    BY <2>1 DEF JoinedInv, JoinWorkers
  <2>3. QED  BY <2>2, PoolStepIsQueueStep, ExitedStays DEF PoolInv
<1>3. QED  BY <1>1, <1>2, PoolInvHolds, PTL DEF SafetySpec

\* When stop() has returned all workers have been joined, no queue holds a task,
\* and a task that is not settled is inside an addTask() before its push(): the
\* workers have all ended, a worker ends only when its queue is drained, and
\* every submitted task is with a generator, in a queue or with a worker.
THEOREM JoinedMeansSettledHolds == SafetySpec => []JoinedMeansSettled
<1>1. PoolInv /\ JoinedInv /\ TaskLocated /\ ExitedMeansDrained => JoinedMeansSettled
  <2> SUFFICES ASSUME PoolInv, JoinedInv, TaskLocated, ExitedMeansDrained,
                      NEW c \in StopCallers, stopper[c].pc = "returned"
               PROVE  /\ \A w \in Workers : at[w] = "exited"
                      /\ \A q \in Queues : innerQueue[q] = <<>>
                      /\ \A t \in Tasks : fate[t] = "submitted" => BeforePush(t)
    BY DEF JoinedMeansSettled, BeforePush
  <2>1. \A w \in Workers : at[w] = "exited"
    BY DEF JoinedInv
  <2>2. \A q \in Queues : innerQueue[q] = <<>>
    BY <2>1, WorkerShapeAssumption DEF ExitedMeansDrained
  <2>3. \A t \in Tasks : ~InQueue(t) /\ ~InWork(t)
    BY <2>1, <2>2 DEF InQueue, InWork, Queued, Running
  <2>4. QED  BY <2>1, <2>2, <2>3 DEF TaskLocated
<1>2. QED  BY <1>1, PoolInvHolds, JoinedInvHolds, TaskLocatedHolds, PoolQueuesSound, PTL

\* What is left of the loads when stop() has returned: the charges of the calls of
\* addTask() that have not come to their push(), and those of the refused tasks.
LoadsAfterStop ==
    \A c \in StopCallers : stopper[c].pc = "returned" =>
        \A q \in Queues : load[q] = TotalDuration(OnTheWay(q) \cup leaked[q])

\* stop() gives back what it dropped, and every task that was run has been given back.
THEOREM LoadsAfterStopHolds == SafetySpec => []LoadsAfterStop
<1>1. PoolInv /\ ShutdownInv /\ ChargeInv /\ JoinedMeansSettled /\ LoadAccounting => LoadsAfterStop
  <2> SUFFICES ASSUME PoolInv, ShutdownInv, ChargeInv, JoinedMeansSettled, LoadAccounting,
                      NEW c \in StopCallers, stopper[c].pc = "returned", NEW q \in Queues
               PROVE  load[q] = TotalDuration(OnTheWay(q) \cup leaked[q])
    BY DEF LoadsAfterStop
  <2>1. /\ \A w \in Workers : at[w] = "exited"
        /\ innerQueue[q] = <<>>
    BY DEF JoinedMeansSettled
  <2>2. Queued(q) = {} /\ InHand(q) = {}
    BY <2>1 DEF Queued, InHand, WorkersOf
  <2>3. \A d \in StopCallers : stopper[d].dropped = <<>>
    BY DEF ChargeInv, ShutdownInv, StopWinner
  <2>4. Draining(q) = {}
    BY <2>3 DEF Draining
  <2>5. Queued(q) \cup InHand(q) \cup OnTheWay(q) \cup Draining(q) \cup leaked[q]
          = OnTheWay(q) \cup leaked[q]
    BY <2>2, <2>4
  <2>6. QED  BY <2>5 DEF LoadAccounting
<1>2. QED
  BY <1>1, PoolInvHolds, ShutdownInvHolds, ChargeHolds, JoinedMeansSettledHolds,
     LoadAccountingHolds, PTL

-------------------------------------------------------------------------------
(* testSolution() around the pool.                                             *)

AfterJoin == driver \in {"readCompleted", "readSubmitted", "reported", "destroyed"}

\* A generator that has left its loop is in no call; when the generators and the
\* workers have been joined, nothing moves, and what has been read stays true.
DriverInv ==
    /\ loop \in [Generators -> {"test", "call", "done"}]
    /\ report \in [completed : Int, submitted : Int]
    /\ \A g \in Generators : loop[g] = "done" => gen[g].pc = "idle"
    /\ AfterJoin => stopper[Main].pc = "returned" /\ \A g \in Generators : loop[g] = "done"
    /\ driver \in {"readSubmitted", "reported", "destroyed"} => report.completed = tasksCompleted
    /\ driver \in {"reported", "destroyed"} => report.submitted = tasksSubmitted

\* The program does nothing to the pool but call its methods.
LEMMA DriverStepIsPoolStep ==
  ASSUME [DriverNext]_<<vars, driverVars>>
  PROVE  [Next]_vars
<1>1. CASE MainStep
  BY <1>1, MainAssumption DEF MainStep, EndTest, CallStop, JoinGenerators, ReadCompleted,
                              ReadSubmitted, DestroyPool, Next
<1>2. CASE \E g \in Generators : GeneratorStep(g)
  BY <1>2 DEF GeneratorStep, TestLoop, CallAddTask, Next
<1>3. CASE \/ \E g \in Generators : AddStep(g)
           \/ \E w \in Workers : LoopStep(w) \/ SpuriousInLoop(w)
           \/ StopStep(Main)
  BY <1>3, MainAssumption DEF Next
<1>4. QED  BY <1>1, <1>2, <1>3 DEF DriverNext

\* When the generators and the workers have been joined, no step of theirs is left.
LEMMA NothingMovesAfterJoin ==
  ASSUME PoolInv, JoinedInv, DriverInv, AfterJoin, [DriverNext]_<<vars, driverVars>>
  PROVE  UNCHANGED vars /\ AfterJoin' /\ loop' = loop
<1>1. /\ stopper[Main].pc = "returned"
      /\ \A g \in Generators : loop[g] = "done" /\ gen[g].pc = "idle"
  BY DEF DriverInv
<1>2. \A w \in Workers : at[w] = "exited" /\ ~counted[w]
  BY <1>1, MainAssumption DEF JoinedInv, PoolInv, LoopOK
<1>3. ASSUME NEW g \in Generators
      PROVE  ~AddStep(g) /\ ~GeneratorStep(g)
  BY <1>1, <1>3 DEF AddStep, ScanQueue, ChargeQueue, PushTask, NotifyWorker, CountSubmitted,
                    GeneratorStep, TestLoop, CallAddTask
<1>4. ASSUME NEW w \in Workers
      PROVE  ~LoopStep(w) /\ ~SpuriousInLoop(w)
  BY <1>2, <1>4 DEF LoopStep, PopInLoop, Pop, PopWait, PopTask, PopFails, CompleteTask,
                    DischargeTask, SpuriousInLoop, SpuriousWakeup
<1>5. ~StopStep(Main)
  BY <1>1 DEF StopStep, StopQueue, RefundDropped, NextQueue, JoinWorkers
<1>6. MainStep \/ UNCHANGED <<vars, driverVars>>
  BY <1>3, <1>4, <1>5 DEF DriverNext
<1>7. CASE MainStep
  BY <1>7 DEF AfterJoin, MainStep, EndTest, CallStop, JoinGenerators, ReadCompleted,
              ReadSubmitted, DestroyPool
<1>8. CASE UNCHANGED <<vars, driverVars>>
  BY <1>8 DEF driverVars, AfterJoin
<1>9. QED  BY <1>6, <1>7, <1>8

\* The program starts with every generator in its loop and nothing read.
LEMMA DriverInvInit == Init /\ DriverInit => DriverInv
BY DEF Init, DriverInit, DriverInv, GenIdle, AfterJoin, NothingRead

\* Every step of the program keeps DriverInv.
LEMMA DriverInvStep ==
  ASSUME PoolInv, JoinedInv, DriverInv, [DriverNext]_<<vars, driverVars>>
  PROVE  DriverInv'
<1>0. /\ loop \in [Generators -> {"test", "call", "done"}]
      /\ report \in [completed : Int, submitted : Int]
      /\ gen \in [Generators -> GenRecords]
      /\ tasksCompleted \in Int /\ tasksSubmitted \in Int
  BY DEF DriverInv, PoolInv, GenOK, CountersOK
<1>1. CASE AfterJoin
  <2>1. UNCHANGED vars /\ AfterJoin' /\ loop' = loop
    BY <1>1, NothingMovesAfterJoin
  <2>2. UNCHANGED <<gen, stopper, tasksSubmitted, tasksCompleted>>
    BY <2>1 DEF vars, poolVars
  <2>3. /\ report' \in [completed : Int, submitted : Int]
        /\ driver' \in {"readSubmitted", "reported", "destroyed"}
             => report'.completed = tasksCompleted
        /\ driver' \in {"reported", "destroyed"} => report'.submitted = tasksSubmitted
    <3>1. CASE ReadCompleted
      <4>1. /\ driver' = "readSubmitted"
            /\ report' = [report EXCEPT !.completed = tasksCompleted]
        BY <3>1 DEF ReadCompleted
      <4>2. QED  BY <1>0, <4>1
    <3>2. CASE ReadSubmitted
      <4>1. /\ driver = "readSubmitted" /\ driver' = "reported"
            /\ report' = [report EXCEPT !.submitted = tasksSubmitted]
        BY <3>2 DEF ReadSubmitted
      <4>2. report.completed = tasksCompleted
        BY <4>1 DEF DriverInv
      <4>3. QED  BY <1>0, <4>1, <4>2
    <3>3. CASE ~ReadCompleted /\ ~ReadSubmitted
      <4>1. /\ report' = report
            /\ \/ driver' = driver
               \/ driver' \in {"readCompleted", "stopping", "joining"}
               \/ driver = "reported" /\ driver' = "destroyed"
        BY <3>3 DEF DriverNext, MainStep, EndTest, CallStop, JoinGenerators, DestroyPool,
                    GeneratorStep, TestLoop, CallAddTask, driverVars
      <4>2. QED  BY <1>0, <4>1 DEF DriverInv
    <3>4. QED  BY <3>1, <3>2, <3>3
  <2>4. QED  BY <1>1, <2>1, <2>2, <2>3 DEF DriverInv
<1>2. CASE ~AfterJoin
  <2>1. CASE JoinGenerators
    <3>1. /\ UNCHANGED <<vars, loop, report>> /\ driver' = "readCompleted"
          /\ stopper[Main].pc = "returned" /\ \A g \in Generators : loop[g] = "done"
      BY <2>1 DEF JoinGenerators, GeneratorsJoined
    <3>2. UNCHANGED <<gen, stopper>>
      BY <3>1 DEF vars, poolVars
    <3>3. QED  BY <3>1, <3>2 DEF DriverInv
  <2>2. CASE ~JoinGenerators
    <3>1. ~AfterJoin' /\ report' = report
      BY <1>2, <2>2 DEF AfterJoin, DriverNext, MainStep, EndTest, CallStop, ReadCompleted,
                        ReadSubmitted, DestroyPool, GeneratorStep, TestLoop, CallAddTask,
                        driverVars
    <3>2. loop' \in [Generators -> {"test", "call", "done"}]
      BY <1>0 DEF DriverNext, MainStep, EndTest, CallStop, JoinGenerators, ReadCompleted,
                  ReadSubmitted, DestroyPool, GeneratorStep, TestLoop, CallAddTask, driverVars
    <3>3. ASSUME NEW g \in Generators, loop'[g] = "done"
          PROVE  gen'[g].pc = "idle"
      <4>1. CASE \E h \in Generators : TestLoop(h)
        BY <1>0, <3>3, <4>1 DEF TestLoop, DriverInv, vars, poolVars
      <4>2. ASSUME NEW h \in Generators, CallAddTask(h)
            PROVE  gen'[g].pc = "idle"
        <5>1. g # h /\ loop[g] = "done"
          BY <1>0, <3>3, <4>2 DEF CallAddTask
        <5>2. gen'[g] = gen[g]
          BY <1>0, <4>2, <5>1 DEF CallAddTask, AddTask
        <5>3. QED  BY <5>1, <5>2 DEF DriverInv
      <4>3. CASE ~\E h \in Generators : GeneratorStep(h)
        <5>1. loop' = loop
          BY <4>3 DEF DriverNext, MainStep, EndTest, CallStop, JoinGenerators, ReadCompleted,
                      ReadSubmitted, DestroyPool, driverVars
        <5>2. gen[g].pc = "idle"
          BY <3>3, <5>1 DEF DriverInv
        <5>3. gen'[g] = gen[g]
          <6>1. CASE MainStep
            BY <6>1 DEF MainStep, EndTest, CallStop, StopCall, JoinGenerators, ReadCompleted,
                        ReadSubmitted, DestroyPool, vars, poolVars
          <6>2. ASSUME NEW h \in Generators, AddStep(h)
                PROVE  gen'[g] = gen[g]
            <7>1. h # g
              BY <5>2, <6>2 DEF AddStep, ScanQueue, ChargeQueue, PushTask, NotifyWorker,
                                CountSubmitted
            <7>2. QED
              BY <1>0, <6>2, <7>1 DEF AddStep, ScanQueue, ChargeQueue, PushTask, NotifyWorker,
                                      CountSubmitted
          <6>3. CASE \/ \E w \in Workers : LoopStep(w) \/ SpuriousInLoop(w)
                     \/ StopStep(Main)
                     \/ UNCHANGED vars
            BY <6>3 DEF LoopStep, PopInLoop, CompleteTask, DischargeTask, SpuriousInLoop,
                        StopStep, StopQueue, RefundDropped, NextQueue, JoinWorkers, vars,
                        poolVars
          <6>4. QED  BY <4>3, <6>1, <6>2, <6>3 DEF DriverNext
        <5>4. QED  BY <5>2, <5>3
      <4>4. QED  BY <4>1, <4>2, <4>3 DEF GeneratorStep
    <3>4. QED  BY <1>0, <3>1, <3>2, <3>3 DEF DriverInv, AfterJoin
  <2>3. QED  BY <2>1, <2>2
<1>3. QED  BY <1>1, <1>2

\* The program of Lab3 is a pool with particular callers, so every theorem about the
\* pool holds in it.
THEOREM DriverUsesPool == DriverSpec => SafetySpec
BY DriverStepIsPoolStep, PTL DEF DriverSpec, SafetySpec

\* DriverInv holds of every state of the program.
LEMMA DriverInvHolds == DriverSpec => []DriverInv
BY DriverUsesPool, DriverInvInit, DriverInvStep, PoolInvHolds, JoinedInvHolds, PTL
DEF DriverSpec

\* What testSolution() prints is final and adds up: the counters are read when all
\* generators and workers have been joined, and from then on nothing moves; no task
\* is on its way, queued or in hand, so StatisticsAddUp leaves only the settled ones.
THEOREM ReportIsFinalHolds == DriverSpec => []ReportIsFinal
<1>1. DriverInv /\ JoinedMeansSettled /\ StatisticsAddUp /\ PoolInv => ReportIsFinal
  <2> SUFFICES ASSUME DriverInv, JoinedMeansSettled, StatisticsAddUp, PoolInv,
                      driver \in {"reported", "destroyed"}
               PROVE  /\ report.completed = Cardinality(Fated("executed"))
                      /\ report.submitted = report.completed + Cardinality(Fated("dropped"))
                                            + Cardinality(Leaks)
                      /\ \A w \in Workers : at[w] = "exited"
                      /\ \A g \in Generators : loop[g] = "done" /\ gen[g].pc = "idle"
    BY DEF ReportIsFinal, Fated, Leaks
  <2>1. /\ stopper[Main].pc = "returned"
        /\ \A g \in Generators : loop[g] = "done" /\ gen[g].pc = "idle"
        /\ report.completed = tasksCompleted /\ report.submitted = tasksSubmitted
    BY DEF DriverInv, AfterJoin
  <2>2. /\ \A w \in Workers : at[w] = "exited"
        /\ \A q \in Queues : innerQueue[q] = <<>>
    BY <2>1, MainAssumption DEF JoinedMeansSettled
  <2>3. AboutToCount = {} /\ Held = {} /\ Waiting = {}
    BY <2>1, <2>2 DEF AboutToCount, Owes, Held, Running, Waiting, InQueue, Queued
  <2>4. /\ tasksCompleted = Cardinality(Fated("executed"))
        /\ tasksSubmitted + 0 =
             0 + 0 + tasksCompleted + Cardinality(Fated("dropped")) + Cardinality(Leaks)
    BY <2>3, StatisticsInNames, FS_EmptySet
  <2>5. tasksSubmitted \in Nat /\ tasksCompleted \in Nat
    BY DEF PoolInv, CountersOK
  <2>6. QED  BY <2>1, <2>2, <2>4, <2>5
<1>2. QED
  BY <1>1, DriverUsesPool, DriverInvHolds, JoinedMeansSettledHolds, StatisticsAddUpHolds,
     PoolInvHolds, PTL

\* The loads that testSolution() leaves behind are the charges of the refused tasks and
\* nothing else: those of a task that was run or dropped have been given back.
THEOREM OnlyLeaksRemain ==
  DriverSpec => [](driver \in {"reported", "destroyed"} =>
                     \A q \in Queues : load[q] = TotalDuration(leaked[q]))
<1>1. DriverInv /\ LoadsAfterStop =>
        (driver \in {"reported", "destroyed"} =>
           \A q \in Queues : load[q] = TotalDuration(leaked[q]))
  <2> SUFFICES ASSUME DriverInv, LoadsAfterStop, driver \in {"reported", "destroyed"},
                      NEW q \in Queues
               PROVE  load[q] = TotalDuration(leaked[q])
    OBVIOUS
  <2>1. /\ stopper[Main].pc = "returned"
        /\ \A g \in Generators : gen[g].pc = "idle"
    BY DEF DriverInv, AfterJoin
  <2>2. OnTheWay(q) = {}
    BY <2>1 DEF OnTheWay
  <2>3. OnTheWay(q) \cup leaked[q] = leaked[q]
    BY <2>2
  <2>4. load[q] = TotalDuration(OnTheWay(q) \cup leaked[q])
    BY <2>1, MainAssumption DEF LoadsAfterStop
  <2>5. QED  BY <2>3, <2>4
<1>2. QED  BY <1>1, DriverUsesPool, DriverInvHolds, LoadsAfterStopHolds, PTL

-------------------------------------------------------------------------------
(* pause() and resume().                                                       *)

\* No two calls of pause() or resume() are in progress at once.
OneController ==
    \A c, d \in PauseCallers : pauser[c].pc # "idle" /\ pauser[d].pc # "idle" => c = d

Looping(c) == pauser[c].pc \in {"pausing", "resuming", "resumeNotify"}

\* The queue has the flag that isPaused() reports, unless stop() has been there.
Agrees(q) == queueStopFlag[q] \/ queuePauseFlag[q] = pauseFlag

\* The queues a loop has been through have the flag it is setting, and without a
\* loop all of them have it.
PauseInv ==
    /\ (\A c \in PauseCallers : ~Looping(c)) => \A q \in Queues : Agrees(q)
    /\ \A c \in PauseCallers :
          /\ pauser[c].pc = "pausing" => pauseFlag
          /\ pauser[c].pc \in {"resuming", "resumeNotify"} => ~pauseFlag
          /\ Looping(c) => \A q \in Queues : q < pauser[c].i => Agrees(q)
          /\ pauser[c].pc = "resumeNotify" => Agrees(pauser[c].i)

\* A step of anybody else leaves the flags of a queue alone, or stops the queue.
LEMMA OthersKeepPause ==
  ASSUME PoolInv, [Next]_vars,
         ~\E c \in PauseCallers : PauseStep(c) \/ PauseCall(c) \/ ResumeCall(c)
  PROVE  /\ UNCHANGED <<pauseFlag, pauser>>
         /\ \A q \in Queues :
               \/ queueStopFlag'[q]
               \/ queueStopFlag'[q] = queueStopFlag[q] /\ queuePauseFlag'[q] = queuePauseFlag[q]
<1>0. /\ queuePauseFlag \in [Queues -> BOOLEAN] /\ queueStopFlag \in [Queues -> BOOLEAN]
  BY DEF PoolInv, QueueTypeOK
<1>1. ASSUME NEW c \in StopCallers, StopStep(c) \/ \E finish \in BOOLEAN : StopCall(c, finish)
      PROVE  /\ UNCHANGED <<pauseFlag, pauser>>
             /\ \/ UNCHANGED <<queueStopFlag, queuePauseFlag>>
                \/ \E i : /\ queueStopFlag' = [queueStopFlag EXCEPT ![i] = TRUE]
                         /\ queuePauseFlag' = [queuePauseFlag EXCEPT ![i] = FALSE]
  BY <1>1 DEF StopStep, StopQueue, Stop, RefundDropped, NextQueue, JoinWorkers, StopCall, queueVars
<1>2. ASSUME NEW g \in Generators, AddStep(g) \/ \E t \in Tasks : AddTask(g, t)
      PROVE  UNCHANGED <<queueStopFlag, pauseFlag, queuePauseFlag, pauser>>
  BY <1>2 DEF AddStep, AddTask, ScanQueue, ChargeQueue, PushTask, NotifyWorker, CountSubmitted,
              Push, PushRefused, NotifyOne, queueVars
<1>3. ASSUME NEW w \in Workers, LoopStep(w) \/ SpuriousInLoop(w)
      PROVE  UNCHANGED <<queueStopFlag, pauseFlag, queuePauseFlag, pauser>>
  BY <1>3 DEF LoopStep, PopInLoop, SpuriousInLoop, CompleteTask, DischargeTask, Pop, PopWait,
              PopTask, PopFails, PopAgain, SpuriousWakeup, queueVars, poolVars
<1>4. CASE UNCHANGED vars
  BY <1>4 DEF vars, queueVars, poolVars
<1>5. QED  BY <1>0, <1>1, <1>2, <1>3, <1>4 DEF Next

\* A call of pause() or resume() that has the pool to itself keeps the loop's promise.
LEMMA PauseInvStep ==
  ASSUME PoolInv, OneController, PauseInv, [Next]_vars
  PROVE  PauseInv'
<1>0. /\ pauser \in [PauseCallers -> PauseRecords]
      /\ queuePauseFlag \in [Queues -> BOOLEAN] /\ queueStopFlag \in [Queues -> BOOLEAN]
      /\ pauseFlag \in BOOLEAN
      /\ Queues = 0 .. QueuesNum - 1 /\ QueuesNum \in Nat \ {0}
  BY QueuesNumAssumption DEF PoolInv, PauseOK, QueueTypeOK, CountersOK
<1>1. CASE ~\E c \in PauseCallers : PauseStep(c) \/ PauseCall(c) \/ ResumeCall(c)
  <2>1. /\ UNCHANGED <<pauseFlag, pauser>>
        /\ \A q \in Queues :
              \/ queueStopFlag'[q]
              \/ queueStopFlag'[q] = queueStopFlag[q] /\ queuePauseFlag'[q] = queuePauseFlag[q]
    BY <1>1, OthersKeepPause
  <2>2. \A q \in Queues : Agrees(q) => Agrees(q)'
    BY <2>1 DEF Agrees
  <2>3. \A c \in PauseCallers : pauser[c].pc = "resumeNotify" => pauser[c].i \in Queues
    BY DEF PoolInv, PauseOK
  <2>4. QED  BY <2>1, <2>2, <2>3 DEF PauseInv, Looping
<1>2. ASSUME NEW c \in PauseCallers, PauseStep(c) \/ PauseCall(c) \/ ResumeCall(c)
      PROVE  PauseInv'
  <2>1. UNCHANGED queueStopFlag
    BY <1>2 DEF PauseStep, PauseCall, ResumeCall, BeginCall, PauseExchange, PauseQueue,
                ResumeExchange, ResumeQueue, ResumeNotify, Pause, Resume, NotifyAll, queueVars
  <2>2. PauseInv
    OBVIOUS
  <2>3. /\ \A d \in PauseCallers \ {c} : pauser'[d] = pauser[d]
        /\ pauser[c] \in PauseRecords
    BY <1>0, <1>2 DEF PauseStep, PauseCall, ResumeCall, BeginCall, PauseExchange, PauseQueue,
                      ResumeExchange, ResumeQueue, ResumeNotify
  <2>4. CASE PauseCall(c) \/ ResumeCall(c)
    <3>1. UNCHANGED <<pauseFlag, queuePauseFlag>> /\ ~Looping(c)
      BY <2>4 DEF PauseCall, ResumeCall, BeginCall, queueVars, Looping
    <3>2. pauser'[c].pc \in {"pauseSet", "resumeSet"}
      BY <1>0, <2>3, <2>4 DEF PauseCall, ResumeCall, BeginCall, PauseRecords
    <3>3. \A q : Agrees(q)' = Agrees(q)
      BY <2>1, <3>1 DEF Agrees
    <3>4. QED  BY <2>2, <2>3, <3>1, <3>2, <3>3 DEF PauseInv, Looping
  \* The caller is the only one in a call.
  <2>5. ASSUME PauseStep(c)
        PROVE  \A d \in PauseCallers \ {c} : pauser'[d].pc = "idle" /\ pauser[d].pc = "idle"
    <3>1. pauser[c].pc # "idle"
      BY <2>5 DEF PauseStep, PauseExchange, PauseQueue, ResumeExchange, ResumeQueue, ResumeNotify
    <3>2. QED  BY <2>3, <3>1 DEF OneController
  <2>6. ASSUME PauseStep(c),
               ~Looping(c)' => \A q \in Queues : Agrees(q)',
               pauser'[c].pc = "pausing" => pauseFlag',
               pauser'[c].pc \in {"resuming", "resumeNotify"} => ~pauseFlag',
               Looping(c)' => \A q \in Queues : q < pauser'[c].i => Agrees(q)',
               pauser'[c].pc = "resumeNotify" => Agrees(pauser[c].i)'
        PROVE  PauseInv'
    <3>1. \A d \in PauseCallers \ {c} : pauser'[d].pc = "idle"
      BY <2>5, <2>6
    <3>2. QED  BY <2>6, <3>1 DEF PauseInv, Looping
  <2>7. CASE PauseExchange(c) \/ ResumeExchange(c)
    <3>1. PICK p \in {"idle", "pausing", "resuming"} :
            /\ pauser' = [pauser EXCEPT ![c].pc = p]
            /\ p = "idle" => pauseFlag' = pauseFlag
            /\ p = "pausing" => pauseFlag'
            /\ p = "resuming" => ~pauseFlag'
      BY <1>0, <2>7 DEF PauseExchange, ResumeExchange
    <3>2. /\ pauser[c].pc \in {"pauseSet", "resumeSet"} /\ UNCHANGED queuePauseFlag
          /\ pauser[c].i = 0
      BY <2>7 DEF PauseExchange, ResumeExchange, queueVars, PoolInv, PauseOK
    <3>3. pauser'[c].pc = p /\ pauser'[c].i = 0
      BY <1>0, <2>3, <3>1, <3>2 DEF PauseRecords
    <3>4. \A q \in Queues : Agrees(q)
      BY <2>2, <2>5, <2>7, <3>2 DEF PauseInv, Looping, PauseStep
    <3>5. \A q \in Queues : ~(q < 0)
      BY <1>0
    <3>6. p = "idle" => \A q \in Queues : Agrees(q)'
      BY <2>1, <3>1, <3>2, <3>4 DEF Agrees
    <3>7. QED  BY <2>6, <2>7, <3>1, <3>3, <3>5, <3>6 DEF Looping, PauseStep
  <2>8. CASE PauseQueue(c) \/ ResumeNotify(c)
    <3>1. /\ UNCHANGED pauseFlag /\ pauser[c].i \in Queues
          /\ \A q \in Queues : q <= pauser[c].i => Agrees(q)'
      <4>1. CASE PauseQueue(c)
        <5>1. /\ pauser[c].pc = "pausing" /\ pauser[c].i \in Queues /\ pauseFlag' = pauseFlag
              /\ queuePauseFlag' = [queuePauseFlag EXCEPT ![pauser[c].i] = TRUE]
          BY <4>1 DEF PauseQueue, Pause, PoolInv, PauseOK
        <5>2. pauseFlag = TRUE /\ \A q \in Queues : q < pauser[c].i => Agrees(q)
          BY <1>0, <2>2, <5>1 DEF PauseInv, Looping
        <5>3. \A q \in Queues : Agrees(q) \/ q = pauser[c].i => Agrees(q)'
          BY <1>0, <2>1, <5>1, <5>2 DEF Agrees
        <5>4. \A q \in Queues : q <= pauser[c].i => q < pauser[c].i \/ q = pauser[c].i
          BY <1>0, <5>1
        <5>5. QED  BY <5>1, <5>2, <5>3, <5>4
      <4>2. CASE ResumeNotify(c)
        <5>1. /\ pauser[c].pc = "resumeNotify" /\ pauser[c].i \in Queues
              /\ pauseFlag' = pauseFlag /\ queuePauseFlag' = queuePauseFlag
          BY <4>2 DEF ResumeNotify, NotifyAll, PoolInv, PauseOK
        <5>2. /\ Agrees(pauser[c].i)
              /\ \A q \in Queues : q < pauser[c].i => Agrees(q)
          BY <1>0, <2>2, <5>1 DEF PauseInv, Looping
        <5>3. \A q \in Queues : Agrees(q) => Agrees(q)'
          BY <2>1, <5>1 DEF Agrees
        <5>4. \A q \in Queues : q <= pauser[c].i => q < pauser[c].i \/ q = pauser[c].i
          BY <1>0, <5>1
        <5>5. QED  BY <5>1, <5>2, <5>3, <5>4
      <4>3. QED  BY <2>8, <4>1, <4>2
    <3>2. PICK again \in {"pausing", "resuming"} :
            /\ pauser' = [pauser EXCEPT ![c] = AfterQueue(c, again)]
            /\ again = "pausing" => pauseFlag
            /\ again = "resuming" => ~pauseFlag
      BY <2>2, <2>8 DEF PauseQueue, ResumeNotify, PauseInv
    <3>3. pauser'[c] = AfterQueue(c, again)
      BY <1>0, <3>2
    <3>4. CASE pauser[c].i + 1 = QueuesNum
      <4>1. pauser'[c].pc = "idle"
        BY <3>3, <3>4 DEF AfterQueue, PauseIdle
      <4>2. \A q \in Queues : q <= pauser[c].i
        BY <1>0, <3>1, <3>4
      <4>3. QED  BY <2>6, <2>8, <3>1, <4>1, <4>2 DEF Looping, PauseStep
    <3>5. CASE pauser[c].i + 1 # QueuesNum
      <4>1. pauser'[c].pc = again /\ pauser'[c].i = pauser[c].i + 1
        BY <3>3, <3>5 DEF AfterQueue
      <4>2. \A q \in Queues : q < pauser'[c].i => q <= pauser[c].i
        BY <1>0, <3>1, <4>1
      <4>3. QED  BY <2>6, <2>8, <3>1, <3>2, <4>1, <4>2 DEF Looping, PauseStep
    <3>6. QED  BY <3>4, <3>5
  <2>9. CASE ResumeQueue(c)
    <3>1. /\ pauser[c].pc = "resuming" /\ pauser[c].i \in Queues /\ pauseFlag' = pauseFlag
          /\ queuePauseFlag' = [queuePauseFlag EXCEPT ![pauser[c].i] = FALSE]
          /\ pauser' = [pauser EXCEPT ![c].pc = "resumeNotify"]
      BY <2>9 DEF ResumeQueue, Resume, PoolInv, PauseOK
    <3>2. pauser'[c].pc = "resumeNotify" /\ pauser'[c].i = pauser[c].i
      BY <1>0, <2>3, <3>1 DEF PauseRecords
    <3>3. /\ pauseFlag = FALSE
          /\ \A q \in Queues : q < pauser[c].i => Agrees(q)
      BY <1>0, <2>2, <3>1 DEF PauseInv, Looping
    <3>4. \A q \in Queues : Agrees(q) \/ q = pauser[c].i => Agrees(q)'
      BY <1>0, <2>1, <3>1, <3>3 DEF Agrees
    <3>5. Agrees(pauser[c].i)'
      BY <3>1, <3>2, <3>4
    <3>6. QED  BY <2>6, <2>9, <3>1, <3>2, <3>3, <3>4, <3>5 DEF Looping, PauseStep
  <2>10. QED  BY <1>2, <2>4, <2>7, <2>8, <2>9 DEF PauseStep
<1>3. QED  BY <1>1, <1>2

\* As long as pause() and resume() are called by one thread at a time, the flag that
\* isPaused() reports is, whenever neither is in progress, the flag of every queue that
\* stop() has not come to yet.  Two threads that overlap undo each other's loops: no
\* theorem without the premise.
THEOREM PauseFlagHonouredHolds ==
  SafetySpec /\ []OneController => []PauseFlagHonoured
<1>1. Init => PauseInv
  <2>1. SUFFICES ASSUME Init
                 PROVE  PauseInv
    OBVIOUS
  <2>2. pauseFlag = FALSE /\ \A q \in Queues : queuePauseFlag[q] = FALSE
    BY <2>1 DEF Init, QueueInit
  <2>3. \A c \in PauseCallers : pauser[c].pc = "idle"
    BY <2>1 DEF Init, PauseIdle
  <2>4. QED  BY <2>2, <2>3 DEF PauseInv, Looping, Agrees
<1>2. PauseInv => PauseFlagHonoured
  BY DEF PauseInv, PauseFlagHonoured, Looping, Agrees
<1>3. QED
  BY <1>1, <1>2, PauseInvStep, PoolInvHolds, PTL DEF SafetySpec

=================================================================================
