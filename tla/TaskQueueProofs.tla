---------------------------- MODULE TaskQueueProofs ----------------------------
(* The safety of TaskQueue for any queues, workers and tasks.                 *)
EXTENDS TaskQueue, FiniteSetTheorems, TLAPS

\* One step of a queue keeps every flag, counter, sequence and place in its domain.
LEMMA QueueTypeStep ==
  ASSUME QueueTypeOK, [QueueNext]_queueVars
  PROVE  QueueTypeOK'
<1> USE DEF QueueTypeOK, Places
<1>1. ASSUME NEW q \in Queues, ProducerStep(q)
      PROVE  QueueTypeOK'
  <2>1. ASSUME NEW t \in Tasks, Push(q, t)
        PROVE  QueueTypeOK'
    <3>1. Append(innerQueue[q], t) \in Seq(Tasks)
      OBVIOUS
    <3>2. QED  BY <2>1, <3>1 DEF Push
  <2>2. CASE PushRefused(q)
    BY <2>2 DEF PushRefused, queueVars
  <2>3. CASE NotifyOne(q)
    <3>1. at' \in [Workers -> Places]
      BY <2>3 DEF NotifyOne, WakeOne, WaitersOf, WorkersOf
    <3>2. QED  BY <2>3, <3>1 DEF NotifyOne
  <2>4. QED  BY <1>1, <2>1, <2>2, <2>3 DEF ProducerStep
<1>2. ASSUME NEW q \in Queues, ControllerStep(q)
      PROVE  QueueTypeOK'
  <2>1. CASE Clear(q)   BY <2>1 DEF Clear
  <2>2. CASE Pause(q)   BY <2>2 DEF Pause
  <2>3. CASE Resume(q)  BY <2>3 DEF Resume
  <2>4. CASE NotifyAll(q)
    <3>1. at' \in [Workers -> Places]
      BY <2>4 DEF NotifyAll, WakeAll
    <3>2. QED  BY <2>4, <3>1 DEF NotifyAll
  <2>5. ASSUME NEW b \in BOOLEAN, Stop(q, b)
        PROVE  QueueTypeOK'
    <3>1. at' \in [Workers -> Places]
      BY <2>5 DEF Stop, WakeAll
    <3>2. QED  BY <2>5, <3>1 DEF Stop
  <2>6. QED  BY <1>2, <2>1, <2>2, <2>3, <2>4, <2>5 DEF ControllerStep
<1>3. ASSUME NEW w \in Workers, WorkerStep(w)
      PROVE  QueueTypeOK'
  <2>1. QueueOf[w] \in Queues
    BY QueueOfAssumption
  <2>2. CASE PopWait(w)         BY <2>2 DEF PopWait
  <2>3. CASE SpuriousWakeup(w)  BY <2>3 DEF SpuriousWakeup
  <2>4. CASE PopTask(w)
    <3> DEFINE queue == innerQueue[QueueOf[w]]
    <3>1. queue \in Seq(Tasks) /\ queue # <<>>
      BY <2>1, <2>4 DEF PopTask
    <3>2. Head(queue) \in Tasks /\ Tail(queue) \in Seq(Tasks)
      BY <3>1
    <3>3. QED  BY <2>1, <2>4, <3>2 DEF PopTask
  <2>5. CASE PopFails(w)        BY <2>5 DEF PopFails
  <2>6. CASE PopAgain(w)        BY <2>6 DEF PopAgain
  <2>7. QED  BY <1>3, <2>2, <2>3, <2>4, <2>5, <2>6 DEF WorkerStep, Pop
<1>4. CASE UNCHANGED queueVars
  BY <1>4 DEF queueVars
<1>5. QED  BY <1>1, <1>2, <1>3, <1>4 DEF QueueNext

\* Type correctness of the queue: every flag, counter, sequence and worker
\* place stays in its domain through every method of TaskQueue.h.
THEOREM QueueTypeCorrect == QueueSpec => []QueueTypeOK
<1>1. QueueInit => QueueTypeOK
  BY NoTaskAssumption DEF QueueInit, QueueTypeOK, Places
<1>2. QueueTypeOK /\ [QueueNext]_queueVars => QueueTypeOK'
  BY QueueTypeStep
<1>3. QED  BY <1>1, <1>2, PTL DEF QueueSpec

-------------------------------------------------------------------------------
(* Shutdown: the two invariants are inductive relative to type correctness.   *)

\* stop() leaves nobody blocked in pop(), for any number of workers.
THEOREM StopReleasesWaitersHolds == QueueSpec => []StopReleasesWaiters
<1>1. QueueInit => StopReleasesWaiters
  BY DEF QueueInit, StopReleasesWaiters
<1>2. QueueTypeOK /\ StopReleasesWaiters /\ [QueueNext]_queueVars => StopReleasesWaiters'
  <2> SUFFICES ASSUME QueueTypeOK, StopReleasesWaiters, [QueueNext]_queueVars,
                      NEW p \in Queues, queueStopFlag'[p],
                      NEW w \in Workers, QueueOf[w] = p, at'[w] = "waiting"
               PROVE  FALSE
    BY DEF StopReleasesWaiters, WaitersOf, WorkersOf
  <2> USE DEF QueueTypeOK
  <2>1. queueStopFlag[p] => at[w] # "waiting"
    BY DEF StopReleasesWaiters, WaitersOf, WorkersOf
  <2>2. ASSUME NEW q \in Queues, ProducerStep(q)
        PROVE  FALSE
    <3>1. queueStopFlag' = queueStopFlag
      BY <2>2 DEF ProducerStep, Push, PushRefused, NotifyOne, queueVars
    <3>2. at'[w] = "waiting" => at[w] = "waiting"
      BY <2>2 DEF ProducerStep, Push, PushRefused, NotifyOne, WakeOne, WaitersOf,
                  WorkersOf, queueVars
    <3>3. QED  BY <2>1, <3>1, <3>2
  <2>3. ASSUME NEW q \in Queues, ControllerStep(q)
        PROVE  FALSE
    <3>1. CASE Clear(q) \/ Pause(q) \/ Resume(q)
      BY <2>1, <3>1 DEF Clear, Pause, Resume
    <3>2. CASE NotifyAll(q)
      BY <2>1, <3>2 DEF NotifyAll, WakeAll
    <3>3. ASSUME NEW b \in BOOLEAN, Stop(q, b)
          PROVE  FALSE
      BY <2>1, <3>3 DEF Stop, WakeAll, WaitersOf, WorkersOf
    <3>4. QED  BY <2>3, <3>1, <3>2, <3>3 DEF ControllerStep
  <2>4. ASSUME NEW v \in Workers, WorkerStep(v)
        PROVE  FALSE
    BY <2>1, <2>4 DEF WorkerStep, Pop, PopWait, PopTask, PopFails, PopAgain,
                      SpuriousWakeup, MayLeaveWait
  <2>5. CASE UNCHANGED queueVars
    BY <2>1, <2>5 DEF queueVars
  <2>6. QED  BY <2>2, <2>3, <2>4, <2>5 DEF QueueNext
<1>3. QED  BY <1>1, <1>2, QueueTypeCorrect, PTL DEF QueueSpec

\* A step of a queue from which a worker has ended leaves it stopped and empty.
LEMMA DrainedStep ==
  ASSUME QueueTypeOK, ExitedMeansDrained, [QueueNext]_queueVars
  PROVE  ExitedMeansDrained'
<1> SUFFICES ASSUME NEW w \in Workers, at'[w] = "exited"
             PROVE  queueStopFlag'[QueueOf[w]] /\ innerQueue'[QueueOf[w]] = <<>>
  BY DEF ExitedMeansDrained
<1> DEFINE p == QueueOf[w]
<1> USE DEF QueueTypeOK
<1>0. p \in Queues /\ (at[w] = "exited" => queueStopFlag[p] /\ innerQueue[p] = <<>>)
  BY QueueOfAssumption DEF ExitedMeansDrained
<1>1. ASSUME NEW q \in Queues, ProducerStep(q)
      PROVE  queueStopFlag'[p] /\ innerQueue'[p] = <<>>
  <2>1. ASSUME NEW t \in Tasks, Push(q, t)
        PROVE  queueStopFlag'[p] /\ innerQueue'[p] = <<>>
    BY <1>0, <2>1 DEF Push
  <2>2. CASE PushRefused(q)
    BY <1>0, <2>2 DEF PushRefused, queueVars
  <2>3. CASE NotifyOne(q)
    BY <1>0, <2>3 DEF NotifyOne, WakeOne, WaitersOf, WorkersOf
  <2>4. QED  BY <1>1, <2>1, <2>2, <2>3 DEF ProducerStep
<1>2. ASSUME NEW q \in Queues, ControllerStep(q)
      PROVE  queueStopFlag'[p] /\ innerQueue'[p] = <<>>
  <2>1. CASE Clear(q) \/ Pause(q) \/ Resume(q)
    BY <1>0, <2>1 DEF Clear, Pause, Resume
  <2>2. CASE NotifyAll(q)
    BY <1>0, <2>2 DEF NotifyAll, WakeAll
  <2>3. ASSUME NEW b \in BOOLEAN, Stop(q, b)
        PROVE  queueStopFlag'[p] /\ innerQueue'[p] = <<>>
    BY <1>0, <2>3 DEF Stop, WakeAll
  <2>4. QED  BY <1>2, <2>1, <2>2, <2>3 DEF ControllerStep
<1>3. ASSUME NEW v \in Workers, WorkerStep(v)
      PROVE  queueStopFlag'[p] /\ innerQueue'[p] = <<>>
  <2>1. CASE PopTask(v)
    \* A task was taken, so the queue was not empty and nobody had ended.
    BY <1>0, <2>1, QueueOfAssumption DEF PopTask
  <2>2. CASE PopFails(v)
    BY <1>0, <2>2 DEF PopFails, MayLeaveWait
  <2>3. CASE PopWait(v) \/ SpuriousWakeup(v) \/ PopAgain(v)
    BY <1>0, <2>3 DEF PopWait, SpuriousWakeup, PopAgain
  <2>4. QED  BY <1>3, <2>1, <2>2, <2>3 DEF WorkerStep, Pop
<1>4. CASE UNCHANGED queueVars
  BY <1>0, <1>4 DEF queueVars
<1>5. QED  BY <1>1, <1>2, <1>3, <1>4 DEF QueueNext

\* pop() returns false only on a stopped and empty queue, and push() refuses a
\* stopped queue, so a worker that has ended leaves no task behind, ever.
THEOREM ExitedMeansDrainedHolds == QueueSpec => []ExitedMeansDrained
<1>1. QueueInit => ExitedMeansDrained
  BY DEF QueueInit, ExitedMeansDrained
<1>2. QueueTypeOK /\ ExitedMeansDrained /\ [QueueNext]_queueVars => ExitedMeansDrained'
  BY DrainedStep
<1>3. QED  BY <1>1, <1>2, QueueTypeCorrect, PTL DEF QueueSpec

-------------------------------------------------------------------------------
(* No lost wakeup.  The counting argument needs how one worker that enters or *)
(* leaves pop() changes the number of poppers.                                *)

\* The workers about to enter pop() can be counted.
LEMMA PoppersAreFinite ==
  ASSUME NEW q \in Queues
  PROVE  IsFiniteSet(PoppersOf(q)) /\ Cardinality(PoppersOf(q)) \in Nat
<1>1. PoppersOf(q) \subseteq Workers
  BY DEF PoppersOf, WorkersOf
<1>2. QED  BY <1>1, WorkersAssumption, FS_Subset, FS_CardinalityType

\* A worker that goes from anywhere else into "pop" is one more popper.
LEMMA PopperEnters ==
  ASSUME NEW q \in Queues, NEW w \in WorkersOf(q), QueueTypeOK,
         at[w] # "pop", at' = [at EXCEPT ![w] = "pop"]
  PROVE  Cardinality(PoppersOf(q))' = Cardinality(PoppersOf(q)) + 1
<1>1. w \notin PoppersOf(q)
  BY DEF PoppersOf
<1>2. PoppersOf(q)' = PoppersOf(q) \cup {w}
  BY DEF PoppersOf, WorkersOf, QueueTypeOK
<1>3. Cardinality(PoppersOf(q) \cup {w}) = Cardinality(PoppersOf(q)) + 1
  BY <1>1, PoppersAreFinite, FS_AddElement
<1>4. QED  BY <1>2, <1>3

\* A worker that leaves "pop" is one popper less.
LEMMA PopperLeaves ==
  ASSUME NEW q \in Queues, NEW w \in WorkersOf(q), NEW s, QueueTypeOK,
         at[w] = "pop", s # "pop", at' = [at EXCEPT ![w] = s]
  PROVE  Cardinality(PoppersOf(q))' = Cardinality(PoppersOf(q)) - 1
<1>1. w \in PoppersOf(q)
  BY DEF PoppersOf
<1>2. PoppersOf(q)' = PoppersOf(q) \ {w}
  BY DEF PoppersOf, WorkersOf, QueueTypeOK
<1>3. Cardinality(PoppersOf(q) \ {w}) = Cardinality(PoppersOf(q)) - 1
  BY <1>1, PoppersAreFinite, FS_RemoveElement
<1>4. QED  BY <1>2, <1>3

\* No worker sleeps while a task has nobody to take it: each step that adds a
\* task also adds a pending notify_one(), a notification turns into a worker in
\* pop(), and a worker blocks only when the queue it looks at is empty or paused.
THEOREM NoLostWakeupHolds == QueueSpec => []NoLostWakeup
<1> DEFINE Matched(q) ==
             Len(innerQueue[q]) <= owedOne[q] + Cardinality(PoppersOf(q))
<1>1. QueueInit => NoLostWakeup
  BY DEF QueueInit, NoLostWakeup, WaitersOf, WorkersOf
<1>2. QueueTypeOK /\ StopReleasesWaiters /\ NoLostWakeup /\ [QueueNext]_queueVars
        => NoLostWakeup'
  <2> SUFFICES ASSUME QueueTypeOK, StopReleasesWaiters, NoLostWakeup,
                      [QueueNext]_queueVars,
                      NEW p \in Queues,
                      ~queueStopFlag'[p], ~queuePauseFlag'[p], owedAll'[p] = 0,
                      NEW x \in WorkersOf(p), at'[x] = "waiting"
               PROVE  Matched(p)'
    BY DEF NoLostWakeup, WaitersOf, WorkersOf
  <2> USE DEF QueueTypeOK
  <2>0. /\ Cardinality(PoppersOf(p)) \in Nat
        /\ Len(innerQueue[p]) \in Nat
        /\ owedOne[p] \in Nat
    BY PoppersAreFinite
  <2>1. ASSUME ~queueStopFlag[p], ~queuePauseFlag[p], owedAll[p] = 0, at[x] = "waiting"
        PROVE  Matched(p)
    BY <2>1 DEF NoLostWakeup, WaitersOf
  <2>2. ASSUME at' = at
        PROVE  Cardinality(PoppersOf(p))' = Cardinality(PoppersOf(p))
    <3>1. PoppersOf(p)' = PoppersOf(p)
      BY <2>2 DEF PoppersOf, WorkersOf
    <3>2. QED  BY <3>1
  <2>3. ASSUME NEW w \in Workers, QueueOf[w] # p, NEW s,
               at' = [at EXCEPT ![w] = s]
        PROVE  /\ Cardinality(PoppersOf(p))' = Cardinality(PoppersOf(p))
               /\ at'[x] = at[x]
    <3>1. PoppersOf(p)' = PoppersOf(p)
      BY <2>3 DEF PoppersOf, WorkersOf
    <3>2. QED  BY <2>3, <3>1 DEF WorkersOf
  <2>4. ASSUME NEW q \in Queues, ProducerStep(q)
        PROVE  Matched(p)'
    <3>1. ASSUME NEW t \in Tasks, Push(q, t)
          PROVE  Matched(p)'
      <4>1. Matched(p) /\ Cardinality(PoppersOf(p))' = Cardinality(PoppersOf(p))
        BY <2>1, <2>2, <3>1 DEF Push
      <4>2. CASE q = p
        <5>1. Len(innerQueue'[p]) = Len(innerQueue[p]) + 1
          BY <3>1, <4>2 DEF Push
        <5>2. owedOne'[p] = owedOne[p] + 1
          BY <3>1, <4>2 DEF Push
        <5>3. QED  BY <2>0, <4>1, <5>1, <5>2
      <4>3. CASE q # p
        <5>1. innerQueue'[p] = innerQueue[p] /\ owedOne'[p] = owedOne[p]
          BY <3>1, <4>3 DEF Push
        <5>2. QED  BY <4>1, <5>1
      <4>4. QED  BY <4>2, <4>3
    <3>2. CASE PushRefused(q)
      <4>1. UNCHANGED queueVars
        BY <3>2 DEF PushRefused
      <4>2. QED  BY <2>1, <2>2, <4>1 DEF queueVars
    <3>3. CASE NotifyOne(q)
      <4>1. CASE at' = at
        <5>1. CASE q = p
          \* Nobody waits on p, and x does not start to.
          BY <3>3, <4>1, <5>1 DEF NotifyOne, WakeOne, WaitersOf, WorkersOf
        <5>2. CASE q # p
          <6>1. Matched(p) /\ Cardinality(PoppersOf(p))' = Cardinality(PoppersOf(p))
            BY <2>1, <2>2, <3>3, <4>1 DEF NotifyOne
          <6>2. innerQueue'[p] = innerQueue[p] /\ owedOne'[p] = owedOne[p]
            BY <3>3, <5>2 DEF NotifyOne
          <6>3. QED  BY <6>1, <6>2
        <5>3. QED  BY <5>1, <5>2
      <4>2. ASSUME NEW w \in WaitersOf(q), at' = [at EXCEPT ![w] = "pop"]
            PROVE  Matched(p)'
        <5>1. w \in Workers /\ w \in WorkersOf(q) /\ QueueOf[w] = q /\ at[w] # "pop"
          BY <4>2 DEF WaitersOf, WorkersOf
        <5>2. at[x] = "waiting"
          BY <4>2, <5>1 DEF WorkersOf
        <5>3. Matched(p) /\ innerQueue' = innerQueue
          BY <2>1, <3>3, <5>2 DEF NotifyOne
        <5>4. CASE q = p
          <6>1. Cardinality(PoppersOf(p))' = Cardinality(PoppersOf(p)) + 1
            BY <4>2, <5>1, <5>4, PopperEnters
          <6>2. owedOne'[p] = owedOne[p] - 1
            BY <3>3, <5>4 DEF NotifyOne
          <6>3. QED  BY <2>0, <5>3, <6>1, <6>2
        <5>5. CASE q # p
          <6>1. Cardinality(PoppersOf(p))' = Cardinality(PoppersOf(p))
            BY <2>3, <4>2, <5>1, <5>5
          <6>2. owedOne'[p] = owedOne[p]
            BY <3>3, <5>5 DEF NotifyOne
          <6>3. QED  BY <5>3, <6>1, <6>2
        <5>6. QED  BY <5>4, <5>5
      <4>3. QED  BY <3>3, <4>1, <4>2 DEF NotifyOne, WakeOne
    <3>4. QED  BY <2>4, <3>1, <3>2, <3>3 DEF ProducerStep
  <2>5. ASSUME NEW q \in Queues, ControllerStep(q)
        PROVE  Matched(p)'
    <3>1. CASE Clear(q)
      <4>1. /\ Matched(p)
            /\ Cardinality(PoppersOf(p))' = Cardinality(PoppersOf(p))
            /\ owedOne'[p] = owedOne[p]
        BY <2>1, <2>2, <3>1 DEF Clear
      <4>2. innerQueue'[p] = IF q = p THEN <<>> ELSE innerQueue[p]
        BY <3>1 DEF Clear
      <4>3. Len(innerQueue'[p]) <= Len(innerQueue[p])
        BY <2>0, <4>2
      <4>4. QED  BY <2>0, <4>1, <4>2, <4>3
    <3>2. CASE Pause(q) \/ Resume(q)
      \* The paused queue is exempt, the resumed one owes its notify_all().
      <4>1. q # p
        BY <3>2 DEF Pause, Resume
      <4>2. /\ Matched(p)
            /\ Cardinality(PoppersOf(p))' = Cardinality(PoppersOf(p))
            /\ owedOne'[p] = owedOne[p]
            /\ innerQueue'[p] = innerQueue[p]
        BY <2>1, <2>2, <3>2, <4>1 DEF Pause, Resume
      <4>3. QED  BY <4>2
    <3>3. ASSUME at' = [w \in Workers |-> IF w \in WaitersOf(q) THEN "pop" ELSE at[w]],
                 q # p
          PROVE  Cardinality(PoppersOf(p))' = Cardinality(PoppersOf(p)) /\ at'[x] = at[x]
      <4>1. \A w \in WorkersOf(p) : at'[w] = at[w]
        BY <3>3 DEF WaitersOf, WorkersOf
      <4>2. PoppersOf(p)' = PoppersOf(p)
        BY <4>1 DEF PoppersOf, WorkersOf
      <4>3. QED  BY <4>1, <4>2
    <3>4. CASE NotifyAll(q)
      <4>1. q # p
        BY <3>4 DEF NotifyAll, WakeAll, WaitersOf, WorkersOf
      <4>2. at[x] = "waiting" /\ Cardinality(PoppersOf(p))' = Cardinality(PoppersOf(p))
        BY <3>3, <3>4, <4>1 DEF NotifyAll, WakeAll
      <4>3. /\ Matched(p)
            /\ owedOne'[p] = owedOne[p]
            /\ innerQueue'[p] = innerQueue[p]
        BY <2>1, <3>4, <4>1, <4>2 DEF NotifyAll
      <4>4. QED  BY <4>2, <4>3
    <3>5. ASSUME NEW b \in BOOLEAN, Stop(q, b)
          PROVE  Matched(p)'
      <4>1. q # p
        BY <3>5 DEF Stop
      <4>2. at[x] = "waiting" /\ Cardinality(PoppersOf(p))' = Cardinality(PoppersOf(p))
        BY <3>3, <3>5, <4>1 DEF Stop, WakeAll
      <4>3. /\ Matched(p)
            /\ owedOne'[p] = owedOne[p]
            /\ innerQueue'[p] = innerQueue[p]
        BY <2>1, <3>5, <4>1, <4>2 DEF Stop
      <4>4. QED  BY <4>2, <4>3
    <3>6. QED  BY <2>5, <3>1, <3>2, <3>4, <3>5 DEF ControllerStep
  <2>6. ASSUME NEW w \in Workers, WorkerStep(w)
        PROVE  Matched(p)'
    <3>0. owedOne'[p] = owedOne[p]
      BY <2>6 DEF WorkerStep, Pop, PopWait, PopTask, PopFails, PopAgain, SpuriousWakeup
    <3>1. CASE QueueOf[w] # p
      <4>1. PICK s : at' = [at EXCEPT ![w] = s]
        BY <2>6 DEF WorkerStep, Pop, PopWait, PopTask, PopFails, PopAgain, SpuriousWakeup
      <4>2. at[x] = "waiting" /\ Cardinality(PoppersOf(p))' = Cardinality(PoppersOf(p))
        BY <2>3, <3>1, <4>1
      <4>3. innerQueue'[p] = innerQueue[p]
        BY <2>6, <3>1, QueueOfAssumption
        DEF WorkerStep, Pop, PopWait, PopTask, PopFails, PopAgain, SpuriousWakeup
      <4>4. Matched(p)
        BY <2>1, <2>6, <4>2
        DEF WorkerStep, Pop, PopWait, PopTask, PopFails, PopAgain, SpuriousWakeup
      <4>5. QED  BY <3>0, <4>2, <4>3, <4>4
    <3>2. CASE QueueOf[w] = p
      <4>1. w \in WorkersOf(p)
        BY <3>2 DEF WorkersOf
      <4>2. CASE PopWait(w)
        \* It blocks on an open queue that is not paused: there is no task.
        <5>1. innerQueue'[p] = <<>>
          BY <3>2, <4>2 DEF PopWait, MayLeaveWait
        <5>2. Cardinality(PoppersOf(p))' \in Nat
          <6>1. PoppersOf(p)' \subseteq Workers
            BY DEF PoppersOf, WorkersOf
          <6>2. QED  BY <6>1, WorkersAssumption, FS_Subset, FS_CardinalityType
        <5>3. QED  BY <2>0, <3>0, <5>1, <5>2
      <4>3. CASE SpuriousWakeup(w) \/ PopAgain(w)
        <5>1. at[w] # "pop" /\ at' = [at EXCEPT ![w] = "pop"] /\ innerQueue' = innerQueue
          BY <4>3 DEF SpuriousWakeup, PopAgain
        <5>2. at[x] = "waiting"
          BY <5>1 DEF WorkersOf
        <5>3. Matched(p)
          BY <2>1, <4>3, <5>2 DEF SpuriousWakeup, PopAgain
        <5>4. Cardinality(PoppersOf(p))' = Cardinality(PoppersOf(p)) + 1
          BY <4>1, <5>1, PopperEnters
        <5>5. QED  BY <2>0, <3>0, <5>1, <5>3, <5>4
      <4>4. CASE PopTask(w)
        <5>1. at[w] = "pop" /\ at' = [at EXCEPT ![w] = "got"]
          BY <4>4 DEF PopTask
        <5>2. at[x] = "waiting"
          BY <5>1 DEF WorkersOf
        <5>3. Matched(p)
          BY <2>1, <4>4, <5>2 DEF PopTask
        <5>4. Cardinality(PoppersOf(p))' = Cardinality(PoppersOf(p)) - 1
          BY <4>1, <5>1, PopperLeaves
        <5>5. Len(innerQueue'[p]) = Len(innerQueue[p]) - 1
          <6>1. innerQueue[p] # <<>> /\ innerQueue'[p] = Tail(innerQueue[p])
            BY <3>2, <4>4 DEF PopTask
          <6>2. QED  BY <6>1
        <5>6. QED  BY <2>0, <3>0, <5>3, <5>4, <5>5
      <4>5. CASE PopFails(w)
        \* pop() fails only on a stopped queue.
        BY <3>2, <4>5 DEF PopFails, MayLeaveWait
      <4>6. QED  BY <2>6, <4>2, <4>3, <4>4, <4>5 DEF WorkerStep, Pop
    <3>3. QED  BY <3>1, <3>2
  <2>7. CASE UNCHANGED queueVars
    BY <2>1, <2>2, <2>7 DEF queueVars
  <2>8. QED  BY <2>4, <2>5, <2>6, <2>7 DEF QueueNext
<1>3. QED
  BY <1>1, <1>2, QueueTypeCorrect, StopReleasesWaitersHolds, PTL DEF QueueSpec

-------------------------------------------------------------------------------
(* A stopped queue comes to its end: the joins wait for a number of steps that *)
(* is fixed when stop() returns, whatever the other threads do.                *)

\* The steps that the workers of q still have to take when no task comes in: one
\* out of each pop() in progress, and two for each task, run and called for again.
GotOf(q) == {w \in WorkersOf(q) : at[w] = "got"}
StepsLeft(q) ==
    2 * Len(innerQueue[q]) + 2 * Cardinality(GotOf(q)) + Cardinality(PoppersOf(q))

\* A stopped queue stays stopped, no step of any thread gives its workers more to
\* do, each step of theirs leaves less, and when nothing is left they have ended: a
\* push() that comes late is refused, and nobody is put to sleep again by a pause()
\* after the stop() (TaskQueue.h 64, 88, 121-130).
StopConverges ==
    [][\A q \in Queues : queueStopFlag[q] =>
          /\ queueStopFlag'[q]
          /\ StepsLeft(q) \in Nat
          /\ StepsLeft(q)' <= StepsLeft(q)
          /\ (\E w \in WorkersOf(q) : Pop(w) \/ PopAgain(w)) => StepsLeft(q)' < StepsLeft(q)
          /\ StepsLeft(q) = 0 => \A w \in WorkersOf(q) : at[w] = "exited"]_queueVars

\* The workers with a task can be counted.
LEMMA GotIsFinite ==
  ASSUME NEW q \in Queues
  PROVE  IsFiniteSet(GotOf(q)) /\ Cardinality(GotOf(q)) \in Nat
<1>1. GotOf(q) \subseteq Workers
  BY DEF GotOf, WorkersOf
<1>2. QED  BY <1>1, WorkersAssumption, FS_Subset, FS_CardinalityType

\* The steps of the workers of a stopped queue: out of pop() with or without a
\* task, and back with the task run.
LEMMA StoppedWorkerStep ==
  ASSUME QueueTypeOK, NEW q \in Queues, queueStopFlag[q],
         NEW w \in WorkersOf(q), at[w] # "waiting", WorkerStep(w)
  PROVE  StepsLeft(q)' = StepsLeft(q) - 1
<1>0. PICK n, g, c \in Nat : /\ n = Len(innerQueue[q])
                             /\ g = Cardinality(GotOf(q))
                             /\ c = Cardinality(PoppersOf(q))
  BY GotIsFinite, PoppersAreFinite DEF QueueTypeOK
<1>a. PICK s \in Nat : s = 2 * n + 2 * g + c
  OBVIOUS
<1>c. StepsLeft(q) = s
  BY <1>0, <1>a DEF StepsLeft
<1>b. w \in Workers /\ QueueOf[w] = q
  BY DEF WorkersOf
<1>1. CASE PopTask(w)
  <2>1. /\ at[w] = "pop" /\ at' = [at EXCEPT ![w] = "got"]
        /\ innerQueue[q] # <<>> /\ innerQueue'[q] = Tail(innerQueue[q])
    BY <1>1, <1>b DEF PopTask, QueueTypeOK
  <2>2. Len(innerQueue'[q]) = n - 1
    BY <1>0, <2>1 DEF QueueTypeOK
  <2>3. Cardinality(PoppersOf(q))' = c - 1
    BY <1>0, <2>1, PopperLeaves
  <2>4. Cardinality(GotOf(q))' = g + 1
    <3>1. w \notin GotOf(q) /\ GotOf(q)' = GotOf(q) \cup {w}
      BY <2>1 DEF GotOf, WorkersOf, QueueTypeOK
    <3>2. Cardinality(GotOf(q) \cup {w}) = g + 1
      BY <1>0, <3>1, GotIsFinite, FS_AddElement
    <3>3. QED  BY <3>1, <3>2
  <2>5. StepsLeft(q)' = 2 * (n - 1) + 2 * (g + 1) + (c - 1)
    BY <2>2, <2>3, <2>4 DEF StepsLeft
  <2>6. 2 * (n - 1) + 2 * (g + 1) + (c - 1) = s - 1
    BY <1>a
  <2>7. QED  BY <1>c, <2>5, <2>6
<1>2. CASE PopFails(w)
  <2>1. at[w] = "pop" /\ at' = [at EXCEPT ![w] = "exited"] /\ innerQueue' = innerQueue
    BY <1>2 DEF PopFails
  <2>2. Cardinality(PoppersOf(q))' = c - 1
    BY <1>0, <2>1, PopperLeaves
  <2>3. GotOf(q)' = GotOf(q)
    BY <2>1 DEF GotOf, WorkersOf, QueueTypeOK
  <2>4. StepsLeft(q)' = 2 * n + 2 * g + (c - 1)
    BY <1>0, <2>1, <2>2, <2>3 DEF StepsLeft
  <2>5. 2 * n + 2 * g + (c - 1) = s - 1
    BY <1>a
  <2>7. QED  BY <1>c, <2>4, <2>5
<1>3. CASE PopAgain(w)
  <2>1. at[w] = "got" /\ at' = [at EXCEPT ![w] = "pop"] /\ innerQueue' = innerQueue
    BY <1>3 DEF PopAgain
  <2>2. Cardinality(PoppersOf(q))' = c + 1
    BY <1>0, <2>1, PopperEnters
  <2>3. Cardinality(GotOf(q))' = g - 1
    <3>1. w \in GotOf(q) /\ GotOf(q)' = GotOf(q) \ {w}
      BY <2>1 DEF GotOf, WorkersOf, QueueTypeOK
    <3>2. Cardinality(GotOf(q) \ {w}) = g - 1
      BY <1>0, <3>1, GotIsFinite, FS_RemoveElement
    <3>3. QED  BY <3>1, <3>2
  <2>4. StepsLeft(q)' = 2 * n + 2 * (g - 1) + (c + 1)
    BY <1>0, <2>1, <2>2, <2>3 DEF StepsLeft
  <2>5. 2 * n + 2 * (g - 1) + (c + 1) = s - 1
    BY <1>a
  <2>7. QED  BY <1>c, <2>4, <2>5
<1>4. ~PopWait(w) /\ ~SpuriousWakeup(w)
  BY <1>b DEF PopWait, MayLeaveWait, SpuriousWakeup
<1>5. QED  BY <1>1, <1>2, <1>3, <1>4 DEF WorkerStep, Pop

\* Any other step leaves the workers of a stopped queue where they are, and adds
\* nothing to the queue.
LEMMA StoppedQueueKept ==
  ASSUME QueueTypeOK, NEW q \in Queues, queueStopFlag[q], WaitersOf(q) = {},
         [QueueNext]_queueVars, ~\E w \in WorkersOf(q) : WorkerStep(w)
  PROVE  /\ \A w \in WorkersOf(q) : at'[w] = at[w]
         /\ innerQueue'[q] = innerQueue[q] \/ innerQueue'[q] = <<>>
<1>0. /\ at \in [Workers -> Places]
      /\ innerQueue \in [Queues -> Seq(Tasks)]
      /\ \A w \in WorkersOf(q) : w \in Workers /\ QueueOf[w] = q /\ at[w] # "waiting"
  BY DEF QueueTypeOK, WaitersOf, WorkersOf
<1>1. ASSUME NEW p \in Queues, ProducerStep(p)
      PROVE  /\ \A w \in WorkersOf(q) : at'[w] = at[w]
             /\ innerQueue'[q] = innerQueue[q]
  BY <1>0, <1>1 DEF ProducerStep, Push, PushRefused, NotifyOne, WakeOne, WaitersOf, WorkersOf,
                    queueVars
<1>2. ASSUME NEW p \in Queues, ControllerStep(p)
      PROVE  /\ \A w \in WorkersOf(q) : at'[w] = at[w]
             /\ innerQueue'[q] = innerQueue[q] \/ innerQueue'[q] = <<>>
  BY <1>0, <1>2 DEF ControllerStep, Clear, Pause, Resume, NotifyAll, Stop, WakeAll, WaitersOf,
                    WorkersOf
<1>3. ASSUME NEW v \in Workers, WorkerStep(v)
      PROVE  /\ \A w \in WorkersOf(q) : at'[w] = at[w]
             /\ innerQueue'[q] = innerQueue[q]
  <2>1. QueueOf[v] # q
    BY <1>3 DEF WorkersOf
  <2>2. QED
    BY <1>0, <1>3, <2>1, QueueOfAssumption
    DEF WorkerStep, Pop, PopWait, PopTask, PopFails, PopAgain, SpuriousWakeup
<1>4. CASE UNCHANGED queueVars
  BY <1>4 DEF queueVars
<1>5. QED  BY <1>1, <1>2, <1>3, <1>4 DEF QueueNext

\* stop() is final for its queue.
LEMMA StopIsFinal ==
  ASSUME QueueTypeOK, NEW q \in Queues, queueStopFlag[q], [QueueNext]_queueVars
  PROVE  queueStopFlag'[q]
<1>1. ASSUME NEW p \in Queues, ProducerStep(p) \/ ControllerStep(p)
      PROVE  queueStopFlag'[q]
  BY <1>1 DEF ProducerStep, Push, PushRefused, NotifyOne, ControllerStep, Clear, Pause, Resume,
              NotifyAll, Stop, queueVars, QueueTypeOK
<1>2. ASSUME NEW w \in Workers, WorkerStep(w)
      PROVE  queueStopFlag'[q]
  BY <1>2 DEF WorkerStep, Pop, PopWait, PopTask, PopFails, PopAgain, SpuriousWakeup
<1>3. CASE UNCHANGED queueVars
  BY <1>3 DEF queueVars
<1>4. QED  BY <1>1, <1>2, <1>3 DEF QueueNext

\* No step of a queue brings back a worker that has ended.
LEMMA ExitedStays ==
  ASSUME QueueTypeOK, [QueueNext]_queueVars, NEW w \in Workers, at[w] = "exited"
  PROVE  at'[w] = "exited"
<1>0. at \in [Workers -> Places]
  BY DEF QueueTypeOK
<1>1. ASSUME NEW q \in Queues, ProducerStep(q) \/ ControllerStep(q)
      PROVE  at'[w] = "exited"
  BY <1>0, <1>1 DEF ProducerStep, ControllerStep, Push, PushRefused, NotifyOne, WakeOne, Clear,
                    Pause, Resume, NotifyAll, Stop, WakeAll, WaitersOf, WorkersOf, queueVars
<1>2. ASSUME NEW v \in Workers, WorkerStep(v)
      PROVE  at'[w] = "exited"
  BY <1>0, <1>2 DEF WorkerStep, Pop, PopWait, PopTask, PopFails, PopAgain, SpuriousWakeup
<1>3. CASE UNCHANGED queueVars
  BY <1>3 DEF queueVars
<1>4. QED  BY <1>1, <1>2, <1>3 DEF QueueNext

\* The workers of a stopped queue end after a number of steps known beforehand, which
\* is what every join() of a shutdown relies on.
THEOREM StopConvergesHolds == QueueSpec => StopConverges
<1>1. ASSUME QueueTypeOK, StopReleasesWaiters, [QueueNext]_queueVars,
             NEW q \in Queues, queueStopFlag[q]
      PROVE  /\ queueStopFlag'[q]
             /\ StepsLeft(q) \in Nat
             /\ StepsLeft(q)' <= StepsLeft(q)
             /\ (\E w \in WorkersOf(q) : Pop(w) \/ PopAgain(w))
                   => StepsLeft(q)' < StepsLeft(q)
             /\ StepsLeft(q) = 0 => \A w \in WorkersOf(q) : at[w] = "exited"
  <2>0. PICK n, g, c \in Nat : /\ n = Len(innerQueue[q])
                               /\ g = Cardinality(GotOf(q))
                               /\ c = Cardinality(PoppersOf(q))
    BY <1>1, GotIsFinite, PoppersAreFinite DEF QueueTypeOK
  <2>a. PICK s \in Nat : s = 2 * n + 2 * g + c
    OBVIOUS
  <2>1. StepsLeft(q) = s
    BY <2>0, <2>a DEF StepsLeft
  <2>2. WaitersOf(q) = {}
    BY <1>1 DEF StopReleasesWaiters
  <2>3. ASSUME \E w \in WorkersOf(q) : WorkerStep(w)
        PROVE  StepsLeft(q)' <= StepsLeft(q) /\ StepsLeft(q)' < StepsLeft(q)
    <3>1. PICK w \in WorkersOf(q) : WorkerStep(w)
      BY <2>3
    <3>2. at[w] # "waiting"
      BY <2>2 DEF WaitersOf
    <3>3. StepsLeft(q)' = s - 1
      BY <1>1, <2>1, <3>1, <3>2, StoppedWorkerStep
    <3>4. PICK r \in Int : r = s - 1 /\ r <= s /\ r < s
      OBVIOUS
    <3>5. StepsLeft(q)' = r
      BY <3>3, <3>4
    <3>6. QED  BY <2>1, <3>4, <3>5
  <2>4. ASSUME ~\E w \in WorkersOf(q) : WorkerStep(w)
        PROVE  /\ StepsLeft(q)' <= StepsLeft(q)
               /\ ~\E w \in WorkersOf(q) : Pop(w) \/ PopAgain(w)
    <3>1. /\ \A w \in WorkersOf(q) : at'[w] = at[w]
          /\ innerQueue'[q] = innerQueue[q] \/ innerQueue'[q] = <<>>
      BY <1>1, <2>2, <2>4, StoppedQueueKept
    <3>2. GotOf(q)' = GotOf(q) /\ PoppersOf(q)' = PoppersOf(q)
      BY <3>1 DEF GotOf, PoppersOf, WorkersOf
    <3>3. PICK m \in Nat : m = Len(innerQueue'[q]) /\ m <= n
      BY <2>0, <3>1
    <3>4. StepsLeft(q)' = 2 * m + 2 * g + c
      BY <2>0, <3>2, <3>3 DEF StepsLeft
    <3>5. 2 * m + 2 * g + c <= s
      BY <2>a, <3>3
    <3>6. StepsLeft(q)' <= StepsLeft(q)
      BY <2>1, <3>4, <3>5
    <3>7. ~\E w \in WorkersOf(q) : Pop(w) \/ PopAgain(w)
      BY <2>4 DEF WorkerStep
    <3>8. QED  BY <3>6, <3>7
  <2>5. ASSUME StepsLeft(q) = 0, NEW w \in WorkersOf(q)
        PROVE  at[w] = "exited"
    <3>a. 2 * n + 2 * g + c = 0
      BY <2>a, <2>1, <2>5
    <3>1. g = 0 /\ c = 0
      BY <3>a
    <3>2. GotOf(q) = {} /\ PoppersOf(q) = {}
      BY <2>0, <3>1, GotIsFinite, PoppersAreFinite, FS_EmptySet
    <3>3. QED  BY <1>1, <2>2, <3>2 DEF GotOf, PoppersOf, WaitersOf, WorkersOf, QueueTypeOK, Places
  <2>6. queueStopFlag'[q]
    BY <1>1, StopIsFinal
  <2>7. StepsLeft(q) \in Nat
    BY <2>1
  <2>8. QED  BY <2>3, <2>4, <2>5, <2>6, <2>7
<1>2. QueueTypeOK /\ StopReleasesWaiters /\ [QueueNext]_queueVars =>
        [\A q \in Queues : queueStopFlag[q] =>
            /\ queueStopFlag'[q]
            /\ StepsLeft(q) \in Nat
            /\ StepsLeft(q)' <= StepsLeft(q)
            /\ (\E w \in WorkersOf(q) : Pop(w) \/ PopAgain(w))
                  => StepsLeft(q)' < StepsLeft(q)
            /\ StepsLeft(q) = 0 => \A w \in WorkersOf(q) : at[w] = "exited"]_queueVars
  BY <1>1
<1>3. QED
  BY <1>2, QueueTypeCorrect, StopReleasesWaitersHolds, PTL DEF QueueSpec, StopConverges
================================================================================
