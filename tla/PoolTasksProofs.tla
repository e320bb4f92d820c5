----------------------------- MODULE PoolTasksProofs -----------------------------
(* What becomes of the tasks of BalancedPool: no task gets out of sight, each   *)
(* is in one place at a time, so that the pool implements TaskLifecycle, and its *)
(* task counters and the loads of its queues add up.                            *)
EXTENDS BalancedPoolProofs, PoolAccounting

-------------------------------------------------------------------------------
(* Where a task is that has been submitted and not settled.                    *)

BeforePush(t) ==
    \E g \in Generators : gen[g].task = t /\ gen[g].pc \in {"scan", "charge", "push"}
InQueue(t) == \E q \in Queues : t \in Queued(q)
InWork(t)  == \E w \in Workers : Running(w) /\ task[w] = t

\* No task gets out of sight.
TaskLocated ==
    \A t \in Tasks : fate[t] = "submitted" => BeforePush(t) \/ InQueue(t) \/ InWork(t)

\* Taking the head of a queue leaves the other tasks in it.
LEMMA TailKeepsTheRest ==
  ASSUME NEW S, NEW s \in Seq(S), s # <<>>, NEW k \in DOMAIN s, s[k] # Head(s)
  PROVE  \E j \in DOMAIN Tail(s) : Tail(s)[j] = s[k]
<1>1. k \in 1 .. Len(s) /\ k # 1
  OBVIOUS
<1>2. k - 1 \in 1 .. Len(Tail(s)) /\ Tail(s)[k - 1] = s[k]
  BY <1>1
<1>3. QED  BY <1>2

\* Appending leaves the elements where they are, the new one behind them.
LEMMA AppendKeepsAll ==
  ASSUME NEW S, NEW s \in Seq(S), NEW e \in S
  PROVE  /\ \A k \in DOMAIN s : k \in DOMAIN Append(s, e) /\ Append(s, e)[k] = s[k]
         /\ Len(s) + 1 \in DOMAIN Append(s, e) /\ Append(s, e)[Len(s) + 1] = e
OBVIOUS

\* addTask(): the task is with its generator until it is in a queue or refused.
LEMMA LocatedByGenerator ==
  ASSUME PoolInv, TaskLocated, NEW g \in Generators,
         AddStep(g) \/ \E t \in Tasks : AddTask(g, t)
  PROVE  TaskLocated'
<1> USE DEF PoolInv
<1>0. gen \in [Generators -> GenRecords] /\ fate \in [Tasks -> Fates]
  BY DEF GenOK, CountersOK
<1>2. ASSUME NEW u \in Tasks, AddTask(g, u)
      PROVE  TaskLocated'
  <2>1. UNCHANGED <<innerQueue, at, counted, task>>
    BY <1>2 DEF AddTask, queueVars
  <2>2. \A t \in Tasks : (InQueue(t)' <=> InQueue(t)) /\ (InWork(t)' <=> InWork(t))
    BY <2>1 DEF InQueue, InWork, Queued, Running
  <2>3. \A t \in Tasks : BeforePush(t) => BeforePush(t)'
    BY <1>0, <1>2 DEF AddTask, BeforePush
  <2>4. fate'[u] = "submitted" => BeforePush(u)'
    <3>1. CASE stopFlag
      BY <1>0, <1>2, <3>1 DEF AddTask
    <3>2. CASE ~stopFlag
      <4>1. gen'[g] = [GenIdle EXCEPT !.pc = "scan", !.task = u]
        BY <1>0, <1>2, <3>2 DEF AddTask
      <4>2. gen'[g].pc = "scan" /\ gen'[g].task = u
        BY <4>1 DEF GenIdle
      <4>3. QED  BY <4>2 DEF BeforePush
    <3>3. QED  BY <3>1, <3>2
  <2>5. \A t \in Tasks \ {u} : fate'[t] = fate[t]
    BY <1>0, <1>2 DEF AddTask
  <2>6. QED  BY <2>2, <2>3, <2>4, <2>5 DEF TaskLocated
<1>3. CASE ScanQueue(g) \/ ChargeQueue(g)
  <2>1. UNCHANGED <<innerQueue, at, counted, task, fate>>
    BY <1>3 DEF ScanQueue, ChargeQueue, queueVars
  <2>2. \A h \in Generators :
           /\ gen'[h].task = gen[h].task
           /\ gen[h].pc \in {"scan", "charge", "push"}
                => gen'[h].pc \in {"scan", "charge", "push"}
    <3>1. gen[g] \in GenRecords /\ \A h \in Generators \ {g} : gen'[h] = gen[h]
      BY <1>0, <1>3 DEF ScanQueue, ChargeQueue
    <3>2. CASE ScanQueue(g)
      <4>1. gen'[g].task = gen[g].task
        BY <1>0, <3>1, <3>2 DEF ScanQueue, GenRecords
      <4>2. gen'[g].pc \in {"scan", "charge"}
        BY <1>0, <3>1, <3>2 DEF ScanQueue, GenRecords
      <4>3. QED  BY <3>1, <4>1, <4>2
    <3>3. CASE ChargeQueue(g)
      <4>1. gen'[g].task = gen[g].task /\ gen'[g].pc = "push"
        BY <1>0, <3>1, <3>3 DEF ChargeQueue, GenRecords
      <4>2. QED  BY <3>1, <4>1
    <3>4. QED  BY <1>3, <3>2, <3>3
  <2>3. QED  BY <2>1, <2>2 DEF TaskLocated, BeforePush, InQueue, InWork, Queued, Running
<1>4. CASE PushTask(g)
  <2>1. UNCHANGED <<at, counted, task>>
    BY <1>4 DEF PushTask, Push, PushRefused, queueVars
  <2>2. \A h \in Generators \ {g} : gen'[h] = gen[h]
    BY <1>0, <1>4 DEF PushTask
  <2>3. gen[g].task \in Tasks /\ gen[g].best \in Queues
    BY <1>0, <1>4 DEF PushTask, GenOK, GenRecords
  <2>4. innerQueue \in [Queues -> Seq(Tasks)]
    BY DEF QueueTypeOK
  <2>5. \A t \in Tasks : InWork(t) => InWork(t)'
    BY <2>1 DEF InWork, Running
  <2>6. \A t \in Tasks \ {gen[g].task} : BeforePush(t) => BeforePush(t)'
    BY <2>2 DEF BeforePush
  <2>7. CASE Push(gen[g].best, gen[g].task) /\ UNCHANGED <<fate, leaked>>
    <3>1. PICK q \in Queues, u \in Tasks : q = gen[g].best /\ u = gen[g].task
      BY <2>3
    <3>2. /\ innerQueue' = [innerQueue EXCEPT ![q] = Append(@, u)]
          /\ innerQueue[q] \in Seq(Tasks)
      BY <2>4, <2>7, <3>1 DEF Push
    <3>3. /\ \A p \in Queues \ {q} : innerQueue'[p] = innerQueue[p]
          /\ innerQueue'[q] = Append(innerQueue[q], u)
      BY <2>4, <3>2
    <3>4. Queued(q) \subseteq Queued(q)' /\ u \in Queued(q)'
      BY <3>2, <3>3, AppendKeepsAll DEF Queued
    <3>5. \A p \in Queues : Queued(p) \subseteq Queued(p)'
      BY <3>3, <3>4 DEF Queued
    <3>6. InQueue(u)' /\ \A t \in Tasks : InQueue(t) => InQueue(t)'
      BY <3>4, <3>5 DEF InQueue
    <3>7. QED  BY <2>5, <2>6, <2>7, <3>1, <3>6 DEF TaskLocated
  <2>8. CASE /\ PushRefused(gen[g].best)
             /\ fate' = [fate EXCEPT ![gen[g].task] = "refused"]
    <3>1. \A t \in Tasks : InQueue(t) => InQueue(t)'
      BY <2>8 DEF PushRefused, queueVars, InQueue, Queued
    <3>2. \A t \in Tasks : fate'[t] = "submitted" => t # gen[g].task /\ fate[t] = "submitted"
      BY <1>0, <2>3, <2>8
    <3>3. QED  BY <2>5, <2>6, <3>1, <3>2 DEF TaskLocated
  <2>9. QED  BY <1>4, <2>7, <2>8 DEF PushTask
<1>5. CASE NotifyWorker(g) \/ CountSubmitted(g)
  <2>1. /\ UNCHANGED <<innerQueue, counted, task, fate>>
        /\ \A w \in Workers : at[w] = "got" => at'[w] = "got"
    <3>1. at \in [Workers -> Places]
      BY DEF QueueTypeOK
    <3>2. QED  BY <1>5, <3>1 DEF NotifyWorker, CountSubmitted, NotifyOne, WakeOne, WaitersOf,
                                 WorkersOf, queueVars
  <2>2. \A h \in Generators : gen[h].pc \in {"scan", "charge", "push"} => gen'[h] = gen[h]
    BY <1>0, <1>5 DEF NotifyWorker, CountSubmitted
  <2>3. QED  BY <2>1, <2>2 DEF TaskLocated, BeforePush, InQueue, InWork, Queued, Running
<1>6. QED  BY <1>2, <1>3, <1>4, <1>5 DEF AddStep

\* workerLoop(): the task passes from the queue to its worker, who settles it.
LEMMA LocatedByWorker ==
  ASSUME PoolInv, TaskLocated, NEW w \in Workers, LoopStep(w) \/ SpuriousInLoop(w)
  PROVE  TaskLocated'
<1> USE DEF PoolInv
<1>0. /\ innerQueue \in [Queues -> Seq(Tasks)]
      /\ at \in [Workers -> Places]
      /\ task \in [Workers -> Tasks \cup {NoTask}]
  BY DEF QueueTypeOK
<1>1. counted \in [Workers -> BOOLEAN] /\ (counted[w] => at[w] = "got")
  BY DEF LoopOK
<1>2. fate \in [Tasks -> Fates]
  BY DEF CountersOK
<1>3. CASE PopTask(w) /\ UNCHANGED poolVars
  <2>1. PICK q \in Queues : q = QueueOf[w]
    BY QueueOfAssumption
  <2>2. UNCHANGED <<gen, fate, counted>>
    BY <1>3 DEF poolVars
  <2>3. /\ at[w] = "pop" /\ at' = [at EXCEPT ![w] = "got"]
        /\ innerQueue[q] # <<>>
        /\ task' = [task EXCEPT ![w] = Head(innerQueue[q])]
        /\ innerQueue' = [innerQueue EXCEPT ![q] = Tail(@)]
    BY <1>3, <2>1 DEF PopTask
  <2>4. Running(w)' /\ task'[w] = Head(innerQueue[q])
    BY <1>0, <1>1, <2>2, <2>3 DEF Running
  <2>5. \A t \in Tasks : InWork(t) => InWork(t)'
    BY <1>0, <2>2, <2>3 DEF InWork, Running
  <2>6. \A t \in Queued(q) : t = Head(innerQueue[q]) \/ t \in Queued(q)'
    <3>1. innerQueue[q] \in Seq(Tasks) /\ innerQueue'[q] = Tail(innerQueue[q])
      BY <1>0, <2>3
    <3>2. QED  BY <2>3, <3>1, TailKeepsTheRest DEF Queued
  <2>7. \A p \in Queues \ {q} : Queued(p)' = Queued(p)
    BY <1>0, <2>3 DEF Queued
  <2>8. \A t \in Tasks : InQueue(t) => InQueue(t)' \/ InWork(t)'
    BY <2>4, <2>6, <2>7 DEF InQueue, InWork
  <2>9. \A t \in Tasks : BeforePush(t)' <=> BeforePush(t)
    BY <2>2 DEF BeforePush
  <2>10. QED  BY <2>2, <2>5, <2>8, <2>9 DEF TaskLocated
<1>4. CASE (PopWait(w) \/ PopFails(w) \/ SpuriousWakeup(w)) /\ UNCHANGED poolVars
  <2>1. UNCHANGED <<gen, fate, counted, innerQueue, task>>
    BY <1>4 DEF PopWait, PopFails, SpuriousWakeup, poolVars
  <2>2. \A v \in Workers : Running(v) => Running(v)'
    BY <1>0, <1>4, <2>1 DEF PopWait, PopFails, SpuriousWakeup, Running
  <2>3. QED  BY <2>1, <2>2 DEF TaskLocated, BeforePush, InQueue, InWork, Queued
<1>5. CASE CompleteTask(w)
  <2>1. UNCHANGED <<gen, innerQueue, at, task>>
    BY <1>5 DEF CompleteTask, queueVars
  <2>2. \A v \in Workers \ {w} : Running(v) => Running(v)'
    BY <1>1, <1>5, <2>1 DEF CompleteTask, Running
  <2>3. \A t \in Tasks : fate'[t] = "submitted" => fate[t] = "submitted" /\ t # task[w]
    BY <1>2, <1>5 DEF CompleteTask
  <2>4. QED  BY <2>1, <2>2, <2>3 DEF TaskLocated, BeforePush, InQueue, InWork, Queued
<1>6. CASE DischargeTask(w)
  <2>1. UNCHANGED <<gen, fate, innerQueue, task>>
    BY <1>6 DEF DischargeTask, PopAgain
  <2>2. \A v \in Workers : Running(v) => Running(v)'
    BY <1>0, <1>1, <1>6 DEF DischargeTask, PopAgain, Running
  <2>3. QED  BY <2>1, <2>2 DEF TaskLocated, BeforePush, InQueue, InWork, Queued
<1>7. QED  BY <1>3, <1>4, <1>5, <1>6 DEF LoopStep, PopInLoop, SpuriousInLoop, Pop

\* stop(): a task that leaves its queue here is dropped.
LEMMA LocatedByStop ==
  ASSUME PoolInv, TaskLocated, NEW c \in StopCallers,
         StopStep(c) \/ \E finish \in BOOLEAN : StopCall(c, finish)
  PROVE  TaskLocated'
<1> USE DEF PoolInv
<1>0. /\ innerQueue \in [Queues -> Seq(Tasks)]
      /\ at \in [Workers -> Places]
  BY DEF QueueTypeOK
<1>1. CASE StopQueue(c)
  <2>1. PICK i \in Queues : i = stopper[c].i
    BY <1>1 DEF StopQueue, StopOK
  <2>2. UNCHANGED <<gen, task, counted>>
    BY <1>1 DEF StopQueue, Stop
  <2>3. \A v \in Workers : Running(v) => Running(v)'
    BY <1>0, <1>1, <2>2 DEF StopQueue, Stop, WakeAll, WaitersOf, WorkersOf, Running
  <2>4. \A p \in Queues \ {i} : innerQueue'[p] = innerQueue[p]
    BY <1>0, <1>1, <2>1 DEF StopQueue, Stop
  <2>5. \A t \in Tasks : fate'[t] = "submitted" => fate[t] = "submitted"
    BY <1>1 DEF StopQueue
  <2>6. \A t \in Queued(i) : fate'[t] = "submitted" /\ t \in Tasks => t \in Queued(i)'
    <3>1. CASE stopper[c].finish
      <4>1. innerQueue' = innerQueue
        BY <1>1, <3>1 DEF StopQueue, Stop
      <4>2. QED  BY <4>1 DEF Queued
    <3>2. CASE ~stopper[c].finish
      BY <1>1, <2>1, <3>2 DEF StopQueue, Queued
    <3>3. QED  BY <3>1, <3>2
  <2>7. \A t \in Tasks : fate'[t] = "submitted" /\ InQueue(t) => InQueue(t)'
    BY <2>4, <2>6 DEF InQueue, Queued
  <2>8. \A t \in Tasks : (BeforePush(t) => BeforePush(t)') /\ (InWork(t) => InWork(t)')
    BY <2>2, <2>3 DEF BeforePush, InWork
  <2>9. QED  BY <2>5, <2>7, <2>8 DEF TaskLocated
<1>2. ASSUME \/ RefundDropped(c) \/ NextQueue(c) \/ JoinWorkers(c)
             \/ \E finish \in BOOLEAN : StopCall(c, finish)
      PROVE  TaskLocated'
  <2>1. UNCHANGED <<gen, fate, counted, innerQueue, at, task>>
    BY <1>2 DEF RefundDropped, NextQueue, JoinWorkers, StopCall, queueVars
  <2>2. QED  BY <2>1 DEF TaskLocated, BeforePush, InQueue, InWork, Queued, Running
<1>3. QED  BY <1>1, <1>2 DEF StopStep

\* No step loses a submitted task.
THEOREM TaskLocatedHolds == SafetySpec => []TaskLocated
<1>1. Init => TaskLocated
  BY DEF Init, TaskLocated
<1>2. PoolInv /\ TaskLocated /\ [Next]_vars => TaskLocated'
  <2> SUFFICES ASSUME PoolInv, TaskLocated, [Next]_vars
               PROVE  TaskLocated'
    OBVIOUS
  <2>1. ASSUME NEW c \in PauseCallers, PauseStep(c) \/ PauseCall(c) \/ ResumeCall(c)
        PROVE  TaskLocated'
    <3>1. UNCHANGED <<gen, fate, counted, innerQueue, task>>
      BY <2>1 DEF PauseStep, PauseCall, ResumeCall, BeginCall, PauseExchange, PauseQueue,
                  ResumeExchange, ResumeQueue, ResumeNotify, PauseUnchanged, Pause, Resume,
                  NotifyAll, queueVars
    <3>2. at' = at \/ \E q \in Queues : WakeAll(q)
      BY <2>1 DEF PauseStep, PauseCall, ResumeCall, BeginCall, PauseExchange, PauseQueue,
                  ResumeExchange, ResumeQueue, ResumeNotify, Pause, Resume, NotifyAll,
                  queueVars, PoolInv, PauseOK
    <3>3. \A v \in Workers : Running(v) => Running(v)'
      BY <3>1, <3>2 DEF WakeAll, WaitersOf, WorkersOf, Running
    <3>4. QED  BY <3>1, <3>3 DEF TaskLocated, BeforePush, InQueue, InWork, Queued
  <2>2. CASE UNCHANGED vars
    BY <2>2 DEF vars, queueVars, poolVars, TaskLocated, BeforePush, InQueue, InWork, Queued,
                Running
  <2>3. QED  BY <2>1, <2>2, LocatedByGenerator, LocatedByWorker, LocatedByStop DEF Next
<1>3. QED  BY <1>1, <1>2, PoolInvHolds, PTL DEF SafetySpec

-------------------------------------------------------------------------------
(* What a step of the pool does to its tasks: of the many actions of the pool,  *)
(* few change where a task is, and each of those changes it in one way.         *)

Placing(g) == gen[g].pc \in {"scan", "charge", "push"}
Owes(g)    == gen[g].pc \in {"notify", "count"}

KeepsCalls(G) ==
    \A h \in G : /\ Placing(h)' <=> Placing(h)
                 /\ Placing(h) => gen'[h].task = gen[h].task
                 /\ Owes(h)' <=> Owes(h)

KeepsWork(W) ==
    \A v \in W : /\ Running(v)' <=> Running(v)
                 /\ Running(v) => task'[v] = task[v]

KeepsCounts == UNCHANGED <<tasksSubmitted, tasksCompleted, leaked>>

Quiet ==
    /\ KeepsCalls(Generators)
    /\ KeepsWork(Workers)
    /\ KeepsCounts
    /\ UNCHANGED <<innerQueue, fate>>

\* addTask() takes up a task, or turns it away at once.
Submits(g, t) ==
    /\ fate[t] = "fresh"
    /\ fate' = [fate EXCEPT ![t] = "submitted"]
    /\ ~Placing(g) /\ ~Owes(g)
    /\ Placing(g)' /\ ~Owes(g)' /\ gen'[g].task = t
    /\ KeepsCalls(Generators \ {g})
    /\ KeepsWork(Workers)
    /\ KeepsCounts
    /\ UNCHANGED innerQueue

TurnsAway(t) ==
    /\ fate[t] = "fresh"
    /\ fate' = [fate EXCEPT ![t] = "refused"]
    /\ KeepsCalls(Generators)
    /\ KeepsWork(Workers)
    /\ KeepsCounts
    /\ UNCHANGED innerQueue

\* push() takes the task, or refuses it.
EndsPlacing(g) ==
    /\ Placing(g) /\ ~Owes(g)
    /\ ~Placing(g)' /\ Owes(g)'
    /\ KeepsCalls(Generators \ {g})
    /\ KeepsWork(Workers)
    /\ UNCHANGED <<tasksSubmitted, tasksCompleted>>

Enqueues(g, q) ==
    /\ EndsPlacing(g)
    /\ innerQueue' = [innerQueue EXCEPT ![q] = Append(@, gen[g].task)]
    /\ UNCHANGED <<fate, leaked>>

Rejects(g, q) ==
    /\ EndsPlacing(g)
    /\ fate' = [fate EXCEPT ![gen[g].task] = "refused"]
    /\ leaked' = [leaked EXCEPT ![q] = @ \cup {gen[g].task}]
    /\ UNCHANGED innerQueue

Counts(g) ==
    /\ Owes(g) /\ ~Owes(g)'
    /\ ~Placing(g) /\ ~Placing(g)'
    /\ KeepsCalls(Generators \ {g})
    /\ KeepsWork(Workers)
    /\ tasksSubmitted' = tasksSubmitted + 1
    /\ UNCHANGED <<tasksCompleted, leaked, innerQueue, fate>>

\* A worker takes a task, and has run it.
Takes(w) ==
    /\ innerQueue[w] # <<>>
    /\ ~Running(w)
    /\ Running(w)' /\ task'[w] = Head(innerQueue[w])
    /\ innerQueue' = [innerQueue EXCEPT ![w] = Tail(@)]
    /\ KeepsCalls(Generators)
    /\ KeepsWork(Workers \ {w})
    /\ KeepsCounts
    /\ UNCHANGED fate

Finishes(w) ==
    /\ Running(w) /\ ~Running(w)'
    /\ fate' = [fate EXCEPT ![task[w]] = "executed"]
    /\ tasksCompleted' = tasksCompleted + 1
    /\ KeepsCalls(Generators)
    /\ KeepsWork(Workers \ {w})
    /\ UNCHANGED <<tasksSubmitted, leaked, innerQueue>>

\* stop(false) empties a queue.
Discards(q) ==
    /\ innerQueue' = [innerQueue EXCEPT ![q] = <<>>]
    /\ fate' = [t \in Tasks |-> IF t \in Queued(q) THEN "dropped" ELSE fate[t]]
    /\ KeepsCalls(Generators)
    /\ KeepsWork(Workers)
    /\ KeepsCounts

TaskStep ==
    \/ Quiet
    \/ \E g \in Generators, t \in Tasks : Submits(g, t)
    \/ \E t \in Tasks : TurnsAway(t)
    \/ \E g \in Generators, q \in Queues : Enqueues(g, q) \/ Rejects(g, q)
    \/ \E g \in Generators : Counts(g)
    \/ \E w \in Workers : Takes(w) \/ Finishes(w)
    \/ \E q \in Queues : Discards(q)

\* A step that leaves the calls of addTask() as they are keeps them.
LEMMA SameCallsKept ==
  ASSUME UNCHANGED gen
  PROVE  KeepsCalls(Generators)
BY DEF KeepsCalls, Placing, Owes

\* A step of one generator keeps the calls of the others.
LEMMA OtherCallsKept ==
  ASSUME gen \in [Generators -> GenRecords], NEW g \in Generators, NEW r,
         gen' = [gen EXCEPT ![g] = r]
  PROVE  KeepsCalls(Generators \ {g}) /\ gen'[g] = r
BY DEF KeepsCalls, Placing, Owes

\* Waking a worker up neither gives nor takes it a task.
LEMMA WakingKeepsWork ==
  ASSUME PoolInv, UNCHANGED <<counted, task>>,
         \/ at' = at
         \/ \E q \in Queues : WakeAll(q) \/ WakeOne(q)
  PROVE  KeepsWork(Workers)
BY DEF PoolInv, QueueTypeOK, KeepsWork, Running, WakeAll, WakeOne, WaitersOf, WorkersOf

\* addTask(), step by step.
LEMMA AddingIsTaskStep ==
  ASSUME PoolInv, NEW g \in Generators, AddStep(g) \/ \E t \in Tasks : AddTask(g, t)
  PROVE  TaskStep
<1>0. /\ gen \in [Generators -> GenRecords] /\ gen[g] \in GenRecords
      /\ gen[g].pc # "idle" => gen[g].task \in Tasks
      /\ gen[g].best \in Queues
  BY DEF PoolInv, GenOK, GenRecords
<1>1. ASSUME NEW t \in Tasks, AddTask(g, t)
      PROVE  TaskStep
  <2>1. fate[t] = "fresh" /\ ~Placing(g) /\ ~Owes(g)
    BY <1>1 DEF AddTask, Placing, Owes
  <2>2. KeepsWork(Workers) /\ KeepsCounts /\ UNCHANGED innerQueue
    BY <1>1, WakingKeepsWork DEF AddTask, queueVars, KeepsCounts
  <2>3. CASE stopFlag
    <3>1. fate' = [fate EXCEPT ![t] = "refused"] /\ UNCHANGED gen
      BY <1>1, <2>3 DEF AddTask
    <3>2. TurnsAway(t)
      BY <2>1, <2>2, <3>1, SameCallsKept DEF TurnsAway
    <3>3. QED  BY <3>2 DEF TaskStep
  <2>4. CASE ~stopFlag
    <3> DEFINE begun == [GenIdle EXCEPT !.pc = "scan", !.task = t]
    <3>1. begun.pc = "scan" /\ begun.task = t
      BY DEF GenIdle
    <3>2. fate' = [fate EXCEPT ![t] = "submitted"] /\ gen' = [gen EXCEPT ![g] = begun]
      BY <1>1, <2>4 DEF AddTask
    <3> HIDE DEF begun
    <3>3. KeepsCalls(Generators \ {g}) /\ gen'[g] = begun
      BY <1>0, <3>2, OtherCallsKept
    <3>4. Placing(g)' /\ ~Owes(g)' /\ gen'[g].task = t
      BY <3>1, <3>3 DEF Placing, Owes
    <3>5. Submits(g, t)
      BY <2>1, <2>2, <3>2, <3>3, <3>4 DEF Submits
    <3>6. QED  BY <3>5 DEF TaskStep
  <2>5. QED  BY <2>3, <2>4
<1>2. CASE ScanQueue(g)
  <2>1. \A h \in Generators \ {g} : gen'[h] = gen[h]
    BY <1>0, <1>2 DEF ScanQueue
  <2>2. gen'[g].task = gen[g].task
    BY <1>0, <1>2 DEF ScanQueue, GenRecords
  <2>3. gen'[g].pc \in {"scan", "charge"}
    BY <1>0, <1>2 DEF ScanQueue, GenRecords
  <2>5. gen[g].pc = "scan" /\ UNCHANGED <<counted, task, at, innerQueue, fate>> /\ KeepsCounts
    BY <1>2 DEF ScanQueue, queueVars, KeepsCounts
  <2>6. KeepsCalls(Generators)
    BY <2>1, <2>2, <2>3, <2>5 DEF KeepsCalls, Placing, Owes
  <2>7. Quiet
    BY <2>5, <2>6, WakingKeepsWork DEF Quiet
  <2>8. QED  BY <2>7 DEF TaskStep
<1>3. CASE ChargeQueue(g) \/ NotifyWorker(g)
  <2>1. PICK p \in {"push", "count"} :
          /\ gen' = [gen EXCEPT ![g].pc = p]
          /\ gen[g].pc = IF p = "push" THEN "charge" ELSE "notify"
    BY <1>3 DEF ChargeQueue, NotifyWorker
  <2>2. /\ gen'[g].pc = p /\ gen'[g].task = gen[g].task
        /\ \A h \in Generators \ {g} : gen'[h] = gen[h]
    BY <1>0, <2>1 DEF GenRecords
  <2>3. KeepsCalls(Generators)
    BY <2>1, <2>2 DEF KeepsCalls, Placing, Owes
  <2>4. UNCHANGED <<counted, task, innerQueue, fate>> /\ KeepsCounts
    BY <1>3 DEF ChargeQueue, NotifyWorker, NotifyOne, queueVars, KeepsCounts
  <2>5. at' = at \/ \E q \in Queues : WakeOne(q)
    BY <1>0, <1>3 DEF ChargeQueue, NotifyWorker, NotifyOne, queueVars
  <2>6. Quiet
    BY <2>3, <2>4, <2>5, WakingKeepsWork DEF Quiet
  <2>7. QED  BY <2>6 DEF TaskStep
<1>4. CASE PushTask(g)
  <2>1. PICK p \in {"notify", "count"} : gen' = [gen EXCEPT ![g].pc = p]
    BY <1>4 DEF PushTask
  <2>2. /\ gen'[g].pc = p
        /\ \A h \in Generators \ {g} : gen'[h] = gen[h]
    BY <1>0, <2>1 DEF GenRecords
  <2>3. gen[g].pc = "push" /\ KeepsCalls(Generators \ {g})
    BY <1>4, <2>2 DEF PushTask, KeepsCalls, Placing, Owes
  <2>4. UNCHANGED <<counted, task, at, tasksSubmitted, tasksCompleted>>
    BY <1>4 DEF PushTask, Push, PushRefused, queueVars
  <2>5. EndsPlacing(g)
    BY <2>2, <2>3, <2>4, WakingKeepsWork DEF EndsPlacing, Placing, Owes
  <2>6. Enqueues(g, gen[g].best) \/ Rejects(g, gen[g].best)
    BY <1>4, <2>5 DEF PushTask, Push, PushRefused, queueVars, Enqueues, Rejects
  <2>7. QED  BY <1>0, <2>6 DEF TaskStep
<1>5. CASE CountSubmitted(g)
  <2>1. gen' = [gen EXCEPT ![g] = GenIdle] /\ GenIdle.pc = "idle"
    BY <1>5 DEF CountSubmitted, GenIdle
  <2>2. KeepsCalls(Generators \ {g}) /\ gen'[g].pc = "idle"
    BY <1>0, <2>1, OtherCallsKept
  <2>3. /\ gen[g].pc = "count" /\ tasksSubmitted' = tasksSubmitted + 1
        /\ UNCHANGED <<counted, task, at, innerQueue, fate, tasksCompleted, leaked>>
    BY <1>5 DEF CountSubmitted, queueVars
  <2>4. Counts(g)
    BY <2>2, <2>3, WakingKeepsWork DEF Counts, Placing, Owes
  <2>5. QED  BY <2>4 DEF TaskStep
<1>6. QED  BY <1>1, <1>2, <1>3, <1>4, <1>5 DEF AddStep

\* The loop of a worker.
LEMMA WorkingIsTaskStep ==
  ASSUME PoolInv, NEW w \in Workers, LoopStep(w) \/ SpuriousInLoop(w)
  PROVE  TaskStep
<1>0. /\ at \in [Workers -> Places] /\ task \in [Workers -> Tasks \cup {NoTask}]
      /\ counted \in [Workers -> BOOLEAN] /\ (counted[w] => at[w] = "got")
  BY DEF PoolInv, QueueTypeOK, LoopOK
<1>1. CASE CompleteTask(w)
  <2>1. /\ UNCHANGED <<gen, at, task, innerQueue, tasksSubmitted, leaked>>
        /\ fate' = [fate EXCEPT ![task[w]] = "executed"]
        /\ tasksCompleted' = tasksCompleted + 1
    BY <1>1 DEF CompleteTask, queueVars
  <2>2. Running(w) /\ ~Running(w)' /\ KeepsWork(Workers \ {w})
    BY <1>0, <1>1, <2>1 DEF CompleteTask, Running, KeepsWork
  <2>3. Finishes(w)
    BY <2>1, <2>2, SameCallsKept DEF Finishes
  <2>4. QED  BY <2>3 DEF TaskStep
<1>2. CASE DischargeTask(w)
  <2>1. UNCHANGED <<gen, task, innerQueue, fate>> /\ KeepsCounts
    BY <1>2 DEF DischargeTask, PopAgain, KeepsCounts
  <2>2. KeepsWork(Workers)
    BY <1>0, <1>2, <2>1 DEF DischargeTask, PopAgain, Running, KeepsWork
  <2>3. Quiet
    BY <2>1, <2>2, SameCallsKept DEF Quiet
  <2>4. QED  BY <2>3 DEF TaskStep
<1>3. CASE (PopWait(w) \/ PopFails(w) \/ SpuriousWakeup(w)) /\ UNCHANGED poolVars
  <2>1. UNCHANGED <<gen, task, counted, innerQueue, fate>> /\ KeepsCounts
    BY <1>3 DEF PopWait, PopFails, SpuriousWakeup, poolVars, KeepsCounts
  <2>2. KeepsWork(Workers)
    BY <1>0, <1>3, <2>1 DEF PopWait, PopFails, SpuriousWakeup, Running, KeepsWork
  <2>3. Quiet
    BY <2>1, <2>2, SameCallsKept DEF Quiet
  <2>4. QED  BY <2>3 DEF TaskStep
<1>4. CASE PopTask(w) /\ UNCHANGED poolVars
  <2>1. UNCHANGED <<gen, counted, fate>> /\ KeepsCounts
    BY <1>4 DEF poolVars, KeepsCounts
  <2>2. QueueOf[w] = w
    BY WorkerShapeAssumption
  <2>3. /\ innerQueue[w] # <<>> /\ innerQueue' = [innerQueue EXCEPT ![w] = Tail(@)]
        /\ at[w] = "pop" /\ at' = [at EXCEPT ![w] = "got"]
        /\ task' = [task EXCEPT ![w] = Head(innerQueue[w])]
    BY <1>4, <2>2 DEF PopTask
  <2>4. ~Running(w) /\ Running(w)' /\ task'[w] = Head(innerQueue[w])
    BY <1>0, <2>1, <2>3 DEF Running
  <2>5. KeepsWork(Workers \ {w})
    BY <1>0, <2>1, <2>3 DEF KeepsWork, Running
  <2>6. Takes(w)
    BY <2>1, <2>3, <2>4, <2>5, SameCallsKept DEF Takes
  <2>7. QED  BY <2>6 DEF TaskStep
<1>5. QED  BY <1>1, <1>2, <1>3, <1>4 DEF LoopStep, PopInLoop, SpuriousInLoop, Pop

\* stop(), pause() and resume(): only the emptying of a queue concerns a task.
LEMMA ControllingIsTaskStep ==
  ASSUME PoolInv,
         \/ \E c \in StopCallers : StopStep(c) \/ \E finish \in BOOLEAN : StopCall(c, finish)
         \/ \E c \in PauseCallers : PauseStep(c) \/ PauseCall(c) \/ ResumeCall(c)
  PROVE  TaskStep
<1>1. ASSUME NEW c \in StopCallers, StopQueue(c)
      PROVE  TaskStep
  <2>1. PICK i \in Queues : i = stopper[c].i
    BY <1>1 DEF StopQueue, PoolInv, StopOK
  <2>2. UNCHANGED <<gen, counted, task>> /\ KeepsCounts /\ WakeAll(i)
    BY <1>1, <2>1 DEF StopQueue, Stop, KeepsCounts
  <2>3. KeepsWork(Workers) /\ KeepsCalls(Generators)
    BY <2>2, WakingKeepsWork, SameCallsKept
  <2>4. fate \in [Tasks -> Fates] /\ innerQueue \in [Queues -> Seq(Tasks)]
    BY DEF PoolInv, CountersOK, QueueTypeOK
  <2>5. CASE stopper[c].finish
    <3>1. /\ innerQueue' = innerQueue
          /\ fate' = [t \in Tasks |-> IF \E k \in DOMAIN <<>> : <<>>[k] = t
                                      THEN "dropped" ELSE fate[t]]
      BY <1>1, <2>5 DEF StopQueue, Stop
    <3>2. fate' = fate
      BY <2>4, <3>1
    <3>3. Quiet
      BY <2>2, <2>3, <3>1, <3>2 DEF Quiet
    <3>4. QED  BY <3>3 DEF TaskStep
  <2>6. CASE ~stopper[c].finish
    <3>1. /\ innerQueue' = [innerQueue EXCEPT ![i] = <<>>]
          /\ fate' = [t \in Tasks |->
                        IF \E k \in DOMAIN innerQueue[i] : innerQueue[i][k] = t
                        THEN "dropped" ELSE fate[t]]
      BY <1>1, <2>1, <2>6 DEF StopQueue, Stop
    <3>2. \A t \in Tasks :
            (\E k \in DOMAIN innerQueue[i] : innerQueue[i][k] = t) <=> t \in Queued(i)
      BY DEF Queued
    <3>3. Discards(i)
      BY <2>2, <2>3, <3>1, <3>2 DEF Discards
    <3>4. QED  BY <3>3 DEF TaskStep
  <2>7. QED  BY <2>5, <2>6
<1>2. ASSUME NEW c \in StopCallers,
             \/ RefundDropped(c) \/ NextQueue(c) \/ JoinWorkers(c)
             \/ \E finish \in BOOLEAN : StopCall(c, finish)
      PROVE  TaskStep
  <2>1. UNCHANGED <<gen, fate, counted, innerQueue, at, task>> /\ KeepsCounts
    BY <1>2 DEF RefundDropped, NextQueue, JoinWorkers, StopCall, queueVars, KeepsCounts
  <2>2. Quiet
    BY <2>1, WakingKeepsWork, SameCallsKept DEF Quiet
  <2>3. QED  BY <2>2 DEF TaskStep
<1>3. ASSUME NEW c \in PauseCallers, PauseStep(c) \/ PauseCall(c) \/ ResumeCall(c)
      PROVE  TaskStep
  <2>1. UNCHANGED <<gen, fate, counted, innerQueue, task>> /\ KeepsCounts
    BY <1>3 DEF PauseStep, PauseCall, ResumeCall, BeginCall, PauseExchange, PauseQueue,
                ResumeExchange, ResumeQueue, ResumeNotify, PauseUnchanged, Pause, Resume,
                NotifyAll, queueVars, KeepsCounts
  <2>2. at' = at \/ \E q \in Queues : WakeAll(q)
    BY <1>3 DEF PauseStep, PauseCall, ResumeCall, BeginCall, PauseExchange, PauseQueue,
                ResumeExchange, ResumeQueue, ResumeNotify, Pause, Resume, NotifyAll,
                queueVars, PoolInv, PauseOK
  <2>3. Quiet
    BY <2>1, <2>2, WakingKeepsWork, SameCallsKept DEF Quiet
  <2>4. QED  BY <2>3 DEF TaskStep
<1>4. QED  BY <1>1, <1>2, <1>3 DEF StopStep

\* Every step of the pool does one of these things to its tasks.
LEMMA PoolStepIsTaskStep ==
  ASSUME PoolInv, [Next]_vars
  PROVE  TaskStep
<1>1. CASE UNCHANGED vars
  <2>1. UNCHANGED <<gen, fate, counted, innerQueue, at, task>> /\ KeepsCounts
    BY <1>1 DEF vars, queueVars, poolVars, KeepsCounts
  <2>2. Quiet
    BY <2>1, WakingKeepsWork, SameCallsKept DEF Quiet
  <2>3. QED  BY <2>2 DEF TaskStep
<1>2. QED
  BY <1>1, AddingIsTaskStep, WorkingIsTaskStep, ControllingIsTaskStep DEF Next

-------------------------------------------------------------------------------
(* A task is in one place at a time.                                           *)

Elements(s) == {s[k] : k \in DOMAIN s}
Distinct(s) == \A i, j \in DOMAIN s : s[i] = s[j] => i = j

\* Appending a new element to a sequence of distinct ones.
LEMMA AppendElement ==
  ASSUME NEW S, NEW s \in Seq(S), NEW e \in S
  PROVE  /\ Elements(Append(s, e)) = Elements(s) \cup {e}
         /\ Distinct(s) /\ e \notin Elements(s) => Distinct(Append(s, e))
<1> DEFINE r == Append(s, e)
<1>1. PICK n \in Nat : n = Len(s)
  OBVIOUS
<1>2. DOMAIN s = 1 .. n /\ DOMAIN r = 1 .. n + 1
  BY <1>1
<1>3. /\ \A k \in 1 .. n : r[k] = s[k]
      /\ r[n + 1] = e
  BY <1>1
<1> HIDE DEF r
<1>4. Elements(r) = Elements(s) \cup {e}
  BY <1>2, <1>3 DEF Elements
<1>5. ASSUME Distinct(s), e \notin Elements(s), NEW i \in DOMAIN r, NEW j \in DOMAIN r,
             r[i] = r[j]
      PROVE  i = j
  <2>1. \A k \in 1 .. n : r[k] # e
    BY <1>2, <1>3, <1>5 DEF Elements
  <2>2. (i \in 1 .. n \/ i = n + 1) /\ (j \in 1 .. n \/ j = n + 1)
    BY <1>2
  <2>3. QED  BY <1>2, <1>3, <1>5, <2>1, <2>2 DEF Distinct
<1>6. QED  BY <1>4, <1>5 DEF r, Distinct

\* Taking the head of a sequence of distinct elements.
LEMMA TailElements ==
  ASSUME NEW S, NEW s \in Seq(S), s # <<>>, Distinct(s)
  PROVE  /\ Head(s) \in Elements(s) /\ Head(s) \in S
         /\ Elements(Tail(s)) = Elements(s) \ {Head(s)}
         /\ Distinct(Tail(s))
<1>1. PICK n \in Nat : n = Len(s) /\ n > 0
  OBVIOUS
<1> DEFINE r == Tail(s)
<1>2. DOMAIN s = 1 .. n /\ DOMAIN r = 1 .. n - 1 /\ Head(s) = s[1] /\ s[1] \in S
  BY <1>1
<1>3. \A k \in 1 .. n - 1 : r[k] = s[k + 1]
  BY <1>1
<1> HIDE DEF r
<1>4. Head(s) \in Elements(s)
  BY <1>2 DEF Elements
<1>5. Distinct(r)
  <2>1. SUFFICES ASSUME NEW i \in 1 .. n - 1, NEW j \in 1 .. n - 1, r[i] = r[j]
                 PROVE  i = j
    BY <1>2 DEF Distinct
  <2>2. i + 1 \in DOMAIN s /\ j + 1 \in DOMAIN s /\ s[i + 1] = s[j + 1]
    BY <1>2, <1>3, <2>1
  <2>3. i + 1 = j + 1
    BY <2>2 DEF Distinct
  <2>4. QED  BY <2>3
<1>6. Elements(r) = Elements(s) \ {Head(s)}
  <2>1. ASSUME NEW k \in 1 .. n - 1
        PROVE  r[k] \in Elements(s) \ {Head(s)}
    <3>1. k + 1 \in DOMAIN s /\ 1 \in DOMAIN s /\ k + 1 # 1
      BY <1>2
    <3>2. s[k + 1] # s[1]
      BY <3>1 DEF Distinct
    <3>3. QED  BY <1>2, <1>3, <3>1, <3>2 DEF Elements
  <2>2. ASSUME NEW k \in 1 .. n, s[k] # Head(s)
        PROVE  s[k] \in Elements(r)
    <3>1. k - 1 \in 1 .. n - 1 /\ r[k - 1] = s[k]
      BY <1>2, <1>3, <2>2
    <3>2. QED  BY <1>2, <3>1 DEF Elements
  <2>3. QED  BY <1>2, <2>1, <2>2 DEF Elements
<1>7. QED  BY <1>2, <1>4, <1>5, <1>6 DEF r

\* The task of a call of addTask() before its push() is nowhere else.
CallsOnce ==
    /\ \A g \in Generators : Placing(g) =>
          /\ fate[gen[g].task] = "submitted"
          /\ ~InQueue(gen[g].task)
          /\ ~InWork(gen[g].task)
    /\ \A g, h \in Generators :
          Placing(g) /\ Placing(h) /\ gen[g].task = gen[h].task => g = h

\* A queued task has one position in one queue.
QueuedOnce ==
    /\ \A q \in Queues : Distinct(innerQueue[q])
    /\ \A q, p \in Queues, t \in Tasks : t \in Queued(q) /\ t \in Queued(p) => q = p
    /\ \A t \in Tasks : InQueue(t) => fate[t] = "submitted" /\ ~InWork(t)

\* A task is run by one worker, while it is not settled.
WorkedOnce ==
    /\ \A w \in Workers : Running(w) => fate[task[w]] = "submitted"
    /\ \A v, w \in Workers : Running(v) /\ Running(w) /\ task[v] = task[w] => v = w

LeakedAreRefused == \A q \in Queues : \A t \in leaked[q] : fate[t] = "refused"

OnceInv == CallsOnce /\ QueuedOnce /\ WorkedOnce /\ LeakedAreRefused

\* The types the steps below rely on.
LEMMA TaskTypes ==
  ASSUME PoolInv
  PROVE  /\ fate \in [Tasks -> Fates]
         /\ leaked \in [Queues -> SUBSET Tasks]
         /\ innerQueue \in [Queues -> Seq(Tasks)]
         /\ \A g \in Generators : Placing(g) => gen[g].task \in Tasks
         /\ \A w \in Workers : Running(w) => task[w] \in Tasks
         /\ \A q \in Queues : Queued(q) \subseteq Tasks
<1>1. fate \in [Tasks -> Fates] /\ leaked \in [Queues -> SUBSET Tasks]
  BY DEF PoolInv, CountersOK
<1>2. innerQueue \in [Queues -> Seq(Tasks)]
  BY DEF PoolInv, QueueTypeOK
<1>3. \A g \in Generators : Placing(g) => gen[g].task \in Tasks
  BY DEF PoolInv, GenOK, Placing
<1>4. \A w \in Workers : Running(w) => task[w] \in Tasks
  BY DEF PoolInv, LoopOK, Running
<1>5. \A q \in Queues : Queued(q) \subseteq Tasks
  <2>1. ASSUME NEW q \in Queues, NEW k \in DOMAIN innerQueue[q]
        PROVE  innerQueue[q][k] \in Tasks
    <3>1. PICK s \in Seq(Tasks) : s = innerQueue[q]
      BY <1>2
    <3>2. QED  BY <2>1, <3>1
  <2>2. QED  BY <2>1 DEF Queued
<1>6. QED  BY <1>1, <1>2, <1>3, <1>4, <1>5

\* What the steps on queues do to the sets of queued tasks.
LEMMA EnqueuedSets ==
  ASSUME PoolInv, OnceInv, NEW g \in Generators, NEW q \in Queues, Enqueues(g, q)
  PROVE  /\ gen[g].task \in Tasks
         /\ Queued(q)' = Queued(q) \cup {gen[g].task}
         /\ Distinct(innerQueue[q])'
         /\ \A p \in Queues \ {q} : Queued(p)' = Queued(p) /\ innerQueue'[p] = innerQueue[p]
<1>1. Placing(g) /\ gen[g].task \in Tasks /\ innerQueue \in [Queues -> Seq(Tasks)]
  BY TaskTypes DEF Enqueues, EndsPlacing
<1>2. /\ innerQueue[q] \in Seq(Tasks)
      /\ innerQueue'[q] = Append(innerQueue[q], gen[g].task)
      /\ \A p \in Queues \ {q} : innerQueue'[p] = innerQueue[p]
  BY <1>1 DEF Enqueues
<1>3. gen[g].task \notin Queued(q) /\ Distinct(innerQueue[q])
  BY <1>1 DEF OnceInv, CallsOnce, QueuedOnce, InQueue
<1>4. Queued(q) = Elements(innerQueue[q]) /\ Queued(q)' = Elements(innerQueue'[q])
  BY DEF Queued, Elements
<1>5. /\ Elements(Append(innerQueue[q], gen[g].task)) = Elements(innerQueue[q]) \cup {gen[g].task}
      /\ Distinct(Append(innerQueue[q], gen[g].task))
  BY <1>1, <1>2, <1>3, <1>4, AppendElement
<1>6. \A p \in Queues \ {q} : Queued(p)' = Queued(p)
  BY <1>2 DEF Queued
<1>7. Distinct(innerQueue[q])'
  BY <1>2, <1>5 DEF Distinct
<1>8. QED  BY <1>1, <1>2, <1>4, <1>5, <1>6, <1>7

\* A worker takes the head of its queue out of it.
LEMMA TakenSets ==
  ASSUME PoolInv, OnceInv, NEW w \in Workers, Takes(w)
  PROVE  /\ w \in Queues /\ Head(innerQueue[w]) \in Queued(w)
         /\ Queued(w)' = Queued(w) \ {Head(innerQueue[w])}
         /\ Distinct(innerQueue[w])'
         /\ \A p \in Queues \ {w} : Queued(p)' = Queued(p) /\ innerQueue'[p] = innerQueue[p]
<1>1. w \in Queues /\ innerQueue \in [Queues -> Seq(Tasks)]
  BY TaskTypes, WorkerShapeAssumption
<1>2. /\ innerQueue[w] \in Seq(Tasks) /\ innerQueue[w] # <<>>
      /\ innerQueue'[w] = Tail(innerQueue[w])
      /\ \A p \in Queues \ {w} : innerQueue'[p] = innerQueue[p]
  BY <1>1 DEF Takes
<1>3. Distinct(innerQueue[w])
  BY <1>1 DEF OnceInv, QueuedOnce
<1>4. Queued(w) = Elements(innerQueue[w]) /\ Queued(w)' = Elements(innerQueue'[w])
  BY DEF Queued, Elements
<1>5. /\ Head(innerQueue[w]) \in Elements(innerQueue[w])
      /\ Elements(Tail(innerQueue[w])) = Elements(innerQueue[w]) \ {Head(innerQueue[w])}
      /\ Distinct(Tail(innerQueue[w]))
  BY <1>2, <1>3, TailElements
<1>6. \A p \in Queues \ {w} : Queued(p)' = Queued(p)
  BY <1>2 DEF Queued
<1>7. Distinct(innerQueue[w])'
  BY <1>2, <1>5 DEF Distinct
<1>8. QED  BY <1>1, <1>2, <1>4, <1>5, <1>6, <1>7

\* stop(false) empties a queue.
LEMMA DiscardedSets ==
  ASSUME PoolInv, NEW q \in Queues, Discards(q)
  PROVE  /\ Queued(q)' = {}
         /\ Distinct(innerQueue[q])'
         /\ \A p \in Queues \ {q} : Queued(p)' = Queued(p) /\ innerQueue'[p] = innerQueue[p]
<1>1. /\ innerQueue'[q] = <<>>
      /\ \A p \in Queues \ {q} : innerQueue'[p] = innerQueue[p]
  BY TaskTypes DEF Discards
<1>2. DOMAIN innerQueue'[q] = {}
  BY <1>1
<1>3. QED  BY <1>1, <1>2 DEF Queued, Distinct

\* A step that keeps the calls, the work, the queues and the fates keeps OnceInv.
LEMMA QuietKeepsOnce ==
  ASSUME OnceInv,
         \A h \in Generators : /\ Placing(h)' <=> Placing(h)
                               /\ Placing(h) => gen'[h].task = gen[h].task,
         KeepsWork(Workers), UNCHANGED <<innerQueue, fate, leaked>>
  PROVE  OnceInv'
<1>1. /\ \A t \in Tasks : InQueue(t)' <=> InQueue(t)
      /\ \A q \in Queues : Queued(q)' = Queued(q)
  BY DEF InQueue, Queued
<1>2. \A t : InWork(t)' <=> InWork(t)
  BY DEF KeepsWork, InWork
<1>3. \A t : InQueue(t)' <=> InQueue(t)
  BY DEF InQueue, Queued
<1>4. CallsOnce'
  BY <1>2, <1>3 DEF OnceInv, CallsOnce
<1>5. QueuedOnce'
  BY <1>1, <1>2, <1>3 DEF OnceInv, QueuedOnce, Distinct
<1>6. WorkedOnce'
  BY DEF OnceInv, WorkedOnce, KeepsWork
<1>7. LeakedAreRefused'
  BY DEF OnceInv, LeakedAreRefused
<1>8. QED  BY <1>4, <1>5, <1>6, <1>7 DEF OnceInv

\* addTask() takes up or turns away a task that is nowhere yet.
LEMMA FreshKeepsOnce ==
  ASSUME PoolInv, OnceInv, NEW t \in Tasks,
         \/ TurnsAway(t)
         \/ \E g \in Generators : Submits(g, t)
  PROVE  OnceInv'
<1>0. fate \in [Tasks -> Fates]
  BY TaskTypes
<1>1. /\ fate[t] = "fresh" /\ KeepsWork(Workers) /\ UNCHANGED <<innerQueue, leaked>>
      /\ \A u \in Tasks \ {t} : fate'[u] = fate[u]
  BY <1>0 DEF TurnsAway, Submits, KeepsCounts
<1>2. /\ \A u : InQueue(u)' <=> InQueue(u)
      /\ \A q \in Queues : Queued(q)' = Queued(q)
      /\ \A u : InWork(u)' <=> InWork(u)
  BY <1>1 DEF InQueue, Queued, KeepsWork, InWork
<1>3. /\ ~InQueue(t) /\ ~InWork(t) /\ \A q \in Queues : t \notin leaked[q]
      /\ \A g \in Generators : Placing(g) => gen[g].task # t
      /\ \A w \in Workers : Running(w) => task[w] # t
  BY <1>1 DEF OnceInv, CallsOnce, QueuedOnce, WorkedOnce, LeakedAreRefused, InWork
<1>4. CallsOnce'
  <2>1. CASE TurnsAway(t)
    BY <1>1, <1>2, <1>3, <2>1, TaskTypes DEF TurnsAway, OnceInv, CallsOnce, KeepsCalls
  <2>2. ASSUME NEW g \in Generators, Submits(g, t)
        PROVE  CallsOnce'
    <3>1. /\ fate'[t] = "submitted" /\ gen'[g].task = t /\ ~Placing(g)
          /\ KeepsCalls(Generators \ {g})
      BY <1>0, <2>2 DEF Submits
    <3>2. ASSUME NEW h \in Generators \ {g}, Placing(h)'
          PROVE  /\ Placing(h) /\ gen'[h].task = gen[h].task
                 /\ gen[h].task \in Tasks \ {t}
      BY <1>3, <3>1, <3>2, TaskTypes DEF KeepsCalls
    <3>3. ASSUME NEW h \in Generators, Placing(h)'
          PROVE  /\ fate'[gen'[h].task] = "submitted"
                 /\ ~InQueue(gen'[h].task) /\ ~InWork(gen'[h].task)
      <4>1. CASE h = g
        BY <1>3, <3>1, <4>1
      <4>2. CASE h # g
        BY <1>1, <3>2, <3>3, <4>2 DEF OnceInv, CallsOnce
      <4>3. QED  BY <4>1, <4>2
    <3>4. ASSUME NEW h \in Generators, NEW k \in Generators, Placing(h)', Placing(k)',
                 gen'[h].task = gen'[k].task
          PROVE  h = k
      <4>1. CASE h = g \/ k = g
        BY <3>1, <3>2, <3>4, <4>1
      <4>2. CASE h # g /\ k # g
        BY <3>2, <3>4, <4>2 DEF OnceInv, CallsOnce
      <4>3. QED  BY <4>1, <4>2
    <3>5. QED  BY <1>2, <3>3, <3>4 DEF CallsOnce
  <2>3. QED  BY <2>1, <2>2
<1>5. QueuedOnce'
  BY <1>1, <1>2, <1>3 DEF OnceInv, QueuedOnce, Distinct
<1>6. WorkedOnce'
  BY <1>1, <1>3, TaskTypes DEF OnceInv, WorkedOnce, KeepsWork
<1>7. LeakedAreRefused'
  BY <1>1, <1>3, TaskTypes DEF OnceInv, LeakedAreRefused
<1>8. QED  BY <1>4, <1>5, <1>6, <1>7 DEF OnceInv

\* push() ends the placing of a task, which goes into one queue or nowhere.
LEMMA PushKeepsOnce ==
  ASSUME PoolInv, OnceInv, NEW g \in Generators, NEW q \in Queues,
         Enqueues(g, q) \/ Rejects(g, q)
  PROVE  OnceInv'
<1> DEFINE t == gen[g].task
<1>1. /\ Placing(g) /\ ~Placing(g)' /\ KeepsCalls(Generators \ {g}) /\ KeepsWork(Workers)
      /\ t \in Tasks
  BY TaskTypes DEF Enqueues, Rejects, EndsPlacing
<1>2. fate[t] = "submitted" /\ ~InQueue(t) /\ ~InWork(t)
  BY <1>1 DEF OnceInv, CallsOnce
<1>3. \A u : InWork(u)' <=> InWork(u)
  BY <1>1 DEF KeepsWork, InWork
<1>4. \A h \in Generators : Placing(h)' =>
         Placing(h) /\ gen'[h].task = gen[h].task /\ gen[h].task # t /\ gen[h].task \in Tasks
  BY <1>1, TaskTypes DEF KeepsCalls, OnceInv, CallsOnce
<1>5. CASE Enqueues(g, q)
  <2>1. /\ Queued(q)' = Queued(q) \cup {t}
        /\ Distinct(innerQueue[q])'
        /\ \A p \in Queues \ {q} : Queued(p)' = Queued(p) /\ innerQueue'[p] = innerQueue[p]
    BY <1>5, EnqueuedSets
  <2>2. UNCHANGED <<fate, leaked>>
    BY <1>5 DEF Enqueues
  <2>3. \A u : InQueue(u)' <=> InQueue(u) \/ u = t
    BY <2>1 DEF InQueue
  <2>4. CallsOnce'
    BY <1>3, <1>4, <2>2, <2>3 DEF OnceInv, CallsOnce
  <2>5. \A p \in Queues : Distinct(innerQueue[p])'
    BY <2>1 DEF OnceInv, QueuedOnce, Distinct
  <2>6. \A p, r \in Queues, u \in Tasks : u \in Queued(p)' /\ u \in Queued(r)' => p = r
    BY <1>2, <2>1 DEF OnceInv, QueuedOnce, InQueue
  <2>7. QueuedOnce'
    BY <1>2, <1>3, <2>2, <2>3, <2>5, <2>6 DEF OnceInv, QueuedOnce
  <2>8. WorkedOnce' /\ LeakedAreRefused'
    BY <1>1, <2>2 DEF OnceInv, WorkedOnce, LeakedAreRefused, KeepsWork
  <2>9. QED  BY <2>4, <2>7, <2>8 DEF OnceInv
<1>6. CASE Rejects(g, q)
  <2>1. /\ UNCHANGED innerQueue /\ fate'[t] = "refused"
        /\ \A u \in Tasks \ {t} : fate'[u] = fate[u]
        /\ \A p \in Queues : leaked'[p] \subseteq leaked[p] \cup {t}
    BY <1>1, <1>6, TaskTypes DEF Rejects
  <2>2. /\ \A u : InQueue(u)' <=> InQueue(u)
        /\ \A p \in Queues : Queued(p)' = Queued(p)
    BY <2>1 DEF InQueue, Queued
  <2>3. CallsOnce'
    BY <1>3, <1>4, <2>1, <2>2 DEF OnceInv, CallsOnce
  <2>4. QueuedOnce'
    BY <1>2, <1>3, <2>1, <2>2 DEF OnceInv, QueuedOnce, Distinct
  <2>5. WorkedOnce'
    <3>1. \A w \in Workers : Running(w) => task[w] # t /\ task[w] \in Tasks
      BY <1>2, TaskTypes DEF InWork
    <3>2. QED  BY <1>1, <2>1, <3>1 DEF OnceInv, WorkedOnce, KeepsWork
  <2>6. LeakedAreRefused'
    BY <2>1, TaskTypes DEF OnceInv, LeakedAreRefused
  <2>7. QED  BY <2>3, <2>4, <2>5, <2>6 DEF OnceInv
<1>7. QED  BY <1>5, <1>6

\* A worker takes the head of its queue, and settles it.
LEMMA WorkKeepsOnce ==
  ASSUME PoolInv, OnceInv, NEW w \in Workers, Takes(w) \/ Finishes(w)
  PROVE  OnceInv'
<1>1. KeepsCalls(Generators) /\ KeepsWork(Workers \ {w}) /\ UNCHANGED leaked
  BY DEF Takes, Finishes, KeepsCounts
<1>2. CASE Takes(w)
  <2> DEFINE t == Head(innerQueue[w])
  <2>1. /\ w \in Queues /\ t \in Queued(w) /\ Queued(w)' = Queued(w) \ {t}
        /\ Distinct(innerQueue[w])'
        /\ \A p \in Queues \ {w} : Queued(p)' = Queued(p) /\ innerQueue'[p] = innerQueue[p]
    BY <1>2, TakenSets
  <2>2. UNCHANGED fate /\ Running(w)' /\ task'[w] = t /\ ~Running(w)
    BY <1>2 DEF Takes
  <2>3. t \in Tasks /\ InQueue(t) /\ fate[t] = "submitted" /\ ~InWork(t)
    BY <2>1, TaskTypes DEF InQueue, OnceInv, QueuedOnce
  <2> HIDE DEF t
  <2>4. \A u \in Tasks : InQueue(u)' <=> InQueue(u) /\ u # t
    BY <2>1, <2>3 DEF InQueue, OnceInv, QueuedOnce
  <2>5. \A u : InWork(u)' <=> InWork(u) \/ u = t
    BY <1>1, <2>2 DEF InWork, KeepsWork
  <2>6. CallsOnce'
    BY <1>1, <2>2, <2>3, <2>4, <2>5, TaskTypes DEF OnceInv, CallsOnce, KeepsCalls
  <2>7. \A p \in Queues : Distinct(innerQueue[p])'
    BY <2>1 DEF OnceInv, QueuedOnce, Distinct
  <2>8. \A p, r \in Queues, u \in Tasks : u \in Queued(p)' /\ u \in Queued(r)' => p = r
    BY <2>1 DEF OnceInv, QueuedOnce
  <2>9. QueuedOnce'
    BY <2>2, <2>4, <2>5, <2>7, <2>8 DEF OnceInv, QueuedOnce
  <2>10. WorkedOnce'
    BY <1>1, <2>2, <2>3 DEF OnceInv, WorkedOnce, KeepsWork, InWork
  <2>11. LeakedAreRefused'
    BY <1>1, <2>2 DEF OnceInv, LeakedAreRefused
  <2>12. QED  BY <2>6, <2>9, <2>10, <2>11 DEF OnceInv
<1>3. CASE Finishes(w)
  <2> DEFINE t == task[w]
  <2>1. /\ Running(w) /\ ~Running(w)' /\ UNCHANGED innerQueue
        /\ fate' = [fate EXCEPT ![t] = "executed"] /\ t \in Tasks
    BY <1>3, TaskTypes DEF Finishes
  <2>2. InWork(t) /\ fate[t] = "submitted" /\ \A u \in Tasks \ {t} : fate'[u] = fate[u]
    BY <2>1, TaskTypes DEF InWork, OnceInv, WorkedOnce
  <2>3. /\ \A u : InQueue(u)' <=> InQueue(u)
        /\ \A p \in Queues : Queued(p)' = Queued(p)
    BY <2>1 DEF InQueue, Queued
  <2>4. \A u : InWork(u)' => InWork(u)
    BY <1>1, <2>1 DEF InWork, KeepsWork
  <2>5. CallsOnce'
    BY <1>1, <2>2, <2>3, <2>4, TaskTypes DEF OnceInv, CallsOnce, KeepsCalls
  <2>6. QueuedOnce'
    BY <2>1, <2>2, <2>3, <2>4 DEF OnceInv, QueuedOnce, Distinct
  <2>7. WorkedOnce'
    BY <1>1, <2>1, <2>2, TaskTypes DEF OnceInv, WorkedOnce, KeepsWork
  <2>8. LeakedAreRefused'
    BY <1>1, <2>1, <2>2, TaskTypes DEF OnceInv, LeakedAreRefused
  <2>9. QED  BY <2>5, <2>6, <2>7, <2>8 DEF OnceInv
<1>4. QED  BY <1>2, <1>3

\* stop(false) drops the tasks of a queue, which are nowhere else.
LEMMA DiscardKeepsOnce ==
  ASSUME PoolInv, OnceInv, NEW q \in Queues, Discards(q)
  PROVE  OnceInv'
<1>1. /\ KeepsCalls(Generators) /\ KeepsWork(Workers) /\ UNCHANGED leaked
      /\ \A u \in Tasks \ Queued(q) : fate'[u] = fate[u]
  BY DEF Discards, KeepsCounts
<1>2. /\ Queued(q)' = {}
      /\ Distinct(innerQueue[q])'
      /\ \A p \in Queues \ {q} : Queued(p)' = Queued(p) /\ innerQueue'[p] = innerQueue[p]
  BY DiscardedSets
<1>3. \A u : InWork(u)' <=> InWork(u)
  BY <1>1 DEF InWork, KeepsWork
<1>4. \A u \in Tasks : InQueue(u)' <=> InQueue(u) /\ u \notin Queued(q)
  BY <1>2 DEF InQueue, OnceInv, QueuedOnce
<1>5. \A u \in Queued(q) : InQueue(u) /\ u \in Tasks
  BY TaskTypes DEF InQueue
<1>6. CallsOnce'
  BY <1>1, <1>3, <1>4, <1>5, TaskTypes DEF OnceInv, CallsOnce, KeepsCalls
<1>7. \A p \in Queues : Distinct(innerQueue[p])'
  BY <1>2 DEF OnceInv, QueuedOnce, Distinct
<1>8. \A p, r \in Queues, u \in Tasks : u \in Queued(p)' /\ u \in Queued(r)' => p = r
  BY <1>2 DEF OnceInv, QueuedOnce
<1>9. QueuedOnce'
  BY <1>1, <1>3, <1>4, <1>7, <1>8 DEF OnceInv, QueuedOnce
<1>10. WorkedOnce'
  <2>1. \A w \in Workers : Running(w) => task[w] \in Tasks \ Queued(q)
    BY <1>5, TaskTypes DEF OnceInv, QueuedOnce, InWork
  <2>2. QED  BY <1>1, <2>1 DEF OnceInv, WorkedOnce, KeepsWork
<1>11. LeakedAreRefused'
  <2>1. \A p \in Queues : \A u \in leaked[p] : u \in Tasks \ Queued(q)
    BY <1>5, TaskTypes DEF OnceInv, QueuedOnce, LeakedAreRefused
  <2>2. QED  BY <1>1, <2>1 DEF OnceInv, LeakedAreRefused
<1>12. QED  BY <1>6, <1>9, <1>10, <1>11 DEF OnceInv

\* At the start no task is anywhere.
LEMMA OnceInit == Init => OnceInv
<1> SUFFICES ASSUME Init PROVE OnceInv
  OBVIOUS
<1>1. \A g \in Generators : ~Placing(g)
  BY DEF Init, GenIdle, Placing
<1>2. \A w \in Workers : ~Running(w)
  BY DEF Init, QueueInit, Running
<1>3. \A q \in Queues : innerQueue[q] = <<>> /\ leaked[q] = {}
  BY DEF Init, QueueInit
<1>4. \A q \in Queues : Queued(q) = {} /\ Distinct(innerQueue[q])
  BY <1>3 DEF Queued, Distinct
<1>5. QED
  BY <1>1, <1>2, <1>3, <1>4
  DEF OnceInv, CallsOnce, QueuedOnce, WorkedOnce, LeakedAreRefused, InQueue

\* Each kind of step keeps the places of a task apart.
LEMMA OnceStep ==
  ASSUME PoolInv, OnceInv, [Next]_vars
  PROVE  OnceInv'
<1>1. CASE Quiet
  BY <1>1, QuietKeepsOnce DEF Quiet, KeepsCounts, KeepsCalls
<1>2. ASSUME NEW g \in Generators, Counts(g)
      PROVE  OnceInv'
  BY <1>2, QuietKeepsOnce DEF Counts, KeepsCalls
<1>3. QED
  BY <1>1, <1>2, PoolStepIsTaskStep, FreshKeepsOnce, PushKeepsOnce, WorkKeepsOnce,
     DiscardKeepsOnce DEF TaskStep

\* A task is in one place at a time, however the threads interleave.
LEMMA OnceHolds == SafetySpec => []OnceInv
BY OnceInit, OnceStep, PoolInvHolds, PTL DEF SafetySpec

-------------------------------------------------------------------------------
(* The pool implements TaskLifecycle: each kind of step moves one task along,    *)
(* drops a set of queued tasks, or moves none.                                   *)

status == [t \in Tasks |-> StatusOf(t)]

\* The status of a task in the terms of the lemmas above.
LEMMA StatusCases ==
  \A t : StatusOf(t) = IF InWork(t) THEN "running" ELSE IF InQueue(t) THEN "queued" ELSE fate[t]
BY DEF StatusOf, InWork, InQueue

\* Where the tasks are after a step.
LEMMA WhereAfter ==
  \A t : StatusOf(t)' = IF InWork(t)' THEN "running"
                        ELSE IF InQueue(t)' THEN "queued" ELSE fate'[t]
BY DEF StatusOf, InWork, InQueue

\* A task that stays where it is keeps its status.
LEMMA StatusKept ==
  ASSUME NEW t, fate'[t] = fate[t], InQueue(t)' <=> InQueue(t), InWork(t)' <=> InWork(t)
  PROVE  StatusOf(t)' = StatusOf(t)
BY StatusCases, WhereAfter

\* One task moves.
LEMMA OneMoves ==
  ASSUME NEW t \in Tasks, NEW from, NEW to, StatusOf(t) = from, StatusOf(t)' = to,
         \A u \in Tasks \ {t} : StatusOf(u)' = StatusOf(u)
  PROVE  Lifecycle!Moves(t, from, to)
<1>1. status[t] = from
  BY DEF status
<1>2. status' = [status EXCEPT ![t] = to]
  BY DEF status
<1>3. QED  BY <1>1, <1>2 DEF Lifecycle!Moves, status

\* Each kind of step is a step of TaskLifecycle, or none.
LEMMA StepMovesStatus ==
  ASSUME PoolInv, OnceInv, TaskStep
  PROVE  Lifecycle!LifecycleNext \/ UNCHANGED status
<1>0. fate \in [Tasks -> Fates]
  BY TaskTypes
<1>1. ASSUME KeepsWork(Workers), UNCHANGED <<innerQueue, fate>>
      PROVE  UNCHANGED status
  <2>1. \A t \in Tasks : StatusOf(t)' = StatusOf(t)
    BY <1>1, StatusKept DEF KeepsWork, InWork, InQueue, Queued
  <2>2. QED  BY <2>1 DEF status
<1>2. ASSUME NEW t \in Tasks, TurnsAway(t) \/ \E g \in Generators : Submits(g, t)
      PROVE  Lifecycle!Submit(t) \/ Lifecycle!Refuse(t)
  <2>1. /\ fate[t] = "fresh" /\ fate'[t] \in {"submitted", "refused"}
        /\ KeepsWork(Workers) /\ UNCHANGED innerQueue
        /\ \A u \in Tasks \ {t} : fate'[u] = fate[u]
    BY <1>0, <1>2 DEF TurnsAway, Submits
  <2>2. \A u : (InQueue(u)' <=> InQueue(u)) /\ (InWork(u)' <=> InWork(u))
    BY <2>1 DEF InQueue, Queued, InWork, KeepsWork
  <2>3. ~InQueue(t) /\ ~InWork(t)
    BY <2>1 DEF OnceInv, QueuedOnce, WorkedOnce, InWork
  <2>4. StatusOf(t) = "fresh" /\ StatusOf(t)' = fate'[t]
    BY <2>1, <2>2, <2>3, StatusCases, WhereAfter
  <2>5. \A u \in Tasks \ {t} : StatusOf(u)' = StatusOf(u)
    BY <2>1, <2>2, StatusKept
  <2>6. Lifecycle!Moves(t, "fresh", fate'[t])
    BY <2>4, <2>5, OneMoves
  <2>7. QED  BY <2>1, <2>6 DEF Lifecycle!Submit, Lifecycle!Refuse
<1>3. ASSUME NEW g \in Generators, NEW q \in Queues, Enqueues(g, q) \/ Rejects(g, q)
      PROVE  \E t \in Tasks : Lifecycle!Enqueue(t) \/ Lifecycle!Refuse(t)
  <2>0. Placing(g) /\ KeepsWork(Workers) /\ gen[g].task \in Tasks
    BY <1>3, TaskTypes DEF Enqueues, Rejects, EndsPlacing
  <2>1. PICK t \in Tasks : t = gen[g].task
    BY <2>0
  <2>2. fate[t] = "submitted" /\ ~InQueue(t) /\ ~InWork(t)
    BY <2>0, <2>1 DEF OnceInv, CallsOnce
  <2>3. \A u : InWork(u)' <=> InWork(u)
    BY <2>0 DEF InWork, KeepsWork
  <2>4. StatusOf(t) = "submitted"
    BY <2>2, StatusCases
  <2>5. CASE Enqueues(g, q)
    <3>0. /\ Queued(q)' = Queued(q) \cup {t}
          /\ \A p \in Queues \ {q} : Queued(p)' = Queued(p)
      BY <2>1, <2>5, EnqueuedSets
    <3>1. UNCHANGED fate /\ \A u : InQueue(u)' <=> InQueue(u) \/ u = t
      BY <2>5, <3>0 DEF Enqueues, InQueue
    <3>2. StatusOf(t)' = "queued"
      BY <2>2, <2>3, <3>1, WhereAfter
    <3>3. \A u \in Tasks \ {t} : StatusOf(u)' = StatusOf(u)
      BY <2>3, <3>1, StatusKept
    <3>4. Lifecycle!Moves(t, "submitted", "queued")
      BY <2>1, <2>4, <3>2, <3>3, OneMoves
    <3>5. QED  BY <2>1, <3>4 DEF Lifecycle!Enqueue
  <2>6. CASE Rejects(g, q)
    <3>1. /\ fate'[t] = "refused" /\ \A u \in Tasks \ {t} : fate'[u] = fate[u]
          /\ UNCHANGED innerQueue
      BY <1>0, <2>1, <2>6 DEF Rejects
    <3>2. \A u : InQueue(u)' <=> InQueue(u)
      BY <3>1 DEF InQueue, Queued
    <3>3. StatusOf(t)' = "refused"
      BY <2>2, <2>3, <3>1, <3>2, WhereAfter
    <3>4. \A u \in Tasks \ {t} : StatusOf(u)' = StatusOf(u)
      BY <2>3, <3>1, <3>2, StatusKept
    <3>5. Lifecycle!Moves(t, "submitted", "refused")
      BY <2>1, <2>4, <3>3, <3>4, OneMoves
    <3>6. QED  BY <2>1, <3>5 DEF Lifecycle!Refuse
  <2>7. QED  BY <1>3, <2>5, <2>6
<1>4. ASSUME NEW w \in Workers, Takes(w)
      PROVE  \E t \in Tasks : Lifecycle!Start(t)
  <2>0. w \in Queues /\ Head(innerQueue[w]) \in Queued(w) /\ Queued(w) \subseteq Tasks
    BY <1>4, TakenSets, TaskTypes
  <2>1. PICK t \in Queued(w) :
          /\ t = Head(innerQueue[w]) /\ Queued(w)' = Queued(w) \ {t}
          /\ \A p \in Queues \ {w} : Queued(p)' = Queued(p)
    BY <1>4, <2>0, TakenSets
  <2>2. UNCHANGED fate /\ Running(w)' /\ task'[w] = t /\ KeepsWork(Workers \ {w}) /\ ~Running(w)
    BY <1>4, <2>1 DEF Takes
  <2>3. t \in Tasks /\ InQueue(t) /\ ~InWork(t)
    BY <2>0, <2>1 DEF InQueue, OnceInv, QueuedOnce
  <2>4. \A u \in Tasks \ {t} : (InQueue(u)' <=> InQueue(u)) /\ (InWork(u)' <=> InWork(u))
    BY <2>0, <2>1, <2>2 DEF InQueue, InWork, KeepsWork
  <2>5. StatusOf(t) = "queued"
    BY <2>3, StatusCases
  <2>6. StatusOf(t)' = "running"
    BY <2>2, WhereAfter DEF InWork
  <2>7. \A u \in Tasks \ {t} : StatusOf(u)' = StatusOf(u)
    BY <2>2, <2>4, StatusKept
  <2>8. Lifecycle!Moves(t, "queued", "running")
    BY <2>3, <2>5, <2>6, <2>7, OneMoves
  <2>9. QED  BY <2>3, <2>8 DEF Lifecycle!Start
<1>5. ASSUME NEW w \in Workers, Finishes(w)
      PROVE  \E t \in Tasks : Lifecycle!Finish(t)
  <2>0. PICK t \in Tasks : t = task[w]
    BY <1>5, TaskTypes DEF Finishes
  <2>1. /\ Running(w) /\ ~Running(w)' /\ UNCHANGED innerQueue /\ KeepsWork(Workers \ {w})
        /\ fate'[t] = "executed" /\ \A u \in Tasks \ {t} : fate'[u] = fate[u]
    BY <1>0, <1>5, <2>0 DEF Finishes
  <2>2. \A u : InQueue(u)' <=> InQueue(u)
    BY <2>1 DEF InQueue, Queued
  <2>3. InWork(t) /\ ~InQueue(t)
    BY <2>0, <2>1 DEF InWork, OnceInv, QueuedOnce
  <2>4. ~InWork(t)' /\ \A u \in Tasks \ {t} : InWork(u)' <=> InWork(u)
    BY <2>0, <2>1 DEF InWork, KeepsWork, OnceInv, WorkedOnce
  <2>5. StatusOf(t) = "running" /\ StatusOf(t)' = "executed"
    BY <2>1, <2>2, <2>3, <2>4, StatusCases, WhereAfter
  <2>6. \A u \in Tasks \ {t} : StatusOf(u)' = StatusOf(u)
    BY <2>1, <2>2, <2>4, StatusKept
  <2>7. Lifecycle!Moves(t, "running", "executed")
    BY <2>1, <2>5, <2>6, OneMoves
  <2>8. QED  BY <2>1, <2>7 DEF Lifecycle!Finish
<1>6. ASSUME NEW q \in Queues, Discards(q)
      PROVE  Lifecycle!LifecycleNext \/ UNCHANGED status
  <2> DEFINE S == Queued(q)
  <2>1. /\ Queued(q)' = {}
        /\ \A p \in Queues \ {q} : Queued(p)' = Queued(p)
    BY <1>6, DiscardedSets
  <2>2. /\ KeepsWork(Workers) /\ S \subseteq Tasks
        /\ \A t \in Tasks : fate'[t] = IF t \in S THEN "dropped" ELSE fate[t]
    BY <1>6, TaskTypes DEF Discards
  <2>3. \A u : InWork(u)' <=> InWork(u)
    BY <2>2 DEF InWork, KeepsWork
  <2>4. \A u \in Tasks : InQueue(u)' <=> InQueue(u) /\ u \notin S
    BY <2>1 DEF InQueue, OnceInv, QueuedOnce
  <2>5. ASSUME NEW t \in S
        PROVE  StatusOf(t) = "queued" /\ StatusOf(t)' = "dropped"
    <3>1. t \in Tasks /\ InQueue(t) /\ ~InWork(t)
      BY <2>2, <2>5 DEF InQueue, OnceInv, QueuedOnce
    <3>2. QED  BY <2>2, <2>3, <2>4, <2>5, <3>1, StatusCases, WhereAfter
  <2>6. \A u \in Tasks \ S : StatusOf(u)' = StatusOf(u)
    BY <2>2, <2>3, <2>4, StatusKept
  <2> HIDE DEF S
  <2>7. CASE S = {}
    BY <2>6, <2>7 DEF status
  <2>8. CASE S # {}
    <3>1. \A t \in S : status[t] = "queued"
      BY <2>2, <2>5 DEF status
    <3>2. status' = [t \in Tasks |-> IF t \in S THEN "dropped" ELSE status[t]]
      BY <2>5, <2>6 DEF status
    <3>3. Lifecycle!Drop(S)
      BY <2>8, <3>1, <3>2 DEF Lifecycle!Drop, status
    <3>4. QED  BY <2>2, <3>3 DEF Lifecycle!LifecycleNext
  <2>9. QED  BY <2>7, <2>8
<1>7. CASE Quiet \/ \E g \in Generators : Counts(g)
  BY <1>1, <1>7 DEF Quiet, Counts
<1>8. QED
  BY <1>2, <1>3, <1>4, <1>5, <1>6, <1>7 DEF TaskStep, Lifecycle!LifecycleNext

\* Every task handed to addTask() is run exactly once, or dropped before it starts,
\* or refused: each step of the generators, the workers and the callers of stop(),
\* pause() and resume() is a step of TaskLifecycle, because OnceInv says a task is
\* in one place at a time.
THEOREM ImplementsLifecycleHolds == SafetySpec => ImplementsLifecycle
<1>1. Init => Lifecycle!LifecycleInit
  <2> SUFFICES ASSUME Init PROVE Lifecycle!LifecycleInit
    OBVIOUS
  <2>1. \A t \in Tasks : fate[t] = "fresh" /\ ~InQueue(t) /\ ~InWork(t)
    BY OnceInit DEF Init, OnceInv, QueuedOnce, WorkedOnce, InWork
  <2>2. \A t \in Tasks : StatusOf(t) = "fresh"
    BY <2>1, StatusCases
  <2>3. QED  BY <2>2 DEF Lifecycle!LifecycleInit
<1>2. PoolInv /\ OnceInv /\ [Next]_vars => [Lifecycle!LifecycleNext]_status
  BY PoolStepIsTaskStep, StepMovesStatus
<1>3. QED
  BY <1>1, <1>2, PoolInvHolds, OnceHolds, PTL
  DEF SafetySpec, ImplementsLifecycle, Lifecycle!LifecycleSpec, status

-------------------------------------------------------------------------------
(* The two task counters against the places of the tasks.                      *)

AboutToCount == {g \in Generators : Owes(g)}
Waiting      == {t \in Tasks : InQueue(t)}
Held         == {w \in Workers : Running(w)}
Fated(f)     == {t \in Tasks : fate[t] = f}
Leaks        == UNION {leaked[q] : q \in Queues}

\* However many tasks and generators there are, only finitely many have come so far.
CountedFinite ==
    /\ IsFiniteSet(AboutToCount) /\ IsFiniteSet(Waiting) /\ IsFiniteSet(Held)
    /\ IsFiniteSet(Fated("executed")) /\ IsFiniteSet(Fated("dropped")) /\ IsFiniteSet(Leaks)

StatisticsInv == CountedFinite /\ StatisticsAddUp

\* StatisticsAddUp in the terms of the sets above.
LEMMA StatisticsInNames ==
  StatisticsAddUp <=>
    /\ tasksCompleted = Cardinality(Fated("executed"))
    /\ tasksSubmitted + Cardinality(AboutToCount) =
         Cardinality(Waiting) + Cardinality(Held) + tasksCompleted
         + Cardinality(Fated("dropped")) + Cardinality(Leaks)
BY DEF StatisticsAddUp, AboutToCount, Waiting, Held, Fated, Leaks, Owes, InQueue

\* One element more.
LEMMA OneMore ==
  ASSUME NEW S, IsFiniteSet(S), NEW x, x \notin S
  PROVE  /\ IsFiniteSet(S \cup {x})
         /\ Cardinality(S) \in Nat /\ Cardinality(S \cup {x}) = Cardinality(S) + 1
BY FS_AddElement, FS_CardinalityType

\* One element less.
LEMMA OneLess ==
  ASSUME NEW S, IsFiniteSet(S), NEW x \in S
  PROVE  /\ IsFiniteSet(S \ {x})
         /\ Cardinality(S) \in Nat /\ Cardinality(S \ {x}) \in Nat
         /\ Cardinality(S) = Cardinality(S \ {x}) + 1
<1>1. IsFiniteSet(S \ {x}) /\ x \notin S \ {x} /\ (S \ {x}) \cup {x} = S
  BY FS_RemoveElement
<1>2. Cardinality((S \ {x}) \cup {x}) = Cardinality(S \ {x}) + 1
  BY <1>1, OneMore
<1>3. QED  BY <1>1, <1>2, FS_CardinalityType

\* A part taken out of one set and put into another, disjoint one.
LEMMA PartMoves ==
  ASSUME NEW S, IsFiniteSet(S), NEW P \in SUBSET S, NEW T, IsFiniteSet(T), P \cap T = {}
  PROVE  /\ IsFiniteSet(S \ P) /\ IsFiniteSet(T \cup P)
         /\ Cardinality(S) \in Nat /\ Cardinality(T) \in Nat
         /\ Cardinality(S \ P) + Cardinality(T \cup P) = Cardinality(S) + Cardinality(T)
<1>1. IsFiniteSet(P) /\ S \cap P = P
  BY FS_Subset
<1>2. /\ IsFiniteSet(S \ P) /\ Cardinality(S \ P) = Cardinality(S) - Cardinality(P)
  <2>1. /\ IsFiniteSet(S \ P)
        /\ Cardinality(S \ P) = Cardinality(S) - Cardinality(S \cap P)
    BY FS_Difference, Zenon
  <2>2. QED  BY <1>1, <2>1, Zenon
<1>3. /\ IsFiniteSet(T \cup P)
      /\ Cardinality(T \cup P) = Cardinality(T) + Cardinality(P) - Cardinality(T \cap P)
  BY <1>1, FS_Union
<1>4. Cardinality(T \cap P) = 0
  <2>1. T \cap P = {}
    OBVIOUS
  <2>2. QED  BY <2>1, FS_EmptySet
<1>5. Cardinality(S) \in Nat /\ Cardinality(T) \in Nat /\ Cardinality(P) \in Nat
  BY <1>1, FS_CardinalityType
<1>6. Cardinality(S \ P) + Cardinality(T \cup P) = Cardinality(S) + Cardinality(T)
  BY <1>2, <1>3, <1>4, <1>5
<1>7. QED  BY <1>2, <1>3, <1>5, <1>6

\* The sets counted are finite, so their sizes are numbers.
LEMMA CountsAreNat ==
  ASSUME CountedFinite
  PROVE  /\ Cardinality(AboutToCount) \in Nat /\ Cardinality(Waiting) \in Nat
         /\ Cardinality(Held) \in Nat /\ Cardinality(Fated("executed")) \in Nat
         /\ Cardinality(Fated("dropped")) \in Nat /\ Cardinality(Leaks) \in Nat
BY FS_CardinalityType DEF CountedFinite

\* The sets that a step leaves alone.
LEMMA SetsKept ==
  /\ KeepsCalls(Generators) => AboutToCount' = AboutToCount
  /\ KeepsWork(Workers) => Held' = Held
  /\ UNCHANGED innerQueue => Waiting' = Waiting
  /\ UNCHANGED fate => \A f : Fated(f)' = Fated(f)
  /\ UNCHANGED leaked => Leaks' = Leaks
<1>1. KeepsCalls(Generators) => AboutToCount' = AboutToCount
  BY DEF KeepsCalls, AboutToCount
<1>2. KeepsWork(Workers) => Held' = Held
  BY DEF KeepsWork, Held
<1>3. UNCHANGED innerQueue => Waiting' = Waiting
  BY DEF Waiting, InQueue, Queued
<1>4. UNCHANGED fate => \A f : Fated(f)' = Fated(f)
  BY DEF Fated
<1>5. UNCHANGED leaked => Leaks' = Leaks
  BY DEF Leaks
<1>6. QED  BY <1>1, <1>2, <1>3, <1>4, <1>5

\* The fate of one task changes.
LEMMA FateSets ==
  ASSUME PoolInv, NEW t \in Tasks, NEW f, fate' = [fate EXCEPT ![t] = f]
  PROVE  \A e : Fated(e)' = IF e = f THEN Fated(e) \cup {t} ELSE Fated(e) \ {t}
BY TaskTypes DEF Fated

\* Each kind of step moves the counters with the sets they count.
LEMMA StatisticsStep ==
  ASSUME PoolInv, OnceInv, StatisticsInv, TaskStep
  PROVE  StatisticsInv'
<1> DEFINE E == Fated("executed")
           D == Fated("dropped")
           n == tasksSubmitted
           m == tasksCompleted
<1>0. /\ IsFiniteSet(AboutToCount) /\ IsFiniteSet(Waiting) /\ IsFiniteSet(Held)
      /\ IsFiniteSet(E) /\ IsFiniteSet(D) /\ IsFiniteSet(Leaks)
  BY DEF StatisticsInv, CountedFinite
<1>1. /\ Cardinality(AboutToCount) \in Nat /\ Cardinality(Waiting) \in Nat
      /\ Cardinality(Held) \in Nat /\ Cardinality(E) \in Nat
      /\ Cardinality(D) \in Nat /\ Cardinality(Leaks) \in Nat
      /\ n \in Nat /\ m \in Nat
  BY CountsAreNat DEF StatisticsInv, PoolInv, CountersOK
<1>2. /\ m = Cardinality(E)
      /\ n + Cardinality(AboutToCount) =
           Cardinality(Waiting) + Cardinality(Held) + m + Cardinality(D) + Cardinality(Leaks)
  BY StatisticsInNames DEF StatisticsInv
\* What has to be shown of the sets after the step.
<1>3.
        /\ /\ IsFiniteSet(AboutToCount') /\ IsFiniteSet(Waiting') /\ IsFiniteSet(Held')
           /\ IsFiniteSet(E') /\ IsFiniteSet(D') /\ IsFiniteSet(Leaks')
        /\ m' = Cardinality(E')
        /\ n' + Cardinality(AboutToCount') =
             Cardinality(Waiting') + Cardinality(Held') + m' + Cardinality(D')
             + Cardinality(Leaks')
        => StatisticsInv'
  BY DEF StatisticsInv, CountedFinite, StatisticsAddUp, AboutToCount, Waiting, Held, Fated,
         Leaks, Owes, InQueue
<1>4. CASE Quiet
  <2>1. /\ AboutToCount' = AboutToCount /\ Waiting' = Waiting /\ Held' = Held
        /\ E' = E /\ D' = D /\ Leaks' = Leaks /\ n' = n /\ m' = m
    BY <1>4, SetsKept DEF Quiet, KeepsCounts
  <2>2. QED  BY <1>0, <1>1, <1>2, <1>3, <2>1
<1>5. ASSUME NEW g \in Generators, Counts(g)
      PROVE  StatisticsInv'
  <2>1. /\ Waiting' = Waiting /\ Held' = Held /\ E' = E /\ D' = D /\ Leaks' = Leaks
        /\ n' = n + 1 /\ m' = m
    BY <1>5, SetsKept DEF Counts
  <2>2. g \in AboutToCount /\ AboutToCount' = AboutToCount \ {g}
    BY <1>5 DEF Counts, AboutToCount, KeepsCalls
  <2>3. /\ IsFiniteSet(AboutToCount') /\ Cardinality(AboutToCount') \in Nat
        /\ Cardinality(AboutToCount) = Cardinality(AboutToCount') + 1
    BY <1>0, <2>2, OneLess
  <2>4. QED  BY <1>0, <1>1, <1>2, <1>3, <2>1, <2>3
<1>6. ASSUME NEW t \in Tasks, TurnsAway(t) \/ \E g \in Generators : Submits(g, t)
      PROVE  StatisticsInv'
  <2>1. Waiting' = Waiting /\ Held' = Held /\ Leaks' = Leaks /\ n' = n /\ m' = m
    BY <1>6, SetsKept DEF TurnsAway, Submits, KeepsCounts
  <2>2. AboutToCount' = AboutToCount
    BY <1>6 DEF TurnsAway, Submits, AboutToCount, KeepsCalls
  <2>3. PICK f \in {"submitted", "refused"} :
          fate' = [fate EXCEPT ![t] = f] /\ fate[t] = "fresh"
    BY <1>6 DEF TurnsAway, Submits
  <2>4. E' = E /\ D' = D
    BY <2>3, FateSets DEF Fated
  <2>5. QED  BY <1>0, <1>1, <1>2, <1>3, <2>1, <2>2, <2>4
<1>7. ASSUME NEW g \in Generators, NEW q \in Queues, Enqueues(g, q) \/ Rejects(g, q)
      PROVE  StatisticsInv'
  <2>1. PICK t \in Tasks :
          /\ t = gen[g].task /\ fate[t] = "submitted" /\ ~InQueue(t)
          /\ \A p \in Queues : t \notin leaked[p]
    BY <1>7, TaskTypes DEF Enqueues, Rejects, EndsPlacing, OnceInv, CallsOnce, LeakedAreRefused
  <2>2. Held' = Held /\ n' = n /\ m' = m
    BY <1>7, SetsKept DEF Enqueues, Rejects, EndsPlacing
  <2>3. g \notin AboutToCount /\ AboutToCount' = AboutToCount \cup {g}
    BY <1>7 DEF Enqueues, Rejects, EndsPlacing, AboutToCount, KeepsCalls
  <2>4. /\ IsFiniteSet(AboutToCount')
        /\ Cardinality(AboutToCount') = Cardinality(AboutToCount) + 1
    BY <1>0, <2>3, OneMore
  <2>5. CASE Enqueues(g, q)
    <3>1. Leaks' = Leaks /\ E' = E /\ D' = D
      BY <2>5, SetsKept DEF Enqueues
    <3>2. /\ Queued(q)' = Queued(q) \cup {t}
          /\ \A p \in Queues \ {q} : Queued(p)' = Queued(p)
      BY <2>1, <2>5, EnqueuedSets
    <3>3. t \notin Waiting /\ Waiting' = Waiting \cup {t}
      BY <2>1, <3>2 DEF Waiting, InQueue
    <3>4. IsFiniteSet(Waiting') /\ Cardinality(Waiting') = Cardinality(Waiting) + 1
      BY <1>0, <3>3, OneMore
    <3>5. QED  BY <1>0, <1>1, <1>2, <1>3, <2>2, <2>4, <3>1, <3>4
  <2>6. CASE Rejects(g, q)
    <3>1. /\ Waiting' = Waiting /\ fate' = [fate EXCEPT ![t] = "refused"]
          /\ leaked' = [leaked EXCEPT ![q] = @ \cup {t}]
      BY <2>1, <2>6, SetsKept DEF Rejects
    <3>2. E' = E /\ D' = D
      BY <2>1, <3>1, FateSets DEF Fated
    <3>3. t \notin Leaks /\ Leaks' = Leaks \cup {t}
      <4>1. leaked \in [Queues -> SUBSET Tasks]
        BY TaskTypes
      <4>2. /\ leaked'[q] = leaked[q] \cup {t}
            /\ \A p \in Queues \ {q} : leaked'[p] = leaked[p]
        BY <3>1, <4>1
      <4>3. QED  BY <2>1, <4>2 DEF Leaks
    <3>4. IsFiniteSet(Leaks') /\ Cardinality(Leaks') = Cardinality(Leaks) + 1
      BY <1>0, <3>3, OneMore
    <3>5. QED  BY <1>0, <1>1, <1>2, <1>3, <2>2, <2>4, <3>1, <3>2, <3>4
  <2>7. QED  BY <1>7, <2>5, <2>6
<1>8. ASSUME NEW w \in Workers, Takes(w)
      PROVE  StatisticsInv'
  <2>1. /\ AboutToCount' = AboutToCount /\ E' = E /\ D' = D /\ Leaks' = Leaks
        /\ n' = n /\ m' = m
    BY <1>8, SetsKept DEF Takes, KeepsCounts
  <2>2. w \notin Held /\ Held' = Held \cup {w}
    BY <1>8 DEF Takes, Held, KeepsWork
  <2>3. w \in Queues /\ Head(innerQueue[w]) \in Queued(w) /\ Queued(w) \subseteq Tasks
    BY <1>8, TakenSets, TaskTypes
  <2>4. PICK t \in Queued(w) :
          /\ Queued(w)' = Queued(w) \ {t}
          /\ \A p \in Queues \ {w} : Queued(p)' = Queued(p)
    BY <1>8, <2>3, TakenSets
  <2>5. t \in Waiting /\ Waiting' = Waiting \ {t}
    BY <2>3, <2>4 DEF Waiting, InQueue, OnceInv, QueuedOnce
  <2>6. IsFiniteSet(Held') /\ Cardinality(Held') = Cardinality(Held) + 1
    BY <1>0, <2>2, OneMore
  <2>7. /\ IsFiniteSet(Waiting') /\ Cardinality(Waiting') \in Nat
        /\ Cardinality(Waiting) = Cardinality(Waiting') + 1
    BY <1>0, <2>5, OneLess
  <2>8. QED  BY <1>0, <1>1, <1>2, <1>3, <2>1, <2>6, <2>7
<1>9. ASSUME NEW w \in Workers, Finishes(w)
      PROVE  StatisticsInv'
  <2>1. /\ AboutToCount' = AboutToCount /\ Waiting' = Waiting /\ Leaks' = Leaks
        /\ n' = n /\ m' = m + 1
    BY <1>9, SetsKept DEF Finishes
  <2>2. w \in Held /\ Held' = Held \ {w}
    BY <1>9 DEF Finishes, Held, KeepsWork
  <2>3. PICK t \in Tasks : fate' = [fate EXCEPT ![t] = "executed"] /\ fate[t] = "submitted"
    BY <1>9, TaskTypes DEF Finishes, OnceInv, WorkedOnce
  <2>4. t \notin E /\ E' = E \cup {t} /\ D' = D
    <3>1. t \notin E /\ t \notin D
      BY <2>3 DEF Fated
    <3>2. E' = E \cup {t} /\ D' = D \ {t}
      BY <2>3, FateSets
    <3>3. QED  BY <3>1, <3>2
  <2>5. IsFiniteSet(E') /\ Cardinality(E') = Cardinality(E) + 1
    BY <1>0, <2>4, OneMore
  <2>6. /\ IsFiniteSet(Held') /\ Cardinality(Held') \in Nat
        /\ Cardinality(Held) = Cardinality(Held') + 1
    BY <1>0, <2>2, OneLess
  <2>7. QED  BY <1>0, <1>1, <1>2, <1>3, <2>1, <2>4, <2>5, <2>6
<1>10. ASSUME NEW q \in Queues, Discards(q)
       PROVE  StatisticsInv'
  <2>1. /\ AboutToCount' = AboutToCount /\ Held' = Held /\ Leaks' = Leaks
        /\ n' = n /\ m' = m
    BY <1>10, SetsKept DEF Discards, KeepsCounts
  <2>2. PICK P \in SUBSET Tasks : P = Queued(q)
    BY TaskTypes
  <2>3. \A t \in P : InQueue(t) /\ fate[t] = "submitted"
    BY <2>2 DEF InQueue, OnceInv, QueuedOnce
  <2>4. \A t \in Tasks : fate'[t] = IF t \in P THEN "dropped" ELSE fate[t]
    BY <1>10, <2>2 DEF Discards
  <2>5. E' = E /\ D' = D \cup P /\ P \cap D = {}
    BY <2>3, <2>4 DEF Fated
  <2>6. Waiting' = Waiting \ P /\ P \in SUBSET Waiting
    <3>1. /\ Queued(q)' = {}
          /\ \A p \in Queues \ {q} : Queued(p)' = Queued(p)
      BY <1>10, DiscardedSets
    <3>2. QED  BY <2>2, <2>3, <3>1 DEF Waiting, InQueue, OnceInv, QueuedOnce
  <2>7. /\ IsFiniteSet(Waiting') /\ IsFiniteSet(D')
        /\ Cardinality(Waiting') + Cardinality(D') = Cardinality(Waiting) + Cardinality(D)
    <3>1. /\ IsFiniteSet(Waiting \ P) /\ IsFiniteSet(D \cup P)
          /\ Cardinality(Waiting \ P) + Cardinality(D \cup P)
               = Cardinality(Waiting) + Cardinality(D)
      <4>1. P \cap D = {} /\ P \in SUBSET Waiting
        BY <2>5, <2>6, Zenon
      <4>2. QED  BY <1>0, <4>1, PartMoves, Zenon
    <3>2. QED  BY <2>5, <2>6, <3>1
  <2>8. Cardinality(Waiting') \in Nat /\ Cardinality(D') \in Nat
    BY <2>7, FS_CardinalityType
  <2>9. QED  BY <1>0, <1>1, <1>2, <1>3, <2>1, <2>5, <2>7, <2>8
<1>11. QED
  BY <1>4, <1>5, <1>6, <1>7, <1>8, <1>9, <1>10 DEF TaskStep

\* Nothing is counted at the start.
LEMMA StatisticsInit == Init => StatisticsInv
<1> SUFFICES ASSUME Init PROVE StatisticsInv
  OBVIOUS
<1>1. AboutToCount = {} /\ Held = {} /\ Waiting = {} /\ Leaks = {}
  <2>1. \A g \in Generators : ~Owes(g)
    BY DEF Init, GenIdle, Owes
  <2>2. \A w \in Workers : ~Running(w)
    BY DEF Init, QueueInit, Running
  <2>3. \A q \in Queues : Queued(q) = {} /\ leaked[q] = {}
    BY DEF Init, QueueInit, Queued
  <2>4. QED  BY <2>1, <2>2, <2>3 DEF AboutToCount, Held, Waiting, InQueue, Leaks
<1>2. Fated("executed") = {} /\ Fated("dropped") = {}
  BY DEF Init, Fated
<1>3. tasksSubmitted = 0 /\ tasksCompleted = 0
  BY DEF Init
<1>4. IsFiniteSet({}) /\ Cardinality({}) = 0
  BY FS_EmptySet
<1>5. QED  BY <1>1, <1>2, <1>3, <1>4, StatisticsInNames DEF StatisticsInv, CountedFinite

\* No task is lost or counted twice, however the threads interleave: each kind of
\* step moves one task from one of the sets counted to another, and the counters
\* along with it.
THEOREM StatisticsAddUpHolds == SafetySpec => []StatisticsAddUp
<1>1. PoolInv /\ OnceInv /\ StatisticsInv /\ [Next]_vars => StatisticsInv'
  BY PoolStepIsTaskStep, StatisticsStep
<1>2. StatisticsInv => StatisticsAddUp
  BY DEF StatisticsInv
<1>3. QED  BY <1>1, <1>2, StatisticsInit, PoolInvHolds, OnceHolds, PTL DEF SafetySpec

-------------------------------------------------------------------------------
(* The loads: which steps charge a queue, give a charge back, or pass it on.   *)

Pushing(g) == gen[g].pc = "push"

KeepsPushes(G) ==
    \A h \in G : /\ Pushing(h)' <=> Pushing(h)
                 /\ Pushing(h) => gen'[h].task = gen[h].task /\ gen'[h].best = gen[h].best

KeepsHands(W) ==
    \A v \in W : /\ at'[v] = "got" <=> at[v] = "got"
                 /\ at[v] = "got" => task'[v] = task[v]

KeepsDrains(C) ==
    \A d \in C : /\ stopper'[d].dropped = stopper[d].dropped
                 /\ stopper[d].dropped # <<>> => stopper'[d].i = stopper[d].i

ChargesStay ==
    /\ KeepsPushes(Generators) /\ KeepsHands(Workers) /\ KeepsDrains(StopCallers)
    /\ UNCHANGED <<innerQueue, leaked, load>>

\* The fetch_add() of addTask(), and its push().
Charges(g, q) ==
    /\ gen[g].pc = "charge" /\ gen[g].best = q
    /\ Pushing(g)' /\ gen'[g].task = gen[g].task /\ gen'[g].best = q
    /\ KeepsPushes(Generators \ {g}) /\ KeepsHands(Workers) /\ KeepsDrains(StopCallers)
    /\ load' = [load EXCEPT ![q] = @ + Duration[gen[g].task]]
    /\ UNCHANGED <<innerQueue, leaked>>

Lands(g, q) ==
    /\ Pushing(g) /\ gen[g].best = q /\ ~Pushing(g)'
    /\ KeepsPushes(Generators \ {g}) /\ KeepsHands(Workers) /\ KeepsDrains(StopCallers)
    /\ \/ innerQueue' = [innerQueue EXCEPT ![q] = Append(@, gen[g].task)] /\ UNCHANGED leaked
       \/ leaked' = [leaked EXCEPT ![q] = @ \cup {gen[g].task}] /\ UNCHANGED innerQueue
    /\ UNCHANGED load

\* The pop() of a worker, and its fetch_sub().
Grasps(w) ==
    /\ innerQueue[w] # <<>> /\ at[w] # "got"
    /\ at'[w] = "got" /\ task'[w] = Head(innerQueue[w])
    /\ innerQueue' = [innerQueue EXCEPT ![w] = Tail(@)]
    /\ KeepsPushes(Generators) /\ KeepsHands(Workers \ {w}) /\ KeepsDrains(StopCallers)
    /\ UNCHANGED <<leaked, load>>

Discharges(w) ==
    /\ counted[w] /\ at[w] = "got" /\ at'[w] # "got"
    /\ load' = [load EXCEPT ![w] = @ - Duration[task[w]]]
    /\ KeepsPushes(Generators) /\ KeepsHands(Workers \ {w}) /\ KeepsDrains(StopCallers)
    /\ UNCHANGED <<innerQueue, leaked>>

\* stop(false) takes the tasks out of a queue, and subtracts them one by one.
Drains(c, q) ==
    /\ stopper[c].pc = "closing" /\ stopper[c].i = q
    /\ stopper'[c].i = q /\ stopper'[c].dropped = innerQueue[q]
    /\ innerQueue' = [innerQueue EXCEPT ![q] = <<>>]
    /\ \A t \in Tasks : t \in Queued(q) => fate'[t] = "dropped"
    /\ KeepsPushes(Generators) /\ KeepsHands(Workers) /\ KeepsDrains(StopCallers \ {c})
    /\ UNCHANGED <<leaked, load>>

Refunds(c, q) ==
    /\ stopper[c].dropped # <<>> /\ stopper[c].i = q
    /\ stopper'[c].i = q /\ stopper'[c].dropped = Tail(stopper[c].dropped)
    /\ load' = [load EXCEPT ![q] = @ - Duration[Head(stopper[c].dropped)]]
    /\ KeepsPushes(Generators) /\ KeepsHands(Workers) /\ KeepsDrains(StopCallers \ {c})
    /\ UNCHANGED <<innerQueue, leaked>>

ChargeStep ==
    \/ ChargesStay
    \/ \E g \in Generators, q \in Queues : Charges(g, q) \/ Lands(g, q)
    \/ \E w \in Workers : Grasps(w) \/ Discharges(w)
    \/ \E c \in StopCallers, q \in Queues : Drains(c, q) \/ Refunds(c, q)

\* A task that a worker has run is executed as long as it is in its hands, and the
\* tasks stop() has yet to subtract are dropped, each once.
ChargeInv ==
    /\ \A w \in Workers : counted[w] => fate[task[w]] = "executed"
    /\ \A c \in StopCallers :
          /\ stopper[c].dropped # <<>> => stopper[c].pc = "refund"
          /\ Distinct(stopper[c].dropped)
          /\ \A t \in Elements(stopper[c].dropped) : fate[t] = "dropped"

\* A step that leaves the calls and the hands as they are keeps them.
LEMMA SamePushesKept == UNCHANGED gen => KeepsPushes(Generators)
BY DEF KeepsPushes, Pushing

LEMMA SameDrainsKept == UNCHANGED stopper => KeepsDrains(StopCallers)
BY DEF KeepsDrains

\* Waking a worker up neither gives nor takes it a task.
LEMMA WakingKeepsHands ==
  ASSUME PoolInv, UNCHANGED task,
         at' = at \/ \E q \in Queues : WakeOne(q) \/ WakeAll(q)
  PROVE  KeepsHands(Workers)
BY DEF PoolInv, QueueTypeOK, WakeOne, WakeAll, WaitersOf, WorkersOf, KeepsHands

\* addTask(), step by step.
LEMMA AddingIsChargeStep ==
  ASSUME PoolInv, NEW g \in Generators, AddStep(g) \/ \E t \in Tasks : AddTask(g, t)
  PROVE  ChargeStep
<1>0. /\ gen \in [Generators -> GenRecords] /\ gen[g] \in GenRecords
      /\ gen[g].best \in Queues
  BY DEF PoolInv, GenOK, GenRecords
<1>1. ASSUME ~Pushing(g), ~Pushing(g)', \A h \in Generators \ {g} : gen'[h] = gen[h],
             UNCHANGED <<task, stopper, innerQueue, leaked, load>>,
             at' = at \/ \E q \in Queues : WakeOne(q)
      PROVE  ChargeStep
  <2>1. KeepsPushes(Generators)
    BY <1>1 DEF KeepsPushes, Pushing
  <2>2. KeepsHands(Workers) /\ KeepsDrains(StopCallers)
    BY <1>1, WakingKeepsHands, SameDrainsKept
  <2>3. QED  BY <1>1, <2>1, <2>2 DEF ChargesStay, ChargeStep
<1>2. CASE \E t \in Tasks : AddTask(g, t)
  <2>1. /\ gen[g].pc = "idle" /\ gen'[g].pc \in {"idle", "scan"}
        /\ \A h \in Generators \ {g} : gen'[h] = gen[h]
    BY <1>0, <1>2 DEF AddTask, GenIdle
  <2>2. UNCHANGED <<task, stopper, innerQueue, leaked, load, at>>
    BY <1>2 DEF AddTask, queueVars
  <2>3. QED  BY <1>1, <2>1, <2>2 DEF Pushing
<1>3. CASE ScanQueue(g)
  <2>1. gen[g].pc = "scan" /\ \A h \in Generators \ {g} : gen'[h] = gen[h]
    BY <1>0, <1>3 DEF ScanQueue
  <2>2. gen'[g].pc \in {"scan", "charge"}
    BY <1>0, <1>3 DEF ScanQueue, GenRecords
  <2>3. UNCHANGED <<task, stopper, innerQueue, leaked, load, at>>
    BY <1>3 DEF ScanQueue, queueVars
  <2>4. QED  BY <1>1, <2>1, <2>2, <2>3 DEF Pushing
<1>4. CASE ChargeQueue(g)
  <2>1. PICK q \in Queues : q = gen[g].best
    BY <1>0
  <2>2. /\ gen[g].pc = "charge" /\ gen' = [gen EXCEPT ![g].pc = "push"]
        /\ load' = [load EXCEPT ![q] = @ + Duration[gen[g].task]]
        /\ UNCHANGED <<task, stopper, innerQueue, leaked, at>>
    BY <1>4, <2>1 DEF ChargeQueue, queueVars
  <2>3. /\ gen'[g].pc = "push" /\ gen'[g].task = gen[g].task /\ gen'[g].best = q
        /\ \A h \in Generators \ {g} : gen'[h] = gen[h]
    BY <1>0, <2>1, <2>2 DEF GenRecords
  <2>4. KeepsPushes(Generators \ {g}) /\ Pushing(g)'
    BY <2>3 DEF KeepsPushes, Pushing
  <2>5. KeepsHands(Workers) /\ KeepsDrains(StopCallers)
    BY <2>2, WakingKeepsHands, SameDrainsKept
  <2>6. Charges(g, q)
    BY <2>1, <2>2, <2>3, <2>4, <2>5 DEF Charges
  <2>7. QED  BY <2>6 DEF ChargeStep
<1>5. CASE PushTask(g)
  <2>1. PICK q \in Queues : q = gen[g].best
    BY <1>0
  <2>2. PICK p \in {"notify", "count"} : gen' = [gen EXCEPT ![g].pc = p]
    BY <1>5 DEF PushTask
  <2>3. gen'[g].pc = p /\ \A h \in Generators \ {g} : gen'[h] = gen[h]
    BY <1>0, <2>2 DEF GenRecords
  <2>4. /\ gen[g].pc = "push" /\ UNCHANGED <<task, stopper, load, at>>
        /\ \/ innerQueue' = [innerQueue EXCEPT ![q] = Append(@, gen[g].task)] /\ UNCHANGED leaked
           \/ leaked' = [leaked EXCEPT ![q] = @ \cup {gen[g].task}] /\ UNCHANGED innerQueue
    BY <1>5, <2>1 DEF PushTask, Push, PushRefused, queueVars
  <2>5. KeepsPushes(Generators \ {g}) /\ Pushing(g) /\ ~Pushing(g)'
    BY <2>3, <2>4 DEF KeepsPushes, Pushing
  <2>6. KeepsHands(Workers) /\ KeepsDrains(StopCallers)
    BY <2>4, WakingKeepsHands, SameDrainsKept
  <2>7. Lands(g, q)
    BY <2>1, <2>4, <2>5, <2>6 DEF Lands
  <2>8. QED  BY <2>7 DEF ChargeStep
<1>6. CASE NotifyWorker(g) \/ CountSubmitted(g)
  <2>1. /\ gen[g].pc \in {"notify", "count"} /\ gen'[g].pc \in {"count", "idle"}
        /\ \A h \in Generators \ {g} : gen'[h] = gen[h]
    BY <1>0, <1>6 DEF NotifyWorker, CountSubmitted, GenIdle, GenRecords
  <2>2. /\ UNCHANGED <<task, stopper, innerQueue, leaked, load>>
        /\ at' = at \/ \E q \in Queues : WakeOne(q)
    BY <1>0, <1>6 DEF NotifyWorker, CountSubmitted, NotifyOne, queueVars
  <2>3. QED  BY <1>1, <2>1, <2>2 DEF Pushing
<1>7. QED  BY <1>2, <1>3, <1>4, <1>5, <1>6 DEF AddStep

\* The loop of a worker.
LEMMA WorkingIsChargeStep ==
  ASSUME PoolInv, NEW w \in Workers, LoopStep(w) \/ SpuriousInLoop(w)
  PROVE  ChargeStep
<1>0. at \in [Workers -> Places] /\ task \in [Workers -> Tasks \cup {NoTask}]
  BY DEF PoolInv, QueueTypeOK
<1>1. CASE CompleteTask(w)
  <2>1. UNCHANGED <<gen, at, task, stopper, innerQueue, leaked, load>>
    BY <1>1 DEF CompleteTask, queueVars
  <2>2. QED
    BY <2>1, SamePushesKept, WakingKeepsHands, SameDrainsKept DEF ChargesStay, ChargeStep
<1>2. CASE DischargeTask(w)
  <2>1. /\ counted[w] /\ at[w] = "got" /\ at' = [at EXCEPT ![w] = "pop"]
        /\ load' = [load EXCEPT ![w] = @ - Duration[task[w]]]
        /\ UNCHANGED <<gen, task, stopper, innerQueue, leaked>>
    BY <1>2 DEF DischargeTask, PopAgain
  <2>2. at'[w] # "got" /\ KeepsHands(Workers \ {w})
    BY <1>0, <2>1 DEF KeepsHands
  <2>3. Discharges(w)
    BY <2>1, <2>2, SamePushesKept, SameDrainsKept DEF Discharges
  <2>4. QED  BY <2>3 DEF ChargeStep
<1>3. CASE (PopWait(w) \/ PopFails(w) \/ SpuriousWakeup(w)) /\ UNCHANGED poolVars
  <2>1. UNCHANGED <<gen, task, stopper, innerQueue, leaked, load>>
    BY <1>3 DEF PopWait, PopFails, SpuriousWakeup, poolVars
  <2>2. KeepsHands(Workers)
    BY <1>0, <1>3, <2>1 DEF PopWait, PopFails, SpuriousWakeup, KeepsHands
  <2>3. QED  BY <2>1, <2>2, SamePushesKept, SameDrainsKept DEF ChargesStay, ChargeStep
<1>4. CASE PopTask(w) /\ UNCHANGED poolVars
  <2>1. UNCHANGED <<gen, stopper, leaked, load>>
    BY <1>4 DEF poolVars
  <2>2. QueueOf[w] = w
    BY WorkerShapeAssumption
  <2>3. /\ innerQueue[w] # <<>> /\ innerQueue' = [innerQueue EXCEPT ![w] = Tail(@)]
        /\ at[w] = "pop" /\ at' = [at EXCEPT ![w] = "got"]
        /\ task' = [task EXCEPT ![w] = Head(innerQueue[w])]
    BY <1>4, <2>2 DEF PopTask
  <2>4. /\ at[w] # "got" /\ at'[w] = "got" /\ task'[w] = Head(innerQueue[w])
        /\ KeepsHands(Workers \ {w})
    BY <1>0, <2>3 DEF KeepsHands
  <2>5. Grasps(w)
    BY <2>1, <2>3, <2>4, SamePushesKept, SameDrainsKept DEF Grasps
  <2>6. QED  BY <2>5 DEF ChargeStep
<1>5. QED  BY <1>1, <1>2, <1>3, <1>4 DEF LoopStep, PopInLoop, SpuriousInLoop, Pop

\* stop() has subtracted everything it dropped from a queue before it goes on.
LEMMA OnlyStopQueueDrops ==
  ASSUME PoolInv, ChargeInv, NEW c \in StopCallers,
         NextQueue(c) \/ JoinWorkers(c) \/ \E finish \in BOOLEAN : StopCall(c, finish)
  PROVE  stopper'[c].dropped = <<>>
<1>0. stopper \in [StopCallers -> StopRecords] /\ stopper[c] \in StopRecords
  BY DEF PoolInv, StopOK
<1>1. CASE NextQueue(c) \/ JoinWorkers(c)
  <2>1. PICK i, p : \/ stopper' = [stopper EXCEPT ![c].i = i, ![c].pc = p]
                   \/ stopper' = [stopper EXCEPT ![c].pc = p]
    BY <1>1 DEF NextQueue, JoinWorkers
  <2>2. stopper[c].dropped = <<>>
    BY <1>1 DEF ChargeInv, NextQueue, JoinWorkers
  <2>3. QED  BY <1>0, <2>1, <2>2 DEF StopRecords
<1>2. ASSUME NEW finish \in BOOLEAN, StopCall(c, finish)
      PROVE  stopper'[c].dropped = <<>>
  <2>1. PICK p : stopper' = [stopper EXCEPT ![c] =
                               [StopIdle EXCEPT !.pc = p, !.finish = finish]]
    BY <1>2 DEF StopCall
  <2>2. QED  BY <1>0, <2>1 DEF StopIdle
<1>3. QED  BY <1>1, <1>2

\* stop(), pause() and resume().
LEMMA ControllingIsChargeStep ==
  ASSUME PoolInv, ChargeInv,
         \/ \E c \in StopCallers : StopStep(c) \/ \E finish \in BOOLEAN : StopCall(c, finish)
         \/ \E c \in PauseCallers : PauseStep(c) \/ PauseCall(c) \/ ResumeCall(c)
  PROVE  ChargeStep
<1>0. stopper \in [StopCallers -> StopRecords]
  BY DEF PoolInv, StopOK
<1>1. ASSUME NEW c \in StopCallers, StopQueue(c)
      PROVE  ChargeStep
  <2>1. PICK q \in Queues : q = stopper[c].i
    BY <1>1 DEF StopQueue, PoolInv, StopOK
  <2>2. /\ stopper[c].pc = "closing"
        /\ UNCHANGED <<gen, task, leaked, load>> /\ WakeAll(q)
    BY <1>1, <2>1 DEF StopQueue, Stop
  <2>3. KeepsHands(Workers) /\ KeepsPushes(Generators)
    BY <2>2, WakingKeepsHands, SamePushesKept
  <2>4. PICK dropped :
          /\ stopper' = [stopper EXCEPT ![c].pc = "refund", ![c].dropped = dropped]
          /\ dropped = IF stopper[c].finish THEN <<>> ELSE innerQueue[q]
    BY <1>1, <2>1 DEF StopQueue
  <2>5. /\ stopper'[c].i = q /\ stopper'[c].dropped = dropped
        /\ \A d \in StopCallers \ {c} : stopper'[d] = stopper[d]
    BY <1>0, <2>1, <2>4 DEF StopRecords
  <2>6. stopper[c].dropped = <<>>
    BY <2>2 DEF ChargeInv
  <2>7. CASE stopper[c].finish
    <3>1. UNCHANGED innerQueue
      BY <1>1, <2>7 DEF StopQueue, Stop
    <3>2. KeepsDrains(StopCallers)
      BY <2>4, <2>5, <2>6, <2>7 DEF KeepsDrains
    <3>3. QED  BY <2>2, <2>3, <3>1, <3>2 DEF ChargesStay, ChargeStep
  <2>8. CASE ~stopper[c].finish
    <3>1. innerQueue' = [innerQueue EXCEPT ![q] = <<>>]
      BY <1>1, <2>1, <2>8 DEF StopQueue, Stop
    <3>2. KeepsDrains(StopCallers \ {c})
      BY <2>5 DEF KeepsDrains
    <3>3. \A t \in Tasks : t \in Queued(q) => fate'[t] = "dropped"
      BY <1>1, <2>1, <2>8 DEF StopQueue, Queued
    <3>4. Drains(c, q)
      BY <2>1, <2>2, <2>3, <2>4, <2>5, <2>8, <3>1, <3>2, <3>3 DEF Drains
    <3>5. QED  BY <3>4 DEF ChargeStep
  <2>9. QED  BY <2>7, <2>8
<1>2. ASSUME NEW c \in StopCallers, RefundDropped(c)
      PROVE  ChargeStep
  <2>1. PICK q \in Queues : q = stopper[c].i
    BY <1>2 DEF RefundDropped, PoolInv, StopOK
  <2>2. /\ stopper[c].dropped # <<>>
        /\ stopper' = [stopper EXCEPT ![c].dropped = Tail(@)]
        /\ load' = [load EXCEPT ![q] = @ - Duration[Head(stopper[c].dropped)]]
        /\ UNCHANGED <<gen, at, task, innerQueue, leaked>>
    BY <1>2, <2>1 DEF RefundDropped, queueVars
  <2>3. /\ stopper'[c].i = q /\ stopper'[c].dropped = Tail(stopper[c].dropped)
        /\ \A d \in StopCallers \ {c} : stopper'[d] = stopper[d]
    BY <1>0, <2>1, <2>2 DEF StopRecords
  <2>4. KeepsDrains(StopCallers \ {c})
    BY <2>3 DEF KeepsDrains
  <2>5. Refunds(c, q)
    BY <2>1, <2>2, <2>3, <2>4, SamePushesKept, WakingKeepsHands DEF Refunds
  <2>6. QED  BY <2>5 DEF ChargeStep
<1>3. ASSUME NEW c \in StopCallers,
             NextQueue(c) \/ JoinWorkers(c) \/ \E finish \in BOOLEAN : StopCall(c, finish)
      PROVE  ChargeStep
  <2>1. UNCHANGED <<gen, at, task, innerQueue, leaked, load>>
    BY <1>3 DEF NextQueue, JoinWorkers, StopCall, queueVars
  <2>2. \A d \in StopCallers \ {c} : stopper'[d] = stopper[d]
    BY <1>0, <1>3 DEF NextQueue, JoinWorkers, StopCall
  <2>3. stopper[c].dropped = <<>>
    BY <1>3 DEF ChargeInv, NextQueue, JoinWorkers, StopCall
  <2>4. stopper'[c].dropped = <<>>
    BY <1>3, OnlyStopQueueDrops
  <2>5. KeepsDrains(StopCallers)
    BY <2>2, <2>3, <2>4 DEF KeepsDrains
  <2>6. QED
    BY <2>1, <2>5, SamePushesKept, WakingKeepsHands DEF ChargesStay, ChargeStep
<1>4. ASSUME NEW c \in PauseCallers, PauseStep(c) \/ PauseCall(c) \/ ResumeCall(c)
      PROVE  ChargeStep
  <2>1. UNCHANGED <<gen, task, stopper, innerQueue, leaked, load>>
    BY <1>4 DEF PauseStep, PauseCall, ResumeCall, BeginCall, PauseExchange, PauseQueue,
                ResumeExchange, ResumeQueue, ResumeNotify, PauseUnchanged, Pause, Resume,
                NotifyAll, queueVars
  <2>2. at' = at \/ \E q \in Queues : WakeAll(q)
    BY <1>4 DEF PauseStep, PauseCall, ResumeCall, BeginCall, PauseExchange, PauseQueue,
                ResumeExchange, ResumeQueue, ResumeNotify, Pause, Resume, NotifyAll,
                queueVars, PoolInv, PauseOK
  <2>3. QED
    BY <2>1, <2>2, SamePushesKept, WakingKeepsHands, SameDrainsKept DEF ChargesStay, ChargeStep
<1>5. QED  BY <1>1, <1>2, <1>3, <1>4 DEF StopStep

\* Every step of the pool does one of these things to the charges.
LEMMA PoolStepIsChargeStep ==
  ASSUME PoolInv, ChargeInv, [Next]_vars
  PROVE  ChargeStep
<1>1. CASE UNCHANGED vars
  <2>1. UNCHANGED <<gen, at, task, stopper, innerQueue, leaked, load>>
    BY <1>1 DEF vars, queueVars, poolVars
  <2>2. QED
    BY <2>1, SamePushesKept, WakingKeepsHands, SameDrainsKept DEF ChargesStay, ChargeStep
<1>2. QED
  BY <1>1, AddingIsChargeStep, WorkingIsChargeStep, ControllingIsChargeStep DEF Next

\* A fate that is settled stays.
LEMMA SettledStays ==
  ASSUME PoolInv, OnceInv, TaskStep,
         NEW t \in Tasks, fate[t] \in {"executed", "dropped", "refused"}
  PROVE  fate'[t] = fate[t]
<1>0. fate \in [Tasks -> Fates]
  BY TaskTypes
<1>1. CASE UNCHANGED fate
  BY <1>1
<1>2. CASE \E u \in Tasks, f \in Fates :
              fate[u] \in {"fresh", "submitted"} /\ fate' = [fate EXCEPT ![u] = f]
  BY <1>0, <1>2
<1>3. ASSUME NEW q \in Queues, Discards(q)
      PROVE  fate'[t] = fate[t]
  <2>1. t \notin Queued(q)
    BY DEF OnceInv, QueuedOnce, InQueue
  <2>2. QED  BY <1>3, <2>1 DEF Discards
<1>4. ASSUME NEW g \in Generators, NEW q \in Queues, Rejects(g, q)
      PROVE  fate'[t] = fate[t]
  <2>1. gen[g].task \in Tasks /\ fate[gen[g].task] = "submitted"
    BY <1>4, TaskTypes DEF Rejects, EndsPlacing, OnceInv, CallsOnce
  <2>2. QED  BY <1>2, <1>4, <2>1 DEF Rejects, Fates
<1>5. ASSUME NEW w \in Workers, Finishes(w)
      PROVE  fate'[t] = fate[t]
  <2>1. task[w] \in Tasks /\ fate[task[w]] = "submitted"
    BY <1>5, TaskTypes DEF Finishes, OnceInv, WorkedOnce
  <2>2. QED  BY <1>2, <1>5, <2>1 DEF Finishes, Fates
<1>6. ASSUME NEW u \in Tasks,
             TurnsAway(u) \/ \E g \in Generators : Submits(g, u)
      PROVE  fate'[t] = fate[t]
  BY <1>2, <1>6 DEF TurnsAway, Submits, Fates
<1>7. QED  BY <1>1, <1>3, <1>4, <1>5, <1>6 DEF TaskStep, Quiet, Enqueues, Counts, Takes

\* The task of a worker that has counted it has been executed.
LEMMA CountedIsExecuted ==
  ASSUME PoolInv, OnceInv, ChargeInv, TaskStep, [Next]_vars,
         NEW w \in Workers, counted'[w]
  PROVE  fate'[task'[w]] = "executed"
<1>0. /\ counted \in [Workers -> BOOLEAN] /\ fate \in [Tasks -> Fates]
      /\ at[w] = "got" => task[w] \in Tasks
      /\ counted[w] => at[w] = "got"
      /\ task \in [Workers -> Tasks \cup {NoTask}]
  BY DEF PoolInv, LoopOK, CountersOK, QueueTypeOK
<1>1. ASSUME counted[w], task'[w] = task[w]
      PROVE  fate'[task'[w]] = "executed"
  BY <1>0, <1>1, SettledStays DEF ChargeInv
<1>2. CASE UNCHANGED <<counted, task>>
  BY <1>1, <1>2
<1>3. ASSUME NEW v \in Workers, LoopStep(v) \/ SpuriousInLoop(v)
      PROVE  fate'[task'[w]] = "executed"
  <2>1. CASE CompleteTask(v)
    <3>1. at[v] = "got" /\ UNCHANGED task
      BY <2>1 DEF CompleteTask, queueVars
    <3>2. v # w => counted'[w] = counted[w]
      BY <1>0, <2>1 DEF CompleteTask
    <3>3. v = w => fate'[task[w]] = "executed"
      BY <1>0, <2>1, <3>1 DEF CompleteTask
    <3>4. QED  BY <1>1, <3>1, <3>2, <3>3
  <2>2. CASE DischargeTask(v)
    <3>1. UNCHANGED task
      BY <2>2 DEF DischargeTask, PopAgain
    <3>2. counted[w]
      BY <1>0, <2>2 DEF DischargeTask
    <3>3. QED  BY <1>1, <3>1, <3>2
  <2>3. CASE PopTask(v) /\ UNCHANGED poolVars
    <3>1. counted[w] /\ v # w
      BY <1>0, <2>3 DEF PopTask, poolVars
    <3>2. task'[w] = task[w]
      BY <1>0, <2>3, <3>1 DEF PopTask
    <3>3. QED  BY <1>1, <3>1, <3>2
  <2>4. CASE (PopWait(v) \/ PopFails(v) \/ SpuriousWakeup(v)) /\ UNCHANGED poolVars
    BY <1>2, <2>4 DEF PopWait, PopFails, SpuriousWakeup, poolVars
  <2>5. QED  BY <1>3, <2>1, <2>2, <2>3, <2>4 DEF LoopStep, PopInLoop, SpuriousInLoop, Pop
<1>4. CASE \E g \in Generators : AddStep(g) \/ \E t \in Tasks : AddTask(g, t)
  BY <1>2, <1>4 DEF AddStep, AddTask, ScanQueue, ChargeQueue, PushTask, NotifyWorker,
                    CountSubmitted, Push, PushRefused, NotifyOne, queueVars
<1>5. CASE \E c \in StopCallers : StopStep(c) \/ \E finish \in BOOLEAN : StopCall(c, finish)
  BY <1>2, <1>5 DEF StopStep, StopCall, StopQueue, RefundDropped, NextQueue, JoinWorkers, Stop,
                    queueVars
<1>6. CASE \E c \in PauseCallers : PauseStep(c) \/ PauseCall(c) \/ ResumeCall(c)
  BY <1>2, <1>6 DEF PauseStep, PauseCall, ResumeCall, BeginCall, PauseExchange, PauseQueue,
                    ResumeExchange, ResumeQueue, ResumeNotify, PauseUnchanged, Pause, Resume,
                    NotifyAll, queueVars
<1>7. CASE UNCHANGED vars
  BY <1>2, <1>7 DEF vars, queueVars, poolVars
<1>8. QED  BY <1>3, <1>4, <1>5, <1>6, <1>7 DEF Next

\* What stop(false) has yet to subtract was dropped, each task once.
DrainOK(c) ==
    /\ stopper[c].dropped # <<>> => stopper[c].pc = "refund"
    /\ Distinct(stopper[c].dropped)
    /\ \A t \in Elements(stopper[c].dropped) : fate[t] = "dropped"

\* stop() drops what it finds in a queue, and subtracts it from the front.
LEMMA DrainsStayOK ==
  ASSUME PoolInv, OnceInv, ChargeInv, TaskStep, [Next]_vars, NEW c \in StopCallers
  PROVE  DrainOK(c)'
<1>0. /\ stopper \in [StopCallers -> StopRecords]
      /\ stopper[c] \in StopRecords /\ stopper[c].dropped \in Seq(Tasks)
  BY DEF PoolInv, StopOK, StopRecords
<1>1. DrainOK(c)
  BY DEF ChargeInv, DrainOK
<1>2. \A t \in Elements(stopper[c].dropped) : t \in Tasks
  <2>1. PICK s \in Seq(Tasks) : s = stopper[c].dropped
    BY <1>0
  <2>2. \A k \in DOMAIN s : s[k] \in Tasks
    OBVIOUS
  <2>3. QED  BY <2>1, <2>2 DEF Elements
<1>3. \A t \in Elements(stopper[c].dropped) : fate'[t] = "dropped"
  BY <1>1, <1>2, SettledStays DEF DrainOK
<1>4. ASSUME stopper'[c] = stopper[c]
      PROVE  DrainOK(c)'
  BY <1>1, <1>3, <1>4 DEF DrainOK, Distinct, Elements
<1>5. ASSUME stopper'[c].dropped = <<>>
      PROVE  DrainOK(c)'
  BY <1>5 DEF DrainOK, Distinct, Elements
<1>6. CASE StopQueue(c)
  <2>1. PICK q \in Queues : q = stopper[c].i
    BY <1>6 DEF StopQueue, PoolInv, StopOK
  <2>2. PICK dropped :
          /\ stopper' = [stopper EXCEPT ![c].pc = "refund", ![c].dropped = dropped]
          /\ dropped = IF stopper[c].finish THEN <<>> ELSE innerQueue[q]
    BY <1>6, <2>1 DEF StopQueue
  <2>3. stopper'[c].pc = "refund" /\ stopper'[c].dropped = dropped
    BY <1>0, <2>2 DEF StopRecords
  <2>4. CASE stopper[c].finish
    BY <1>5, <2>2, <2>3, <2>4
  <2>5. CASE ~stopper[c].finish
    <3>1. dropped = innerQueue[q] /\ Distinct(dropped)
      BY <2>2, <2>5 DEF OnceInv, QueuedOnce
    <3>2. \A t \in Tasks : t \in Queued(q) => fate'[t] = "dropped"
      BY <1>6, <2>1, <2>5 DEF StopQueue, Queued
    <3>3. \A t \in Elements(dropped) : fate'[t] = "dropped"
      BY <3>1, <3>2, TaskTypes DEF Elements, Queued
    <3>4. QED  BY <2>3, <3>1, <3>3 DEF DrainOK, Distinct, Elements
  <2>6. QED  BY <2>4, <2>5
<1>7. CASE RefundDropped(c)
  <2>1. PICK s \in Seq(Tasks) : s = stopper[c].dropped
    BY <1>0
  <2>2. /\ stopper[c].pc = "refund" /\ s # <<>>
        /\ stopper' = [stopper EXCEPT ![c].dropped = Tail(s)]
    BY <1>7, <2>1 DEF RefundDropped
  <2>3. stopper'[c].pc = "refund" /\ stopper'[c].dropped = Tail(s)
    BY <1>0, <2>2 DEF StopRecords
  <2>4. Distinct(Tail(s)) /\ Elements(Tail(s)) \subseteq Elements(s)
    BY <1>1, <2>1, <2>2, TailElements DEF DrainOK
  <2>5. QED  BY <1>3, <2>1, <2>3, <2>4 DEF DrainOK, Distinct, Elements
<1>8. CASE NextQueue(c) \/ JoinWorkers(c) \/ \E finish \in BOOLEAN : StopCall(c, finish)
  BY <1>5, <1>8, OnlyStopQueueDrops
<1>9. ASSUME NEW d \in StopCallers, d # c,
             StopStep(d) \/ \E finish \in BOOLEAN : StopCall(d, finish)
      PROVE  stopper'[c] = stopper[c]
  BY <1>0, <1>9 DEF StopStep, StopCall, StopQueue, RefundDropped, NextQueue, JoinWorkers
<1>10. CASE ~\E d \in StopCallers : StopStep(d) \/ \E finish \in BOOLEAN : StopCall(d, finish)
  BY <1>4, <1>10, StoppedQueueOnlyShrinks
<1>11. QED  BY <1>4, <1>6, <1>7, <1>8, <1>9, <1>10 DEF StopStep

\* ChargeInv is inductive, next to OnceInv.
LEMMA ChargeHolds == SafetySpec => []ChargeInv
<1>1. Init => ChargeInv
  BY DEF Init, StopIdle, ChargeInv, Distinct, Elements
<1>2. PoolInv /\ OnceInv /\ ChargeInv /\ [Next]_vars => ChargeInv'
  <2> SUFFICES ASSUME PoolInv, OnceInv, ChargeInv, [Next]_vars
               PROVE  ChargeInv'
    OBVIOUS
  <2>1. TaskStep
    BY PoolStepIsTaskStep
  <2>2. \A w \in Workers : counted'[w] => fate'[task'[w]] = "executed"
    BY <2>1, CountedIsExecuted
  <2>3. \A c \in StopCallers : DrainOK(c)'
    BY <2>1, DrainsStayOK
  <2>4. QED  BY <2>2, <2>3 DEF ChargeInv, DrainOK
<1>3. QED  BY <1>1, <1>2, PoolInvHolds, OnceHolds, PTL DEF SafetySpec

(* The total duration, by its units.                                           *)

Units(S) == UNION {{t} \X (1 .. Duration[t]) : t \in S}

\* One task has as many units as its duration.
LEMMA UnitsOfOne ==
  ASSUME NEW t \in Tasks
  PROVE  LET U == {t} \X (1 .. Duration[t])
         IN  IsFiniteSet(U) /\ Cardinality(U) = Duration[t] /\ Duration[t] \in Nat
<1>1. PICK n \in Nat \ {0} : n = Duration[t]
  BY DurationAssumption
<1>2. IsFiniteSet(1 .. n) /\ Cardinality(1 .. n) = n
  BY FS_Interval
<1>3. IsFiniteSet({t}) /\ Cardinality({t}) = 1
  BY FS_Singleton
<1> DEFINE I == 1 .. n
           T == {t}
<1>4. IsFiniteSet(T \X I) /\ Cardinality(T \X I) = Cardinality(T) * Cardinality(I)
  <2> HIDE DEF I, T
  <2>1. IsFiniteSet(T) /\ IsFiniteSet(I)
    BY <1>2, <1>3 DEF I, T
  <2>2. QED  BY <2>1, FS_Product
<1>5. Cardinality(T) * Cardinality(I) = n
  BY <1>2, <1>3
<1>6. QED  BY <1>1, <1>4, <1>5

\* A task that joins the others adds its duration.
LEMMA UnitsMore ==
  ASSUME NEW S \in SUBSET Tasks, IsFiniteSet(Units(S)), NEW t \in Tasks, t \notin S
  PROVE  /\ IsFiniteSet(Units(S \cup {t}))
         /\ TotalDuration(S) \in Nat
         /\ TotalDuration(S \cup {t}) = TotalDuration(S) + Duration[t]
<1> DEFINE U == {t} \X (1 .. Duration[t])
<1>1. IsFiniteSet(U) /\ Cardinality(U) = Duration[t] /\ Duration[t] \in Nat
  BY UnitsOfOne
<1>2. Units(S \cup {t}) = Units(S) \cup U
  BY DEF Units
<1>3. Units(S) \cap U = {}
  BY DEF Units
<1> HIDE DEF U
<1>4. /\ IsFiniteSet(Units(S) \cup U)
      /\ Cardinality(Units(S) \cup U)
           = Cardinality(Units(S)) + Cardinality(U) - Cardinality(Units(S) \cap U)
  BY <1>1, FS_Union
<1>5. Cardinality(Units(S) \cap U) = 0 /\ Cardinality(Units(S)) \in Nat
  BY <1>3, FS_EmptySet, FS_CardinalityType
<1>6. /\ TotalDuration(S) = Cardinality(Units(S))
      /\ TotalDuration(S \cup {t}) = Cardinality(Units(S \cup {t}))
  BY DEF TotalDuration, Units
<1>7. TotalDuration(S) \in Nat /\ Cardinality(U) \in Nat
  BY <1>1, <1>5, <1>6
<1>8. TotalDuration(S \cup {t}) = TotalDuration(S) + Cardinality(U)
  <2>1. TotalDuration(S \cup {t}) = Cardinality(Units(S) \cup U)
    BY <1>2, <1>6
  <2>2. PICK a \in Nat, b \in Nat : a = Cardinality(Units(S)) /\ b = Cardinality(U)
    BY <1>5, <1>7
  <2>3. Cardinality(Units(S) \cup U) = a + b
    BY <1>4, <1>5, <2>2
  <2>4. QED  BY <1>6, <2>1, <2>2, <2>3
<1>9. QED  BY <1>1, <1>2, <1>4, <1>7, <1>8

\* A task that leaves the others takes its duration with it.
LEMMA UnitsLess ==
  ASSUME NEW S \in SUBSET Tasks, IsFiniteSet(Units(S)), NEW t \in S
  PROVE  /\ IsFiniteSet(Units(S \ {t}))
         /\ TotalDuration(S) = TotalDuration(S \ {t}) + Duration[t]
         /\ TotalDuration(S \ {t}) \in Nat
<1>1. Units(S \ {t}) \in SUBSET Units(S)
  BY DEF Units
<1>2. IsFiniteSet(Units(S \ {t}))
  BY <1>1, FS_Subset
<1>3. (S \ {t}) \cup {t} = S
  OBVIOUS
<1>4. /\ TotalDuration(S \ {t}) \in Nat
      /\ TotalDuration((S \ {t}) \cup {t}) = TotalDuration(S \ {t}) + Duration[t]
  BY <1>2, UnitsMore
<1>5. QED  BY <1>2, <1>3, <1>4

-------------------------------------------------------------------------------
(* The tasks charged to a queue.                                               *)

Charged(q) == Queued(q) \cup InHand(q) \cup OnTheWay(q) \cup Draining(q) \cup leaked[q]

\* The worker of a queue is the one of its number.
LEMMA HandOfQueue ==
  ASSUME NEW q \in Queues
  PROVE  /\ InHand(q) = IF at[q] = "got" THEN {task[q]} ELSE {}
         /\ InHand(q)' = IF at'[q] = "got" THEN {task'[q]} ELSE {}
<1>1. WorkersOf(q) = {q}
  BY WorkerShapeAssumption DEF WorkersOf
<1>2. QED  BY <1>1 DEF InHand

\* The charges that a step leaves alone.
LEMMA ChargesKept ==
  ASSUME NEW q \in Queues
  PROVE  /\ KeepsPushes(Generators) => OnTheWay(q)' = OnTheWay(q)
         /\ KeepsHands(Workers) \/ (\E w \in Workers : w # q /\ KeepsHands(Workers \ {w}))
              => InHand(q)' = InHand(q)
         /\ KeepsDrains(StopCallers) => Draining(q)' = Draining(q)
         /\ innerQueue'[q] = innerQueue[q] => Queued(q)' = Queued(q)
<1>1. KeepsPushes(Generators) => OnTheWay(q)' = OnTheWay(q)
  BY DEF KeepsPushes, Pushing, OnTheWay
<1>2. KeepsHands(Workers) \/ (\E w \in Workers : w # q /\ KeepsHands(Workers \ {w}))
        => InHand(q)' = InHand(q)
  BY HandOfQueue, WorkerShapeAssumption DEF KeepsHands
<1>3. KeepsDrains(StopCallers) => Draining(q)' = Draining(q)
  BY DEF KeepsDrains, Draining
<1>4. innerQueue'[q] = innerQueue[q] => Queued(q)' = Queued(q)
  BY DEF Queued
<1>5. QED  BY <1>1, <1>2, <1>3, <1>4

\* Where the charged tasks are when they are not in a queue, and what has become
\* of them.
LEMMA ChargedFates ==
  ASSUME PoolInv, OnceInv, ChargeInv, NEW q \in Queues
  PROVE  /\ Charged(q) \subseteq Tasks
         /\ \A t \in Queued(q) : fate[t] = "submitted" /\ ~InWork(t)
         /\ \A t \in InHand(q) : fate[t] = "submitted" => InWork(t)
         /\ \A t \in InHand(q) : fate[t] \in {"submitted", "executed"}
         /\ \A t \in OnTheWay(q) : fate[t] = "submitted" /\ ~InQueue(t) /\ ~InWork(t)
         /\ \A t \in Draining(q) : fate[t] = "dropped"
         /\ \A t \in leaked[q] : fate[t] = "refused"
<1>1. Queued(q) \subseteq Tasks /\ leaked[q] \subseteq Tasks
  BY TaskTypes
<1>2. \A t \in Queued(q) : fate[t] = "submitted" /\ ~InWork(t)
  BY <1>1 DEF OnceInv, QueuedOnce, InQueue
<1>3. \A t \in leaked[q] : fate[t] = "refused"
  BY DEF OnceInv, LeakedAreRefused
<1>4. /\ InHand(q) \subseteq Tasks
      /\ \A t \in InHand(q) : fate[t] = "submitted" => InWork(t)
      /\ \A t \in InHand(q) : fate[t] \in {"submitted", "executed"}
  <2>1. CASE at[q] # "got"
    BY <2>1, HandOfQueue
  <2>2. CASE at[q] = "got"
    <3>1. q \in Workers /\ task[q] \in Tasks /\ InHand(q) = {task[q]}
      BY <2>2, HandOfQueue, WorkerShapeAssumption DEF PoolInv, LoopOK
    <3>2. CASE counted[q]
      BY <3>1, <3>2 DEF ChargeInv
    <3>3. CASE ~counted[q]
      <4>1. Running(q)
        BY <2>2, <3>3 DEF Running
      <4>2. QED  BY <3>1, <4>1 DEF InWork, OnceInv, WorkedOnce
    <3>4. QED  BY <3>2, <3>3
  <2>3. QED  BY <2>1, <2>2
<1>5. /\ OnTheWay(q) \subseteq Tasks
      /\ \A t \in OnTheWay(q) : fate[t] = "submitted" /\ ~InQueue(t) /\ ~InWork(t)
  <2>1. ASSUME NEW g \in Generators, gen[g].pc = "push"
        PROVE  /\ gen[g].task \in Tasks /\ fate[gen[g].task] = "submitted"
               /\ ~InQueue(gen[g].task) /\ ~InWork(gen[g].task)
    BY <2>1, TaskTypes DEF Placing, OnceInv, CallsOnce
  <2>2. QED  BY <2>1 DEF OnTheWay
<1>6. Draining(q) \subseteq Tasks /\ \A t \in Draining(q) : fate[t] = "dropped"
  <2>1. ASSUME NEW c \in StopCallers, NEW t \in Elements(stopper[c].dropped)
        PROVE  t \in Tasks /\ fate[t] = "dropped"
    <3>1. PICK s \in Seq(Tasks) : s = stopper[c].dropped
      BY DEF PoolInv, StopOK, StopRecords
    <3>2. \A k \in DOMAIN s : s[k] \in Tasks
      OBVIOUS
    <3>3. QED  BY <2>1, <3>1, <3>2 DEF Elements, ChargeInv
  <2>2. QED  BY <2>1 DEF Draining, Elements
<1>7. QED  BY <1>1, <1>2, <1>3, <1>4, <1>5, <1>6 DEF Charged

\* The charges of a queue and its load move together.
ChargesAndLoadMove(q) ==
    \/ Charged(q)' = Charged(q) /\ load'[q] = load[q]
    \/ \E t \in Tasks \ Charged(q) :
          Charged(q)' = Charged(q) \cup {t} /\ load'[q] = load[q] + Duration[t]
    \/ \E t \in Charged(q) :
          Charged(q)' = Charged(q) \ {t} /\ load'[q] = load[q] - Duration[t]

\* addTask() charges a task that is charged to no queue yet.
LEMMA ChargingMoves ==
  ASSUME PoolInv, OnceInv, ChargeInv,
         NEW g \in Generators, NEW p \in Queues, Charges(g, p), NEW q \in Queues
  PROVE  ChargesAndLoadMove(q)
<1> DEFINE t == gen[g].task
<1>0. load \in [Queues -> Int]
  BY DEF PoolInv, CountersOK
<1>1. /\ InHand(q)' = InHand(q) /\ Draining(q)' = Draining(q) /\ Queued(q)' = Queued(q)
      /\ leaked'[q] = leaked[q]
  BY ChargesKept DEF Charges
<1>2. OnTheWay(q)' = OnTheWay(q) \cup (IF q = p THEN {t} ELSE {})
  BY DEF Charges, KeepsPushes, Pushing, OnTheWay
<1>3. Placing(g) /\ t \in Tasks
  BY TaskTypes DEF Charges, Placing
<1>4. fate[t] = "submitted" /\ ~InQueue(t) /\ ~InWork(t)
  BY <1>3 DEF OnceInv, CallsOnce
<1>5. t \notin OnTheWay(q)
  <2>1. ASSUME NEW h \in Generators, gen[h].pc = "push", gen[h].task = t
        PROVE  FALSE
    <3>1. g = h
      BY <1>3, <2>1 DEF Placing, OnceInv, CallsOnce
    <3>2. QED  BY <2>1, <3>1 DEF Charges
  <2>2. QED  BY <2>1 DEF OnTheWay
<1>6. t \notin Charged(q)
  BY <1>4, <1>5, ChargedFates DEF Charged, InQueue
<1>7. load'[q] = IF q = p THEN load[q] + Duration[t] ELSE load[q]
  BY <1>0 DEF Charges
<1> HIDE DEF t
<1>8. CASE q = p
  <2>1. Charged(q)' = Charged(q) \cup {t}
    BY <1>1, <1>2, <1>8 DEF Charged
  <2>2. QED  BY <1>3, <1>6, <1>7, <1>8, <2>1 DEF ChargesAndLoadMove
<1>9. CASE q # p
  BY <1>1, <1>2, <1>7, <1>9 DEF Charged, ChargesAndLoadMove
<1>10. QED  BY <1>8, <1>9

\* A charged task that is pushed, or refused, stays charged.
LEMMA LandingMoves ==
  ASSUME PoolInv, OnceInv, ChargeInv,
         NEW g \in Generators, NEW p \in Queues, Lands(g, p), NEW q \in Queues
  PROVE  ChargesAndLoadMove(q)
<1> DEFINE t == gen[g].task
<1>0. innerQueue \in [Queues -> Seq(Tasks)] /\ leaked \in [Queues -> SUBSET Tasks]
  BY TaskTypes
<1>1. InHand(q)' = InHand(q) /\ Draining(q)' = Draining(q) /\ load'[q] = load[q]
  BY ChargesKept DEF Lands
<1>2. Placing(g) /\ t \in Tasks
  BY TaskTypes DEF Lands, Pushing, Placing
<1>3. OnTheWay(q) = OnTheWay(q)' \cup (IF q = p THEN {t} ELSE {})
  BY DEF Lands, KeepsPushes, Pushing, OnTheWay
<1>4. Queued(q)' \cup leaked'[q] = (Queued(q) \cup leaked[q]) \cup (IF q = p THEN {t} ELSE {})
  <2>1. CASE innerQueue' = [innerQueue EXCEPT ![p] = Append(@, t)] /\ UNCHANGED leaked
    <3>1. PICK s \in Seq(Tasks) : s = innerQueue[p]
      BY <1>0
    <3>2. Elements(Append(s, t)) = Elements(s) \cup {t}
      BY <1>2, AppendElement
    <3>3. innerQueue'[q] = IF q = p THEN Append(s, t) ELSE innerQueue[q]
      BY <1>0, <2>1, <3>1
    <3>4. Queued(q)' = Queued(q) \cup (IF q = p THEN {t} ELSE {})
      <4>1. Queued(q) = Elements(innerQueue[q]) /\ Queued(q)' = Elements(innerQueue'[q])
        BY DEF Queued, Elements
      <4>2. QED  BY <3>1, <3>2, <3>3, <4>1
    <3>5. QED  BY <2>1, <3>4
  <2>2. CASE leaked' = [leaked EXCEPT ![p] = @ \cup {t}] /\ UNCHANGED innerQueue
    <3>1. Queued(q)' = Queued(q)
      BY <2>2 DEF Queued
    <3>2. leaked'[q] = leaked[q] \cup (IF q = p THEN {t} ELSE {})
      BY <1>0, <2>2
    <3>3. QED  BY <3>1, <3>2
  <2>3. QED  BY <2>1, <2>2 DEF Lands
<1> HIDE DEF t
<1>5. Charged(q)' = Charged(q)
  BY <1>1, <1>3, <1>4 DEF Charged
<1>6. QED  BY <1>1, <1>5 DEF ChargesAndLoadMove

\* A worker takes a task with its charge, and gives the charge back with the task.
LEMMA HandMoves ==
  ASSUME PoolInv, OnceInv, ChargeInv,
         NEW w \in Workers, Grasps(w) \/ Discharges(w), NEW q \in Queues
  PROVE  ChargesAndLoadMove(q)
<1>0. /\ innerQueue \in [Queues -> Seq(Tasks)] /\ load \in [Queues -> Int]
      /\ w \in Queues
  BY TaskTypes, WorkerShapeAssumption DEF PoolInv, CountersOK
<1>1. OnTheWay(q)' = OnTheWay(q) /\ Draining(q)' = Draining(q) /\ leaked'[q] = leaked[q]
  BY ChargesKept DEF Grasps, Discharges
<1>2. CASE q # w
  <2>1. InHand(q)' = InHand(q)
    BY <1>2, ChargesKept DEF Grasps, Discharges
  <2>2. innerQueue'[q] = innerQueue[q] /\ load'[q] = load[q]
    BY <1>0, <1>2 DEF Grasps, Discharges
  <2>3. Queued(q)' = Queued(q)
    BY <2>2, ChargesKept
  <2>4. QED  BY <1>1, <2>1, <2>2, <2>3 DEF Charged, ChargesAndLoadMove
<1>3. CASE q = w /\ Grasps(w)
  <2>1. PICK s \in Seq(Tasks) : s = innerQueue[w]
    BY <1>0
  <2>2. s # <<>> /\ Distinct(s) /\ innerQueue'[w] = Tail(s)
    BY <1>0, <1>3, <2>1 DEF Grasps, OnceInv, QueuedOnce
  <2>3. Head(s) \in Elements(s) /\ Elements(Tail(s)) = Elements(s) \ {Head(s)}
    BY <2>2, TailElements
  <2>4. Head(s) \in Queued(q) /\ Queued(q)' = Queued(q) \ {Head(s)}
    <3>1. Queued(q) = Elements(innerQueue[q]) /\ Queued(q)' = Elements(innerQueue'[q])
      BY DEF Queued, Elements
    <3>2. QED  BY <1>3, <2>1, <2>2, <2>3, <3>1
  <2>5. InHand(q) = {} /\ InHand(q)' = {Head(s)}
    BY <1>3, <2>1, HandOfQueue DEF Grasps
  <2>6. Charged(q)' = Charged(q)
    BY <1>1, <2>4, <2>5 DEF Charged
  <2>7. QED  BY <1>3, <2>6 DEF Grasps, ChargesAndLoadMove
<1>4. CASE q = w /\ Discharges(w)
  <2> DEFINE t == task[w]
  <2>1. /\ InHand(q) = {t} /\ InHand(q)' = {} /\ Queued(q)' = Queued(q)
        /\ fate[t] = "executed"
    BY <1>4, HandOfQueue, ChargesKept DEF Discharges, ChargeInv
  <2>2. load'[q] = load[q] - Duration[t]
    BY <1>0, <1>4 DEF Discharges
  <2> HIDE DEF t
  <2>3. t \notin Queued(q) \cup OnTheWay(q) \cup Draining(q) \cup leaked[q]
    BY <2>1, ChargedFates
  <2>4. t \in Charged(q) /\ Charged(q)' = Charged(q) \ {t}
    BY <1>1, <2>1, <2>3 DEF Charged
  <2>5. QED  BY <2>2, <2>4 DEF ChargesAndLoadMove
<1>5. QED  BY <1>2, <1>3, <1>4

\* stop(false) takes the tasks over with their charges, and gives these back one
\* by one.
LEMMA DrainMoves ==
  ASSUME PoolInv, OnceInv, ChargeInv, ShutdownInv,
         NEW c \in StopCallers, NEW p \in Queues, Drains(c, p) \/ Refunds(c, p),
         NEW q \in Queues
  PROVE  ChargesAndLoadMove(q)
<1>0. /\ innerQueue \in [Queues -> Seq(Tasks)] /\ load \in [Queues -> Int]
      /\ stopper \in [StopCallers -> StopRecords] /\ stopper[c].dropped \in Seq(Tasks)
  BY TaskTypes DEF PoolInv, CountersOK, StopOK, StopRecords
<1>1. OnTheWay(q)' = OnTheWay(q) /\ InHand(q)' = InHand(q) /\ leaked'[q] = leaked[q]
  BY ChargesKept DEF Drains, Refunds
<1>2. \A d \in StopCallers \ {c} : stopper[d].dropped # <<>> => ~StopWinner(c)
  BY DEF ChargeInv, ShutdownInv, StopWinner
<1>3. StopWinner(c)
  BY DEF Drains, Refunds, ChargeInv, StopWinner
<1>4. /\ stopper[c].i = p /\ stopper'[c].i = p
      /\ \A d \in StopCallers \ {c} : stopper[d].dropped = <<>> /\ stopper'[d].dropped = <<>>
  BY <1>2, <1>3 DEF Drains, Refunds, KeepsDrains
<1>5. /\ Draining(q) = IF q = p THEN Elements(stopper[c].dropped) ELSE {}
      /\ Draining(q)' = IF q = p THEN Elements(stopper'[c].dropped) ELSE {}
  <2>1. Elements(<<>>) = {}
    BY DEF Elements
  <2>2. Draining(q) = UNION {Elements(stopper[d].dropped) :
                               d \in {e \in StopCallers : stopper[e].i = q}}
    BY DEF Draining, Elements
  <2>3. Draining(q)' = UNION {Elements(stopper'[d].dropped) :
                                d \in {e \in StopCallers : stopper'[e].i = q}}
    BY DEF Draining, Elements
  <2>4. Draining(q) = IF q = p THEN Elements(stopper[c].dropped) ELSE {}
    BY <1>4, <2>1, <2>2
  <2>5. Draining(q)' = IF q = p THEN Elements(stopper'[c].dropped) ELSE {}
    BY <1>4, <2>1, <2>3
  <2>6. QED  BY <2>4, <2>5
<1>6. CASE Drains(c, p)
  <2>1. stopper[c].dropped = <<>> /\ stopper'[c].dropped = innerQueue[p] /\ load'[q] = load[q]
    BY <1>6 DEF Drains, ChargeInv
  <2>2. innerQueue'[q] = IF q = p THEN <<>> ELSE innerQueue[q]
    BY <1>0, <1>6 DEF Drains
  <2>3. Elements(<<>>) = {} /\ Queued(q) = Elements(innerQueue[q])
        /\ Queued(q)' = Elements(innerQueue'[q])
    BY DEF Elements, Queued
  <2>4. Charged(q)' = Charged(q)
    BY <1>1, <1>5, <2>1, <2>2, <2>3 DEF Charged
  <2>5. QED  BY <2>1, <2>4 DEF ChargesAndLoadMove
<1>7. CASE Refunds(c, p)
  <2>1. PICK s \in Seq(Tasks) : s = stopper[c].dropped
    BY <1>0
  <2>2. s # <<>> /\ Distinct(s) /\ stopper'[c].dropped = Tail(s)
    BY <1>7, <2>1 DEF Refunds, ChargeInv
  <2>3. Head(s) \in Elements(s) /\ Elements(Tail(s)) = Elements(s) \ {Head(s)}
    BY <2>2, TailElements
  <2>4. Queued(q)' = Queued(q)
    BY <1>7, ChargesKept DEF Refunds
  <2>5. load'[q] = IF q = p THEN load[q] - Duration[Head(s)] ELSE load[q]
    BY <1>0, <1>7, <2>1 DEF Refunds
  <2>6. CASE q = p
    <3>1. PICK t : t = Head(s)
      OBVIOUS
    <3>2. t \in Draining(q) /\ Draining(q)' = Draining(q) \ {t}
      BY <1>5, <2>1, <2>2, <2>3, <2>6, <3>1
    <3>3. t \notin Queued(q) \cup InHand(q) \cup OnTheWay(q) \cup leaked[q]
      BY <3>2, ChargedFates
    <3>4. t \in Charged(q) /\ Charged(q)' = Charged(q) \ {t}
      BY <1>1, <2>4, <3>2, <3>3 DEF Charged
    <3>5. QED  BY <2>5, <2>6, <3>1, <3>4 DEF ChargesAndLoadMove
  <2>7. CASE q # p
    BY <1>1, <1>5, <2>4, <2>5, <2>7 DEF Charged, ChargesAndLoadMove
  <2>8. QED  BY <2>6, <2>7
<1>8. QED  BY <1>6, <1>7

\* However many tasks there are, only finitely many units are charged to a queue.
LoadInv ==
    \A q \in Queues : /\ IsFiniteSet(Units(Charged(q)))
                      /\ load[q] = TotalDuration(Charged(q))

\* Nothing is charged to begin with.
LEMMA LoadInit == Init => LoadInv
<1> SUFFICES ASSUME Init, NEW q \in Queues
             PROVE  IsFiniteSet(Units(Charged(q))) /\ load[q] = TotalDuration(Charged(q))
  BY DEF LoadInv
<1>1. Queued(q) = {} /\ InHand(q) = {} /\ OnTheWay(q) = {} /\ leaked[q] = {}
  BY WorkerShapeAssumption DEF Init, QueueInit, Queued, InHand, OnTheWay, WorkersOf, GenIdle
<1>2. Draining(q) = {}
  BY DEF Init, StopIdle, Draining
<1>3. Charged(q) = {} /\ load[q] = 0
  BY <1>1, <1>2 DEF Charged, Init
<1>4. Units({}) = {} /\ TotalDuration({}) = Cardinality(Units({}))
  BY DEF Units, TotalDuration
<1>5. QED  BY <1>3, <1>4, FS_EmptySet

\* Every step keeps the loads the durations of what is charged.
LEMMA LoadStep ==
  ASSUME PoolInv, OnceInv, ChargeInv, ShutdownInv, LoadInv, ChargeStep
  PROVE  LoadInv'
<1> SUFFICES ASSUME NEW q \in Queues
             PROVE  IsFiniteSet(Units(Charged(q)))' /\ load'[q] = TotalDuration(Charged(q)')
  BY DEF LoadInv, TotalDuration
<1>1. ChargesAndLoadMove(q)
  <2>1. CASE ChargesStay
    <3>1. UNCHANGED <<leaked, load, innerQueue>>
      BY <2>1 DEF ChargesStay
    <3>2. Charged(q)' = Charged(q)
      BY <2>1, <3>1, ChargesKept DEF ChargesStay, Charged
    <3>3. QED  BY <3>1, <3>2 DEF ChargesAndLoadMove
  <2>2. QED
    BY <2>1, ChargingMoves, LandingMoves, HandMoves, DrainMoves DEF ChargeStep
<1>2. PICK S \in SUBSET Tasks : S = Charged(q)
  BY ChargedFates
<1>3. IsFiniteSet(Units(S)) /\ load[q] = TotalDuration(S)
  BY <1>2 DEF LoadInv
<1>4. PICK T : T = Charged(q)'
  OBVIOUS
<1>5. IsFiniteSet(Units(T)) /\ load'[q] = TotalDuration(T)
  <2>1. CASE T = S /\ load'[q] = load[q]
    BY <1>3, <2>1
  <2>2. ASSUME NEW t \in Tasks \ S, T = S \cup {t}, load'[q] = load[q] + Duration[t]
        PROVE  IsFiniteSet(Units(T)) /\ load'[q] = TotalDuration(T)
    BY <1>3, <2>2, UnitsMore
  <2>3. ASSUME NEW t \in S, T = S \ {t}, load'[q] = load[q] - Duration[t]
        PROVE  IsFiniteSet(Units(T)) /\ load'[q] = TotalDuration(T)
    <3>1. PICK n \in Nat, d \in Nat : n = TotalDuration(S \ {t}) /\ d = Duration[t]
      BY <1>3, UnitsLess, UnitsOfOne
    <3>2. TotalDuration(S) = n + d /\ IsFiniteSet(Units(S \ {t}))
      BY <1>3, <3>1, UnitsLess
    <3>3. QED  BY <1>3, <2>3, <3>1, <3>2
  <2>4. QED  BY <1>1, <1>2, <1>4, <2>1, <2>2, <2>3 DEF ChargesAndLoadMove
<1>6. QED  BY <1>4, <1>5 DEF Units

\* At every moment the load of a queue is the total duration of the tasks charged
\* to it and not given back: a task is charged before it is pushed, the charge
\* goes with it into the queue, into the hands of the worker or of stop(), and
\* is given back once; only the charge of a refused push stays for ever.
LEMMA LoadInvHolds == SafetySpec => []LoadInv
<1>1. PoolInv /\ OnceInv /\ ChargeInv /\ ShutdownInv /\ LoadInv /\ [Next]_vars => LoadInv'
  BY PoolStepIsChargeStep, LoadStep
<1>2. QED
  BY <1>1, LoadInit, PoolInvHolds, OnceHolds, ChargeHolds, ShutdownInvHolds, PTL
  DEF SafetySpec

\* The load counter of every queue is what its tasks add up to.
THEOREM LoadAccountingHolds == SafetySpec => []LoadAccounting
<1>1. LoadInv => LoadAccounting
  BY DEF LoadInv, LoadAccounting, Charged
<1>2. QED  BY <1>1, LoadInvHolds, PTL

\* No load is ever negative, although workers and stop() subtract from a counter that
\* addTask() adds to without a lock: every task is charged before it can be seen by
\* those who subtract it, so the least load is a real one (ThreadPool.h 62-69).
THEOREM LoadsNeverNegative == SafetySpec => [](\A q \in Queues : load[q] \in Nat)
<1>1. LoadInv => \A q \in Queues : load[q] \in Nat
  <2> SUFFICES ASSUME LoadInv, NEW q \in Queues
               PROVE  load[q] \in Nat
    OBVIOUS
  <2>1. IsFiniteSet(Units(Charged(q))) /\ load[q] = TotalDuration(Charged(q))
    BY DEF LoadInv
  <2>2. load[q] = Cardinality(Units(Charged(q)))
    BY <2>1 DEF TotalDuration, Units
  <2>3. QED  BY <2>1, <2>2, FS_CardinalityType
<1>2. QED  BY <1>1, LoadInvHolds, PTL
================================================================================
