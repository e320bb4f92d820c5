---------------------------- MODULE HttpServerProofs ----------------------------
(* The sessions of the HTTP server never belong to the loop and to the pool at   *)
(* once, for any number of sessions and workers, and no request of a client that *)
(* waits for each response gets lost.                                            *)
EXTENDS HttpServer, TaskQueueProofs, SequenceTheorems, FunctionTheorems

(***************************************************************************)
(* The inductive invariant: the list of sessions fits their states, each    *)
(* session that is PROCESSING has one task and no other has any, and the     *)
(* buffers of a session hold what its state says.                            *)
(***************************************************************************)

Live == Open \cup {"FINISHED"}

ListOK ==
    /\ activeSessions \in Seq(Sessions)
    /\ \A j, k \in DOMAIN activeSessions : activeSessions[j] = activeSessions[k] => j = k
    /\ state \in [Sessions -> Live \cup {"none", "closed"}]
    /\ \A s \in Sessions :
          state[s] \in Live <=> \E k \in DOMAIN activeSessions : activeSessions[k] = s

BuffersOK ==
    /\ requestBuffer \in [Sessions -> Seq(Chunks)]
    /\ responseBuffer \in [Sessions -> 0 .. Pieces]
    /\ bytesSent \in [Sessions -> 0 .. Pieces]

\* Only a connection that has been accepted has a session.
ClientOK ==
    /\ wire \in [Sessions -> Seq(Chunks)]
    /\ peer \in [Sessions -> {"away", "pending", "open", "gone"}]
    /\ \A s \in Sessions : state[s] # "none" => peer[s] \in {"open", "gone"}

LoopOK ==
    /\ main \in [pc : {"start", "build", "select", "accept", "serve", "push", "notify",
                       "expire", "stop", "join", "destroy", "ended"}, i : Nat]
    /\ main.pc \in {"serve", "push", "notify", "expire"} => main.i \in DOMAIN activeSessions
    /\ readfds \cup writefds \subseteq Sessions
    /\ main.pc = "destroy" => \A w \in Workers : at[w] = "exited"

PoolOK ==
    /\ responded \in [Workers -> BOOLEAN]
    /\ \A w \in Workers : at[w] = "got" => task[w] \in Sessions

NoTaskOf(s) == Holders(s) = {} /\ QueuedFor(s) = {}

OneTask(s) ==
    \/ state[s] # "PROCESSING" /\ ~Pushing(s) /\ NoTaskOf(s)
    \/ state[s] = "PROCESSING" /\ Pushing(s) /\ NoTaskOf(s)
    \/ /\ state[s] = "PROCESSING" /\ ~Pushing(s)
       /\ \/ QueuedFor(s) = {} /\ \E w \in Workers : Holders(s) = {w}
          \/ Holders(s) = {} /\ \E k : QueuedFor(s) = {k}

\* A worker has written the response of s and not handed s back yet.
Ready(s) == \E w \in Holders(s) : responded[w]

Unsent(s) == bytesSent[s] < responseBuffer[s]
Whole(s)  == Ends(requestBuffer[s]) > 0

ContentOK(s) ==
    /\ state[s] \in {"none", "closed"} => ~Unsent(s) /\ requestBuffer[s] = <<>>
    /\ state[s] = "READING" => ~Unsent(s) /\ ~Whole(s)
    /\ state[s] = "PROCESSING" /\ ~Ready(s) => ~Unsent(s) /\ Whole(s)
    /\ state[s] = "PROCESSING" /\ Ready(s) => Unsent(s)
    /\ state[s] = "SENDING" => Unsent(s)

SessionOK(s) == OneTask(s) /\ ContentOK(s)

HttpInv ==
    /\ QueueTypeOK /\ ExitedMeansDrained
    /\ ListOK /\ BuffersOK /\ ClientOK /\ LoopOK /\ PoolOK
    /\ \A s \in Sessions : SessionOK(s)

\* What a session maps to in the abstract specification.
HandOf(s) ==
    IF state[s] = "none" THEN Handover!Awaited
    ELSE IF state[s] = "closed" THEN Handover!Destroyed
    ELSE IF state[s] = "PROCESSING"
         THEN IF Pushing(s) THEN Handover!Received
              ELSE IF Ready(s) THEN Handover!Responded ELSE Handover!Submitted
         ELSE IF Unsent(s) THEN Handover!Sending ELSE Handover!Reading

Moves(s) == HandOf(s)' = HandOf(s) \/ <<HandOf(s), HandOf(s)'>> \in Handover!Moves

\* A step leaves session s alone; its task may move up in the queue.
Kept(s) ==
    /\ state'[s] = state[s] /\ requestBuffer'[s] = requestBuffer[s]
    /\ bytesSent'[s] = bytesSent[s] /\ responseBuffer'[s] = responseBuffer[s]
    /\ Pushing(s)' <=> Pushing(s)
    /\ Holders(s)' = Holders(s)
    /\ \A w \in Holders(s) : responded'[w] = responded[w]
    /\ QueuedFor(s) = {} => QueuedFor(s)' = {}
    /\ \A k : QueuedFor(s) = {k} => \E j : QueuedFor(s)' = {j}

\* The loop does not come to the push of a task or leave it.
PushKept ==
    \/ UNCHANGED <<main, activeSessions>>
    \/ main.pc # "push" /\ main'.pc # "push"

-------------------------------------------------------------------------------
\* An empty buffer holds no whole request.
LEMMA NoEnds == Ends(<<>>) = 0 /\ ~(Ends(<<>>) > 0)
  <1>1. {k \in DOMAIN <<>> : <<>>[k] = "end"} = {}
    OBVIOUS
  <1> QED  BY <1>1, FS_EmptySet DEF Ends

\* A session that is left alone stays as it should be, and where it is.
LEMMA KeptIsOK ==
    ASSUME NEW s \in Sessions, SessionOK(s), Kept(s)
    PROVE  SessionOK(s)' /\ Moves(s)
  <1>1. OneTask(s)'
    BY DEF SessionOK, OneTask, NoTaskOf, Kept
  <1>2. Ready(s)' <=> Ready(s)
    BY DEF Ready, Kept
  <1>3. (Unsent(s)' <=> Unsent(s)) /\ (Whole(s)' <=> Whole(s))
    BY DEF Unsent, Whole, Ends, Kept
  <1>4. ContentOK(s)'
    BY <1>2, <1>3 DEF SessionOK, ContentOK, Kept
  <1>5. HandOf(s)' = HandOf(s)
    BY <1>2, <1>3 DEF HandOf, Kept
  <1> QED  BY <1>1, <1>4, <1>5 DEF SessionOK, Moves

\* The task that is about to be pushed stays the same, or there is none.
LEMMA PushingKept ==
    ASSUME PushKept, NEW s
    PROVE  Pushing(s)' <=> Pushing(s)
  BY DEF PushKept, Pushing, Current

\* A step that leaves all the sessions alone.
LEMMA QuietKept ==
    ASSUME UNCHANGED <<innerQueue, task, state, requestBuffer, bytesSent, responseBuffer>>,
           PushKept,
           \A w \in Workers : at'[w] = "got" <=> at[w] = "got",
           \A w \in Workers : at[w] = "got" => responded'[w] = responded[w],
           NEW s \in Sessions
    PROVE  Kept(s)
  <1>1. Holders(s)' = Holders(s) /\ QueuedFor(s)' = QueuedFor(s)
    BY DEF Holders, QueuedFor
  <1>2. \A w \in Holders(s) : responded'[w] = responded[w]
    BY DEF Holders
  <1> QED  BY <1>1, <1>2, PushingKept DEF Kept

\* The step of the loop to the next session or to the next iteration.
LEMMA GoToOK ==
    ASSUME NEW i \in Nat \ {0}, NEW q \in Seq(Sessions), GoTo(i, q),
           readfds \cup writefds \subseteq Sessions
    PROVE  /\ main' \in [pc : {"serve", "build"}, i : Nat] /\ main'.pc # "push"
           /\ main'.pc = "serve" => main'.i \in DOMAIN q
           /\ readfds' \cup writefds' \subseteq Sessions
  <1>1. CASE i <= Len(q)
    <2>1. main' = [pc |-> "serve", i |-> i] /\ UNCHANGED <<readfds, writefds>>
      BY <1>1 DEF GoTo
    <2>2. i \in DOMAIN q
      BY <1>1
    <2> QED  BY <2>1, <2>2
  <1>2. CASE ~(i <= Len(q))
    BY <1>2 DEF GoTo
  <1> QED  BY <1>1, <1>2

\* No session is in the list twice; a session is in the list.
Distinct(q) == \A j, k \in DOMAIN q : q[j] = q[k] => j = k
Holds(q, s) == \E k \in DOMAIN q : q[k] = s

\* The list without one session.
LEMMA Removed ==
    ASSUME NEW q \in Seq(Sessions), NEW i \in 1 .. Len(q), Distinct(q),
           NEW r, r = RemoveAt(q, i)
    PROVE  /\ r \in Seq(Sessions) /\ Distinct(r)
           /\ \A s \in Sessions : Holds(r, s) <=> s # q[i] /\ Holds(q, s)
  <1> USE DEF Distinct, Holds
  <1> DEFINE before == SubSeq(q, 1, i - 1)
             after  == SubSeq(q, i + 1, Len(q))
  <1>1. /\ r \in Seq(Sessions) /\ Len(r) = Len(q) - 1
        /\ \A k \in 1 .. Len(q) - 1 : r[k] = IF k < i THEN q[k] ELSE q[k + 1]
    <2>1. Len(q) \in Nat /\ i \in 1 .. Len(q) /\ \A k \in 1 .. Len(q) : q[k] \in Sessions
      OBVIOUS
    <2>2. /\ before \in Seq(Sessions) /\ Len(before) = i - 1
          /\ \A k \in 1 .. i - 1 : before[k] = q[k]
      <3>1. 1 \in Int /\ i - 1 \in Int /\ \A k \in 1 .. i - 1 : q[k] \in Sessions
        BY <2>1
      <3>2. /\ before \in Seq(Sessions)
            /\ Len(before) = IF 1 <= i - 1 THEN i - 1 - 1 + 1 ELSE 0
            /\ \A k \in 1 .. i - 1 - 1 + 1 : before[k] = q[1 + k - 1]
        BY <3>1, SubSeqProperties
      <3> HIDE DEF before
      <3> QED  BY <2>1, <3>2
    <2>3. /\ after \in Seq(Sessions) /\ Len(after) = Len(q) - i
          /\ \A k \in 1 .. Len(q) - i : after[k] = q[i + k]
      <3>1. i + 1 \in Int /\ Len(q) \in Int /\ \A k \in i + 1 .. Len(q) : q[k] \in Sessions
        BY <2>1
      <3>2. /\ after \in Seq(Sessions)
            /\ Len(after) = IF i + 1 <= Len(q) THEN Len(q) - (i + 1) + 1 ELSE 0
            /\ \A k \in 1 .. Len(q) - (i + 1) + 1 : after[k] = q[i + 1 + k - 1]
        BY <3>1, SubSeqProperties
      <3> HIDE DEF after
      <3> QED  BY <2>1, <3>2
    <2>4. r = before \o after
      BY DEF RemoveAt
    <2> HIDE DEF before, after
    <2>5. /\ before \o after \in Seq(Sessions)
          /\ Len(before \o after) = Len(before) + Len(after)
          /\ \A k \in 1 .. Len(before) + Len(after) :
                (before \o after)[k] = IF k <= Len(before) THEN before[k]
                                                           ELSE after[k - Len(before)]
      <3>1. before \in Seq(Sessions) /\ after \in Seq(Sessions)
        BY <2>2, <2>3
      <3> QED  BY <3>1, ConcatProperties, Zenon
    <2>6. r \in Seq(Sessions) /\ Len(r) = Len(q) - 1
      BY <2>1, <2>2, <2>3, <2>4, <2>5
    <2>7. ASSUME NEW k \in 1 .. Len(q) - 1
          PROVE  r[k] = IF k < i THEN q[k] ELSE q[k + 1]
      <3>1. r[k] = IF k <= i - 1 THEN before[k] ELSE after[k - (i - 1)]
        <4>1. Len(before) = i - 1 /\ k \in 1 .. Len(before) + Len(after)
          BY <2>1, <2>2, <2>3
        <4> QED  BY <2>4, <2>5, <4>1
      <3>2. CASE k < i
        BY <2>1, <2>2, <3>1, <3>2
      <3>3. CASE ~(k < i)
        <4>1. k - (i - 1) \in 1 .. Len(q) - i /\ i + (k - (i - 1)) = k + 1
          BY <2>1, <3>3
        <4> QED  BY <2>1, <2>3, <3>1, <3>3, <4>1
      <3> QED  BY <3>2, <3>3
    <2> QED  BY <2>6, <2>7
  <1>2. DOMAIN r = 1 .. Len(q) - 1 /\ DOMAIN q = 1 .. Len(q) /\ Len(q) \in Nat /\ i \in 1 .. Len(q)
    BY <1>1
  <1>3. \A j, k \in DOMAIN r : r[j] = r[k] => j = k
    <2> DEFINE was(k) == IF k < i THEN k ELSE k + 1
    <2>1. \A k \in DOMAIN r : was(k) \in DOMAIN q /\ r[k] = q[was(k)]
      BY <1>1, <1>2
    <2>2. \A j, k \in DOMAIN r : was(j) = was(k) => j = k
      BY <1>2
    <2> HIDE DEF was
    <2> QED  BY <2>1, <2>2
  <1>4. ASSUME NEW s \in Sessions
        PROVE  (\E k \in DOMAIN r : r[k] = s) <=> s # q[i] /\ \E k \in DOMAIN q : q[k] = s
    <2>1. ASSUME NEW k \in DOMAIN r, r[k] = s PROVE s # q[i] /\ \E l \in DOMAIN q : q[l] = s
      BY <1>1, <1>2, <2>1
    <2>2. ASSUME s # q[i], NEW k \in DOMAIN q, q[k] = s PROVE \E l \in DOMAIN r : r[l] = s
      <3>1. CASE k < i
        BY <1>1, <1>2, <2>2, <3>1
      <3>2. CASE k > i
        <4>1. k - 1 \in DOMAIN r /\ r[k - 1] = q[k]
          BY <1>1, <1>2, <3>2
        <4> QED  BY <2>2, <4>1
      <3> QED  BY <1>2, <2>2, <3>1, <3>2
    <2> QED  BY <2>1, <2>2
  <1> QED  BY <1>1, <1>3, <1>4

-------------------------------------------------------------------------------
(* The steps.                                                                 *)

StepOK ==
    /\ ListOK' /\ BuffersOK' /\ ClientOK' /\ LoopOK' /\ PoolOK'
    /\ \A s \in Sessions : SessionOK(s)' /\ Moves(s)

\* Steps of clients, of time, of the loop outside its sessions, and of workers that
\* get no task.
LEMMA QuietStep ==
    ASSUME HttpInv,
           UNCHANGED <<innerQueue, task, activeSessions, state, requestBuffer, bytesSent,
                       responseBuffer>>,
           PushKept,
           \A w \in Workers : at'[w] = "got" <=> at[w] = "got",
           \A w \in Workers : at[w] = "got" => responded'[w] = responded[w],
           responded' \in [Workers -> BOOLEAN],
           ClientOK', LoopOK'
    PROVE  StepOK
  <1>1. ListOK'
    BY DEF HttpInv, ListOK
  <1>2. BuffersOK'
    BY DEF HttpInv, BuffersOK
  <1>3. PoolOK'
    BY DEF HttpInv, PoolOK
  <1>4. \A s \in Sessions : SessionOK(s)' /\ Moves(s)
    BY QuietKept, KeptIsOK DEF HttpInv
  <1> QED  BY <1>1, <1>2, <1>3, <1>4 DEF StepOK

\* The loop does not move.
LEMMA LoopStays ==
    ASSUME HttpInv, UNCHANGED <<main, readfds, writefds, activeSessions>>,
           \A w \in Workers : at[w] = "exited" => at'[w] = "exited"
    PROVE  LoopOK'
  BY DEF HttpInv, LoopOK

\* A notification gives no worker a task and brings back none that has ended.
LEMMA WakeOneKeeps ==
    ASSUME HttpInv, WakeOne(Queue)
    PROVE  \A w \in Workers : /\ at'[w] = "got" <=> at[w] = "got"
                              /\ at[w] = "exited" => at'[w] = "exited"
  BY DEF HttpInv, QueueTypeOK, WakeOne, WaitersOf, WorkersOf

\* Clients and time touch no session's state, buffers or task.
LEMMA ClientStep ==
    ASSUME HttpInv, NEW s \in Sessions,
           Connect(s) \/ Leave(s) \/ TimePasses(s) \/ \E chunk \in Chunks : SendBytes(s, chunk)
    PROVE  StepOK
  <1>1. /\ UNCHANGED <<innerQueue, task, at, activeSessions, state, requestBuffer, bytesSent,
                       responseBuffer, responded, main, readfds, writefds>>
    BY DEF Connect, Leave, TimePasses, SendBytes, ServerUnchanged, queueVars, sessionVars,
           loopVars
  <1>2. ClientOK /\ wire \in [Sessions -> Seq(Chunks)]
    BY DEF HttpInv, ClientOK
  <1>3. ClientOK'
    <2>1. ASSUME NEW chunk \in Chunks, SendBytes(s, chunk) PROVE wire' \in [Sessions -> Seq(Chunks)]
      <3>1. wire' = [wire EXCEPT ![s] = Append(@, chunk)]
        BY <2>1 DEF SendBytes
      <3>2. Append(wire[s], chunk) \in Seq(Chunks)
        BY <1>2
      <3> QED  BY <1>2, <3>1, <3>2
    <2>2. CASE \E chunk \in Chunks : SendBytes(s, chunk)
      BY <1>1, <1>2, <2>1, <2>2 DEF SendBytes, ClientOK
    <2>3. CASE Connect(s) \/ Leave(s) \/ TimePasses(s)
      BY <1>1, <1>2, <2>3 DEF Connect, Leave, TimePasses, clientVars, ClientOK
    <2> QED  BY <2>2, <2>3
  <1>4. responded' \in [Workers -> BOOLEAN]
    BY <1>1 DEF HttpInv, PoolOK
  <1>5. LoopOK' /\ PushKept
    BY <1>1, LoopStays DEF PushKept
  <1> QED  BY <1>1, <1>3, <1>4, <1>5, QuietStep

\* The loop outside its sessions.
LEMMA LoopMoves ==
    ASSUME HttpInv,
           Start \/ BuildSets \/ Select \/ SelectFails \/ NotifyWorker \/ StopPool \/ JoinPool
    PROVE  StepOK
  <1>1. /\ ListOK /\ LoopOK /\ PoolOK /\ ClientOK /\ at \in [Workers -> Places]
    BY DEF HttpInv, QueueTypeOK
  <1>2. UNCHANGED <<innerQueue, task, activeSessions, state, requestBuffer, bytesSent,
                    responseBuffer, responded, wire, peer>>
    BY DEF Start, BuildSets, Select, SelectFails, NotifyWorker, NotifyOne, StopPool, Stop,
           JoinPool, queueVars, sessionVars, clientVars
  <1>3. \A w \in Workers : /\ at'[w] = "got" <=> at[w] = "got"
                           /\ at[w] = "exited" => at'[w] = "exited"
    <2>1. CASE at' = at
      BY <2>1
    <2>2. CASE NotifyWorker
      BY <2>2, WakeOneKeeps DEF NotifyWorker, NotifyOne
    <2>3. CASE StopPool
      BY <1>1, <2>3 DEF StopPool, Stop, WakeAll, WaitersOf, WorkersOf
    <2> QED  BY <2>1, <2>2, <2>3 DEF Start, BuildSets, Select, SelectFails, JoinPool, queueVars
  <1>4. LoopOK'
    <2>1. main \in [pc : {"start", "build", "select", "accept", "serve", "push", "notify",
                           "expire", "stop", "join", "destroy", "ended"}, i : Nat]
      BY <1>1 DEF LoopOK
    <2>2. CASE Start
      BY <1>1, <1>2, <2>2 DEF Start, LoopOK
    <2>3. CASE BuildSets
      <3>1. readfds' \cup writefds' \subseteq Sessions
        <4>1. \A k \in DOMAIN activeSessions : activeSessions[k] \in Sessions
          BY <1>1 DEF ListOK
        <4>2. ASSUME NEW st, NEW room PROVE FdSet(st, room) \subseteq Sessions
          BY <4>1 DEF FdSet
        <4> QED  BY <2>3, <4>2 DEF BuildSets
      <3> QED  BY <2>3, <3>1 DEF BuildSets, LoopOK
    <2>4. CASE Select
      BY <1>1, <2>4 DEF Select, LoopOK
    <2>5. CASE SelectFails
      BY <2>5 DEF SelectFails, LoopOK
    <2>6. CASE NotifyWorker
      <3>1. main' = [main EXCEPT !.pc = "expire"]
        BY <2>6 DEF NotifyWorker
      <3>2. main'.pc = "expire" /\ main'.i = main.i /\ main' \in [pc : {"expire"}, i : Nat]
        BY <2>1, <3>1
      <3> QED  BY <1>1, <1>2, <2>6, <3>2 DEF NotifyWorker, LoopOK
    <2>7. CASE StopPool
      BY <1>1, <2>7 DEF StopPool, LoopOK
    <2>8. CASE JoinPool
      BY <1>1, <1>3, <2>8 DEF JoinPool, LoopOK
    <2> QED  BY <2>2, <2>3, <2>4, <2>5, <2>6, <2>7, <2>8
  <1>5. responded' \in [Workers -> BOOLEAN] /\ ClientOK'
    BY <1>1, <1>2 DEF PoolOK, ClientOK
  <1>6. PushKept
    <2>1. PICK P : main \in [pc : P, i : Nat]
      BY <1>1 DEF LoopOK
    <2>2. CASE NotifyWorker
      <3>1. main.pc = "notify" /\ main' = [main EXCEPT !.pc = "expire"]
        BY <2>2 DEF NotifyWorker
      <3> QED  BY <2>1, <3>1 DEF PushKept
    <2>3. CASE Start \/ BuildSets \/ Select \/ SelectFails \/ StopPool \/ JoinPool
      <3>1. main.pc # "push"
        BY <2>3 DEF Start, BuildSets, Select, SelectFails, StopPool, JoinPool
      <3>2. \E pc \in {"build", "select", "accept", "stop", "join", "destroy"} :
               main' = [pc |-> pc, i |-> 0]
        BY <2>3, Zenon DEF Start, BuildSets, Select, SelectFails, StopPool, JoinPool
      <3> QED  BY <3>1, <3>2 DEF PushKept
    <2> QED  BY <2>2, <2>3
  <1> QED  BY <1>2, <1>3, <1>4, <1>5, <1>6, QuietStep

\* A worker that gets no task.
LEMMA IdleStep ==
    ASSUME HttpInv, NEW w \in Workers,
           SpuriousInLoop(w) \/ (PopInLoop(w) /\ ~PopTask(w))
    PROVE  StepOK
  <1>1. at \in [Workers -> Places] /\ responded \in [Workers -> BOOLEAN]
        /\ ClientOK
    BY DEF HttpInv, QueueTypeOK, PoolOK
  <1>2. UNCHANGED <<innerQueue, task, activeSessions, state, requestBuffer, bytesSent,
                    responseBuffer, wire, peer, main, readfds, writefds>>
    BY DEF SpuriousInLoop, SpuriousWakeup, PopInLoop, Pop, PopWait, PopFails, sessionVars,
           loopVars, clientVars
  <1>3. at[w] \in {"waiting", "pop"} /\ \E p \in Places \ {"got"} : at' = [at EXCEPT ![w] = p]
    BY DEF SpuriousInLoop, SpuriousWakeup, PopInLoop, Pop, PopWait, PopFails, Places
  <1>4. \A v \in Workers : /\ at'[v] = "got" <=> at[v] = "got"
                           /\ at[v] = "exited" => at'[v] = "exited"
    BY <1>1, <1>3
  <1>5. responded' = responded \/ responded' = [responded EXCEPT ![w] = FALSE]
    BY DEF SpuriousInLoop, PopInLoop
  <1>6. /\ responded' \in [Workers -> BOOLEAN]
        /\ \A v \in Workers : at[v] = "got" => responded'[v] = responded[v]
    BY <1>1, <1>3, <1>5
  <1>7. LoopOK' /\ ClientOK' /\ PushKept
    BY <1>1, <1>2, <1>4, LoopStays DEF ClientOK, PushKept
  <1> QED  BY <1>1, <1>2, <1>4, <1>6, <1>7, QuietStep

\* A step that deals with session s alone.
LEMMA OneSession ==
    ASSUME HttpInv, NEW s \in Sessions,
           \A u \in Sessions \ {s} : Kept(u),
           ListOK', BuffersOK', ClientOK', LoopOK', PoolOK',
           OneTask(s)', ContentOK(s)', Moves(s)
    PROVE  StepOK
  <1>1. \A u \in Sessions \ {s} : SessionOK(u)' /\ Moves(u)
    BY KeptIsOK DEF HttpInv
  <1>2. SessionOK(s)'
    BY DEF SessionOK
  <1>3. ASSUME NEW u \in Sessions PROVE SessionOK(u)' /\ Moves(u)
    <2>1. CASE u = s
      BY <1>2, <2>1
    <2>2. CASE u # s
      BY <1>1, <2>2
    <2> QED  BY <2>1, <2>2
  <1> QED  BY <1>3 DEF StepOK

\* The tasks do not change with a step of the loop that pushes none.
LEMMA SameTasks ==
    ASSUME UNCHANGED <<innerQueue, task, at, responded>>, NEW s \in Sessions
    PROVE  /\ Holders(s)' = Holders(s) /\ QueuedFor(s)' = QueuedFor(s)
           /\ Ready(s)' <=> Ready(s)
  BY DEF Holders, QueuedFor, Ready

\* accept(): one more session at the end of the list.
LEMMA AcceptStep ==
    ASSUME HttpInv, Accept
    PROVE  StepOK
  <1>1. /\ ListOK /\ BuffersOK /\ ClientOK /\ LoopOK /\ PoolOK
    BY DEF HttpInv
  <1>2. /\ main.pc = "accept"
        /\ UNCHANGED <<innerQueue, at, task, requestBuffer, responseBuffer, bytesSent, wire,
                       responded>>
        /\ GoTo(1, activeSessions')
        /\ PushKept
    BY DEF Accept, queueVars, GoTo, PushKept
  <1>3. ASSUME activeSessions' \in Seq(Sessions) PROVE LoopOK'
    <2>1. PICK q \in Seq(Sessions) : q = activeSessions'
      BY <1>3
    <2>2. /\ main' \in [pc : {"serve", "build"}, i : Nat]
          /\ main'.pc = "serve" => main'.i \in DOMAIN q
          /\ readfds' \cup writefds' \subseteq Sessions
      BY <1>1, <1>2, <2>1, GoToOK DEF LoopOK
    <2> QED  BY <2>1, <2>2 DEF LoopOK
  <1>4. BuffersOK' /\ PoolOK'
    BY <1>1, <1>2 DEF BuffersOK, PoolOK
  <1>5. CASE UNCHANGED <<activeSessions, state, peer>>
    <2>1. LoopOK'
      BY <1>1, <1>3, <1>5 DEF ListOK
    <2>2. responded' \in [Workers -> BOOLEAN] /\ ClientOK'
      BY <1>1, <1>2, <1>5 DEF PoolOK, ClientOK
    <2> QED  BY <1>2, <1>5, <2>1, <2>2, QuietStep
  <1>6. ASSUME NEW s \in Pending,
               activeSessions' = Append(activeSessions, s),
               state' = [state EXCEPT ![s] = "READING"],
               peer' = [peer EXCEPT ![s] = "open"]
        PROVE  StepOK
    <2>1. s \in Sessions /\ state[s] = "none"
      BY <1>1 DEF Pending, ClientOK
    <2>2. \A k \in DOMAIN activeSessions : activeSessions[k] # s
      BY <1>1, <2>1 DEF ListOK, Live, Open
    <2>3. ListOK'
      <3> DEFINE q == activeSessions
                 r == Append(q, s)
      <3>1. /\ q \in Seq(Sessions) /\ Len(q) \in Nat
            /\ \A j, k \in DOMAIN q : q[j] = q[k] => j = k
            /\ state \in [Sessions -> Live \cup {"none", "closed"}]
            /\ \A u \in Sessions : state[u] \in Live <=> \E k \in DOMAIN q : q[k] = u
        BY <1>1 DEF ListOK
      <3>2. /\ r \in Seq(Sessions) /\ DOMAIN r = 1 .. Len(q) + 1 /\ DOMAIN q = 1 .. Len(q)
            /\ \A k \in 1 .. Len(q) : r[k] = q[k]
            /\ r[Len(q) + 1] = s
        BY <2>1, <3>1
      <3>3. state' \in [Sessions -> Live \cup {"none", "closed"}]
        BY <1>6, <3>1 DEF Live, Open
      <3> HIDE DEF q, r
      <3>4. \A j, k \in DOMAIN r : r[j] = r[k] => j = k
        BY <2>2, <3>1, <3>2 DEF q
      <3>5. ASSUME NEW u \in Sessions PROVE state'[u] \in Live <=> \E k \in DOMAIN r : r[k] = u
        <4>1. CASE u = s
          BY <1>6, <2>1, <3>1, <3>2, <4>1 DEF Live, Open
        <4>2. CASE u # s
          <5>1. state'[u] = state[u]
            BY <1>6, <3>1, <4>2
          <5> QED  BY <3>1, <3>2, <4>2, <5>1
        <4> QED  BY <4>1, <4>2
      <3> QED  BY <1>6, <3>2, <3>3, <3>4, <3>5 DEF ListOK, q, r
    <2>4. LoopOK'
      BY <1>3, <2>3 DEF ListOK
    <2>5. ClientOK'
      BY <1>1, <1>2, <1>6, <2>1 DEF ClientOK, ListOK
    <2>6. /\ Holders(s)' = Holders(s) /\ QueuedFor(s)' = QueuedFor(s) /\ (Ready(s)' <=> Ready(s))
      BY <1>2, <2>1, SameTasks
    <2>7. SessionOK(s) /\ state'[s] = "READING"
      BY <1>1, <1>6, <2>1 DEF HttpInv, ListOK
    <2>8. OneTask(s)'
      BY <1>2, <2>1, <2>6, <2>7, PushingKept DEF SessionOK, OneTask, NoTaskOf
    <2>9. (Unsent(s)' <=> Unsent(s)) /\ (Whole(s)' <=> Whole(s))
      BY <1>2 DEF Unsent, Whole, Ends
    <2>10. ~Unsent(s) /\ ~Whole(s)
      BY <2>1, <2>7, NoEnds DEF SessionOK, ContentOK, Whole
    <2>11. ContentOK(s)'
      BY <2>7, <2>9, <2>10 DEF ContentOK
    <2>12. Moves(s)
      BY <2>1, <2>7, <2>9, <2>10
         DEF Moves, HandOf, Handover!Moves, Handover!Awaited, Handover!Reading
    <2>13. ASSUME NEW u \in Sessions \ {s} PROVE Kept(u)
      <3>1. state'[u] = state[u]
        BY <1>1, <1>6 DEF ListOK
      <3>2. Holders(u)' = Holders(u) /\ QueuedFor(u)' = QueuedFor(u)
        BY <1>2, SameTasks
      <3> QED  BY <1>2, <3>1, <3>2, PushingKept DEF Kept
    <2> QED  BY <1>4, <2>1, <2>3, <2>4, <2>5, <2>8, <2>11, <2>12, <2>13, OneSession
  <1> QED  BY <1>5, <1>6 DEF Accept

\* The loop looks at a session of the list.
LEMMA CurrentIsSession ==
    ASSUME HttpInv, main.pc \in {"serve", "push", "expire"}
    PROVE  Current \in Sessions /\ state[Current] \in Live
  BY DEF HttpInv, ListOK, LoopOK, Current

\* The loop has served a session.
LEMMA Served ==
    ASSUME HttpInv, main.pc = "serve", NEW p \in {"push", "expire"},
           main' = [main EXCEPT !.pc = p], UNCHANGED <<activeSessions, readfds, writefds>>
    PROVE  LoopOK' /\ \A u : ~Pushing(u) /\ (Pushing(u)' <=> p = "push" /\ Current = u)
  <1>1. LoopOK
    BY DEF HttpInv
  <1>2. main'.pc = p /\ main'.i = main.i /\ main' \in [pc : {"push", "expire"}, i : Nat]
    BY <1>1 DEF LoopOK
  <1>3. \A u : ~Pushing(u) /\ (Pushing(u)' <=> p = "push" /\ Current = u)
    BY <1>2 DEF Pushing, Current
  <1> QED  BY <1>1, <1>2, <1>3 DEF LoopOK

\* The state of a session of the list changes and it stays there.
LEMMA ListStays ==
    ASSUME HttpInv, NEW s \in Sessions, state[s] \in Live, NEW st \in Live,
           activeSessions' = activeSessions, state' = [state EXCEPT ![s] = st]
    PROVE  ListOK' /\ state'[s] = st /\ \A u \in Sessions \ {s} : state'[u] = state[u]
  <1>1. ListOK
    BY DEF HttpInv
  <1>2. /\ state' \in [Sessions -> Live \cup {"none", "closed"}]
        /\ state'[s] = st /\ \A u \in Sessions \ {s} : state'[u] = state[u]
    BY <1>1 DEF ListOK
  <1>3. \A u \in Sessions : state'[u] \in Live <=> state[u] \in Live
    BY <1>2
  <1> QED  BY <1>1, <1>2, <1>3 DEF ListOK

\* One more task at the end of the queue.
LEMMA Pushed ==
    ASSUME HttpInv, NEW s \in Sessions, Push(Queue, s), QueuedFor(s) = {}
    PROVE  /\ \A u \in Sessions \ {s} : QueuedFor(u)' = QueuedFor(u)
           /\ \E k : QueuedFor(s)' = {k}
           /\ \A u \in Sessions : Holders(u)' = Holders(u)
  <1> DEFINE q == innerQueue[Queue]
             r == Append(q, s)
  <1>1. Queue \in Queues
    BY OneQueueAssumption
  <1>2. q \in Seq(Sessions) /\ innerQueue'[Queue] = r
    BY <1>1, SessionTasksAssumption DEF HttpInv, QueueTypeOK, Push
  <1>3. /\ DOMAIN r = 1 .. Len(q) + 1 /\ DOMAIN q = 1 .. Len(q) /\ Len(q) \in Nat
        /\ \A k \in 1 .. Len(q) : r[k] = q[k]
        /\ r[Len(q) + 1] = s
    BY <1>2
  <1>4. \A u : QueuedFor(u) = {k \in DOMAIN q : q[k] = u}
    BY DEF QueuedFor
  <1>5. \A u : QueuedFor(u)' = {k \in DOMAIN r : r[k] = u}
    BY <1>2 DEF QueuedFor
  <1> HIDE DEF q, r
  <1>6. QueuedFor(s)' = {Len(q) + 1}
    <2>1. \A k \in DOMAIN q : q[k] # s
      BY <1>4
    <2> QED  BY <1>3, <1>5, <2>1
  <1>7. ASSUME NEW u \in Sessions \ {s} PROVE QueuedFor(u)' = QueuedFor(u)
    <2>1. {k \in DOMAIN r : r[k] = u} = {k \in DOMAIN q : q[k] = u}
      <3>1. \A k \in DOMAIN r : r[k] = u <=> k \in DOMAIN q /\ q[k] = u
        BY <1>3
      <3> QED  BY <1>3, <3>1
    <2> QED  BY <1>4, <1>5, <2>1
  <1>8. \A u \in Sessions : Holders(u)' = Holders(u)
    BY DEF Push, Holders
  <1> QED  BY <1>6, <1>7, <1>8

\* recv(): the buffer grows, and a session with a whole request is marked.
LEMMA ReadDataStep ==
    ASSUME HttpInv, main.pc = "serve", NEW s \in Sessions, s = Current,
           state[s] = "READING", ReadData(s),
           UNCHANGED <<activeSessions, readfds, writefds, responded>>
    PROVE  StepOK
  <1>1. /\ ListOK /\ BuffersOK /\ ClientOK /\ LoopOK /\ PoolOK /\ SessionOK(s)
    BY DEF HttpInv
  <1>2. /\ ~Unsent(s) /\ Holders(s) = {} /\ QueuedFor(s) = {} /\ ~Ready(s)
    BY <1>1 DEF SessionOK, OneTask, NoTaskOf, ContentOK, Ready
  <1>3. PICK n \in 1 .. Len(wire[s]) :
          LET request == requestBuffer[s] \o SubSeq(wire[s], 1, n) IN
          /\ wire' = [wire EXCEPT ![s] = SubSeq(@, n + 1, Len(@))]
          /\ requestBuffer' = [requestBuffer EXCEPT ![s] = request]
          /\ IF Ends(request) > 0
             THEN /\ state' = [state EXCEPT ![s] = "PROCESSING"]
                  /\ main' = [main EXCEPT !.pc = "push"]
             ELSE /\ main' = [main EXCEPT !.pc = "expire"]
                  /\ UNCHANGED state
          /\ UNCHANGED <<innerQueue, task, at>>
          /\ UNCHANGED <<responseBuffer, bytesSent, peer>>
    BY DEF ReadData, HandOver, queueVars
  <1> DEFINE request == requestBuffer[s] \o SubSeq(wire[s], 1, n)
             rest    == SubSeq(wire[s], n + 1, Len(wire[s]))
  <1>4. request \in Seq(Chunks) /\ rest \in Seq(Chunks)
    <2>1. /\ wire[s] \in Seq(Chunks) /\ requestBuffer[s] \in Seq(Chunks)
          /\ 1 \in Int /\ n \in Int /\ n + 1 \in Int /\ Len(wire[s]) \in Int
      BY <1>1 DEF ClientOK, BuffersOK
    <2>2. /\ \A k \in 1 .. n : wire[s][k] \in Chunks
          /\ \A k \in n + 1 .. Len(wire[s]) : wire[s][k] \in Chunks
      BY <2>1
    <2>3. SubSeq(wire[s], 1, n) \in Seq(Chunks) /\ rest \in Seq(Chunks)
      BY <2>1, <2>2, SubSeqProperties
    <2>4. request \in Seq(Chunks)
      BY <2>1, <2>3, ConcatProperties, Zenon
    <2> QED  BY <2>3, <2>4
  <1>5. wire' = [wire EXCEPT ![s] = rest] /\ requestBuffer' = [requestBuffer EXCEPT ![s] = request]
    BY <1>3
  <1>6. /\ Ends(request) > 0 => /\ state' = [state EXCEPT ![s] = "PROCESSING"]
                                /\ main' = [main EXCEPT !.pc = "push"]
        /\ ~(Ends(request) > 0) => /\ main' = [main EXCEPT !.pc = "expire"]
                                   /\ UNCHANGED state
    BY <1>3
  <1>7. UNCHANGED <<innerQueue, task, at, responseBuffer, bytesSent, peer>>
    BY <1>3
  <1> HIDE DEF request, rest
  <1>8. /\ requestBuffer' \in [Sessions -> Seq(Chunks)] /\ wire' \in [Sessions -> Seq(Chunks)]
        /\ requestBuffer'[s] = request
        /\ \A u \in Sessions \ {s} : requestBuffer'[u] = requestBuffer[u]
    BY <1>1, <1>4, <1>5 DEF BuffersOK, ClientOK
  <1>9. BuffersOK' /\ PoolOK'
    <2>1. BuffersOK'
      BY <1>1, <1>7, <1>8 DEF BuffersOK
    <2>3. PoolOK'
      BY <1>1, <1>7 DEF PoolOK
    <2> QED  BY <2>1, <2>3
  <1>10. ~Unsent(s)' /\ (Whole(s)' <=> Ends(request) > 0)
    BY <1>2, <1>7, <1>8 DEF Unsent, Whole
  <1>11. \A u \in Sessions : Holders(u)' = Holders(u) /\ QueuedFor(u)' = QueuedFor(u)
    BY <1>7, SameTasks
  <1>12. CASE Ends(request) > 0
    <2>1. /\ state' = [state EXCEPT ![s] = "PROCESSING"] /\ main' = [main EXCEPT !.pc = "push"]
      BY <1>6, <1>12
    <2>2. /\ ListOK' /\ state'[s] = "PROCESSING"
          /\ \A u \in Sessions \ {s} : state'[u] = state[u]
      BY <2>1, ListStays DEF Live, Open
    <2>3. LoopOK' /\ \A u : ~Pushing(u) /\ (Pushing(u)' <=> u = s)
      BY <2>1, Served
    <2>4. ClientOK'
      BY <1>1, <1>7, <1>8, <2>2 DEF ClientOK
    <2>6. OneTask(s)'
      BY <1>2, <1>11, <2>2, <2>3 DEF OneTask, NoTaskOf
    <2>7. ~Ready(s)'
      BY <1>2, <1>11 DEF Ready
    <2>8. ContentOK(s)'
      BY <1>10, <1>12, <2>2, <2>7 DEF ContentOK
    <2>9. Moves(s)
      BY <1>2, <2>2, <2>3 DEF Moves, HandOf, Handover!Moves, Handover!Reading, Handover!Received
    <2>10. ASSUME NEW u \in Sessions \ {s} PROVE Kept(u)
      BY <1>7, <1>8, <1>11, <2>2, <2>3 DEF Kept
    <2> QED  BY <1>9, <2>2, <2>3, <2>4, <2>6, <2>8, <2>9, <2>10, OneSession
  <1>13. CASE ~(Ends(request) > 0)
    <2>1. main' = [main EXCEPT !.pc = "expire"] /\ UNCHANGED state
      BY <1>6, <1>13
    <2>2. ListOK'
      BY <1>1, <2>1 DEF ListOK
    <2>3. LoopOK' /\ \A u : ~Pushing(u) /\ ~Pushing(u)'
      BY <2>1, Served
    <2>4. ClientOK'
      BY <1>1, <1>7, <1>8, <2>1 DEF ClientOK
    <2>6. OneTask(s)' /\ ~Ready(s)'
      BY <1>2, <1>11, <2>1, <2>3 DEF OneTask, NoTaskOf, Ready
    <2>7. ContentOK(s)'
      BY <1>10, <1>13, <2>1 DEF ContentOK
    <2>8. Moves(s)
      BY <1>2, <1>10, <2>1 DEF Moves, HandOf
    <2>9. ASSUME NEW u \in Sessions \ {s} PROVE Kept(u)
      BY <1>7, <1>8, <1>11, <2>1, <2>3 DEF Kept
    <2> QED  BY <1>9, <2>2, <2>3, <2>4, <2>6, <2>7, <2>8, <2>9, OneSession
  <1> QED  BY <1>12, <1>13

\* The client has gone: the session is finished, and its buffers stay as they are.
LEMMA PeerGoneStep ==
    ASSUME HttpInv, main.pc = "serve", NEW s \in Sessions, state[s] \in {"READING", "SENDING"},
           PeerGone(s), UNCHANGED <<activeSessions, readfds, writefds, responded>>
    PROVE  StepOK
  <1>1. /\ BuffersOK /\ ClientOK /\ PoolOK /\ SessionOK(s)
    BY DEF HttpInv
  <1>2. /\ state' = [state EXCEPT ![s] = "FINISHED"] /\ main' = [main EXCEPT !.pc = "expire"]
        /\ UNCHANGED <<innerQueue, task, at, requestBuffer, responseBuffer, bytesSent, wire, peer>>
        /\ peer[s] = "gone"
    BY DEF PeerGone, queueVars, clientVars
  <1>3. /\ ListOK' /\ state'[s] = "FINISHED"
        /\ \A u \in Sessions \ {s} : state'[u] = state[u]
    BY <1>2, ListStays DEF Live, Open
  <1>4. LoopOK' /\ \A u : ~Pushing(u) /\ ~Pushing(u)'
    BY <1>2, Served
  <1>5. BuffersOK' /\ ClientOK' /\ PoolOK'
    <2>1. BuffersOK' /\ PoolOK'
      BY <1>1, <1>2 DEF BuffersOK, PoolOK
    <2>2. ClientOK'
      BY <1>1, <1>2, <1>3 DEF ClientOK
    <2> QED  BY <2>1, <2>2
  <1>6. \A u \in Sessions : Holders(u)' = Holders(u) /\ QueuedFor(u)' = QueuedFor(u)
    BY <1>2, SameTasks
  <1>7. OneTask(s)' /\ ContentOK(s)'
    BY <1>1, <1>3, <1>4, <1>6 DEF SessionOK, OneTask, NoTaskOf, ContentOK
  <1>8. Moves(s)
    <2>1. Unsent(s)' <=> Unsent(s)
      BY <1>2 DEF Unsent
    <2> QED  BY <1>1, <1>3, <2>1 DEF Moves, HandOf
  <1>9. ASSUME NEW u \in Sessions \ {s} PROVE Kept(u)
    BY <1>2, <1>3, <1>4, <1>6 DEF Kept
  <1> QED  BY <1>3, <1>4, <1>5, <1>7, <1>8, <1>9, OneSession

\* send(): after the last piece the buffers are empty, or the session is finished.
LEMMA WriteDataStep ==
    ASSUME HttpInv, main.pc = "serve", NEW s \in Sessions, state[s] = "SENDING",
           WriteData(s), UNCHANGED <<activeSessions, readfds, writefds, responded>>
    PROVE  StepOK
  <1>1. /\ ListOK /\ BuffersOK /\ ClientOK /\ PoolOK /\ SessionOK(s)
    BY DEF HttpInv
  <1>2. /\ Unsent(s) /\ Holders(s) = {} /\ QueuedFor(s) = {}
    BY <1>1 DEF SessionOK, OneTask, NoTaskOf, ContentOK
  <1>3. PICK n \in bytesSent[s] + 1 .. responseBuffer[s] :
          LET last == n = responseBuffer[s]
              again == last /\ keepAlive[s]
          IN  /\ bytesSent' = [bytesSent EXCEPT ![s] = IF again THEN 0 ELSE n]
              /\ requestBuffer' = [requestBuffer EXCEPT ![s] = IF again THEN <<>> ELSE @]
              /\ responseBuffer' = [responseBuffer EXCEPT ![s] = IF again THEN 0 ELSE @]
              /\ state' = [state EXCEPT ![s] = IF again THEN "READING"
                                               ELSE IF last THEN "FINISHED" ELSE @]
              /\ main' = [main EXCEPT !.pc = "expire"]
              /\ UNCHANGED <<queueVars, wire, peer>>
    BY DEF WriteData
  <1> DEFINE last  == n = responseBuffer[s]
             again == last /\ keepAlive[s]
             st    == IF again THEN "READING" ELSE IF last THEN "FINISHED" ELSE "SENDING"
             sentNow == IF again THEN 0 ELSE n
             left    == IF again THEN 0 ELSE responseBuffer[s]
             request == IF again THEN <<>> ELSE requestBuffer[s]
  <1>4. /\ bytesSent' = [bytesSent EXCEPT ![s] = sentNow]
        /\ requestBuffer' = [requestBuffer EXCEPT ![s] = request]
        /\ responseBuffer' = [responseBuffer EXCEPT ![s] = left]
        /\ state' = [state EXCEPT ![s] = st]
        /\ main' = [main EXCEPT !.pc = "expire"]
        /\ UNCHANGED <<innerQueue, task, at, wire, peer>>
    BY <1>3 DEF queueVars
  <1>5. sentNow \in 0 .. Pieces /\ left \in 0 .. Pieces /\ request \in Seq(Chunks)
    <2>1. bytesSent[s] \in 0 .. Pieces /\ responseBuffer[s] \in 0 .. Pieces
          /\ requestBuffer[s] \in Seq(Chunks)
      BY <1>1 DEF BuffersOK
    <2>2. Pieces \in Nat /\ n \in 0 .. Pieces
      BY <1>3, <2>1, PiecesAssumption
    <2> QED  BY <2>1, <2>2
  <1>6. /\ st \in Live
        /\ st = "READING" => ~(sentNow < left) /\ request = <<>>
        /\ st = "FINISHED" => ~(sentNow < left)
        /\ st = "SENDING" => sentNow < left
        /\ st \in {"READING", "FINISHED", "SENDING"}
    <2>1. n \in Nat /\ responseBuffer[s] \in Nat /\ n <= responseBuffer[s]
      BY <1>1, <1>3 DEF BuffersOK
    <2> QED  BY <2>1 DEF Live, Open
  <1> HIDE DEF st, sentNow, left, request
  <1>7. /\ BuffersOK' /\ bytesSent'[s] = sentNow /\ responseBuffer'[s] = left
        /\ requestBuffer'[s] = request
        /\ \A u \in Sessions \ {s} : /\ bytesSent'[u] = bytesSent[u]
                                     /\ responseBuffer'[u] = responseBuffer[u]
                                     /\ requestBuffer'[u] = requestBuffer[u]
    BY <1>1, <1>4, <1>5 DEF BuffersOK
  <1>8. /\ ListOK' /\ state'[s] = st
        /\ \A u \in Sessions \ {s} : state'[u] = state[u]
    BY <1>4, <1>6, ListStays DEF Live, Open
  <1>9. LoopOK' /\ \A u : ~Pushing(u) /\ ~Pushing(u)'
    BY <1>4, Served
  <1>10. ClientOK' /\ PoolOK'
    <2>1. PoolOK'
      BY <1>1, <1>4 DEF PoolOK
    <2>2. ClientOK'
      BY <1>1, <1>4, <1>8 DEF ClientOK
    <2> QED  BY <2>1, <2>2
  <1>11. \A u \in Sessions : Holders(u)' = Holders(u) /\ QueuedFor(u)' = QueuedFor(u)
    BY <1>4, SameTasks
  <1>12. OneTask(s)'
    BY <1>2, <1>6, <1>8, <1>9, <1>11 DEF OneTask, NoTaskOf
  <1>13. Unsent(s)' <=> sentNow < left
    BY <1>7 DEF Unsent
  <1>14. request = <<>> => ~Whole(s)'
    BY <1>7, NoEnds DEF Whole
  <1>15. ContentOK(s)'
    BY <1>6, <1>8, <1>13, <1>14 DEF ContentOK
  <1>16. Moves(s)
    BY <1>2, <1>6, <1>8, <1>13
       DEF Moves, HandOf, Handover!Moves, Handover!Sending, Handover!Reading
  <1>17. ASSUME NEW u \in Sessions \ {s} PROVE Kept(u)
    BY <1>4, <1>7, <1>8, <1>9, <1>11 DEF Kept
  <1> QED  BY <1>7, <1>8, <1>9, <1>10, <1>12, <1>15, <1>16, <1>17, OneSession

\* One session of the list is served, or skipped.
LEMMA ServeStep ==
    ASSUME HttpInv, Serve
    PROVE  StepOK
  <1>1. main.pc = "serve" /\ Current \in Sessions
    BY CurrentIsSession DEF Serve
  <1>2. UNCHANGED <<activeSessions, readfds, writefds, responded>>
    BY DEF Serve
  <1>3. CASE state[Current] = "READING" /\ (ReadData(Current) \/ PeerGone(Current))
    BY <1>1, <1>2, <1>3, ReadDataStep, PeerGoneStep
  <1>4. CASE state[Current] = "SENDING" /\ (WriteData(Current) \/ PeerGone(Current))
    BY <1>1, <1>2, <1>4, WriteDataStep, PeerGoneStep
  <1>5. CASE /\ main' = [main EXCEPT !.pc = "expire"]
             /\ UNCHANGED <<queueVars, state, requestBuffer, responseBuffer, bytesSent, clientVars>>
    <2>1. UNCHANGED <<innerQueue, task, at, state, requestBuffer, responseBuffer, bytesSent,
                      wire, peer>>
      BY <1>5 DEF queueVars, clientVars
    <2>2. LoopOK' /\ PushKept
      <3>1. PICK P : main \in [pc : P, i : Nat]
        BY DEF HttpInv, LoopOK
      <3> QED  BY <1>1, <1>2, <1>5, <3>1, Served DEF PushKept
    <2>3. ClientOK' /\ responded' \in [Workers -> BOOLEAN]
      BY <1>2, <2>1 DEF HttpInv, ClientOK, PoolOK
    <2> QED  BY <1>2, <2>1, <2>2, <2>3, QuietStep
  <1> QED  BY <1>3, <1>4, <1>5 DEF Serve

\* push(): a session with a whole request goes to the pool.
LEMMA PushTaskStep ==
    ASSUME HttpInv, PushTask
    PROVE  StepOK
  <1>1. /\ ListOK /\ BuffersOK /\ ClientOK /\ LoopOK /\ PoolOK /\ main.pc = "push"
    BY DEF HttpInv, PushTask
  <1>2. PICK s \in Sessions : s = Current
    BY <1>1, CurrentIsSession
  <1>3. /\ Push(Queue, s) /\ main' = [main EXCEPT !.pc = "notify"]
        /\ UNCHANGED <<at, task, activeSessions, state, requestBuffer, responseBuffer, bytesSent,
                       wire, peer, readfds, writefds, responded>>
    BY <1>2 DEF PushTask, HandOver, Push, clientVars
  <1>4. /\ SessionOK(s) /\ state[s] = "PROCESSING" /\ Pushing(s)
        /\ Holders(s) = {} /\ QueuedFor(s) = {}
        /\ \A u : u # s => ~Pushing(u)
    BY <1>1, <1>2 DEF HttpInv, SessionOK, OneTask, NoTaskOf, Pushing
  <1>5. main'.pc = "notify" /\ main'.i = main.i /\ main' \in [pc : {"notify"}, i : Nat]
    BY <1>1, <1>3 DEF LoopOK
  <1>6. \A u : ~Pushing(u)'
    BY <1>5 DEF Pushing
  <1>7. LoopOK'
    BY <1>1, <1>3, <1>5 DEF LoopOK
  <1>8. ListOK' /\ BuffersOK' /\ ClientOK' /\ PoolOK'
    BY <1>1, <1>3 DEF ListOK, BuffersOK, ClientOK, PoolOK
  <1>9. /\ \A u \in Sessions \ {s} : QueuedFor(u)' = QueuedFor(u)
        /\ \E k : QueuedFor(s)' = {k}
        /\ \A u \in Sessions : Holders(u)' = Holders(u)
    BY <1>3, <1>4, Pushed
  <1>10. OneTask(s)' /\ ~Ready(s) /\ ~Ready(s)'
    BY <1>3, <1>4, <1>6, <1>9 DEF OneTask, Ready
  <1>11. (Unsent(s)' <=> Unsent(s)) /\ (Whole(s)' <=> Whole(s))
    BY <1>3 DEF Unsent, Whole, Ends
  <1>12. ContentOK(s)'
    BY <1>3, <1>4, <1>10, <1>11 DEF SessionOK, ContentOK
  <1>13. Moves(s)
    BY <1>3, <1>4, <1>6, <1>10
       DEF Moves, HandOf, Handover!Moves, Handover!Received, Handover!Submitted
  <1>14. ASSUME NEW u \in Sessions \ {s} PROVE Kept(u)
    BY <1>3, <1>4, <1>6, <1>9 DEF Kept
  <1> QED  BY <1>7, <1>8, <1>10, <1>12, <1>13, <1>14, OneSession

-------------------------------------------------------------------------------
\* Sessions whose buffers belong to the loop are destroyed.
LEMMA DestroyedOK ==
    ASSUME HttpInv, NEW S \in SUBSET Sessions, Destroy(S),
           \A s \in S : state[s] \notin {"none", "PROCESSING"},
           main.pc # "push", main'.pc # "push",
           UNCHANGED <<innerQueue, task, at, responded>>
    PROVE  /\ BuffersOK' /\ ClientOK' /\ PoolOK'
           /\ state' \in [Sessions -> Live \cup {"none", "closed"}]
           /\ \A s \in Sessions : state'[s] \in Live <=> s \notin S /\ state[s] \in Live
           /\ \A s \in Sessions : SessionOK(s)' /\ Moves(s)
  <1>1. /\ ListOK /\ BuffersOK /\ ClientOK /\ PoolOK
    BY DEF HttpInv
  <1>2. /\ state' \in [Sessions -> Live \cup {"none", "closed"}]
        /\ \A s \in S : state'[s] = "closed"
        /\ \A s \in Sessions \ S : state'[s] = state[s]
    <2>1. \A s \in Sessions : state'[s] = IF s \in S THEN "closed" ELSE state[s]
      BY DEF Destroy
    <2> QED  BY <1>1, <2>1 DEF ListOK, Destroy
  <1>3. \A s \in Sessions : state'[s] \in Live <=> s \notin S /\ state[s] \in Live
    BY <1>2 DEF Live, Open
  <1>4. /\ \A s \in S : requestBuffer'[s] = <<>> /\ responseBuffer'[s] = 0 /\ bytesSent'[s] = 0
        /\ \A s \in Sessions \ S : /\ requestBuffer'[s] = requestBuffer[s]
                                   /\ responseBuffer'[s] = responseBuffer[s]
                                   /\ bytesSent'[s] = bytesSent[s]
    BY DEF Destroy
  <1>5. BuffersOK'
    <2>1. 0 \in 0 .. Pieces /\ <<>> \in Seq(Chunks)
      BY PiecesAssumption
    <2>2. requestBuffer' \in [Sessions -> Seq(Chunks)]
      BY <1>1, <2>1 DEF Destroy, BuffersOK
    <2>3. responseBuffer' \in [Sessions -> 0 .. Pieces]
      BY <1>1, <2>1 DEF Destroy, BuffersOK
    <2>4. bytesSent' \in [Sessions -> 0 .. Pieces]
      BY <1>1, <2>1 DEF Destroy, BuffersOK
    <2> QED  BY <2>2, <2>3, <2>4 DEF BuffersOK
  <1>6. ClientOK'
    <2>1. wire' \in [Sessions -> Seq(Chunks)]
      <3>1. <<>> \in Seq(Chunks)
        OBVIOUS
      <3> QED  BY <1>1, <3>1 DEF Destroy, ClientOK
    <2>2. peer' = peer
      BY DEF Destroy
    <2>3. \A s \in Sessions : state'[s] # "none" => peer[s] \in {"open", "gone"}
      BY <1>1, <1>2 DEF ClientOK
    <2> QED  BY <1>1, <2>1, <2>2, <2>3 DEF ClientOK
  <1>7. PoolOK'
    BY <1>1 DEF PoolOK
  <1>8. \A s \in Sessions : /\ Holders(s)' = Holders(s) /\ QueuedFor(s)' = QueuedFor(s)
                            /\ ~Pushing(s) /\ ~Pushing(s)'
    BY SameTasks DEF Pushing
  <1>9. ASSUME NEW s \in Sessions PROVE SessionOK(s)' /\ Moves(s)
    <2>1. CASE s \notin S
      <3>1. Kept(s)
        BY <1>2, <1>4, <1>8, <2>1 DEF Kept
      <3> QED  BY <3>1, KeptIsOK DEF HttpInv
    <2>2. CASE s \in S
      <3>1. /\ SessionOK(s) /\ state'[s] = "closed"
            /\ state[s] \in {"READING", "SENDING", "FINISHED", "closed"}
        BY <1>1, <1>2, <2>2 DEF HttpInv, ListOK, Live, Open
      <3>2. OneTask(s)'
        BY <1>8, <3>1 DEF SessionOK, OneTask, NoTaskOf
      <3>3. ~Unsent(s)' /\ requestBuffer'[s] = <<>>
        BY <1>4, <2>2 DEF Unsent
      <3>4. ContentOK(s)'
        BY <3>1, <3>3 DEF ContentOK
      <3>5. Moves(s)
        BY <3>1 DEF Moves, HandOf, Handover!Moves, Handover!Sending, Handover!Reading,
                    Handover!Destroyed
      <3> QED  BY <3>2, <3>4, <3>5 DEF SessionOK
    <2> QED  BY <2>1, <2>2
  <1> QED  BY <1>2, <1>3, <1>5, <1>6, <1>7, <1>9

\* finish() and erase(): a session of the pool is spared.
LEMMA ExpireStep ==
    ASSUME HttpInv, Expire
    PROVE  StepOK
  <1>1. /\ ListOK /\ LoopOK /\ ClientOK /\ PoolOK /\ main.pc = "expire"
    BY DEF HttpInv, Expire
  <1>2. /\ Current \in Sessions /\ state[Current] \in Live
        /\ main.i \in Nat \ {0} /\ main.i \in DOMAIN activeSessions
    <2>1. Current \in Sessions /\ state[Current] \in Live
      BY <1>1, CurrentIsSession
    <2>2. main.i \in DOMAIN activeSessions
      BY <1>1 DEF LoopOK
    <2>3. activeSessions \in Seq(Sessions)
      BY <1>1 DEF ListOK
    <2> QED  BY <2>1, <2>2, <2>3
  <1>3. UNCHANGED <<innerQueue, task, at, responded>> /\ main'.pc # "push"
    BY DEF Expire, GoTo, queueVars
  <1>4. CASE state[Current] = "FINISHED" \/ TimesOut(Current)
    <2>1. /\ activeSessions' = RemoveAt(activeSessions, main.i)
          /\ Destroy({Current}) /\ GoTo(main.i, activeSessions')
      BY <1>4 DEF Expire
    <2>2. state[Current] \notin {"none", "PROCESSING"}
      BY <1>4 DEF TimesOut
    <2>3. /\ BuffersOK' /\ ClientOK' /\ PoolOK'
          /\ state' \in [Sessions -> Live \cup {"none", "closed"}]
          /\ \A s \in Sessions : state'[s] \in Live <=> s \notin {Current} /\ state[s] \in Live
          /\ \A s \in Sessions : SessionOK(s)' /\ Moves(s)
      <3>1. PICK c \in Sessions : c = Current
        BY <1>2
      <3>2. /\ {c} \in SUBSET Sessions /\ Destroy({c})
            /\ \A s \in {c} : state[s] \notin {"none", "PROCESSING"}
        BY <2>1, <2>2, <3>1
      <3>3. /\ BuffersOK' /\ ClientOK' /\ PoolOK'
            /\ state' \in [Sessions -> Live \cup {"none", "closed"}]
            /\ \A s \in Sessions : state'[s] \in Live <=> s \notin {c} /\ state[s] \in Live
            /\ \A s \in Sessions : SessionOK(s)' /\ Moves(s)
        BY <1>1, <1>3, <3>2, DestroyedOK
      <3> QED  BY <3>1, <3>3
    <2>4. PICK q : q = activeSessions'
      OBVIOUS
    <2>5. PICK l \in Seq(Sessions) : l = activeSessions
      BY <1>1 DEF ListOK
    <2>6. PICK i \in 1 .. Len(l) : i = main.i
      BY <1>2, <2>5
    <2>7. q = RemoveAt(l, i) /\ Current = l[i]
      BY <2>1, <2>4, <2>5, <2>6 DEF Current
    <2>9. Distinct(l)
      BY <1>1, <2>5 DEF ListOK, Distinct
    <2>10. /\ q \in Seq(Sessions) /\ Distinct(q)
           /\ \A s \in Sessions : Holds(q, s) <=> s # l[i] /\ Holds(l, s)
      BY <2>7, <2>9, Removed
    <2>11. ASSUME NEW s \in Sessions PROVE state'[s] \in Live <=> Holds(q, s)
      <3>1. state[s] \in Live <=> Holds(l, s)
        BY <1>1, <2>5 DEF ListOK, Holds
      <3>2. state'[s] \in Live <=> s # l[i] /\ state[s] \in Live
        BY <2>3, <2>7
      <3> QED  BY <2>10, <3>1, <3>2
    <2>12. ListOK'
      BY <2>3, <2>4, <2>10, <2>11 DEF ListOK, Distinct, Holds
    <2>8. LoopOK'
      <3>1. GoTo(main.i, q) /\ readfds \cup writefds \subseteq Sessions
        BY <1>1, <2>1, <2>4 DEF LoopOK
      <3>2. /\ main' \in [pc : {"serve", "build"}, i : Nat]
            /\ main'.pc = "serve" => main'.i \in DOMAIN q
            /\ readfds' \cup writefds' \subseteq Sessions
        BY <1>2, <2>10, <3>1, GoToOK
      <3> QED  BY <2>4, <3>2 DEF LoopOK
    <2> QED  BY <2>3, <2>8, <2>12 DEF StepOK
  <1>5. CASE ~(state[Current] = "FINISHED" \/ TimesOut(Current))
    <2>1. /\ GoTo(main.i + 1, activeSessions)
          /\ UNCHANGED <<activeSessions, state, requestBuffer, bytesSent, responseBuffer, wire,
                         peer>>
      BY <1>5 DEF Expire, sessionVars, clientVars
    <2>2. LoopOK'
      <3>1. activeSessions \in Seq(Sessions) /\ readfds \cup writefds \subseteq Sessions
        BY <1>1 DEF LoopOK, ListOK
      <3>2. /\ main' \in [pc : {"serve", "build"}, i : Nat]
            /\ main'.pc = "serve" => main'.i \in DOMAIN activeSessions
            /\ readfds' \cup writefds' \subseteq Sessions
        BY <1>2, <2>1, <3>1, GoToOK
      <3> QED  BY <2>1, <3>2 DEF LoopOK
    <2>3. ClientOK' /\ responded' \in [Workers -> BOOLEAN]
      BY <1>1, <1>3, <2>1 DEF ClientOK, PoolOK
    <2>4. PushKept
      BY <1>1, <1>3 DEF PushKept
    <2> QED  BY <1>3, <2>1, <2>2, <2>3, <2>4, QuietStep
  <1> QED  BY <1>4, <1>5

\* The end: the workers are gone and have left no task, so the pool has no session.
LEMMA DestroySessionsStep ==
    ASSUME HttpInv, DestroySessions
    PROVE  StepOK
  <1>1. /\ ListOK /\ LoopOK /\ ExitedMeansDrained
        /\ main' = [pc |-> "ended", i |-> 0] /\ activeSessions' = <<>>
        /\ UNCHANGED <<innerQueue, task, at, responded, readfds, writefds>>
        /\ main.pc = "destroy" /\ main'.pc # "push"
        /\ \A w \in Workers : at[w] = "exited"
    BY DEF HttpInv, LoopOK, DestroySessions, queueVars
  <1>2. innerQueue[Queue] = <<>>
    <2>1. PICK w \in Workers : TRUE
      BY PoolHasWorkersAssumption
    <2>2. QueueOf[w] = Queue
      BY OneQueueAssumption, QueueOfAssumption
    <2> QED  BY <1>1, <2>2 DEF ExitedMeansDrained
  <1>3. \A s \in Sessions : state[s] # "PROCESSING"
    <2>1. ASSUME NEW s \in Sessions PROVE Holders(s) = {} /\ QueuedFor(s) = {} /\ ~Pushing(s)
      BY <1>1, <1>2 DEF Holders, QueuedFor, Pushing
    <2> QED  BY <2>1 DEF HttpInv, SessionOK, OneTask
  <1> DEFINE S == {s \in Sessions : state[s] # "none"}
  <1>4. S \in SUBSET Sessions /\ Destroy(S) /\ \A s \in S : state[s] \notin {"none", "PROCESSING"}
    BY <1>3 DEF DestroySessions
  <1>5. /\ BuffersOK' /\ ClientOK' /\ PoolOK'
        /\ state' \in [Sessions -> Live \cup {"none", "closed"}]
        /\ \A s \in Sessions : state'[s] \in Live <=> s \notin S /\ state[s] \in Live
        /\ \A s \in Sessions : SessionOK(s)' /\ Moves(s)
    <2> HIDE DEF S
    <2> QED  BY <1>1, <1>4, DestroyedOK
  <1>6. \A s \in Sessions : state'[s] \notin Live
    BY <1>5 DEF Live, Open
  <1>7. ListOK'
    BY <1>1, <1>5, <1>6 DEF ListOK
  <1>8. LoopOK'
    BY <1>1 DEF LoopOK
  <1> QED  BY <1>5, <1>7, <1>8 DEF StepOK

-------------------------------------------------------------------------------
\* pop() hands the first task of the queue to one worker.
LEMMA PopTaskStep ==
    ASSUME HttpInv, NEW w \in Workers, PopInLoop(w), PopTask(w)
    PROVE  StepOK
  <1>1. /\ ListOK /\ BuffersOK /\ ClientOK /\ PoolOK
        /\ at \in [Workers -> Places] /\ task \in [Workers -> Tasks \cup {NoTask}]
        /\ innerQueue \in [Queues -> Seq(Sessions)]
    BY SessionTasksAssumption DEF HttpInv, QueueTypeOK
  <1>2. Queue \in Queues /\ QueueOf[w] = Queue
    BY OneQueueAssumption, QueueOfAssumption
  <1>3. UNCHANGED <<activeSessions, state, requestBuffer, responseBuffer, bytesSent, wire, peer,
                    main, readfds, writefds>>
    BY DEF PopInLoop, sessionVars, loopVars, clientVars
  <1>4. PICK q \in Seq(Sessions) : q = innerQueue[Queue]
    BY <1>1, <1>2
  <1>5. /\ at[w] = "pop" /\ q # <<>>
        /\ task' = [task EXCEPT ![w] = Head(q)]
        /\ innerQueue' = [innerQueue EXCEPT ![Queue] = Tail(q)]
        /\ at' = [at EXCEPT ![w] = "got"]
        /\ responded' = [responded EXCEPT ![w] = FALSE]
    BY <1>2, <1>4 DEF PopTask, PopInLoop
  <1>6. PICK s \in Sessions : s = Head(q)
    BY <1>5
  <1>7. /\ Len(q) \in Nat \ {0} /\ DOMAIN q = 1 .. Len(q) /\ q[1] = s
    BY <1>5, <1>6
  <1>8. /\ innerQueue'[Queue] = Tail(q) /\ DOMAIN Tail(q) = 1 .. Len(q) - 1
        /\ \A k \in 1 .. Len(q) - 1 : Tail(q)[k] = q[k + 1]
    BY <1>1, <1>2, <1>5, <1>7
  <1>9. \A u : QueuedFor(u) = {k \in 1 .. Len(q) : q[k] = u}
    BY <1>4, <1>7 DEF QueuedFor
  <1>10. \A u : QueuedFor(u)' = {k \in 1 .. Len(q) - 1 : q[k + 1] = u}
    <2>1. ASSUME NEW u
          PROVE  {k \in DOMAIN Tail(q) : Tail(q)[k] = u} = {k \in 1 .. Len(q) - 1 : q[k + 1] = u}
      BY <1>8
    <2> QED  BY <1>8, <2>1 DEF QueuedFor
  <1>11. 1 \in QueuedFor(s)
    BY <1>7, <1>9
  <1>12. /\ state[s] = "PROCESSING" /\ Holders(s) = {} /\ QueuedFor(s) = {1} /\ SessionOK(s)
         /\ ~Pushing(s)
    BY <1>11 DEF HttpInv, SessionOK, OneTask, NoTaskOf
  <1>13. QueuedFor(s)' = {}
    <2>1. \A k \in 1 .. Len(q) : q[k] = s => k = 1
      BY <1>9, <1>12
    <2> QED  BY <1>7, <1>10, <2>1
  <1>14. Holders(s)' = {w}
    <2>1. \A v \in Workers : v # w => at'[v] = at[v] /\ task'[v] = task[v]
      BY <1>1, <1>5
    <2>2. at'[w] = "got" /\ task'[w] = s
      BY <1>1, <1>5, <1>6
    <2> QED  BY <1>12, <2>1, <2>2 DEF Holders
  <1>15. /\ responded' \in [Workers -> BOOLEAN] /\ responded'[w] = FALSE
         /\ \A v \in Workers : v # w => responded'[v] = responded[v]
         /\ \A u : Pushing(u)' <=> Pushing(u)
    BY <1>1, <1>3, <1>5 DEF PoolOK, Pushing, Current
  <1>16. OneTask(s)' /\ ContentOK(s)' /\ Moves(s)
    <2>1. state'[s] = "PROCESSING" /\ ~Ready(s) /\ ~Ready(s)'
      BY <1>3, <1>12, <1>14, <1>15 DEF Ready
    <2>2. (Unsent(s)' <=> Unsent(s)) /\ (Whole(s)' <=> Whole(s))
      BY <1>3 DEF Unsent, Whole, Ends
    <2>3. OneTask(s)'
      BY <1>12, <1>13, <1>14, <1>15, <2>1 DEF OneTask
    <2>4. ContentOK(s)'
      BY <1>12, <2>1, <2>2 DEF SessionOK, ContentOK
    <2>5. Moves(s)
      BY <1>12, <1>15, <2>1 DEF Moves, HandOf
    <2> QED  BY <2>3, <2>4, <2>5
  <1>17. ASSUME NEW u \in Sessions \ {s} PROVE Kept(u)
    <2>1. Holders(u)' = Holders(u)
      BY <1>1, <1>5, <1>6 DEF Holders
    <2>2. \A v \in Holders(u) : responded'[v] = responded[v]
      BY <1>5, <1>15 DEF Holders
    <2>3. QueuedFor(u) = {} => QueuedFor(u)' = {}
      <3>1. \A k \in 1 .. Len(q) - 1 : k + 1 \in 1 .. Len(q)
        BY <1>7
      <3> QED  BY <1>9, <1>10, <3>1
    <2>4. ASSUME NEW k, QueuedFor(u) = {k} PROVE QueuedFor(u)' = {k - 1}
      <3>1. /\ k \in 1 .. Len(q) /\ q[k] = u
            /\ \A j \in 1 .. Len(q) : q[j] = u => j = k
        BY <1>9, <2>4
      <3>2. k # 1
        BY <1>7, <3>1
      <3>3. k - 1 \in 1 .. Len(q) - 1 /\ k - 1 + 1 = k
        BY <1>7, <3>1, <3>2
      <3>4. \A j \in 1 .. Len(q) - 1 : q[j + 1] = u <=> j = k - 1
        BY <1>7, <3>1, <3>3
      <3> QED  BY <1>10, <3>3, <3>4
    <2> QED  BY <1>3, <1>15, <2>1, <2>2, <2>3, <2>4 DEF Kept
  <1>18. ListOK' /\ BuffersOK' /\ ClientOK'
    BY <1>1, <1>3 DEF ListOK, BuffersOK, ClientOK
  <1>19. LoopOK'
    <2>1. \A v \in Workers : at[v] = "exited" => at'[v] = "exited"
      BY <1>1, <1>5
    <2> QED  BY <1>3, <2>1, LoopStays
  <1>20. PoolOK'
    <2>1. ASSUME NEW v \in Workers, at'[v] = "got" PROVE task'[v] \in Sessions
      BY <1>1, <1>5, <1>6, <2>1 DEF PoolOK
    <2> QED  BY <1>15, <2>1 DEF PoolOK
  <1> QED  BY <1>16, <1>17, <1>18, <1>19, <1>20, OneSession

\* The session a worker has.
LEMMA HeldSession ==
    ASSUME HttpInv, NEW w \in Workers, at[w] = "got"
    PROVE  /\ task[w] \in Sessions /\ state[task[w]] = "PROCESSING"
           /\ Holders(task[w]) = {w} /\ QueuedFor(task[w]) = {} /\ ~Pushing(task[w])
           /\ SessionOK(task[w]) /\ (Ready(task[w]) <=> responded[w])
           /\ \A u \in Sessions \ {task[w]} : w \notin Holders(u)
  <1>1. PICK s \in Sessions : s = task[w]
    BY DEF HttpInv, PoolOK
  <1>2. w \in Holders(s) /\ SessionOK(s)
    BY <1>1 DEF Holders, HttpInv
  <1>3. /\ state[s] = "PROCESSING" /\ Holders(s) = {w} /\ QueuedFor(s) = {} /\ ~Pushing(s)
    BY <1>2 DEF SessionOK, OneTask, NoTaskOf
  <1>4. Ready(s) <=> responded[w]
    BY <1>3 DEF Ready
  <1>5. \A u \in Sessions \ {s} : w \notin Holders(u)
    BY <1>1 DEF Holders
  <1> QED  BY <1>1, <1>2, <1>3, <1>4, <1>5

\* The response is written while the worker has the session.
LEMMA PrepareResponseStep ==
    ASSUME HttpInv, NEW w \in Workers, PrepareResponse(w)
    PROVE  StepOK
  <1>1. /\ ListOK /\ BuffersOK /\ ClientOK /\ PoolOK /\ at[w] = "got" /\ ~responded[w]
    BY DEF HttpInv, PrepareResponse
  <1>2. PICK s \in Sessions : s = task[w]
    BY <1>1, HeldSession
  <1>3. /\ state[s] = "PROCESSING" /\ Holders(s) = {w} /\ QueuedFor(s) = {} /\ ~Pushing(s)
        /\ SessionOK(s) /\ (Ready(s) <=> responded[w])
        /\ \A u \in Sessions \ {s} : w \notin Holders(u)
    BY <1>1, <1>2, HeldSession
  <1>4. /\ responded' = [responded EXCEPT ![w] = TRUE]
        /\ responseBuffer' = [responseBuffer EXCEPT ![s] = Pieces]
        /\ bytesSent' = [bytesSent EXCEPT ![s] = 0]
        /\ UNCHANGED <<innerQueue, at, task, activeSessions, state, requestBuffer, wire, peer,
                       main, readfds, writefds>>
    BY <1>2 DEF PrepareResponse, queueVars, loopVars, clientVars
  <1>5. /\ BuffersOK' /\ Unsent(s)'
        /\ \A u \in Sessions \ {s} : /\ bytesSent'[u] = bytesSent[u]
                                     /\ responseBuffer'[u] = responseBuffer[u]
    <2>1. Pieces \in Nat \ {0}
      BY PiecesAssumption
    <2>2. /\ requestBuffer \in [Sessions -> Seq(Chunks)]
          /\ responseBuffer \in [Sessions -> 0 .. Pieces]
          /\ bytesSent \in [Sessions -> 0 .. Pieces]
      BY <1>1 DEF BuffersOK
    <2>3. /\ responseBuffer' \in [Sessions -> 0 .. Pieces] /\ responseBuffer'[s] = Pieces
          /\ \A u \in Sessions \ {s} : responseBuffer'[u] = responseBuffer[u]
      BY <1>4, <2>1, <2>2
    <2>4. /\ bytesSent' \in [Sessions -> 0 .. Pieces] /\ bytesSent'[s] = 0
          /\ \A u \in Sessions \ {s} : bytesSent'[u] = bytesSent[u]
      BY <1>4, <2>1, <2>2
    <2> QED  BY <1>4, <2>1, <2>2, <2>3, <2>4 DEF BuffersOK, Unsent
  <1>6. ListOK' /\ ClientOK'
    BY <1>1, <1>4 DEF ListOK, ClientOK
  <1>7. LoopOK'
    BY <1>4, LoopStays
  <1>8. /\ responded' \in [Workers -> BOOLEAN] /\ responded'[w] = TRUE
        /\ \A v \in Workers : v # w => responded'[v] = responded[v]
    BY <1>1, <1>4 DEF PoolOK
  <1>9. PoolOK'
    BY <1>1, <1>4, <1>8 DEF PoolOK
  <1>10. \A u \in Sessions : /\ Holders(u)' = Holders(u) /\ QueuedFor(u)' = QueuedFor(u)
                             /\ Pushing(u)' <=> Pushing(u)
    BY <1>4 DEF Holders, QueuedFor, Pushing, Current
  <1>11. Ready(s)' /\ OneTask(s)'
    BY <1>3, <1>4, <1>8, <1>10 DEF Ready, SessionOK, OneTask
  <1>12. ContentOK(s)'
    BY <1>3, <1>4, <1>5, <1>11 DEF ContentOK
  <1>13. Moves(s)
    BY <1>1, <1>3, <1>4, <1>10, <1>11
       DEF Moves, HandOf, Handover!Moves, Handover!Submitted, Handover!Responded
  <1>14. ASSUME NEW u \in Sessions \ {s} PROVE Kept(u)
    BY <1>3, <1>4, <1>5, <1>8, <1>10 DEF Kept, Holders
  <1> QED  BY <1>5, <1>6, <1>7, <1>9, <1>11, <1>12, <1>13, <1>14, OneSession

\* SENDING gives the session back with its response.
LEMMA HandBackStep ==
    ASSUME HttpInv, NEW w \in Workers, HandBack(w)
    PROVE  StepOK
  <1>1. /\ ListOK /\ BuffersOK /\ ClientOK /\ PoolOK /\ at[w] = "got" /\ responded[w]
        /\ at \in [Workers -> Places]
    BY DEF HttpInv, QueueTypeOK, HandBack, PopAgain
  <1>2. PICK s \in Sessions : s = task[w]
    BY <1>1, HeldSession
  <1>3. /\ state[s] = "PROCESSING" /\ Holders(s) = {w} /\ QueuedFor(s) = {} /\ ~Pushing(s)
        /\ SessionOK(s) /\ Ready(s)
        /\ \A u \in Sessions \ {s} : w \notin Holders(u)
    BY <1>1, <1>2, HeldSession
  <1>4. /\ responded' = [responded EXCEPT ![w] = FALSE]
        /\ at' = [at EXCEPT ![w] = "pop"]
        /\ state' = [state EXCEPT ![s] = "SENDING"]
        /\ UNCHANGED <<innerQueue, task, activeSessions, requestBuffer, responseBuffer, bytesSent,
                       wire, peer, main, readfds, writefds>>
    BY <1>2 DEF HandBack, PopAgain, loopVars, clientVars
  <1>5. /\ ListOK' /\ state'[s] = "SENDING"
        /\ \A u \in Sessions \ {s} : state'[u] = state[u]
    BY <1>3, <1>4, ListStays DEF Live, Open
  <1>6. BuffersOK' /\ ClientOK'
    <2>1. BuffersOK'
      BY <1>1, <1>4 DEF BuffersOK
    <2>2. ClientOK'
      BY <1>1, <1>3, <1>4, <1>5 DEF ClientOK
    <2> QED  BY <2>1, <2>2
  <1>7. /\ at'[w] = "pop"
        /\ \A v \in Workers : v # w => at'[v] = at[v] /\ responded'[v] = responded[v]
        /\ responded' \in [Workers -> BOOLEAN]
    BY <1>1, <1>4 DEF PoolOK
  <1>8. LoopOK'
    <2>1. \A v \in Workers : at[v] = "exited" => at'[v] = "exited"
      BY <1>1, <1>7
    <2> QED  BY <1>4, <2>1, LoopStays
  <1>9. PoolOK'
    <2>1. ASSUME NEW v \in Workers, at'[v] = "got" PROVE task'[v] \in Sessions
      BY <1>1, <1>4, <1>7, <2>1 DEF PoolOK
    <2> QED  BY <1>7, <2>1 DEF PoolOK
  <1>10. /\ \A u \in Sessions : QueuedFor(u)' = QueuedFor(u)
         /\ Holders(s)' = {}
         /\ \A u \in Sessions \ {s} : Holders(u)' = Holders(u)
         /\ \A u \in Sessions : Pushing(u)' <=> Pushing(u)
    <2>1. \A u : Holders(u)' = Holders(u) \ {w}
      BY <1>4, <1>7 DEF Holders
    <2> QED  BY <1>3, <1>4, <2>1 DEF QueuedFor, Pushing, Current
  <1>11. OneTask(s)'
    BY <1>3, <1>5, <1>10 DEF OneTask, NoTaskOf
  <1>12. Unsent(s) /\ Unsent(s)'
    BY <1>3, <1>4 DEF SessionOK, ContentOK, Unsent
  <1>13. ContentOK(s)'
    BY <1>5, <1>12 DEF ContentOK
  <1>14. Moves(s)
    BY <1>3, <1>5, <1>12
       DEF Moves, HandOf, Handover!Moves, Handover!Responded, Handover!Sending
  <1>15. ASSUME NEW u \in Sessions \ {s} PROVE Kept(u)
    <2>1. \A v \in Holders(u) : responded'[v] = responded[v]
      BY <1>3, <1>7 DEF Holders
    <2> QED  BY <1>4, <1>5, <1>10, <2>1 DEF Kept
  <1> QED  BY <1>5, <1>6, <1>8, <1>9, <1>11, <1>13, <1>14, <1>15, OneSession

-------------------------------------------------------------------------------
(* The invariant and the theorems.                                              *)

\* Every step keeps the sessions as they should be and moves each along an edge.
LEMMA NextIsOK ==
    ASSUME HttpInv, Next
    PROVE  StepOK
  <1>1. CASE MainStep \/ SelectFails
    BY <1>1, LoopMoves, AcceptStep, ServeStep, PushTaskStep, ExpireStep, DestroySessionsStep
       DEF MainStep
  <1>2. ASSUME NEW w \in Workers, LoopStep(w) \/ SpuriousInLoop(w) PROVE StepOK
    BY <1>2, IdleStep, PopTaskStep, PrepareResponseStep, HandBackStep DEF LoopStep
  <1>3. ASSUME NEW s \in Sessions,
               Connect(s) \/ Leave(s) \/ TimePasses(s) \/ \E chunk \in Chunks : SendBytes(s, chunk)
        PROVE  StepOK
    BY <1>3, ClientStep
  <1> QED  BY <1>1, <1>2, <1>3 DEF Next

\* A step of the server is a step of its queue, or none.
LEMMA QueueStepOfServer ==
    ASSUME HttpInv, [Next]_vars
    PROVE  [QueueNext]_queueVars
  <1>1. Queue \in Queues
    BY OneQueueAssumption
  <1>2. ASSUME NEW s \in Tasks, Push(Queue, s) PROVE QueueNext
    BY <1>1, <1>2 DEF QueueNext, ProducerStep
  <1>3. CASE PushTask
    <2>1. Current \in Tasks /\ Push(Queue, Current)
      BY <1>3, CurrentIsSession, SessionTasksAssumption DEF PushTask, HandOver
    <2> QED  BY <1>2, <2>1
  <1>4. CASE NotifyWorker \/ StopPool
    BY <1>1, <1>4 DEF NotifyWorker, StopPool, QueueNext, ProducerStep, ControllerStep
  <1>5. ASSUME NEW w \in Workers, LoopStep(w) \/ SpuriousInLoop(w) PROVE [QueueNext]_queueVars
    BY <1>5 DEF LoopStep, SpuriousInLoop, PopInLoop, PrepareResponse, HandBack,
               QueueNext, WorkerStep
  <1>6. ASSUME NEW s \in Sessions,
               Connect(s) \/ Leave(s) \/ TimePasses(s) \/ \E chunk \in Chunks : SendBytes(s, chunk)
        PROVE  UNCHANGED queueVars
    BY <1>6 DEF Connect, Leave, TimePasses, SendBytes, ServerUnchanged
  <1>7. CASE Start \/ BuildSets \/ Select \/ Accept \/ Serve \/ Expire \/ JoinPool
             \/ DestroySessions \/ SelectFails
    BY <1>7 DEF Start, BuildSets, Select, Accept, Serve, ReadData, HandOver, WriteData, PeerGone,
                Expire, JoinPool, DestroySessions, SelectFails
  <1>8. CASE UNCHANGED vars
    BY <1>8 DEF vars
  <1> QED  BY <1>3, <1>4, <1>5, <1>6, <1>7, <1>8 DEF Next, MainStep

\* Before the server starts nobody has a session.
LEMMA HttpInitInv == Init => HttpInv
  <1> SUFFICES ASSUME Init PROVE HttpInv
    OBVIOUS
  <1>1. QueueTypeOK /\ ExitedMeansDrained
    BY DEF Init, QueueInit, QueueTypeOK, ExitedMeansDrained, Places
  <1>2. ListOK
    BY DEF Init, ListOK, Live, Open
  <1>3. BuffersOK
    <2>1. 0 \in 0 .. Pieces /\ <<>> \in Seq(Chunks)
      BY PiecesAssumption
    <2> QED  BY <2>1 DEF Init, BuffersOK
  <1>4. ClientOK /\ LoopOK
    <2>1. ClientOK
      <3>1. <<>> \in Seq(Chunks)
        OBVIOUS
      <3> QED  BY <3>1 DEF Init, ClientOK
    <2>2. LoopOK
      BY DEF Init, LoopOK
    <2> QED  BY <2>1, <2>2
  <1>5. PoolOK
    BY DEF Init, QueueInit, PoolOK
  <1>6. ASSUME NEW s \in Sessions PROVE SessionOK(s)
    <2>1. Queue \in Queues
      BY OneQueueAssumption
    <2>2. Holders(s) = {} /\ QueuedFor(s) = {} /\ state[s] = "none" /\ ~Pushing(s)
      BY <2>1 DEF Init, QueueInit, Holders, QueuedFor, Pushing
    <2>3. ~Unsent(s) /\ requestBuffer[s] = <<>>
      BY DEF Init, Unsent
    <2> QED  BY <2>2, <2>3 DEF SessionOK, OneTask, NoTaskOf, ContentOK
  <1> QED  BY <1>1, <1>2, <1>3, <1>4, <1>5, <1>6 DEF HttpInv

\* The invariant is inductive, the part of the queue by the lemmas about TaskQueue.
LEMMA HttpNextInv == HttpInv /\ [Next]_vars => HttpInv'
  <1> SUFFICES ASSUME HttpInv, [Next]_vars PROVE HttpInv'
    OBVIOUS
  <1>1. QueueTypeOK' /\ ExitedMeansDrained'
    BY QueueStepOfServer, QueueTypeStep, DrainedStep DEF HttpInv
  <1>2. StepOK
    <2>1. CASE Next
      BY <2>1, NextIsOK
    <2>2. CASE UNCHANGED vars
      <3>1. UNCHANGED <<innerQueue, at, task, activeSessions, state, requestBuffer, bytesSent,
                        responseBuffer, responded, main, readfds, writefds, wire, peer>>
        BY <2>2 DEF vars, queueVars, sessionVars, loopVars, clientVars
      <3>2. LoopOK' /\ ClientOK' /\ responded' \in [Workers -> BOOLEAN] /\ PushKept
        BY <3>1 DEF HttpInv, LoopOK, ClientOK, PoolOK, PushKept
      <3> QED  BY <3>1, <3>2, QuietStep
    <2> QED  BY <2>1, <2>2
  <1> QED  BY <1>1, <1>2 DEF StepOK, HttpInv

\* In every state a session's tasks, buffers and place in the list fit its state
\* (ClientSession.cpp 44-51, 65-70, 118, 189-190; Server.cpp 129-158).
THEOREM HttpInvariant == Spec => []HttpInv
  BY HttpInitInv, HttpNextInv, PTL DEF Spec

\* The loop and the workers use the pool's queue only as TaskQueue allows (ThreadPool.h
\* of Lab5; ThreadPool.cpp 25-54): the server is a use of TaskQueue.
THEOREM ServerImplementsTaskQueue == Spec => QueueSpec
  <1>1. Init => QueueInit
    BY DEF Init
  <1>2. HttpInv /\ [Next]_vars => [QueueNext]_queueVars
    BY QueueStepOfServer
  <1> QED  BY <1>1, <1>2, HttpInvariant, PTL DEF Spec, QueueSpec

\* One notify_one() for each task is enough although all workers wait at one queue: no
\* request is left in it while every worker sleeps, and the destructor of the pool finds
\* no worker blocked (TaskQueue.h of Lab5, 64-67, 130).
THEOREM ServerQueueSound == Spec => [](NoLostWakeup /\ StopReleasesWaiters)
  BY ServerImplementsTaskQueue, NoLostWakeupHolds, StopReleasesWaitersHolds, PTL

\* With the queue the server inherits how a stop ends: once ~ThreadPool() has stopped it,
\* no step gives the workers more to do and each step of theirs leaves less, so the join
\* waits for a number of steps known beforehand (ThreadPool.cpp 42-54).
THEOREM ServerStopConverges == Spec => StopConverges
  BY ServerImplementsTaskQueue, StopConvergesHolds, PTL

\* The tear-down as far as ~Server() has come: the pool is stopped before it is joined,
\* it is joined before the sessions go, and then they have gone for good.
TornDown ==
    /\ main.pc \in {"join", "destroy", "ended"} => queueStopFlag[Queue]
    /\ main.pc \in {"destroy", "ended"} => \A w \in Workers : at[w] = "exited"
    /\ main.pc = "ended" => \A s \in Sessions : state[s] \in {"none", "closed"}

\* No step undoes the stop or comes to the join without it, and nobody wakes a session up.
LEMMA TornDownStep ==
    ASSUME HttpInv, TornDown, [Next]_vars
    PROVE  TornDown'
  <1>1. Queue \in Queues /\ QueueTypeOK
    BY OneQueueAssumption DEF HttpInv
  <1>2. [QueueNext]_queueVars
    BY QueueStepOfServer
  <1>3. queueStopFlag[Queue] => queueStopFlag'[Queue]
    BY <1>1, <1>2, StopIsFinal
  <1>4. \A w \in Workers : at[w] = "exited" => at'[w] = "exited"
    BY <1>1, <1>2, ExitedStays
  <1>5. CASE StopPool
    BY <1>1, <1>5 DEF StopPool, Stop, QueueTypeOK, TornDown
  <1>6. CASE JoinPool
    BY <1>3, <1>4, <1>6 DEF JoinPool, TornDown
  <1>7. CASE DestroySessions
    <2>1. \A s \in Sessions : state'[s] \in {"none", "closed"}
      BY <1>7 DEF DestroySessions, Destroy
    <2> QED  BY <1>3, <1>4, <1>7, <2>1 DEF DestroySessions, TornDown
  <1>8. CASE Start \/ BuildSets \/ Select \/ SelectFails \/ Accept \/ Serve \/ PushTask
             \/ NotifyWorker \/ Expire
    <2>1. main \in [pc : {"start", "build", "select", "accept", "serve", "push", "notify",
                          "expire", "stop", "join", "destroy", "ended"}, i : Nat]
      BY DEF HttpInv, LoopOK
    <2>2. main'.pc \notin {"join", "destroy", "ended"}
      BY <1>8, <2>1 DEF Start, BuildSets, Select, SelectFails, Accept, GoTo, Serve, ReadData,
                       WriteData, PeerGone, PushTask, NotifyWorker, Expire
    <2> QED  BY <2>2 DEF TornDown
  <1>9. CASE \/ \E w \in Workers : LoopStep(w) \/ SpuriousInLoop(w)
             \/ \E s \in Sessions : Connect(s) \/ Leave(s) \/ TimePasses(s)
                                        \/ \E chunk \in Chunks : SendBytes(s, chunk)
             \/ UNCHANGED vars
    <2>1. main' = main
      BY <1>9 DEF LoopStep, SpuriousInLoop, PopInLoop, PrepareResponse, HandBack, Connect, Leave,
                 TimePasses, SendBytes, ServerUnchanged, loopVars, vars
    <2>2. state' = state \/ \E w \in Workers : at[w] = "got"
      BY <1>9 DEF LoopStep, SpuriousInLoop, PopInLoop, PrepareResponse, HandBack, PopAgain,
                 Connect, Leave, TimePasses, SendBytes, ServerUnchanged, sessionVars, vars
    <2>3. main.pc = "ended" => state' = state
      BY <2>2 DEF TornDown
    <2> QED  BY <1>3, <1>4, <2>1, <2>3 DEF TornDown
  <1> QED  BY <1>5, <1>6, <1>7, <1>8, <1>9 DEF Next, MainStep

\* ~Server() does not hang and leaves nothing behind: when it joins the pool no worker is
\* asleep; when it destroys the sessions no worker is left, no task is queued, and no
\* session is being processed; and afterwards no session is open (Server.h 29-30: the
\* pool is the last member, so it is destroyed first; ThreadPool.cpp 19-54).
THEOREM TeardownIsSafe ==
    Spec => [](/\ main.pc \in {"join", "destroy", "ended"} =>
                     queueStopFlag[Queue] /\ WaitersOf(Queue) = {}
               /\ main.pc \in {"destroy", "ended"} =>
                     /\ \A w \in Workers : at[w] = "exited"
                     /\ innerQueue[Queue] = <<>>
                     /\ \A s \in Sessions : state[s] # "PROCESSING"
               /\ main.pc = "ended" => \A s \in Sessions : state[s] \in {"none", "closed"})
  <1> DEFINE Safe ==
        /\ main.pc \in {"join", "destroy", "ended"} =>
              queueStopFlag[Queue] /\ WaitersOf(Queue) = {}
        /\ main.pc \in {"destroy", "ended"} =>
              /\ \A w \in Workers : at[w] = "exited"
              /\ innerQueue[Queue] = <<>>
              /\ \A s \in Sessions : state[s] # "PROCESSING"
        /\ main.pc = "ended" => \A s \in Sessions : state[s] \in {"none", "closed"}
  <1>1. Init => TornDown
    BY DEF Init, TornDown
  <1>2. Spec => []TornDown
    BY <1>1, TornDownStep, HttpInvariant, PTL DEF Spec
  <1>3. HttpInv /\ TornDown /\ NoLostWakeup /\ StopReleasesWaiters => Safe
    <2> SUFFICES ASSUME HttpInv, TornDown, StopReleasesWaiters PROVE Safe
      OBVIOUS
    <2>1. Queue \in Queues
      BY OneQueueAssumption
    <2>2. ASSUME main.pc \in {"join", "destroy", "ended"}
          PROVE  queueStopFlag[Queue] /\ WaitersOf(Queue) = {}
      BY <2>1, <2>2 DEF TornDown, StopReleasesWaiters
    <2>3. ASSUME main.pc \in {"destroy", "ended"}, \A w \in Workers : at[w] = "exited"
          PROVE  innerQueue[Queue] = <<>> /\ \A s \in Sessions : state[s] # "PROCESSING"
      <3>1. innerQueue[Queue] = <<>>
        BY <2>1, <2>3, OneQueueAssumption, PoolHasWorkersAssumption, QueueOfAssumption
           DEF HttpInv, ExitedMeansDrained
      <3>2. ASSUME NEW s \in Sessions PROVE state[s] # "PROCESSING"
        <4>1. Holders(s) = {} /\ QueuedFor(s) = {} /\ ~Pushing(s)
          BY <2>3, <3>1 DEF Holders, QueuedFor, Pushing
        <4>2. OneTask(s)
          BY DEF HttpInv, SessionOK
        <4> QED  BY <4>1, <4>2 DEF OneTask
      <3> QED  BY <3>1, <3>2
    <2> QED  BY <2>2, <2>3 DEF TornDown
  <1>4. Spec => []Safe
    BY <1>2, <1>3, ServerQueueSound, HttpInvariant, PTL
  <1> QED  BY <1>4

\* Every variable keeps its type; the list holds exactly the sessions whose state says so,
\* and the loop is never past its end (Server.cpp 119-158).
THEOREM HttpTypeCorrect == Spec => []HttpTypeOK
  <1>1. HttpInv => HttpTypeOK
    <2> SUFFICES ASSUME HttpInv PROVE HttpTypeOK
      OBVIOUS
    <2>1. /\ activeSessions \in Seq(Sessions)
          /\ state \in [Sessions -> Open \cup {"none", "FINISHED", "closed"}]
          /\ \A s \in Sessions : state[s] \in Open \cup {"FINISHED"}
                                    <=> s \in {activeSessions[k] : k \in DOMAIN activeSessions}
      BY DEF HttpInv, ListOK, Live
    <2>2. /\ requestBuffer \in [Sessions -> Seq(Chunks)]
          /\ responseBuffer \in [Sessions -> 0 .. Pieces]
          /\ bytesSent \in [Sessions -> 0 .. Pieces]
      BY DEF HttpInv, BuffersOK
    <2>3. /\ main.pc \in {"serve", "push", "notify", "expire"} => main.i \in DOMAIN activeSessions
          /\ readfds \cup writefds \subseteq Sessions
      BY DEF HttpInv, LoopOK
    <2> QED  BY <2>1, <2>2, <2>3 DEF HttpTypeOK, HttpInv
  <1> QED  BY <1>1, HttpInvariant, PTL

\* The sessions in state PROCESSING, and no others, have a task, and exactly one, however
\* many workers take tasks and whatever the clients do (Server.cpp 133-152, ClientSession.cpp 67-70).
THEOREM ProcessingOwnsSessionHolds == Spec => []ProcessingOwnsSession
  <1>1. HttpInv => ProcessingOwnsSession
    <2> SUFFICES ASSUME HttpInv, NEW s \in Sessions
                 PROVE  Cardinality(Holders(s)) + Cardinality(QueuedFor(s))
                            + (IF Pushing(s) THEN 1 ELSE 0)
                            = IF state[s] = "PROCESSING" THEN 1 ELSE 0
      BY DEF ProcessingOwnsSession
    <2>1. OneTask(s)
      BY DEF HttpInv, SessionOK
    <2>2. Holders(s) = {} => Cardinality(Holders(s)) = 0
      BY FS_EmptySet
    <2>3. QueuedFor(s) = {} => Cardinality(QueuedFor(s)) = 0
      BY FS_EmptySet
    <2>4. \A w : Holders(s) = {w} => Cardinality(Holders(s)) = 1
      BY FS_Singleton
    <2>5. \A k : QueuedFor(s) = {k} => Cardinality(QueuedFor(s)) = 1
      BY FS_Singleton
    <2>6. \/ /\ state[s] = "PROCESSING" <=> Pushing(s)
             /\ Cardinality(Holders(s)) = 0 /\ Cardinality(QueuedFor(s)) = 0
          \/ /\ state[s] = "PROCESSING" /\ ~Pushing(s)
             /\ Cardinality(Holders(s)) = 1 /\ Cardinality(QueuedFor(s)) = 0
          \/ /\ state[s] = "PROCESSING" /\ ~Pushing(s)
             /\ Cardinality(Holders(s)) = 0 /\ Cardinality(QueuedFor(s)) = 1
      BY <2>1, <2>2, <2>3, <2>4, <2>5, Zenon DEF OneTask, NoTaskOf
    <2> QED  BY <2>6
  <1> QED  BY <1>1, HttpInvariant, PTL

\* Who has a session and with what follows from its state.
LEMMA HandIsHeld ==
    HttpInv => \A s \in Sessions : <<OwnerOf(s), ContentOf(s)>> = HandOf(s)
  <1> SUFFICES ASSUME HttpInv, NEW s \in Sessions
               PROVE  <<OwnerOf(s), ContentOf(s)>> = HandOf(s)
    OBVIOUS
  <1>1. /\ OneTask(s) /\ ContentOK(s)
        /\ state[s] \in {"none", "READING", "PROCESSING", "SENDING", "FINISHED", "closed"}
        /\ state[s] \in Live <=> \E k \in DOMAIN activeSessions : activeSessions[k] = s
    BY DEF HttpInv, SessionOK, ListOK, Live, Open
  <1>2. OwnerOf(s) = IF state[s] = "PROCESSING" /\ ~Pushing(s) THEN "pool"
                     ELSE IF state[s] \in Live THEN "loop"
                     ELSE IF state[s] = "none" THEN "nobody" ELSE "destroyed"
    BY <1>1 DEF OwnerOf, OneTask, NoTaskOf
  <1>3. ContentOf(s) = IF Unsent(s) THEN "response"
                       ELSE IF Whole(s) /\ state[s] # "FINISHED" THEN "request" ELSE "nothing"
    BY DEF ContentOf, Unsent, Whole
  <1>4. state[s] \in {"none", "closed"} => ~Unsent(s) /\ ~Whole(s)
    BY <1>1, NoEnds DEF ContentOK, Whole
  <1>5. Pushing(s) => state[s] = "PROCESSING" /\ ~Ready(s)
    BY <1>1 DEF OneTask, NoTaskOf, Ready
  <1> QED  BY <1>1, <1>2, <1>3, <1>4, <1>5
           DEF HandOf, ContentOK, Live, Open, Handover!Awaited, Handover!Destroyed,
               Handover!Responded, Handover!Submitted, Handover!Sending, Handover!Reading,
               Handover!Received

\* The server implements the hand-over of a session between the loop and the pool: a
\* step moves a session only along the edges of SessionHandover.
THEOREM ImplementsHandoverHolds == Spec => ImplementsHandover
  <1> DEFINE hands == [s \in Sessions |-> <<OwnerOf(s), ContentOf(s)>>]
  <1>1. Init => Handover!Init
    <2> SUFFICES ASSUME Init PROVE hands = [s \in Sessions |-> Handover!Awaited]
      BY DEF Handover!Init
    <2>1. ASSUME NEW s \in Sessions PROVE <<OwnerOf(s), ContentOf(s)>> = Handover!Awaited
      <3>1. HandOf(s) = Handover!Awaited
        BY DEF Init, HandOf
      <3> QED  BY <3>1, HttpInitInv, HandIsHeld
    <2> QED  BY <2>1
  <1>2. (HttpInv => \A s \in Sessions : <<OwnerOf(s), ContentOf(s)>> = HandOf(s))'
    BY HandIsHeld, PTL
  <1>3. HttpInv /\ HttpInv' /\ [Next]_vars => [Handover!Next]_hands
    <2> SUFFICES ASSUME HttpInv, HttpInv', [Next]_vars PROVE [Handover!Next]_hands
      OBVIOUS
    <2>1. CASE Next
      <3>1. ASSUME NEW s \in Sessions
            PROVE  LET before == hands[s]
                       after == hands'[s]
                   IN  after = before \/ <<before, after>> \in Handover!Moves
        <4>1. hands[s] = HandOf(s) /\ hands'[s] = HandOf(s)'
          BY <1>2, HandIsHeld
        <4>2. Moves(s)
          BY <2>1, NextIsOK DEF StepOK
        <4> QED  BY <4>1, <4>2 DEF Moves
      <3> QED  BY <3>1 DEF Handover!Next
    <2>2. CASE UNCHANGED vars
      <3>1. UNCHANGED <<innerQueue, at, task, activeSessions, state, requestBuffer, bytesSent,
                        responseBuffer>>
        BY <2>2 DEF vars, queueVars, sessionVars
      <3>2. hands' = hands
        BY <3>1 DEF OwnerOf, ContentOf, Holders, QueuedFor, Ends
      <3> QED  BY <3>2
    <2> QED  BY <2>1, <2>2
  <1> QED  BY <1>1, <1>3, HttpInvariant, PTL DEF Spec, ImplementsHandover, Handover!Spec

-------------------------------------------------------------------------------
(* No request of a client that waits for each response gets lost.              *)

\* A buffer holds finitely many whole requests.
LEMMA EndsIsNat ==
    ASSUME NEW a \in Seq(Chunks)
    PROVE  /\ IsFiniteSet({k \in DOMAIN a : a[k] = "end"})
           /\ Ends(a) \in Nat
  <1>1. IsFiniteSet(DOMAIN a)
    <2>1. PICK n \in Nat : n = Len(a)
      OBVIOUS
    <2>2. DOMAIN a = 1 .. n /\ 1 \in Int /\ n \in Int
      BY <2>1
    <2> QED  BY <2>2, FS_Interval
  <1>2. {k \in DOMAIN a : a[k] = "end"} \in SUBSET DOMAIN a
    OBVIOUS
  <1>3. IsFiniteSet({k \in DOMAIN a : a[k] = "end"})
    BY <1>1, <1>2, FS_Subset
  <1> QED  BY <1>3, FS_CardinalityType DEF Ends

\* What is split over two buffers is counted once.
LEMMA EndsConcat ==
    ASSUME NEW a \in Seq(Chunks), NEW b \in Seq(Chunks)
    PROVE  Ends(a \o b) = Ends(a) + Ends(b)
  <1> DEFINE c == a \o b
             A == {k \in DOMAIN a : a[k] = "end"}
             B == {k \in DOMAIN b : b[k] = "end"}
             C == {k \in DOMAIN c : c[k] = "end"}
  <1>1. PICK m \in Nat, n \in Nat : m = Len(a) /\ n = Len(b)
    OBVIOUS
  <1>2. /\ DOMAIN a = 1 .. m /\ DOMAIN b = 1 .. n /\ DOMAIN c = 1 .. m + n
        /\ \A k \in 1 .. m + n : c[k] = IF k <= m THEN a[k] ELSE b[k - m]
    <2>1. /\ c \in Seq(Chunks) /\ Len(c) = m + n
          /\ \A k \in 1 .. m + n : c[k] = IF k <= m THEN a[k] ELSE b[k - m]
      BY <1>1, ConcatProperties
    <2> QED  BY <1>1, <2>1
  <1> HIDE DEF c
  <1> DEFINE D == C \ A
             f == [k \in B |-> k + m]
  <1>3. C = A \cup D /\ A \cap D = {} /\ D = {k \in m + 1 .. m + n : b[k - m] = "end"}
    <2>1. A \subseteq C
      BY <1>2
    <2>2. ASSUME NEW k \in C, k \notin A PROVE k \in m + 1 .. m + n /\ b[k - m] = "end"
      BY <1>2, <2>2
    <2>3. ASSUME NEW k \in m + 1 .. m + n, b[k - m] = "end" PROVE k \in C /\ k \notin A
      BY <1>2, <2>3
    <2> QED  BY <2>1, <2>2, <2>3
  <1>4. IsFiniteSet(A) /\ IsFiniteSet(B)
    BY EndsIsNat
  <1> HIDE DEF C, A
  <1>5. f \in Bijection(B, D)
    <2>1. /\ B \subseteq 1 .. n /\ \A k \in B : b[k] = "end"
          /\ \A k \in 1 .. n : b[k] = "end" => k \in B
      BY <1>2
    <2> HIDE DEF B
    <2>2. ASSUME NEW k \in B PROVE f[k] = k + m /\ k + m \in D
      BY <1>3, <2>1
    <2>3. f \in [B -> D]
      BY <2>2
    <2>4. \A j, k \in B : f[j] = f[k] => j = k
      BY <2>1, <2>2
    <2>5. ASSUME NEW d \in D PROVE \E k \in B : f[k] = d
      <3>1. d \in m + 1 .. m + n /\ b[d - m] = "end"
        BY <1>3
      <3>2. d - m \in B
        BY <2>1, <3>1
      <3>3. f[d - m] = d
        BY <2>2, <3>1, <3>2
      <3> QED  BY <3>2, <3>3
    <2> HIDE DEF f, D
    <2> QED  BY <2>3, <2>4, <2>5, Fun_IsBij
  <1>6. IsFiniteSet(D) /\ Cardinality(D) = Cardinality(B)
    BY <1>4, <1>5, FS_Bijection DEF ExistsBijection
  <1>7. Cardinality(A) \in Nat /\ Cardinality(B) \in Nat
    BY <1>4, FS_CardinalityType
  <1>8. Cardinality(A \cap D) = 0
    BY <1>3, FS_EmptySet
  <1>9. Cardinality(C) = Cardinality(A) + Cardinality(B)
    <2> HIDE DEF D, B
    <2>1. Cardinality(A \cup D) = Cardinality(A) + Cardinality(D) - Cardinality(A \cap D)
      BY <1>4, <1>6, FS_Union
    <2> QED  BY <1>3, <1>6, <1>7, <1>8, <2>1
  <1> QED  BY <1>9 DEF Ends, A, C, c

\* One chunk more.
LEMMA EndsAppend ==
    ASSUME NEW a \in Seq(Chunks), NEW chunk \in Chunks
    PROVE  Ends(Append(a, chunk)) = Ends(a) + (IF chunk = "end" THEN 1 ELSE 0)
  <1>1. Append(a, chunk) = a \o <<chunk>> /\ <<chunk>> \in Seq(Chunks)
    OBVIOUS
  <1>2. Ends(<<chunk>>) = IF chunk = "end" THEN 1 ELSE 0
    <2>1. CASE chunk = "end"
      <3>1. {k \in DOMAIN <<chunk>> : <<chunk>>[k] = "end"} = {1}
        BY <2>1
      <3> QED  BY <2>1, <3>1, FS_Singleton DEF Ends
    <2>2. CASE chunk # "end"
      <3>1. {k \in DOMAIN <<chunk>> : <<chunk>>[k] = "end"} = {}
        BY <2>2
      <3> QED  BY <2>2, <3>1, FS_EmptySet DEF Ends
    <2> QED  BY <2>1, <2>2
  <1>3. Ends(Append(a, chunk)) = Ends(a) + Ends(<<chunk>>)
    BY <1>1, EndsConcat
  <1> QED  BY <1>2, <1>3

\* Some chunks go from one buffer to the end of another.
LEMMA EndsMove ==
    ASSUME NEW a \in Seq(Chunks), NEW b \in Seq(Chunks), NEW n \in 1 .. Len(b)
    PROVE  /\ a \o SubSeq(b, 1, n) \in Seq(Chunks) /\ SubSeq(b, n + 1, Len(b)) \in Seq(Chunks)
           /\ Ends(a \o SubSeq(b, 1, n)) + Ends(SubSeq(b, n + 1, Len(b))) = Ends(a) + Ends(b)
  <1> DEFINE x == SubSeq(b, 1, n)
             y == SubSeq(b, n + 1, Len(b))
  <1>1. x \in Seq(Chunks) /\ y \in Seq(Chunks) /\ b = x \o y
    OBVIOUS
  <1> HIDE DEF x, y
  <1>2. a \o x \in Seq(Chunks) /\ Ends(a \o x) = Ends(a) + Ends(x) /\ Ends(b) = Ends(x) + Ends(y)
    BY <1>1, EndsConcat, ConcatProperties
  <1>3. Ends(a) \in Nat /\ Ends(x) \in Nat /\ Ends(y) \in Nat
    BY <1>1, EndsIsNat
  <1>4. Ends(a \o x) + Ends(y) = Ends(a) + Ends(b)
    BY <1>2, <1>3
  <1> QED  BY <1>1, <1>2, <1>4 DEF x, y

\* A client that waits is one request ahead of its answers at most; a session that
\* has gone to the pool has a whole one; and until a session is FINISHED what has
\* been sent and not answered is on its way or in the buffer.
AccountOK(s) ==
    /\ sent[s] <= answered[s] + 1
    /\ state[s] \in {"PROCESSING", "SENDING"} => Whole(s)
    /\ state[s] \in Open \cup {"none"} =>
          sent[s] = answered[s] + Ends(wire[s]) + Ends(requestBuffer[s])

AccountInv ==
    /\ sent \in [Sessions -> Nat] /\ answered \in [Sessions -> Nat]
    /\ \A s \in Sessions : AccountOK(s)

\* Nothing is sent, received or answered, and the session goes no way back.
LEMMA AccountKept ==
    ASSUME NEW s \in Sessions, AccountOK(s),
           wire'[s] = wire[s], requestBuffer'[s] = requestBuffer[s],
           sent'[s] = sent[s], answered'[s] = answered[s],
           state'[s] \in {"PROCESSING", "SENDING"} => state[s] \in {"PROCESSING", "SENDING"},
           state'[s] \in Open \cup {"none"} => state[s] \in Open \cup {"none"}
    PROVE  AccountOK(s)'
  <1>1. Whole(s)' <=> Whole(s)
    BY DEF Whole, Ends
  <1>2. Ends(wire[s])' = Ends(wire[s]) /\ Ends(requestBuffer[s])' = Ends(requestBuffer[s])
    BY DEF Ends
  <1> QED  BY <1>1, <1>2 DEF AccountOK

\* The steps that send, receive and answer nothing.
LEMMA AccountQuiet ==
    ASSUME AccountInv,
           UNCHANGED <<wire, requestBuffer, sent, answered>>,
           \A s \in Sessions :
              /\ state'[s] \in {"PROCESSING", "SENDING"} => state[s] \in {"PROCESSING", "SENDING"}
              /\ state'[s] \in Open \cup {"none"} => state[s] \in Open \cup {"none"}
    PROVE  AccountInv'
  <1>1. \A s \in Sessions : AccountOK(s)'
    BY AccountKept DEF AccountInv
  <1> QED  BY <1>1 DEF AccountInv

\* send() of a client that has got its last response.
LEMMA AccountSend ==
    ASSUME ~Pipelining, HttpInv, AccountInv, NEW s \in Sessions, NEW chunk \in Chunks,
           SendBytes(s, chunk)
    PROVE  AccountInv'
  <1>1. /\ sent \in [Sessions -> Nat] /\ answered \in [Sessions -> Nat]
        /\ wire \in [Sessions -> Seq(Chunks)]
        /\ requestBuffer \in [Sessions -> Seq(Chunks)]
    BY DEF AccountInv, HttpInv, ClientOK, BuffersOK
  <1>2. /\ sent[s] = answered[s]
        /\ wire' = [wire EXCEPT ![s] = Append(wire[s], chunk)]
        /\ sent' = [sent EXCEPT ![s] = IF chunk = "end" THEN sent[s] + 1 ELSE sent[s]]
        /\ UNCHANGED <<answered, state, requestBuffer>>
    BY DEF SendBytes, ServerUnchanged, sessionVars
  <1>3. sent' \in [Sessions -> Nat]
    BY <1>1, <1>2
  <1>4. ASSUME NEW u \in Sessions \ {s} PROVE AccountOK(u)'
    BY <1>1, <1>2, AccountKept DEF AccountInv
  <1>5. AccountOK(s)'
    <2>1. /\ sent'[s] = sent[s] + (IF chunk = "end" THEN 1 ELSE 0)
          /\ sent[s] \in Nat /\ answered[s] \in Nat
      BY <1>1, <1>2
    <2>2. Ends(wire'[s]) = Ends(wire[s]) + (IF chunk = "end" THEN 1 ELSE 0)
      BY <1>1, <1>2, EndsAppend
    <2>3. Ends(wire[s]) \in Nat /\ Ends(requestBuffer[s]) \in Nat
      BY <1>1, EndsIsNat
    <2>4. AccountOK(s) /\ Ends(wire[s])' = Ends(wire'[s])
      BY DEF AccountInv, Ends
    <2>5. (Whole(s)' <=> Whole(s)) /\ Ends(requestBuffer[s])' = Ends(requestBuffer[s])
      BY <1>2 DEF Whole, Ends
    <2>6. sent'[s] <= answered[s] + 1
      BY <1>2, <2>1
    <2>7. state[s] \in Open \cup {"none"} =>
            sent'[s] = answered[s] + Ends(wire'[s]) + Ends(requestBuffer[s])
      BY <2>1, <2>2, <2>3, <2>4 DEF AccountOK
    <2> QED  BY <1>2, <2>4, <2>5, <2>6, <2>7 DEF AccountOK
  <1> QED  BY <1>1, <1>2, <1>3, <1>4, <1>5 DEF AccountInv

\* recv(): what leaves the connection goes into the buffer.
LEMMA AccountRead ==
    ASSUME HttpInv, AccountInv, NEW s \in Sessions, state[s] = "READING", ReadData(s)
    PROVE  AccountInv'
  <1>1. /\ wire \in [Sessions -> Seq(Chunks)]
        /\ requestBuffer \in [Sessions -> Seq(Chunks)]
        /\ state \in [Sessions -> Live \cup {"none", "closed"}]
    BY DEF HttpInv, ClientOK, BuffersOK, ListOK
  <1>2. PICK n \in 1 .. Len(wire[s]) :
          /\ wire' = [wire EXCEPT ![s] = SubSeq(wire[s], n + 1, Len(wire[s]))]
          /\ requestBuffer' =
               [requestBuffer EXCEPT ![s] = requestBuffer[s] \o SubSeq(wire[s], 1, n)]
          /\ IF Ends(requestBuffer[s] \o SubSeq(wire[s], 1, n)) > 0
             THEN state' = [state EXCEPT ![s] = "PROCESSING"]
             ELSE UNCHANGED state
          /\ UNCHANGED <<sent, answered>>
    BY DEF ReadData, HandOver
  <1> DEFINE request == requestBuffer[s] \o SubSeq(wire[s], 1, n)
             rest == SubSeq(wire[s], n + 1, Len(wire[s]))
  <1>3. Ends(request) + Ends(rest) = Ends(requestBuffer[s]) + Ends(wire[s])
    BY <1>1, EndsMove
  <1>4. /\ Ends(request) \in Nat /\ Ends(rest) \in Nat
        /\ Ends(requestBuffer[s]) \in Nat /\ Ends(wire[s]) \in Nat
    BY <1>1, EndsMove, EndsIsNat
  <1>5. requestBuffer'[s] = request /\ wire'[s] = rest
    BY <1>1, <1>2
  <1>6. ASSUME NEW u \in Sessions \ {s} PROVE AccountOK(u)'
    BY <1>1, <1>2, AccountKept DEF AccountInv
  <1>7. state'[s] \in {"READING", "PROCESSING"} /\ (state'[s] = "PROCESSING" => Ends(request) > 0)
    BY <1>1, <1>2
  <1> HIDE DEF request, rest
  <1>8. Ends(wire[s])' = Ends(rest) /\ Ends(requestBuffer[s])' = Ends(request)
    BY <1>5 DEF Ends
  <1>9. /\ AccountOK(s) /\ sent[s] \in Nat /\ answered[s] \in Nat
        /\ sent'[s] = sent[s] /\ answered'[s] = answered[s]
    BY <1>2 DEF AccountInv
  <1>10. sent[s] = answered[s] + Ends(rest) + Ends(request)
    <2>1. sent[s] = answered[s] + Ends(wire[s]) + Ends(requestBuffer[s])
      BY <1>9 DEF AccountOK, Open
    <2>2. PICK a, b, c, d \in Nat :
            /\ a = Ends(request) /\ b = Ends(rest)
            /\ c = Ends(requestBuffer[s]) /\ d = Ends(wire[s])
      BY <1>4
    <2>3. sent[s] = answered[s] + d + c /\ a + b = c + d /\ answered[s] \in Nat
      <3>1. sent[s] = answered[s] + d + c
        BY <2>1, <2>2, Zenon
      <3>2. a + b = c + d
        BY <1>3, <2>2, Zenon
      <3> QED  BY <1>9, <3>1, <3>2, Zenon
    <2>4. sent[s] = answered[s] + b + a
      BY <2>3
    <2> QED  BY <2>2, <2>4
  <1>11. AccountOK(s)'
    <2>1. sent'[s] <= answered'[s] + 1
      BY <1>9 DEF AccountOK
    <2>2. state'[s] \in {"PROCESSING", "SENDING"} => Ends(requestBuffer[s])' > 0
      BY <1>7, <1>8
    <2>3. sent'[s] = answered'[s] + Ends(wire[s])' + Ends(requestBuffer[s])'
      BY <1>8, <1>9, <1>10
    <2> QED  BY <2>1, <2>2, <2>3 DEF AccountOK, Whole
  <1> QED  BY <1>2, <1>6, <1>11 DEF AccountInv

\* send(): reset() throws the request away that has been answered, and no other,
\* because the client has sent no other.
LEMMA AccountWrite ==
    ASSUME HttpInv, AccountInv, NEW s \in Sessions, state[s] = "SENDING", WriteData(s)
    PROVE  AccountInv'
  <1>1. /\ wire \in [Sessions -> Seq(Chunks)]
        /\ requestBuffer \in [Sessions -> Seq(Chunks)]
        /\ state \in [Sessions -> Live \cup {"none", "closed"}]
        /\ answered \in [Sessions -> Nat] /\ sent \in [Sessions -> Nat]
    BY DEF HttpInv, ClientOK, BuffersOK, ListOK, AccountInv
  <1>2. PICK last \in BOOLEAN, again \in BOOLEAN :
          /\ again => last
          /\ requestBuffer' =
               [requestBuffer EXCEPT ![s] = IF again THEN <<>> ELSE requestBuffer[s]]
          /\ state' = [state EXCEPT ![s] = IF again THEN "READING"
                                           ELSE IF last THEN "FINISHED" ELSE state[s]]
          /\ answered' = [answered EXCEPT ![s] = IF last THEN answered[s] + 1 ELSE answered[s]]
          /\ UNCHANGED <<wire, sent>>
    <2>1. PICK n \in bytesSent[s] + 1 .. responseBuffer[s] :
            LET last == n = responseBuffer[s]
                again == last /\ keepAlive[s]
            IN
            /\ requestBuffer' =
                 [requestBuffer EXCEPT ![s] = IF again THEN <<>> ELSE requestBuffer[s]]
            /\ state' = [state EXCEPT ![s] = IF again THEN "READING"
                                             ELSE IF last THEN "FINISHED" ELSE state[s]]
            /\ answered' = [answered EXCEPT ![s] = IF last THEN answered[s] + 1
                                                           ELSE answered[s]]
            /\ UNCHANGED <<wire, sent>>
      BY DEF WriteData
    <2>2. PICK last \in BOOLEAN : last <=> n = responseBuffer[s]
      OBVIOUS
    <2>3. PICK again \in BOOLEAN : again <=> last /\ keepAlive[s]
      OBVIOUS
    <2> QED  BY <2>1, <2>2, <2>3
  <1>3. ASSUME NEW u \in Sessions \ {s} PROVE AccountOK(u)'
    BY <1>1, <1>2, AccountKept DEF AccountInv
  <1>4. answered' \in [Sessions -> Nat]
    BY <1>1, <1>2
  <1>5. /\ sent[s] \in Nat /\ answered[s] \in Nat /\ sent[s] <= answered[s] + 1
        /\ sent[s] = answered[s] + Ends(wire[s]) + Ends(requestBuffer[s])
        /\ Ends(requestBuffer[s]) > 0
    BY <1>1 DEF AccountInv, AccountOK, Open, Whole
  <1>6. Ends(wire[s]) \in Nat /\ Ends(requestBuffer[s]) \in Nat
    BY <1>1, EndsIsNat
  <1>7. Ends(wire[s]) = 0 /\ Ends(requestBuffer[s]) = 1 /\ sent[s] = answered[s] + 1
    BY <1>5, <1>6
  <1>8. Ends(wire[s])' = Ends(wire[s]) /\ sent'[s] = sent[s]
    BY <1>2 DEF Ends
  <1>9. CASE again
    <2>1. /\ state'[s] = "READING" /\ answered'[s] = answered[s] + 1 /\ requestBuffer'[s] = <<>>
      BY <1>1, <1>2, <1>9
    <2>2. Ends(requestBuffer[s])' = 0
      BY <2>1, NoEnds DEF Ends
    <2>3. sent'[s] = answered'[s] + Ends(wire[s])' + Ends(requestBuffer[s])'
      BY <1>5, <1>7, <1>8, <2>1, <2>2
    <2>4. sent'[s] <= answered'[s] + 1
      BY <1>5, <1>7, <1>8, <2>1
    <2>5. AccountOK(s)'
      BY <2>1, <2>3, <2>4 DEF AccountOK
    <2> QED  BY <1>1, <1>2, <1>3, <1>4, <2>5 DEF AccountInv
  <1>10. CASE ~again /\ last
    <2>1. state'[s] = "FINISHED" /\ answered'[s] = answered[s] + 1
      BY <1>1, <1>2, <1>10
    <2>2. sent'[s] <= answered'[s] + 1
      BY <1>5, <1>7, <1>8, <2>1
    <2>3. AccountOK(s)'
      BY <2>1, <2>2 DEF AccountOK, Open
    <2> QED  BY <1>1, <1>2, <1>3, <1>4, <2>3 DEF AccountInv
  <1>11. CASE ~again /\ ~last
    <2>1. /\ state'[s] = state[s] /\ answered'[s] = answered[s]
          /\ requestBuffer'[s] = requestBuffer[s] /\ wire'[s] = wire[s] /\ sent'[s] = sent[s]
      BY <1>1, <1>2, <1>11
    <2>2. AccountOK(s)'
      BY <2>1, AccountKept DEF AccountInv
    <2> QED  BY <1>1, <1>2, <1>3, <1>4, <2>2 DEF AccountInv
  <1> QED  BY <1>2, <1>9, <1>10, <1>11

\* A session that is destroyed takes what it holds along.
LEMMA AccountDestroy ==
    ASSUME AccountInv, NEW S \in SUBSET Sessions, Destroy(S)
    PROVE  AccountInv'
  <1>1. ASSUME NEW s \in Sessions PROVE AccountOK(s)'
    <2>1. CASE s \in S
      <3>1. state'[s] = "closed" /\ sent'[s] = sent[s] /\ answered'[s] = answered[s]
        BY <2>1 DEF Destroy
      <3> QED  BY <3>1 DEF AccountInv, AccountOK, Open
    <2>2. CASE s \notin S
      <3>1. /\ state'[s] = state[s] /\ sent'[s] = sent[s] /\ answered'[s] = answered[s]
            /\ wire'[s] = wire[s] /\ requestBuffer'[s] = requestBuffer[s]
        BY <2>2 DEF Destroy
      <3> QED  BY <3>1, AccountKept DEF AccountInv
    <2> QED  BY <2>1, <2>2
  <1> QED  BY <1>1 DEF AccountInv, Destroy

\* Every step keeps the account.
LEMMA AccountStep ==
    ASSUME ~Pipelining, HttpInv, AccountInv, [Next]_vars
    PROVE  AccountInv'
  <1>0. state \in [Sessions -> Live \cup {"none", "closed"}]
    BY DEF HttpInv, ListOK
  <1>1. CASE Start \/ BuildSets \/ Select \/ SelectFails \/ PushTask \/ NotifyWorker \/ StopPool
             \/ JoinPool \/ UNCHANGED vars
    <2>1. UNCHANGED <<state, wire, requestBuffer, sent, answered>>
      BY <1>1 DEF Start, BuildSets, Select, SelectFails, PushTask, HandOver, NotifyWorker, StopPool,
                  JoinPool, sessionVars, clientVars, vars
    <2> QED  BY <2>1, AccountQuiet
  <1>2. CASE Accept
    <2>1. UNCHANGED <<wire, requestBuffer, sent, answered>>
      BY <1>2 DEF Accept
    <2>2. \/ UNCHANGED state
          \/ \E s \in Pending : state' = [state EXCEPT ![s] = "READING"]
      BY <1>2 DEF Accept
    <2>3. \A s \in Pending : state[s] = "none"
      BY DEF HttpInv, ClientOK, Pending
    <2>4. \A s \in Sessions :
            \/ state'[s] = state[s]
            \/ state[s] = "none" /\ state'[s] = "READING"
      BY <1>0, <2>2, <2>3
    <2> QED  BY <2>1, <2>4, AccountQuiet DEF Open
  <1>3. CASE Serve
    <2>1. PICK s \in Sessions : s = Current
      BY <1>3, CurrentIsSession DEF Serve
    <2>2. CASE state[s] = "READING" /\ ReadData(s)
      BY <2>2, AccountRead
    <2>3. CASE state[s] = "SENDING" /\ WriteData(s)
      BY <2>3, AccountWrite
    <2>4. CASE PeerGone(s)
      <3>1. UNCHANGED <<wire, requestBuffer, sent, answered>>
        BY <2>4 DEF PeerGone, clientVars
      <3>2. \A u \in Sessions : state'[u] = state[u] \/ state'[u] = "FINISHED"
        BY <1>0, <2>4 DEF PeerGone
      <3> QED  BY <3>1, <3>2, AccountQuiet DEF Open
    <2>5. CASE UNCHANGED <<state, requestBuffer, clientVars>>
      BY <2>5, AccountQuiet DEF clientVars
    <2> QED  BY <1>3, <2>1, <2>2, <2>3, <2>4, <2>5 DEF Serve
  <1>4. CASE Expire
    <2>1. CASE UNCHANGED <<sessionVars, clientVars>>
      BY <2>1, AccountQuiet DEF sessionVars, clientVars
    <2>2. CASE Destroy({Current})
      <3>1. {Current} \in SUBSET Sessions
        BY <1>4, CurrentIsSession DEF Expire
      <3> QED  BY <2>2, <3>1, AccountDestroy
    <2> QED  BY <1>4, <2>1, <2>2 DEF Expire
  <1>5. CASE DestroySessions
    <2> DEFINE S == {s \in Sessions : state[s] # "none"}
    <2>1. Destroy(S) /\ S \in SUBSET Sessions
      BY <1>5 DEF DestroySessions
    <2> HIDE DEF S
    <2> QED  BY <2>1, AccountDestroy
  <1>6. ASSUME NEW w \in Workers, LoopStep(w) \/ SpuriousInLoop(w)
        PROVE  AccountInv'
    <2>1. CASE PopInLoop(w) \/ SpuriousInLoop(w) \/ PrepareResponse(w)
      <3>1. UNCHANGED <<state, wire, requestBuffer, sent, answered>>
        BY <2>1 DEF PopInLoop, SpuriousInLoop, PrepareResponse, sessionVars, clientVars
      <3> QED  BY <3>1, AccountQuiet
    <2>2. CASE HandBack(w)
      <3>1. /\ UNCHANGED <<wire, requestBuffer, sent, answered>>
            /\ state' = [state EXCEPT ![task[w]] = "SENDING"]
        BY <2>2 DEF HandBack, clientVars
      <3>2. state[task[w]] = "PROCESSING"
        BY <2>2, HeldSession DEF HandBack, PopAgain
      <3>3. \A s \in Sessions :
              \/ state'[s] = state[s]
              \/ state[s] = "PROCESSING" /\ state'[s] = "SENDING"
        BY <1>0, <3>1, <3>2
      <3> QED  BY <3>1, <3>3, AccountQuiet DEF Open
    <2> QED  BY <1>6, <2>1, <2>2 DEF LoopStep
  <1>7. ASSUME NEW s \in Sessions, Connect(s) \/ Leave(s) \/ TimePasses(s)
        PROVE  AccountInv'
    <2>1. UNCHANGED <<state, wire, requestBuffer, sent, answered>>
      BY <1>7 DEF Connect, Leave, TimePasses, ServerUnchanged, sessionVars, clientVars
    <2> QED  BY <2>1, AccountQuiet
  <1> QED
    BY <1>1, <1>2, <1>3, <1>4, <1>5, <1>6, <1>7, AccountSend DEF Next, MainStep

\* Every request of a client that waits for each response is in the socket or in
\* requestBuffer until it has been answered, for any number of requests: reset()
\* (ClientSession.cpp 44-51) never clears one that has not been answered.
THEOREM RequestsAccountedHolds ==
    ASSUME ~Pipelining
    PROVE  Spec => []RequestsAccounted
  <1>1. Init => AccountInv
    <2> SUFFICES ASSUME Init PROVE AccountInv
      OBVIOUS
    <2>1. Ends(<<>>) = 0
      BY NoEnds
    <2>2. ASSUME NEW s \in Sessions
          PROVE  /\ sent[s] = 0 /\ answered[s] = 0 /\ state[s] = "none"
                 /\ Ends(wire[s]) = 0 /\ Ends(requestBuffer[s]) = 0
      BY <2>1 DEF Init
    <2>3. sent \in [Sessions -> Nat] /\ answered \in [Sessions -> Nat]
      BY DEF Init
    <2> QED  BY <2>2, <2>3 DEF AccountInv, AccountOK
  <1>2. HttpInv /\ AccountInv => RequestsAccounted
    <2> SUFFICES ASSUME HttpInv, AccountInv, NEW s \in Sessions, state[s] \in Open
                 PROVE  sent[s] - answered[s] = Ends(wire[s]) + Ends(requestBuffer[s])
      BY DEF RequestsAccounted
    <2>1. Ends(wire[s]) \in Nat /\ Ends(requestBuffer[s]) \in Nat
      BY EndsIsNat DEF HttpInv, ClientOK, BuffersOK
    <2>2. /\ sent[s] \in Nat /\ answered[s] \in Nat
          /\ sent[s] = answered[s] + Ends(wire[s]) + Ends(requestBuffer[s])
      BY DEF AccountInv, AccountOK
    <2> QED  BY <2>1, <2>2
  <1>3. HttpInv /\ AccountInv /\ [Next]_vars => AccountInv'
    BY AccountStep
  <1> QED  BY <1>1, <1>2, <1>3, HttpInvariant, PTL DEF Spec
=================================================================================
