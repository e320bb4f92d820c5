------------------------------- MODULE HttpServer -------------------------------
(***************************************************************************)
(* The HTTP server of Lab5: one thread that runs the select() loop of       *)
(* Server::acceptConnections() (Server/Server.cpp) over non-blocking        *)
(* sessions (Server/ClientSession.cpp), and the workers of ThreadPool       *)
(* (ThreadPool/ThreadPool.cpp), which prepare the responses.  The session   *)
(* object has no lock: its state says whose its buffers are.                *)
(*                                                                         *)
(* A task is the session whose processRequest() it calls.  Bytes are        *)
(* chunks: "part" is a piece of a request without its end, "end" a piece    *)
(* that ends with the empty line; a response is Pieces pieces long.         *)
(***************************************************************************)
EXTENDS TaskQueue, SequencesExt

CONSTANTS
    Queue,         \* the queue of the pool
    Sessions,      \* connections, each used once
    Pieces,        \* length of a response
    Pipelining,    \* clients send a request before the last one is answered
    FD_SETSIZE,    \* sockets in an fd_set
    MaxRequests,   \* bound: requests of one client
    Chunks         \* what clients send: {"part", "end"}, or whole requests only

ASSUME OneQueueAssumption == Queues = {Queue}
ASSUME SessionTasksAssumption == Tasks = Sessions
ASSUME PoolHasWorkersAssumption == Workers # {}
ASSUME PiecesAssumption == Pieces \in Nat \ {0}
ASSUME FdSetAssumption == FD_SETSIZE \in Nat \ {0}
ASSUME ChunksAssumption == Chunks \subseteq {"part", "end"}

VARIABLES
    activeSessions,
    state,           \* of each session; "none" before accept(), "closed" once destroyed
    requestBuffer,
    responseBuffer,  \* its length
    bytesSent,
    keepAlive,
    expired,         \* isTimedOut(10): lastActivity is too long ago
    main,            \* the thread of the select() loop: where it is, in which iteration
    readfds,
    writefds,
    listenReady,     \* the listening socket is in readfds
    responded,       \* responded[w]: the task w holds has written the response
    wire,            \* bytes the client has sent and recv() has not returned
    peer,            \* the client: "away", "pending", "open" or "gone"
    sent,            \* requests each client has sent
    answered         \* responses sent to each client

sessionVars == <<activeSessions, state, requestBuffer, responseBuffer, bytesSent,
                 keepAlive, expired>>
loopVars    == <<main, readfds, writefds, listenReady>>
clientVars  == <<wire, peer, sent, answered>>
vars == <<queueVars, sessionVars, loopVars, clientVars, responded>>

Open == {"READING", "PROCESSING", "SENDING"}

HttpTypeOK ==
    /\ QueueTypeOK
    /\ activeSessions \in Seq(Sessions)
    /\ state \in [Sessions -> Open \cup {"none", "FINISHED", "closed"}]
    /\ \A s \in Sessions : state[s] \in Open \cup {"FINISHED"}
                              <=> s \in {activeSessions[k] : k \in DOMAIN activeSessions}
    /\ requestBuffer \in [Sessions -> Seq(Chunks)]
    /\ responseBuffer \in [Sessions -> 0 .. Pieces]
    /\ bytesSent \in [Sessions -> 0 .. Pieces]
    /\ main.pc \in {"serve", "push", "notify", "expire"} => main.i \in DOMAIN activeSessions
    /\ readfds \cup writefds \subseteq Sessions

Init ==
    /\ QueueInit
    /\ activeSessions = <<>>
    /\ state = [s \in Sessions |-> "none"]
    /\ requestBuffer = [s \in Sessions |-> <<>>]
    /\ responseBuffer = [s \in Sessions |-> 0]
    /\ bytesSent = [s \in Sessions |-> 0]
    /\ keepAlive = [s \in Sessions |-> FALSE]
    /\ expired = [s \in Sessions |-> FALSE]
    /\ main = [pc |-> "start", i |-> 0]
    /\ readfds = {}
    /\ writefds = {}
    /\ listenReady = FALSE
    /\ responded = [w \in Workers |-> FALSE]
    /\ wire = [s \in Sessions |-> <<>>]
    /\ peer = [s \in Sessions |-> "away"]
    /\ sent = [s \in Sessions |-> 0]
    /\ answered = [s \in Sessions |-> 0]

-------------------------------------------------------------------------------
(* Clients and time.                                                        *)

ServerUnchanged == UNCHANGED <<queueVars, sessionVars, loopVars, responded>>

\* From listen() to the destructor of the Server.
Listening == main.pc \notin {"start", "join", "destroy", "ended"}

Connect(s) ==
    /\ Listening
    /\ peer[s] = "away"
    /\ peer' = [peer EXCEPT ![s] = "pending"]
    /\ UNCHANGED <<wire, sent, answered>> /\ ServerUnchanged

SendBytes(s, chunk) ==
    /\ peer[s] \in {"pending", "open"}
    /\ state[s] # "closed"
    /\ sent[s] < MaxRequests
    /\ Pipelining \/ sent[s] = answered[s]
    \* At most two chunks to a request.
    /\ chunk = "part" => wire[s] = <<>> /\ requestBuffer[s] = <<>>
    /\ wire' = [wire EXCEPT ![s] = Append(@, chunk)]
    /\ sent' = [sent EXCEPT ![s] = IF chunk = "end" THEN @ + 1 ELSE @]
    /\ UNCHANGED <<peer, answered>> /\ ServerUnchanged

Leave(s) ==
    /\ peer[s] \in {"pending", "open"}
    /\ state[s] # "closed"
    /\ peer' = [peer EXCEPT ![s] = "gone"]
    /\ UNCHANGED <<wire, sent, answered>> /\ ServerUnchanged

\* More than ten seconds pass without activity of the session.
TimePasses(s) ==
    /\ state[s] \in Open
    /\ ~expired[s]
    /\ expired' = [expired EXCEPT ![s] = TRUE]
    /\ UNCHANGED <<queueVars, activeSessions, state, requestBuffer, responseBuffer,
                   bytesSent, keepAlive, loopVars, clientVars, responded>>

-------------------------------------------------------------------------------
(* start(), and one iteration of the loop of acceptConnections().           *)

\* start() begins to listen, or returns because a call for its socket fails.
Start ==
    /\ main.pc = "start"
    /\ \E next \in {"build", "stop"} : main' = [pc |-> next, i |-> 0]
    /\ UNCHANGED <<queueVars, sessionVars, readfds, writefds, listenReady, clientVars, responded>>

\* FD_SET() for the sessions in state st, in the order of the list: it ignores a
\* socket the set has no room for.
FdSet(st, room) ==
    LET those == {k \in DOMAIN activeSessions : state[activeSessions[k]] = st}
    IN  {activeSessions[k] : k \in {j \in those : Cardinality({l \in those : l <= j}) <= room}}

\* The sets for select() are built from the states, readfds after the listening
\* socket.  That a session is missed which a worker hands back meanwhile is among
\* the outcomes of Select.
BuildSets ==
    /\ main.pc = "build"
    /\ readfds' = FdSet("READING", FD_SETSIZE - 1)
    /\ writefds' = FdSet("SENDING", FD_SETSIZE)
    /\ main' = [pc |-> "select", i |-> 0]
    /\ UNCHANGED <<queueVars, sessionVars, listenReady, clientVars, responded>>

Readable(s) == wire[s] # <<>> \/ peer[s] = "gone"
Pending == {s \in Sessions : peer[s] = "pending"}

\* select() returns after 10 ms at the latest.  Whether a client takes more
\* bytes is the client's affair.
Select ==
    /\ main.pc = "select"
    /\ readfds' = {s \in readfds : Readable(s)}
    /\ writefds' \in SUBSET writefds
    /\ listenReady' = (Pending # {})
    /\ main' = [pc |-> "accept", i |-> 0]
    /\ UNCHANGED <<queueVars, sessionVars, clientVars, responded>>

\* The session at position i is next, or the iteration is over and its sets go.
GoTo(i, sessions) ==
    IF i <= Len(sessions)
    THEN main' = [pc |-> "serve", i |-> i] /\ UNCHANGED <<readfds, writefds>>
    ELSE main' = [pc |-> "build", i |-> 0] /\ readfds' = {} /\ writefds' = {}

\* accept(): the client may have gone since select() returned.
Accept ==
    /\ main.pc = "accept"
    /\ \/ /\ listenReady
          /\ \E s \in Pending :
                /\ activeSessions' = Append(activeSessions, s)
                /\ state' = [state EXCEPT ![s] = "READING"]
                /\ peer' = [peer EXCEPT ![s] = "open"]
       \/ /\ ~listenReady \/ Pending = {}
          /\ UNCHANGED <<activeSessions, state, peer>>
    /\ GoTo(1, activeSessions')
    /\ listenReady' = FALSE
    /\ UNCHANGED <<queueVars, requestBuffer, responseBuffer, bytesSent, keepAlive, expired,
                   wire, sent, answered, responded>>

Current == activeSessions[main.i]
Ends(chunks) == Cardinality({k \in DOMAIN chunks : chunks[k] = "end"})

\* Mutant: the task is pushed before the state is stored.
HandOverSwapped(step, s) ==
    IF step = "store"
    THEN Push(Queue, s) /\ UNCHANGED state
    ELSE state' = [state EXCEPT ![s] = "PROCESSING"] /\ UNCHANGED queueVars

\* The two steps by which readData() hands a session to the pool: state.store(), and
\* the push() of addTask(), after which a worker may have the session at once.
HandOver(step, s) ==
    IF step = "store"
    THEN state' = [state EXCEPT ![s] = "PROCESSING"] /\ UNCHANGED queueVars
    ELSE Push(Queue, s) /\ UNCHANGED state

\* readData(): recv() returns some of the bytes.
ReadData(s) ==
    \E n \in 1 .. Len(wire[s]) :
        LET request == requestBuffer[s] \o SubSeq(wire[s], 1, n) IN
        /\ wire' = [wire EXCEPT ![s] = SubSeq(@, n + 1, Len(@))]
        /\ requestBuffer' = [requestBuffer EXCEPT ![s] = request]
        /\ expired' = [expired EXCEPT ![s] = FALSE]
        /\ IF Ends(request) > 0
           THEN /\ HandOver("store", s)
                /\ main' = [main EXCEPT !.pc = "push"]
           ELSE /\ main' = [main EXCEPT !.pc = "expire"]
                /\ UNCHANGED <<queueVars, state>>
        /\ UNCHANGED <<responseBuffer, bytesSent, keepAlive, peer, sent, answered>>

\* recv() returns 0 or fails, or send() fails: the client has gone.
PeerGone(s) ==
    /\ peer[s] = "gone"
    /\ state' = [state EXCEPT ![s] = "FINISHED"]
    /\ main' = [main EXCEPT !.pc = "expire"]
    /\ UNCHANGED <<queueVars, requestBuffer, responseBuffer, bytesSent, keepAlive, expired,
                   clientVars>>

\* Mutant: reset() forgets requestBuffer.
WriteDataKeepsRequest(s) ==
    \E n \in bytesSent[s] + 1 .. responseBuffer[s] :
        LET last == n = responseBuffer[s]
            again == last /\ keepAlive[s]
        IN
        /\ bytesSent' = [bytesSent EXCEPT ![s] = IF again THEN 0 ELSE n]
        /\ expired' = [expired EXCEPT ![s] = FALSE]
        /\ responseBuffer' = [responseBuffer EXCEPT ![s] = IF again THEN 0 ELSE @]
        /\ state' = [state EXCEPT ![s] = IF again THEN "READING"
                                         ELSE IF last THEN "FINISHED" ELSE @]
        /\ answered' = [answered EXCEPT ![s] = IF last THEN @ + 1 ELSE @]
        /\ main' = [main EXCEPT !.pc = "expire"]
        /\ UNCHANGED <<queueVars, requestBuffer, keepAlive, wire, peer, sent>>

\* writeData(): send() takes some of the bytes; after the last one reset()
\* throws the buffers away, or the session is finished.
WriteData(s) ==
    \E n \in bytesSent[s] + 1 .. responseBuffer[s] :
        LET last == n = responseBuffer[s]
            again == last /\ keepAlive[s]
        IN
        /\ bytesSent' = [bytesSent EXCEPT ![s] = IF again THEN 0 ELSE n]
        /\ expired' = [expired EXCEPT ![s] = FALSE]
        /\ requestBuffer' = [requestBuffer EXCEPT ![s] = IF again THEN <<>> ELSE @]
        /\ responseBuffer' = [responseBuffer EXCEPT ![s] = IF again THEN 0 ELSE @]
        /\ state' = [state EXCEPT ![s] = IF again THEN "READING"
                                         ELSE IF last THEN "FINISHED" ELSE @]
        /\ answered' = [answered EXCEPT ![s] = IF last THEN @ + 1 ELSE @]
        /\ main' = [main EXCEPT !.pc = "expire"]
        /\ UNCHANGED <<queueVars, keepAlive, wire, peer, sent>>

Serve ==
    /\ main.pc = "serve"
    /\ LET s == Current IN
       \/ /\ state[s] = "READING" /\ s \in readfds
          /\ ReadData(s) \/ PeerGone(s)
       \/ /\ state[s] = "SENDING" /\ s \in writefds
          /\ WriteData(s) \/ PeerGone(s)
       \/ /\ ~(state[s] = "READING" /\ s \in readfds)
          /\ ~(state[s] = "SENDING" /\ s \in writefds)
          /\ main' = [main EXCEPT !.pc = "expire"]
          /\ UNCHANGED <<queueVars, state, requestBuffer, responseBuffer, bytesSent,
                         keepAlive, expired, clientVars>>
    /\ UNCHANGED <<activeSessions, readfds, writefds, listenReady, responded>>

\* addTask() up to the unlock of push().
PushTask ==
    /\ main.pc = "push"
    /\ HandOver("push", Current)
    /\ main' = [main EXCEPT !.pc = "notify"]
    /\ UNCHANGED <<activeSessions, requestBuffer, responseBuffer, bytesSent, keepAlive, expired,
                   readfds, writefds, listenReady, clientVars, responded>>

\* Mutant: push() notifies nobody.
NotifyNobody ==
    /\ main.pc = "notify"
    /\ main' = [main EXCEPT !.pc = "expire"]
    /\ UNCHANGED <<queueVars, sessionVars, readfds, writefds, listenReady, clientVars, responded>>

\* The rest of addTask(): notify_one() after the unlock.
NotifyWorker ==
    /\ main.pc = "notify"
    /\ NotifyOne(Queue)
    /\ main' = [main EXCEPT !.pc = "expire"]
    /\ UNCHANGED <<sessionVars, readfds, writefds, listenReady, clientVars, responded>>

\* Mutant: the timeout is for clients that send nothing, not for those that read nothing.
TimesOutReading(s) == state[s] = "READING" /\ expired[s]

\* The timeout spares a session that is being processed.
TimesOut(s) == state[s] \in {"READING", "SENDING"} /\ expired[s]

\* The destructors of the sessions in S: their buffers go, their sockets close.
Destroy(S) ==
    /\ state' = [s \in Sessions |-> IF s \in S THEN "closed" ELSE state[s]]
    /\ requestBuffer' = [s \in Sessions |-> IF s \in S THEN <<>> ELSE requestBuffer[s]]
    /\ responseBuffer' = [s \in Sessions |-> IF s \in S THEN 0 ELSE responseBuffer[s]]
    /\ bytesSent' = [s \in Sessions |-> IF s \in S THEN 0 ELSE bytesSent[s]]
    /\ keepAlive' = [s \in Sessions |-> s \notin S /\ keepAlive[s]]
    /\ expired' = [s \in Sessions |-> s \notin S /\ expired[s]]
    /\ wire' = [s \in Sessions |-> IF s \in S THEN <<>> ELSE wire[s]]
    /\ UNCHANGED <<peer, sent, answered>>

\* Mutant: the end of the list is not read again after an erase().
ExpireStaleEnd ==
    /\ main.pc = "expire"
    /\ IF state[Current] = "FINISHED" \/ TimesOut(Current)
       THEN /\ activeSessions' = RemoveAt(activeSessions, main.i)
            /\ Destroy({Current})
            /\ GoTo(main.i, activeSessions)
       ELSE /\ GoTo(main.i + 1, activeSessions)
            /\ UNCHANGED <<sessionVars, clientVars>>
    /\ UNCHANGED <<queueVars, listenReady, responded>>

\* finish() on a timeout; a session that is FINISHED is erased.
Expire ==
    /\ main.pc = "expire"
    /\ IF state[Current] = "FINISHED" \/ TimesOut(Current)
       THEN /\ activeSessions' = RemoveAt(activeSessions, main.i)
            /\ Destroy({Current})
            /\ GoTo(main.i, activeSessions')
       ELSE /\ GoTo(main.i + 1, activeSessions)
            /\ UNCHANGED <<sessionVars, clientVars>>
    /\ UNCHANGED <<queueVars, listenReady, responded>>

-------------------------------------------------------------------------------
(* The end: select() fails, start() returns, and the Server is destroyed:   *)
(* its destructor closes the listening socket, then come threadPool, whose   *)
(* destructor calls stop(true), and activeSessions.                         *)

SelectFails ==
    /\ main.pc = "select"
    /\ main' = [pc |-> "stop", i |-> 0]
    /\ readfds' = {}
    /\ writefds' = {}
    /\ UNCHANGED <<queueVars, sessionVars, listenReady, clientVars, responded>>

StopPool ==
    /\ main.pc = "stop"
    /\ Stop(Queue, FALSE)
    /\ main' = [pc |-> "join", i |-> 0]
    /\ UNCHANGED <<sessionVars, readfds, writefds, listenReady, clientVars, responded>>

JoinPool ==
    /\ main.pc = "join"
    /\ \A w \in Workers : at[w] = "exited"
    /\ main' = [pc |-> "destroy", i |-> 0]
    /\ UNCHANGED <<queueVars, sessionVars, readfds, writefds, listenReady, clientVars, responded>>

DestroySessions ==
    /\ main.pc = "destroy"
    /\ main' = [pc |-> "ended", i |-> 0]
    /\ Destroy({s \in Sessions : state[s] # "none"})
    /\ activeSessions' = <<>>
    /\ UNCHANGED <<queueVars, readfds, writefds, listenReady, responded>>

-------------------------------------------------------------------------------
(* workerLoop().                                                            *)

PopInLoop(w) ==
    /\ Pop(w)
    /\ responded' = [responded EXCEPT ![w] = FALSE]
    /\ UNCHANGED <<sessionVars, loopVars, clientVars>>

SpuriousInLoop(w) ==
    SpuriousWakeup(w) /\ UNCHANGED <<sessionVars, loopVars, clientVars, responded>>

\* processRequest() up to sendResponse(): any response is at least a header,
\* and the request says whether the connection is kept.
PrepareResponse(w) ==
    LET s == task[w] IN
    /\ at[w] = "got"
    /\ ~responded[w]
    /\ responded' = [responded EXCEPT ![w] = TRUE]
    /\ \E keep \in BOOLEAN : keepAlive' = [keepAlive EXCEPT ![s] = keep]
    /\ responseBuffer' = [responseBuffer EXCEPT ![s] = Pieces]
    /\ bytesSent' = [bytesSent EXCEPT ![s] = 0]
    /\ UNCHANGED <<queueVars, activeSessions, state, requestBuffer, expired, loopVars,
                   clientVars>>

\* Mutant: the state is published before the response is written.
HandBackEarly(w) ==
    /\ ~responded[w]
    /\ PopAgain(w)
    /\ state' = [state EXCEPT ![task[w]] = "SENDING"]
    /\ UNCHANGED <<activeSessions, requestBuffer, responseBuffer, bytesSent, keepAlive,
                   expired, loopVars, clientVars, responded>>

\* state = SENDING hands the session back, and the loop goes round.
HandBack(w) ==
    /\ responded[w]
    /\ PopAgain(w)
    /\ responded' = [responded EXCEPT ![w] = FALSE]
    /\ state' = [state EXCEPT ![task[w]] = "SENDING"]
    /\ UNCHANGED <<activeSessions, requestBuffer, responseBuffer, bytesSent, keepAlive,
                   expired, loopVars, clientVars>>

-------------------------------------------------------------------------------
MainStep ==
    \/ Start \/ BuildSets \/ Select \/ Accept \/ Serve \/ PushTask \/ NotifyWorker \/ Expire
    \/ StopPool \/ JoinPool \/ DestroySessions

LoopStep(w) == PopInLoop(w) \/ PrepareResponse(w) \/ HandBack(w)

Next ==
    \/ MainStep \/ SelectFails
    \/ \E w \in Workers : LoopStep(w) \/ SpuriousInLoop(w)
    \/ \E s \in Sessions :
          Connect(s) \/ Leave(s) \/ TimePasses(s)
          \/ \E chunk \in Chunks : SendBytes(s, chunk)

\* The thread of the loop and the workers are scheduled, and time passes.
Fairness ==
    /\ WF_vars(MainStep)
    /\ \A w \in Workers : WF_vars(LoopStep(w))
    /\ \A s \in Sessions : WF_vars(TimePasses(s))

Spec == Init /\ [][Next]_vars /\ Fairness

-------------------------------------------------------------------------------
(* Safety.                                                                  *)

Holders(s) == {w \in Workers : at[w] = "got" /\ task[w] = s}
QueuedFor(s) == {k \in DOMAIN innerQueue[Queue] : innerQueue[Queue][k] = s}

\* The loop has stored the state of s and is about to push its task.
Pushing(s) == main.pc = "push" /\ Current = s

\* Exactly the sessions in state PROCESSING have a task, and exactly one, about to
\* be pushed, queued or in the hands of a worker.  So no worker gets a session
\* whose state the loop has yet to store, the loop never touches, times out or
\* erases a session a worker may use, no two workers get the same session, and
\* no task is left over for a session that has been destroyed, also when the
\* server is torn down (Server.cpp 133-152, Server.h 29-30, ClientSession.cpp
\* 67-70, 118).
ProcessingOwnsSession ==
    \A s \in Sessions :
        Cardinality(Holders(s)) + Cardinality(QueuedFor(s)) + (IF Pushing(s) THEN 1 ELSE 0)
            = IF state[s] = "PROCESSING" THEN 1 ELSE 0

\* Who has the session, going by the tasks and the list instead of its state, and
\* what is to be done with it, going by its buffers.
OwnerOf(s) ==
    IF Holders(s) # {} \/ QueuedFor(s) # {} THEN "pool"
    ELSE IF \E k \in DOMAIN activeSessions : activeSessions[k] = s THEN "loop"
    ELSE IF state[s] = "none" THEN "nobody" ELSE "destroyed"
ContentOf(s) ==
    IF bytesSent[s] < responseBuffer[s] THEN "response"
    ELSE IF Ends(requestBuffer[s]) > 0 /\ state[s] # "FINISHED" THEN "request" ELSE "nothing"

Handover == INSTANCE SessionHandover WITH
    hands <- [s \in Sessions |-> <<OwnerOf(s), ContentOf(s)>>]

\* The loop hands a session to the pool with a whole request and gets it back with
\* a response of which nothing has been sent, and destroys none that the pool has:
\* the unlocked buffers are never in the hands of both (Server.cpp 133-152,
\* ClientSession.cpp 65-70, 118, 189-190).
ImplementsHandover == Handover!Spec

\* The report of Lab5, paragraph 36, says GET follows HTTP 1.1 (RFC 9112): no
\* request of an open connection gets lost.  Every request sent and not answered
\* is in the socket or in requestBuffer.  This holds of clients that wait for each
\* response before the next request; one that does not, as HTTP 1.1 allows, loses
\* what reset() clears with the request that has been answered (ClientSession.cpp 46,
\* 57-71).
RequestsAccounted ==
    \A s \in Sessions :
        state[s] \in Open =>
            sent[s] - answered[s] = Ends(wire[s]) + Ends(requestBuffer[s])

\* The report of Lab5, paragraph 51, says that the loop sees the state SENDING
\* and calls writeData(): a response that is ready is not thrown away unsent
\* while the client is there.
ReadyResponseIsSent ==
    [][\A s \in Sessions :
          state[s] = "SENDING" /\ state'[s] = "closed" /\ peer[s] = "open"
          /\ main.pc = "expire" => bytesSent[s] > 0]_vars

(* Liveness.                                                                *)

\* Every request is answered, or its connection is closed; nothing a client
\* does, such as sending half a request or reading nothing, keeps the loop or a
\* worker from it.
RequestsSettle ==
    \A s \in Sessions :
        sent[s] > answered[s] /\ peer[s] = "open" ~>
            sent[s] = answered[s] \/ state[s] = "closed"

\* The session of a client that has gone is destroyed in the end, also when a
\* worker was busy with it.
SessionsAreReaped ==
    \A s \in Sessions :
        state[s] \in Open /\ peer[s] = "gone" ~> state[s] = "closed"
================================================================================
