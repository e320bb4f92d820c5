------------------------------- MODULE CalcServer -------------------------------
(***************************************************************************)
(* The calculation service of Lab4: clients that send commands over TCP,    *)
(* from a menu (Client_CPP/Client.cpp, EventHandler.cpp) or as a script     *)
(* (Client_Python/Client.py), one detached thread per client in the server  *)
(* (Server/Server.cpp, ClientHandler.cpp), and one detached thread per      *)
(* START_PROCESSING that runs TaskHandler::calculate() with threads of its  *)
(* own.                                                                     *)
(*                                                                         *)
(* A handler's critical section is one step.  A matrix is the sequence of   *)
(* its rows, and a row is                                                   *)
(*    "raw":        as the client sent it;                                  *)
(*    "calculated": its diagonal element has been computed;                 *)
(*    "garbage":    written without synchronisation by a calculation whose  *)
(*                  TaskHandler or matrix has been replaced under it.       *)
(* Such a calculation is undefined behaviour in the program: here it may    *)
(* spoil any row it comes to, or crash the process.                         *)
(***************************************************************************)
EXTENDS RowPartition, Sequences, FiniteSets

CONSTANTS
    Clients,       \* client programs
    Sessions,      \* bound: connections at a time
    NoSession,
    Sizes,         \* matrix sizes entered at the menu
    ThreadCounts,  \* thread counts entered at the menu
    MATRIX_SIZE,   \* of the script
    THREADS,       \* of the script
    Slots,         \* bound: calculations of one session at a time
    MaxInFlight    \* bound: commands of one session not read yet

ASSUME MenuAssumption == Sizes \subseteq Nat /\ ThreadCounts \subseteq Nat
ASSUME ScriptAssumption == MATRIX_SIZE \in Nat \ {0} /\ THREADS \in Nat \ {0}
ASSUME NoSessionAssumption == NoSession \notin Sessions

VARIABLES
    client,      \* of each client: its socket, the size it remembers, the reply it
                 \* waits for, and the calls it may make: "any", or the next of the script
    net,         \* of each connection: the two directions and the two ends
    session,     \* of each connection: the ClientSession and the thread in handle();
                 \* histories: started since the last configuration, and overlapped:
                 \* a configuration or a start came during a calculation
    calc,        \* of each session: its calculations
    clients,     \* Server::clients
    serverUp,    \* a server process has begun to listen and still runs
    stopping     \* how far stop() is in ~Server(), which only an exception reaches

vars == <<client, net, session, calc, clients, serverUp, stopping>>

Rows == {"raw", "calculated", "garbage"}
NoCalc == [pc |-> "none"]

\* A program that has just begun.
NewClient(next) ==
    [conn |-> NoSession, matrixSize |-> 0, awaiting |-> "none", next |-> next]

\* The constructor of ClientSession: the status is DONE before any calculation.
NewSession == [phase |-> "handling", status |-> "DONE", threadsNum |-> 0, matrixSize |-> 0,
               matrix |-> <<>>, started |-> FALSE, overlapped |-> FALSE]
OverSession == [NewSession EXCEPT !.phase = "gone"]
NoNet == [toServer |-> <<>>, toClient |-> <<>>, clientOpen |-> FALSE, serverOpen |-> FALSE]

Config(size, threads) ==
    [cmd |-> "SEND_CONFIG", threadsNum |-> threads, matrixSize |-> size]
Commands ==
    {Config(size, threads) : size \in Sizes \cup {MATRIX_SIZE},
                             threads \in ThreadCounts \cup {THREADS}}
    \cup [cmd : {"START_PROCESSING", "CHECK_STATUS", "GET_RESULT", "END_SESSION"}]

Running(s) == {k \in Slots : calc[s][k].pc # "none"}
Threads(k) == 0 .. k - 1

CalcTypeOK ==
    /\ \A c \in Clients :
          /\ client[c].conn \in Sessions \cup {NoSession}
          /\ client[c].matrixSize \in Sizes \cup {0, MATRIX_SIZE}
          /\ client[c].awaiting \in {"none", "CHECK_STATUS", "GET_RESULT"}
          /\ client[c].next \in {"any", "config", "start", "status", "result", "end"}
    /\ \A s \in Sessions :
          /\ net[s].toServer \in Seq(Commands)
          /\ session[s].phase \in {"connecting", "accepted", "handling", "removing", "gone"}
          /\ session[s].status \in {"PROCESSING", "DONE", "ERROR"}
          /\ session[s].phase = "handling" =>
                session[s].matrix \in [1 .. session[s].matrixSize -> Rows]
          /\ \A k \in Running(s) : calc[s][k].pc = "running" =>
                \A i \in DOMAIN calc[s][k].next :
                    calc[s][k].next[i] \in FirstRow(i, calc[s][k].threads, calc[s][k].size)
                                           .. LastRow(i, calc[s][k].threads, calc[s][k].size)
    /\ clients \subseteq Sessions
    /\ stopping \in {"no", "disconnecting", "cleared"}

\* Before the server is started.
Init ==
    /\ client \in [Clients -> {NewClient("any"), NewClient("config")}]
    /\ net = [s \in Sessions |-> NoNet]
    /\ session = [s \in Sessions |-> OverSession]
    /\ calc = [s \in Sessions |-> [k \in Slots |-> NoCalc]]
    /\ clients = {}
    /\ serverUp = FALSE
    /\ stopping = "no"

-------------------------------------------------------------------------------
(* The client programs.                                                     *)

ServerSide == <<session, calc, clients, serverUp, stopping>>

\* The client runs the script.
Scripted(c) == client[c].next # "any"

\* connectToServer(): the connection waits in the backlog until it is accepted.
ConnectToServer(s) ==
    /\ session' = [session EXCEPT ![s].phase = "connecting"]
    /\ net' = [net EXCEPT ![s] = [NoNet EXCEPT !.clientOpen = TRUE, !.serverOpen = TRUE]]

\* handleConnect(), connect().  Without a server they throw, which leaves the client
\* as it was.
Connect(c, s) ==
    /\ client[c].conn = NoSession
    /\ serverUp /\ stopping = "no"
    /\ session[s].phase = "gone" /\ ~net[s].serverOpen /\ ~net[s].clientOpen
    /\ ConnectToServer(s)
    /\ client' = [client EXCEPT ![c].conn = s]
    /\ UNCHANGED <<calc, clients, serverUp, stopping>>

\* The client is connected and not blocked, and this call is on the menu, which
\* offers all of them at any time, or the next of the script.
MayCall(c, call) ==
    /\ client[c].conn # NoSession
    /\ client[c].awaiting = "none"
    /\ client[c].next \in {"any", call}

Then(c, call) == IF Scripted(c) THEN call ELSE "any"

\* What the server has still to read after send(): what is sent on a connection that
\* it has closed is lost, or send() fails (SendFails).
Sent(s, command) ==
    IF net[s].serverOpen THEN Append(net[s].toServer, command) ELSE net[s].toServer

\* sendMessage()
Transmit(s, command) ==
    /\ Len(net[s].toServer) < MaxInFlight
    /\ net' = [net EXCEPT ![s].toServer = Sent(s, command)]
    /\ UNCHANGED ServerSide

\* handleConfig(), send_config()
SendConfig(c, size, threads) ==
    /\ MayCall(c, "config")
    /\ Scripted(c) => size = MATRIX_SIZE /\ threads = THREADS
    /\ Transmit(client[c].conn, Config(size, threads))
    /\ client' = [client EXCEPT ![c].matrixSize = size, ![c].next = Then(c, "start")]

\* Bound: a start is sent only if a slot will be free when it is read.
SlotLeft(s) ==
    Cardinality({n \in DOMAIN net[s].toServer : net[s].toServer[n].cmd = "START_PROCESSING"})
        + Cardinality(Running(s)) < Cardinality(Slots)

\* handleStart(), send_start()
SendStart(c) ==
    /\ MayCall(c, "start")
    /\ SlotLeft(client[c].conn)
    /\ Transmit(client[c].conn, [cmd |-> "START_PROCESSING"])
    /\ client' = [client EXCEPT ![c].next = Then(c, "status")]

\* handleStatus(), check_status() block until the reply is read.
AskStatus(c) ==
    /\ MayCall(c, "status")
    /\ Transmit(client[c].conn, [cmd |-> "CHECK_STATUS"])
    /\ client' = [client EXCEPT ![c].awaiting = "CHECK_STATUS"]

\* handleResult(), which asks nothing when no size is remembered; get_result().
AskResult(c) ==
    /\ MayCall(c, "result")
    /\ client[c].matrixSize # 0
    /\ Transmit(client[c].conn, [cmd |-> "GET_RESULT"])
    /\ client' = [client EXCEPT ![c].awaiting = "GET_RESULT"]

\* The checks both clients make on a reply.
ValidReply(c, reply) ==
    /\ reply.cmd = client[c].awaiting
    /\ reply.cmd = "GET_RESULT" => Len(reply.rows) \in {0, client[c].matrixSize}

\* Mutant: only DONE ends the polling.
NextCallOnDone(reply) ==
    IF reply.cmd = "GET_RESULT" THEN "end"
    ELSE IF reply.status = "DONE" THEN "result" ELSE "status"

\* The script polls until the status is DONE or ERROR.
NextCall(reply) ==
    IF reply.cmd = "GET_RESULT" \/ reply.status = "ERROR" THEN "end"
    ELSE IF reply.status = "DONE" THEN "result" ELSE "status"

ReceiveReply(c) ==
    LET s == client[c].conn
        reply == Head(net[s].toClient)
    IN
    /\ client[c].awaiting # "none"
    /\ net[s].toClient # <<>>
    /\ ValidReply(c, reply)
    /\ net' = [net EXCEPT ![s].toClient = Tail(@)]
    /\ client' = [client EXCEPT ![c].awaiting = "none",
                                ![c].next = Then(c, NextCall(reply))]
    /\ UNCHANGED ServerSide

\* recv() returns 0 or an error.
ServerLost(s) == net[s].toClient = <<>> /\ ~net[s].serverOpen

\* An exception in a call of the menu: run() disconnects and shows the menu again;
\* the remembered size stays.  The script says END_SESSION and is over.
Throws(c) ==
    LET s == client[c].conn IN
    /\ client' = [client EXCEPT ![c] =
                     IF Scripted(c) THEN NewClient("config")
                     ELSE [@ EXCEPT !.conn = NoSession, !.awaiting = "none"]]
    /\ net' = [net EXCEPT ![s].clientOpen = FALSE, ![s].toClient = <<>>,
                          ![s].toServer = IF Scripted(c) THEN Sent(s, [cmd |-> "END_SESSION"])
                                                         ELSE @]
    /\ UNCHANGED ServerSide

LoseServer(c) ==
    LET s == client[c].conn IN
    /\ client[c].awaiting # "none"
    /\ \/ ServerLost(s)
       \/ net[s].toClient # <<>> /\ ~ValidReply(c, Head(net[s].toClient))
    /\ Throws(c)

\* send() fails on a connection the server has closed.
SendFails(c) ==
    /\ client[c].conn # NoSession
    /\ client[c].awaiting = "none"
    /\ ~net[client[c].conn].serverOpen
    /\ Throws(c)

\* Menu entry 0, or the end of the script: END_SESSION, closesocket(), and the
\* program ends.
EndSession(c) ==
    LET s == client[c].conn IN
    /\ MayCall(c, "end")
    /\ client' = [client EXCEPT ![c] = NewClient(Then(c, "config"))]
    /\ net' = [net EXCEPT ![s].clientOpen = FALSE, ![s].toClient = <<>>,
                          ![s].toServer = Sent(s, [cmd |-> "END_SESSION"])]
    /\ UNCHANGED ServerSide

\* The client program is killed, or dies of reading past the end of a result of
\* fewer than five rows (EventHandler.cpp 203-213); commands the server has not
\* read may be lost.
Vanish(c) ==
    LET s == client[c].conn IN
    /\ s # NoSession
    /\ client' = [client EXCEPT ![c] = NewClient(Then(c, "config"))]
    /\ \E n \in 0 .. Len(net[s].toServer) :
          net' = [net EXCEPT ![s].clientOpen = FALSE, ![s].toClient = <<>>,
                             ![s].toServer = SubSeq(@, 1, n)]
    /\ UNCHANGED ServerSide

-------------------------------------------------------------------------------
(* The server: start(), acceptLoop() and the thread of a client.            *)

\* start() of a new process, up to its accept loop.  Where the socket cannot be had,
\* bound or listened on it throws before anybody connects, and stop() has no sessions.
Start ==
    /\ ~serverUp
    /\ serverUp' = TRUE
    /\ UNCHANGED <<client, net, session, calc, clients, stopping>>

\* accept() returns.
Accepts(s) ==
    /\ serverUp /\ stopping = "no"
    /\ session[s].phase = "connecting"

Accept(s) ==
    /\ Accepts(s)
    /\ session' = [session EXCEPT ![s] = NewSession]
    /\ clients' = clients \cup {s}
    /\ UNCHANGED <<client, net, calc, serverUp, stopping>>

\* The session cannot be had (its socket is then left open), the list cannot grow
\* (the session is destroyed), or the thread cannot be had (the session stays in the
\* list).  The exception leaves acceptLoop() and start(); ~Server() calls stop(),
\* which closes the listening socket and with it the connections not accepted yet.
AcceptThrows(s) ==
    LET waiting == {t \in Sessions : session[t].phase = "connecting"} IN
    /\ Accepts(s)
    /\ \E lost \in {waiting, waiting \ {s}} :
          /\ session' = [t \in Sessions |->
                IF t \in lost THEN OverSession
                ELSE IF t = s THEN [session[t] EXCEPT !.phase = "accepted"] ELSE session[t]]
          /\ net' = [t \in Sessions |->
                IF t \in lost THEN [net[t] EXCEPT !.serverOpen = FALSE, !.toServer = <<>>]
                              ELSE net[t]]
          /\ \/ clients' = clients
             \/ clients' = clients \cup {s} /\ s \notin lost
    /\ stopping' = "disconnecting"
    /\ UNCHANGED <<client, calc, serverUp>>

\* stop(), which holds clientsMutex: disconnect() of the sessions in the list, one
\* after the other.
Disconnect(s) ==
    /\ stopping = "disconnecting"
    /\ s \in clients /\ net[s].serverOpen
    /\ net' = [net EXCEPT ![s].serverOpen = FALSE, ![s].toServer = <<>>]
    /\ UNCHANGED <<client, ServerSide>>

\* clients.clear(): a session without a thread goes with its entry.
ClearClients ==
    /\ stopping = "disconnecting"
    /\ \A s \in clients : ~net[s].serverOpen
    /\ session' = [s \in Sessions |->
          IF s \in clients /\ session[s].phase = "accepted" THEN OverSession ELSE session[s]]
    /\ clients' = {}
    /\ stopping' = "cleared"
    /\ UNCHANGED <<client, net, calc, serverUp>>

\* handle() has received the header and the body of a command.
Receives(s, cmd) ==
    /\ serverUp
    /\ session[s].phase = "handling"
    /\ net[s].serverOpen
    /\ net[s].toServer # <<>>
    /\ Head(net[s].toServer).cmd = cmd

\* recv() returns 0 or an error: everything sent has been read and the client has
\* gone, or stop() has closed the socket.
ClientLost(s) ==
    \/ net[s].toServer = <<>> /\ ~net[s].clientOpen
    \/ ~net[s].serverOpen

\* The command is consumed without a reply.
Consume(s) == net' = [net EXCEPT ![s].toServer = Tail(@)]

\* sendMessage(): a reply to a client that has gone is lost.
ConsumeAndReply(s, replies) ==
    net' = [net EXCEPT ![s].toServer = Tail(@),
                       ![s].toClient = IF net[s].clientOpen THEN @ \o replies ELSE @]

\* Every calculation that still runs has lost its matrix or its TaskHandler.
MarkUnsound(s) ==
    [k \in Slots |-> IF k \in Running(s) THEN [calc[s][k] EXCEPT !.sound = FALSE]
                                         ELSE calc[s][k]]

\* Mutant: the matrix is only created when there is none.
AssignedKept(s, size) ==
    IF session[s].matrix = <<>> THEN [r \in 1 .. size |-> "raw"] ELSE session[s].matrix

Assigned(s, size) == [r \in 1 .. size |-> "raw"]

\* processConfig(): the status becomes DONE whatever is running.
ProcessConfig(s) ==
    LET config == Head(net[s].toServer) IN
    /\ Receives(s, "SEND_CONFIG")
    /\ Consume(s)
    /\ session' = [session EXCEPT ![s] =
                      [NewSession EXCEPT !.threadsNum = config.threadsNum,
                                         !.matrixSize = config.matrixSize,
                                         !.matrix = Assigned(s, config.matrixSize),
                                         !.overlapped = Running(s) # {}]]
    /\ calc' = [calc EXCEPT ![s] = MarkUnsound(s)]
    /\ UNCHANGED <<client, clients, serverUp, stopping>>

\* processStart() on an empty matrix: an early return.
IgnoreStart(s) ==
    /\ Receives(s, "START_PROCESSING")
    /\ session[s].matrixSize = 0
    /\ Consume(s)
    /\ UNCHANGED <<client, ServerSide>>

\* Mutant: the status is left to the thread of the calculation.
StatusAtStartLate(s) == session[s].status

StatusAtStart(s) == "PROCESSING"

\* processStart(): a TaskHandler that replaces the last one, and a thread.
ProcessStart(s) ==
    \E k \in Slots \ Running(s) :
        /\ Receives(s, "START_PROCESSING")
        /\ session[s].matrixSize # 0
        /\ Consume(s)
        /\ session' = [session EXCEPT ![s].status = StatusAtStart(s), ![s].started = TRUE,
                                      ![s].overlapped = @ \/ Running(s) # {}]
        /\ calc' = [calc EXCEPT ![s] =
                      [MarkUnsound(s) EXCEPT ![k] =
                          [pc |-> "created", sound |-> TRUE,
                           threads |-> session[s].threadsNum, size |-> session[s].matrixSize]]]
        /\ UNCHANGED <<client, clients, serverUp, stopping>>

ProcessStatus(s) ==
    /\ Receives(s, "CHECK_STATUS")
    /\ ConsumeAndReply(s, <<[cmd |-> "CHECK_STATUS", status |-> session[s].status]>>)
    /\ UNCHANGED <<client, ServerSide>>

ResultOf(rows) == [cmd |-> "GET_RESULT", rows |-> rows]

\* Mutant: nothing is sent unless the status is DONE.
ResultRepliesNone(s) ==
    IF session[s].status = "DONE" THEN <<ResultOf(session[s].matrix)>> ELSE <<>>

\* Mutant: the return after the empty package is missing.
ResultRepliesBoth(s) ==
    IF session[s].status = "DONE" THEN <<ResultOf(session[s].matrix)>>
                                  ELSE <<ResultOf(<<>>), ResultOf(session[s].matrix)>>

\* An empty package unless the status is DONE.
ResultReplies(s) ==
    IF session[s].status = "DONE" THEN <<ResultOf(session[s].matrix)>> ELSE <<ResultOf(<<>>)>>

ProcessResult(s) ==
    /\ Receives(s, "GET_RESULT")
    /\ ConsumeAndReply(s, ResultReplies(s))
    /\ UNCHANGED <<client, ServerSide>>

\* An exception leaves handle() and ends in the thread of the client: the memory
\* for a message, a matrix or a result, or the thread of a calculation cannot be
\* had.  A configuration or a start may have replaced what a calculation uses.
HandleThrows(s) ==
    \E cmd \in {"SEND_CONFIG", "START_PROCESSING", "GET_RESULT"}, replaced \in BOOLEAN :
        /\ Receives(s, cmd)
        /\ cmd = "START_PROCESSING" => session[s].matrixSize # 0
        /\ cmd = "GET_RESULT" => ~replaced
        /\ Consume(s)
        /\ session' = [session EXCEPT
              ![s].phase = "removing",
              ![s].status = IF cmd = "START_PROCESSING" THEN "PROCESSING" ELSE @,
              ![s].overlapped = @ \/ (replaced /\ Running(s) # {})]
        /\ calc' = IF replaced THEN [calc EXCEPT ![s] = MarkUnsound(s)] ELSE calc
        /\ UNCHANGED <<client, clients, serverUp, stopping>>

\* handle() returns at END_SESSION, or breaks when recv() fails.
LeaveHandle(s) ==
    /\ serverUp
    /\ session[s].phase = "handling"
    /\ \/ Receives(s, "END_SESSION") /\ Consume(s)
       \/ ClientLost(s) /\ UNCHANGED net
    /\ session' = [session EXCEPT ![s].phase = "removing"]
    /\ UNCHANGED <<client, calc, clients, serverUp, stopping>>

\* The destructor of ClientSession closes the socket when the last shared_ptr
\* goes: the list, the thread of the client and each calculation hold one.
Destroy(s) ==
    /\ session' = [session EXCEPT ![s] = OverSession]
    /\ net' = [net EXCEPT ![s].serverOpen = FALSE, ![s].toServer = <<>>]

\* Mutant: a calculation does not hold its session.
HeldNot(s) == FALSE

\* A calculation holds the session.
Held(s) == Running(s) # {}

\* removeClient(), which needs clientsMutex, and the thread of the client ends.
RemoveClient(s) ==
    /\ serverUp
    /\ session[s].phase = "removing"
    /\ stopping # "disconnecting"
    /\ clients' = clients \ {s}
    /\ IF Held(s)
       THEN session' = [session EXCEPT ![s].phase = "gone"] /\ UNCHANGED net
       ELSE Destroy(s)
    /\ UNCHANGED <<client, calc, serverUp, stopping>>

-------------------------------------------------------------------------------
(* The calculation threads.                                                 *)

\* Mutant: a hold on the session stays, as in a cycle of shared_ptr.
LastHoldNever(s, k) == FALSE

\* This calculation is the last that holds the session.
LastHold(s, k) == session[s].phase = "gone" /\ Running(s) = {k}

\* Mutant: the status is not set at the end.
EndStatusKept(s, status) == session[s].status

EndStatus(s, status) == status

\* The end of the lambda: the status is set, the thread and its hold go.
Finish(s, k, status) ==
    /\ calc' = [calc EXCEPT ![s][k] = NoCalc]
    /\ IF LastHold(s, k)
       THEN Destroy(s)
       ELSE session' = [session EXCEPT ![s].status = EndStatus(s, status)] /\ UNCHANGED net
    /\ UNCHANGED <<client, clients, serverUp, stopping>>

\* calculate(): the threads are created, each with its block of rows.
BeginCalculate(s, k) ==
    LET n == ThreadsUsed(calc[s][k].threads, calc[s][k].size) IN
    /\ serverUp
    /\ calc[s][k].pc = "created"
    /\ n > 0
    /\ calc' = [calc EXCEPT ![s][k] =
                  [pc |-> "running", sound |-> @.sound, threads |-> n, size |-> @.size,
                   next |-> [i \in Threads(n) |-> FirstRow(i, n, @.size)]]]
    /\ UNCHANGED <<client, net, session, clients, serverUp, stopping>>

\* There are no such many threads, or the first one cannot be created: the
\* exception is caught.  So may be a division by zero, undefined behaviour, which
\* as a structured exception of Windows ends here or in Crash.
CalculateThrows(s, k) ==
    /\ serverUp
    /\ calc[s][k].pc = "created"
    /\ Finish(s, k, "ERROR")

\* calculateRow() by thread i; rows are counted from 0 in the code.
CalculateRow(s, k, i) ==
    LET row == calc[s][k].next[i] + 1
        matrix == session[s].matrix
        \* What the row may hold afterwards.
        written == IF calc[s][k].sound
                   THEN {IF matrix[row] = "garbage" THEN "garbage" ELSE "calculated"}
                   ELSE {matrix[row], "garbage"}
    IN
    /\ serverUp
    /\ calc[s][k].pc = "running"
    /\ calc[s][k].next[i] < LastRow(i, calc[s][k].threads, calc[s][k].size)
    /\ calc' = [calc EXCEPT ![s][k].next[i] = @ + 1]
    /\ IF row \in DOMAIN matrix
       THEN \E v \in written : session' = [session EXCEPT ![s].matrix[row] = v]
       ELSE UNCHANGED session
    /\ UNCHANGED <<client, net, clients, serverUp, stopping>>

\* The loop of thread i over its block is over.
BlockDone(s, k, i) == calc[s][k].next[i] = LastRow(i, calc[s][k].threads, calc[s][k].size)

\* Mutant: only one of the threads is joined.
JoinedOne(s, k) == \E i \in DOMAIN calc[s][k].next : BlockDone(s, k, i)

Joined(s, k) == \A i \in DOMAIN calc[s][k].next : BlockDone(s, k, i)

\* All threads are joined: the status becomes DONE.
FinishCalculate(s, k) ==
    /\ serverUp
    /\ calc[s][k].pc = "running"
    /\ Joined(s, k)
    /\ Finish(s, k, "DONE")

\* The process ends, and with it its sockets and threads.
ProcessEnds ==
    /\ net' = [s \in Sessions |-> [net[s] EXCEPT !.serverOpen = FALSE, !.toServer = <<>>]]
    /\ session' = [s \in Sessions |-> OverSession]
    /\ calc' = [s \in Sessions |-> [k \in Slots |-> NoCalc]]
    /\ clients' = {}
    /\ serverUp' = FALSE
    /\ stopping' = "no"
    /\ UNCHANGED client

\* A calculation whose matrix or TaskHandler is gone reads freed memory, a division
\* by zero is not caught, or creating a further thread fails and std::terminate() is
\* called because the first ones have not been joined.
Crash ==
    /\ serverUp
    /\ \E s \in Sessions : \E k \in Running(s) :
          \/ ~calc[s][k].sound
          \/ /\ calc[s][k].pc = "created"
             /\ ThreadsUsed(calc[s][k].threads, calc[s][k].size) # 1
    /\ ProcessEnds

\* WSACleanup() and the return from main(), which no thread outlives; or a client's
\* thread uses the Server that is destroyed, and the process crashes before.
Exit ==
    /\ stopping = "cleared"
    /\ ProcessEnds

-------------------------------------------------------------------------------
Call(c) ==
    \/ \E size \in Sizes \cup {MATRIX_SIZE}, threads \in ThreadCounts \cup {THREADS} :
          SendConfig(c, size, threads)
    \/ SendStart(c) \/ AskStatus(c) \/ AskResult(c) \/ EndSession(c) \/ SendFails(c)

\* The reply to a blocking call, or its failure.
Returns(c) == ReceiveReply(c) \/ LoseServer(c)

\* main() of Client.py goes from call to call by itself.
ScriptStep(c) == Scripted(c) /\ Call(c)

SessionStep(s) ==
    \/ ProcessConfig(s) \/ HandleThrows(s) \/ IgnoreStart(s) \/ ProcessStart(s)
    \/ ProcessStatus(s) \/ ProcessResult(s) \/ LeaveHandle(s) \/ RemoveClient(s)

CalcStep(s) ==
    \E k \in Running(s) :
        \/ BeginCalculate(s, k) \/ CalculateThrows(s, k) \/ FinishCalculate(s, k)
        \/ calc[s][k].pc = "running" /\ \E i \in DOMAIN calc[s][k].next : CalculateRow(s, k, i)

StopStep == (\E s \in Sessions : Disconnect(s)) \/ ClearClients \/ Exit

Next ==
    \/ \E c \in Clients :
          \/ Call(c) \/ Returns(c) \/ Vanish(c)
          \/ \E s \in Sessions : Connect(c, s)
    \/ \E s \in Sessions : Accept(s) \/ AcceptThrows(s) \/ SessionStep(s) \/ CalcStep(s)
    \/ Start \/ StopStep \/ Crash

\* The main thread, the thread of a client, a blocked client and the script go on.
Fairness ==
    /\ \A s \in Sessions : WF_vars(Accept(s)) /\ WF_vars(SessionStep(s))
    /\ \A c \in Clients : WF_vars(Returns(c)) /\ WF_vars(ScriptStep(c))
    /\ WF_vars(StopStep)

\* The threads of a calculation are scheduled, too.
CalcFairness == \A s \in Sessions : WF_vars(CalcStep(s))

Spec == Init /\ [][Next]_vars /\ Fairness

-------------------------------------------------------------------------------
(* Safety.                                                                  *)

\* Replies come in the order of the requests and fit them: a client never
\* throws because a reply has the wrong command or the wrong matrix size,
\* although configurations are pipelined with requests and the size it compares
\* with outlives a connection and the server (Client.cpp 156, 178, 189; Client.py
\* 76, 89, 96).
RepliesFitRequests ==
    \A c \in Clients :
        LET s == client[c].conn IN
        s # NoSession =>
            /\ Len(net[s].toClient) <= 1
            /\ net[s].toClient # <<>> => ValidReply(c, Head(net[s].toClient))

\* A session that sends neither a configuration nor a start while one of its
\* calculations runs gets what it asked for: after a start, DONE means that
\* every row has been calculated, and so has every row of a result on its way,
\* whatever number of threads was asked for, zero included (ClientHandler.cpp
\* 98-121, 138-154; TaskHandler.cpp 20-41).
DoneMeansCalculated ==
    \A s \in Sessions :
        session[s].started /\ ~session[s].overlapped =>
            /\ session[s].status = "DONE" =>
                  \A r \in DOMAIN session[s].matrix : session[s].matrix[r] = "calculated"
            /\ \A n \in DOMAIN net[s].toClient : net[s].toClient[n].cmd = "GET_RESULT" =>
                  \A r \in DOMAIN net[s].toClient[n].rows :
                      net[s].toClient[n].rows[r] = "calculated"

\* The script, which asks for the result as soon as a poll has seen DONE, gets the
\* whole matrix, calculated: no poll sees the DONE of the constructor or of the
\* configuration, although nothing answers START_PROCESSING (Client.py 124-146;
\* ClientHandler.cpp 88, 98).
PollSeesOwnResult ==
    \A c \in Clients : (Scripted(c) /\ client[c].conn # NoSession) =>
        LET replies == net[client[c].conn].toClient IN
        \A n \in DOMAIN replies : replies[n].cmd = "GET_RESULT" =>
            replies[n].rows = [r \in 1 .. MATRIX_SIZE |-> "calculated"]

\* The report of Lab4, paragraph 98, says that the reply to GET_RESULT holds the
\* bytes of the calculated matrix.
ResultIsCalculated ==
    \A s \in Sessions : \A n \in DOMAIN net[s].toClient :
        net[s].toClient[n].cmd = "GET_RESULT" =>
            \A r \in DOMAIN net[s].toClient[n].rows :
                net[s].toClient[n].rows[r] = "calculated"

\* The socket of a session stays open as long as the list, its thread or a
\* calculation may use it, whichever of them lets go last: only stop(), after an
\* exception in the accept loop, closes one in use, and none but those in the list it
\* walks.  A session that is over is not in that list (Server.cpp 80-130;
\* ClientHandler.cpp 11-24, 103).
SocketOutlivesUse ==
    \A s \in Sessions :
        /\ s \in clients \/ Running(s) # {} \/ session[s].phase \in {"handling", "removing"} =>
              \/ net[s].serverOpen
              \/ stopping = "disconnecting" /\ s \in clients
              \/ stopping = "cleared"
        /\ session[s].phase = "gone" => s \notin clients

(* Liveness.                                                                *)

\* Every request is answered as long as the session lives, without any
\* assumption on calculations: one that runs, or is never scheduled, does not
\* keep the thread of the session from answering (ClientHandler.cpp 103-121: the
\* mutex is held only for the status, never for the calculation).
RequestsAnswered ==
    \A c \in Clients, s \in Sessions :
        client[c].awaiting # "none" /\ client[c].conn = s ~>
            \/ client[c].awaiting = "none" \/ client[c].conn # s
            \/ session[s].phase \in {"removing", "gone"}

\* If the calculation threads are scheduled, a calculation that is left alone
\* ends, and its session says so.
CalculationEnds ==
    CalcFairness =>
        \A s \in Sessions :
            session[s].status = "PROCESSING" ~>
                session[s].status \in {"DONE", "ERROR"} \/ ~serverUp

\* If the calculation threads are scheduled, the script, once connected, leaves its
\* polling loop and ends, whatever becomes of its calculation or of the server:
\* with the result, on STATUS_ERROR, or by an exception (Client.py 119-160).
ScriptEnds ==
    CalcFairness =>
        \A c \in Clients :
            Scripted(c) /\ client[c].conn # NoSession ~> client[c].conn = NoSession

\* If the calculation threads are scheduled, the socket of a session that is
\* over is closed in the end, so that a client still waiting for a reply learns
\* it: no session is kept alive for ever by the shared_ptr that it gives to its
\* calculations (ClientHandler.cpp 103, Server.cpp 87-98).
SocketsAreClosed ==
    CalcFairness =>
        \A s \in Sessions :
            \/ session[s].phase = "handling" /\ ~net[s].clientOpen
            \/ session[s].phase = "removing"
            ~> ~net[s].serverOpen
================================================================================
