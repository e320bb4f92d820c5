---------------------------- MODULE CalcServerProofs ----------------------------
(* The safety of the calculation service, for any number of clients, sessions,   *)
(* calculations and commands in flight and for any sizes and thread counts.      *)
EXTENDS CalcServer, RowPartitionProofs, SequenceTheorems

(***************************************************************************)
(* The inductive invariant, in three parts: of each session, what its        *)
(* socket, its calculations and its reply are to each other; of each client  *)
(* and the session it is connected to, how far the commands between them     *)
(* have come; and that no two clients share a connection.                    *)
(***************************************************************************)

Requests == {"CHECK_STATUS", "GET_RESULT"}
Statuses == {"PROCESSING", "DONE", "ERROR"}

Replies ==
    [cmd : {"CHECK_STATUS"}, status : Statuses]
    \cup [cmd : {"GET_RESULT"}, rows : Seq(Rows)]

ClientRecords ==
    [conn : Sessions \cup {NoSession}, matrixSize : Sizes \cup {0, MATRIX_SIZE},
     awaiting : Requests \cup {"none"},
     next : {"any", "config", "start", "status", "result", "end"}]
Nets ==
    [toServer : Seq(Commands), toClient : Seq(Replies),
     clientOpen : BOOLEAN, serverOpen : BOOLEAN]
SessionRecords ==
    [phase : {"connecting", "accepted", "handling", "removing", "gone"}, status : Statuses,
     threadsNum : Nat, matrixSize : Nat, matrix : Seq(Rows),
     started : BOOLEAN, overlapped : BOOLEAN]
Calcs ==
    {NoCalc}
    \cup [pc : {"created"}, sound : BOOLEAN, threads : Nat, size : Nat]
    \cup [pc : {"running"}, sound : BOOLEAN, threads : Nat \ {0}, size : Nat,
          next : UNION {[Threads(n) -> Nat] : n \in Nat}]

TypeInv ==
    /\ client \in [Clients -> ClientRecords]
    /\ net \in [Sessions -> Nets]
    /\ session \in [Sessions -> SessionRecords]
    /\ calc \in [Sessions -> [Slots -> Calcs]]
    /\ clients \subseteq Sessions

(* A connection n, its session ss and calculations k.                            *)

Busy(k) == {i \in Slots : k[i].pc # "none"}

\* Nothing is sent behind a request before its reply has been read.
OneRequest(n) ==
    /\ \A i \in 1 .. Len(n.toServer) :
          n.toServer[i].cmd \in Requests => i = Len(n.toServer)
    /\ n.toClient # <<>> => n.toServer = <<>> /\ Len(n.toClient) = 1

\* Each thread of a calculation is within its block.
BlocksOK(x) ==
    x.pc = "running" =>
       /\ x.next \in [Threads(x.threads) -> Nat]
       /\ \A t \in Threads(x.threads) :
             x.next[t] \in FirstRow(t, x.threads, x.size) .. LastRow(t, x.threads, x.size)

Calculated(rows) == \A r \in 1 .. Len(rows) : rows[r] = "calculated"

\* The rows that the threads of a calculation have done.
DoneSoFar(ss, x) ==
    x.pc = "running" =>
       \A t \in Threads(x.threads), r \in 1 .. ss.matrixSize :
          FirstRow(t, x.threads, x.size) < r /\ r <= x.next[t] => ss.matrix[r] = "calculated"

\* What a session is like that sends neither a configuration nor a start while a
\* calculation runs.
Orderly(n, ss, k) ==
    /\ \A i, j \in Busy(k) : i = j
    /\ Busy(k) # {} => ss.started /\ ss.status = "PROCESSING"
    /\ \A i \in Busy(k) : k[i].sound /\ k[i].size = ss.matrixSize /\ DoneSoFar(ss, k[i])
    /\ \A r \in 1 .. ss.matrixSize : ss.matrix[r] # "garbage"
    /\ ss.started /\ ss.status = "DONE" => Calculated(ss.matrix)
    /\ ss.started /\ n.toClient # <<>> /\ n.toClient[1].cmd = "GET_RESULT" =>
          Calculated(n.toClient[1].rows)

SessionOK(n, ss, k) ==
    /\ OneRequest(n)
    /\ Len(ss.matrix) = ss.matrixSize
    /\ \A i \in Slots : BlocksOK(k[i])
    /\ ~ss.overlapped => Orderly(n, ss, k)

(* A client cl and its connection n, session ss and calculations k.              *)

\* The session will read what has been sent, or what will be.
Alive(n, ss) == n.serverOpen /\ ss.phase \in {"connecting", "handling"}

NoConfig(q, i) == \A j \in i .. Len(q) : q[j].cmd # "SEND_CONFIG"

\* When the commands q have been read, the size will be none or the one the
\* client remembers.
SizeFits(cl, q, size) ==
    /\ \A i \in 1 .. Len(q) :
          q[i].cmd = "SEND_CONFIG" /\ NoConfig(q, i + 1) => q[i].matrixSize = cl.matrixSize
    /\ NoConfig(q, 1) => size \in {0, cl.matrixSize}

\* The only request or reply on its way is the one the client waits for.
Awaits(cl, n) ==
    /\ \A i \in 1 .. Len(n.toServer) :
          n.toServer[i].cmd \in Requests => n.toServer[i].cmd = cl.awaiting
    /\ n.toClient # <<>> => n.toClient[1].cmd = cl.awaiting

Whole == [r \in 1 .. MATRIX_SIZE |-> "calculated"]

ReplyFits(cl, n) ==
    n.toClient # <<>> /\ n.toClient[1].cmd = "GET_RESULT" =>
        /\ Len(n.toClient[1].rows) \in {0, cl.matrixSize}
        /\ cl.next # "any" => n.toClient[1].rows = Whole

\* What the script has sent and the session has not read: the request it waits for,
\* behind the start, behind the configuration.
Cfg == Config(MATRIX_SIZE, THREADS)
Str == [cmd |-> "START_PROCESSING"]
Ask(request) == [cmd |-> request]
Nothing(request) == IF request = "none" THEN <<>> ELSE <<Ask(request)>>
JustStart(request) == IF request = "none" THEN <<Str>> ELSE <<Str, Ask(request)>>
Both(request) == IF request = "none" THEN <<Cfg, Str>> ELSE <<Cfg, Str, Ask(request)>>

Unread(cl, n) == IF n.toClient = <<>> THEN cl.awaiting ELSE "none"

\* The session has read the configuration of the script, and its start.
Configured(ss, k) == ss.matrixSize = MATRIX_SIZE /\ ~ss.overlapped /\ Busy(k) = {}
Started(ss)       == ss.matrixSize = MATRIX_SIZE /\ ~ss.overlapped /\ ss.started

ScriptOK(cl, n, ss, k) ==
    /\ cl.next = "config" => cl.awaiting = "none" /\ n.toServer = <<>> /\ Busy(k) = {}
    /\ cl.next = "start" =>
          /\ cl.awaiting = "none"
          /\ \/ n.toServer = <<Cfg>> /\ Busy(k) = {}
             \/ n.toServer = <<>> /\ Configured(ss, k)
    /\ cl.next = "status" =>
          /\ cl.awaiting \in {"none", "CHECK_STATUS"}
          /\ \/ n.toServer = Both(Unread(cl, n)) /\ Busy(k) = {}
             \/ n.toServer = JustStart(Unread(cl, n)) /\ Configured(ss, k)
             \/ n.toServer = Nothing(Unread(cl, n)) /\ Started(ss)
          /\ n.toClient # <<>> /\ n.toClient[1].status = "DONE" => ss.status = "DONE"
    /\ cl.next = "result" =>
          /\ cl.awaiting \in {"none", "GET_RESULT"}
          /\ n.toServer = Nothing(Unread(cl, n)) /\ Started(ss) /\ ss.status = "DONE"
    /\ cl.next = "end" => cl.awaiting = "none"

Connected(cl, n, ss, k) ==
    /\ n.clientOpen
    /\ Awaits(cl, n)
    /\ ReplyFits(cl, n)
    /\ Alive(n, ss) => SizeFits(cl, n.toServer, ss.matrixSize)
    /\ Alive(n, ss) /\ cl.next # "any" => ScriptOK(cl, n, ss, k)

Idle(cl) == cl.awaiting = "none" /\ cl.next \in {"any", "config"}

SessionsOK == \A s \in Sessions : SessionOK(net[s], session[s], calc[s])
ClientsOK ==
    \A c \in Clients :
        IF client[c].conn = NoSession
        THEN Idle(client[c])
        ELSE Connected(client[c], net[client[c].conn], session[client[c].conn],
                       calc[client[c].conn])
Exclusive ==
    \A c, d \in Clients :
        client[c].conn = client[d].conn /\ client[c].conn # NoSession => c = d

CalcInv == TypeInv /\ SessionsOK /\ ClientsOK /\ Exclusive

\* Who holds session s: the list, its thread, a calculation, or nobody, when its socket
\* is closed; and who else may have closed it.
Holding(s) ==
    /\ ~serverUp => session[s].phase = "gone" /\ Busy(calc[s]) = {}
    /\ net[s].serverOpen => session[s].phase # "gone" \/ Busy(calc[s]) # {}
    /\ s \in clients => session[s].phase \in {"accepted", "handling", "removing"}
    /\ session[s].phase \in {"handling", "removing"} => s \in clients \/ stopping = "cleared"
    /\ session[s].phase = "connecting" =>
          stopping = "no" /\ net[s].serverOpen /\ session[s].matrixSize = 0
    /\ session[s].phase = "accepted" => stopping # "no"
    /\ session[s].phase \in {"connecting", "accepted"} => Busy(calc[s]) = {}
    /\ ~net[s].serverOpen =>
          \/ session[s] = OverSession /\ Busy(calc[s]) = {}
          \/ stopping = "disconnecting" /\ s \in clients
          \/ stopping = "cleared"

HoldInv ==
    /\ stopping \in {"no", "disconnecting", "cleared"}
    /\ stopping = "cleared" => clients = {}
    /\ \A s \in Sessions : Holding(s)

-------------------------------------------------------------------------------
(* Sequences.                                                               *)

\* Reading the first element.
LEMMA Front ==
    ASSUME NEW S, NEW q \in Seq(S), q # <<>>
    PROVE  /\ Len(q) \in Nat /\ Len(q) >= 1 /\ Head(q) = q[1] /\ Head(q) \in S
           /\ Tail(q) \in Seq(S) /\ Len(Tail(q)) = Len(q) - 1
           /\ \A i \in 1 .. Len(q) - 1 : Tail(q)[i] = q[i + 1]
  OBVIOUS

\* Reading the only element.
LEMMA OnlyOne ==
    ASSUME NEW S, NEW q \in Seq(S), Len(q) = 1
    PROVE  Head(q) = q[1] /\ Head(q) \in S /\ Tail(q) = <<>>
  <1>1. q # <<>> /\ Head(q) = q[1] /\ Head(q) \in S /\ Tail(q) \in Seq(S)
    <2>1. q # <<>>
      BY EmptySeq
    <2> QED  BY <2>1, Front
  <1>2. Len(Tail(q)) = 0
    BY <1>1, Front
  <1>3. \A p \in Seq(S) : p # <<>> => Len(p) # 0
    BY EmptySeq
  <1> QED  BY <1>1, <1>2, <1>3

\* Appending an element.
LEMMA Back ==
    ASSUME NEW S, NEW q \in Seq(S), NEW x \in S
    PROVE  /\ Append(q, x) \in Seq(S) /\ Len(q) \in Nat /\ Len(Append(q, x)) = Len(q) + 1
           /\ \A i \in 1 .. Len(q) : Append(q, x)[i] = q[i]
           /\ Append(q, x)[Len(q) + 1] = x
  OBVIOUS

\* A reply is sent to a client that waits for one.
LEMMA FirstReply ==
    ASSUME NEW x
    PROVE  /\ <<>> \o <<x>> = <<x>> /\ Tail(<<x>>) = <<>> /\ <<x>> # <<>>
           /\ Len(<<x>>) = 1 /\ <<x>>[1] = x /\ Append(<<>>, x) = <<x>>
  OBVIOUS

\* What is left of the script's commands when the first one has been read.
LEMMA ScriptRead ==
    ASSUME NEW r
    PROVE  /\ Head(Both(r)) = Cfg /\ Tail(Both(r)) = JustStart(r) /\ Both(r) # <<>>
           /\ Head(JustStart(r)) = Str /\ Tail(JustStart(r)) = Nothing(r) /\ JustStart(r) # <<>>
           /\ r # "none" => /\ Head(Nothing(r)) = Ask(r) /\ Nothing(r) # <<>>
                            /\ Tail(Nothing(r)) = <<>>
           /\ Nothing("none") = <<>> /\ JustStart("none") = <<Str>> /\ Both("none") = <<Cfg, Str>>
  BY DEF Both, JustStart, Nothing

\* Sequences that are made by appending.
LEMMA Appends ==
    /\ \A x : Append(<<>>, x) = <<x>>
    /\ \A a, x : Append(<<a>>, x) = <<a, x>>
    /\ \A a, b, x : Append(<<a, b>>, x) = <<a, b, x>>
  <1>1. \A x : Append(<<>>, x) = <<x>>
    OBVIOUS
  <1>2. \A a, x : Append(<<a>>, x) = <<a, x>>
    <2> TAKE a, x
    <2> DEFINE S == {a, x}
               p == Append(<<a>>, x)
    <2>1. <<a>> \in Seq(S) /\ <<a, x>> \in Seq(S) /\ x \in S
      OBVIOUS
    <2>2. /\ p \in Seq(S) /\ Len(p) = Len(<<a>>) + 1 /\ p[Len(<<a>>) + 1] = x
          /\ \A i \in 1 .. Len(<<a>>) : p[i] = <<a>>[i]
      BY <2>1, Back
    <2>3. Len(p) = 2 /\ p[1] = a /\ p[2] = x
      BY <2>2
    <2> HIDE DEF p
    <2>4. Len(p) = Len(<<a, x>>) /\ \A i \in 1 .. Len(p) : p[i] = <<a, x>>[i]
      BY <2>3
    <2>5. p = <<a, x>>
      BY <2>1, <2>2, <2>4, SeqEqual
    <2> QED  BY <2>5 DEF p
  <1>3. \A a, b, x : Append(<<a, b>>, x) = <<a, b, x>>
    <2> TAKE a, b, x
    <2> DEFINE S == {a, b, x}
               p == Append(<<a, b>>, x)
    <2>1. <<a, b>> \in Seq(S) /\ <<a, b, x>> \in Seq(S) /\ x \in S
      OBVIOUS
    <2>2. /\ p \in Seq(S) /\ Len(p) = Len(<<a, b>>) + 1 /\ p[Len(<<a, b>>) + 1] = x
          /\ \A i \in 1 .. Len(<<a, b>>) : p[i] = <<a, b>>[i]
      BY <2>1, Back
    <2>3. Len(p) = 3 /\ p[1] = a /\ p[2] = b /\ p[3] = x
      BY <2>2
    <2> HIDE DEF p
    <2>4. Len(p) = Len(<<a, b, x>>) /\ \A i \in 1 .. Len(p) : p[i] = <<a, b, x>>[i]
      BY <2>3
    <2>5. p = <<a, b, x>>
      BY <2>1, <2>2, <2>4, SeqEqual
    <2> QED  BY <2>5 DEF p
  <1> QED  BY <1>1, <1>2, <1>3

\* What is left when the script has asked for the status or the result.
LEMMA ScriptAsks ==
    ASSUME NEW r, r # "none"
    PROVE  /\ Append(Both("none"), Ask(r)) = Both(r)
           /\ Append(JustStart("none"), Ask(r)) = JustStart(r)
           /\ Append(Nothing("none"), Ask(r)) = Nothing(r)
  <1>2. Both("none") = <<Cfg, Str>> /\ JustStart("none") = <<Str>> /\ Nothing("none") = <<>>
    BY ScriptRead
  <1>3. Both(r) = <<Cfg, Str, Ask(r)>> /\ JustStart(r) = <<Str, Ask(r)>> /\ Nothing(r) = <<Ask(r)>>
    BY DEF Both, JustStart, Nothing
  <1>4. /\ Append(<<Cfg, Str>>, Ask(r)) = <<Cfg, Str, Ask(r)>>
        /\ Append(<<Str>>, Ask(r)) = <<Str, Ask(r)>>
        /\ Append(<<>>, Ask(r)) = <<Ask(r)>>
    BY Appends, Zenon
  <1> QED  BY <1>2, <1>3, <1>4, Zenon

\* The script's commands are told apart by what they are.
LEMMA CommandNames ==
    /\ Cfg.cmd = "SEND_CONFIG" /\ Cfg.matrixSize = MATRIX_SIZE /\ Cfg.threadsNum = THREADS
    /\ Str.cmd = "START_PROCESSING" /\ \A r : Ask(r).cmd = r
    /\ Cfg \in Commands /\ Str \in Commands /\ \A r \in Requests : Ask(r) \in Commands
  BY DEF Cfg, Str, Ask, Config, Commands, Requests
-------------------------------------------------------------------------------
(* One step, one session or one client.                                     *)

\* The fields of a connection and of a session.
LEMMA Fields ==
    /\ \A n \in Nets : /\ n.toServer \in Seq(Commands) /\ n.toClient \in Seq(Replies)
                       /\ n.clientOpen \in BOOLEAN /\ n.serverOpen \in BOOLEAN
    /\ \A ss \in SessionRecords :
          /\ ss.phase \in {"connecting", "accepted", "handling", "removing", "gone"}
          /\ ss.status \in Statuses /\ ss.threadsNum \in Nat /\ ss.matrixSize \in Nat
          /\ ss.matrix \in Seq(Rows) /\ ss.started \in BOOLEAN /\ ss.overlapped \in BOOLEAN
    /\ \A cl \in ClientRecords :
          /\ cl.conn \in Sessions \cup {NoSession} /\ cl.matrixSize \in Nat
          /\ cl.awaiting \in Requests \cup {"none"}
  <1>1. ASSUME NEW n \in Nets
        PROVE  /\ n.toServer \in Seq(Commands) /\ n.toClient \in Seq(Replies)
               /\ n.clientOpen \in BOOLEAN /\ n.serverOpen \in BOOLEAN
    BY DEF Nets
  <1>2. ASSUME NEW ss \in SessionRecords
        PROVE  /\ ss.phase \in {"connecting", "accepted", "handling", "removing", "gone"}
               /\ ss.status \in Statuses /\ ss.threadsNum \in Nat /\ ss.matrixSize \in Nat
               /\ ss.matrix \in Seq(Rows) /\ ss.started \in BOOLEAN /\ ss.overlapped \in BOOLEAN
    BY DEF SessionRecords
  <1>3. ASSUME NEW cl \in ClientRecords
        PROVE  /\ cl.conn \in Sessions \cup {NoSession} /\ cl.matrixSize \in Nat
               /\ cl.awaiting \in Requests \cup {"none"}
    <2>1. cl.conn \in Sessions \cup {NoSession} /\ cl.awaiting \in Requests \cup {"none"}
      BY DEF ClientRecords
    <2>2. cl.matrixSize \in Sizes \cup {0, MATRIX_SIZE}
      BY DEF ClientRecords
    <2>3. \A m \in Sizes \cup {0, MATRIX_SIZE} : m \in Nat
      BY MenuAssumption, ScriptAssumption
    <2>4. cl.matrixSize \in Nat
      BY <2>2, <2>3, Zenon
    <2> QED  BY <2>1, <2>4
  <1> QED  BY <1>1, <1>2, <1>3

\* A step of session s leaves the other sessions and all the clients alone.
LEMMA OneSession ==
    ASSUME CalcInv, NEW s \in Sessions, client' = client, TypeInv',
           \A t \in Sessions \ {s} : /\ net'[t] = net[t] /\ session'[t] = session[t]
                                     /\ calc'[t] = calc[t],
           SessionOK(net'[s], session'[s], calc'[s]),
           \A c \in Clients : client[c].conn = s =>
               Connected(client[c], net'[s], session'[s], calc'[s])
    PROVE  CalcInv'
  <1>1. SessionsOK'
    <2>1. ASSUME NEW t \in Sessions
          PROVE  SessionOK(net'[t], session'[t], calc'[t])
      <3>1. CASE t = s
        BY <3>1
      <3>2. CASE t # s
        <4>1. SessionOK(net[t], session[t], calc[t])
          BY DEF CalcInv, SessionsOK
        <4> QED  BY <3>2, <4>1
      <3> QED  BY <3>1, <3>2
    <2> QED  BY <2>1 DEF SessionsOK
  <1>2. ClientsOK'
    <2> SUFFICES ASSUME NEW c \in Clients
                 PROVE  IF client[c].conn = NoSession THEN Idle(client[c])
                        ELSE Connected(client[c], net'[client[c].conn],
                                       session'[client[c].conn], calc'[client[c].conn])
      BY DEF ClientsOK
    <2>1. client[c].conn \in Sessions \cup {NoSession}
      BY Fields DEF CalcInv, TypeInv
    <2> QED  BY <2>1 DEF CalcInv, ClientsOK
  <1>3. Exclusive'
    BY DEF CalcInv, Exclusive
  <1> QED  BY <1>1, <1>2, <1>3 DEF CalcInv

\* A step of client c and session s leaves the others alone.
LEMMA OnePair ==
    ASSUME CalcInv, NEW c \in Clients, NEW s \in Sessions, TypeInv',
           client[c].conn \in {s, NoSession}, \A d \in Clients \ {c} : client[d].conn # s,
           UNCHANGED <<calc, clients>>,
           \A t \in Sessions \ {s} : net'[t] = net[t] /\ session'[t] = session[t],
           \A d \in Clients \ {c} : client'[d] = client[d],
           SessionOK(net'[s], session'[s], calc[s]),
           \/ client'[c].conn = s /\ Connected(client'[c], net'[s], session'[s], calc[s])
           \/ client'[c].conn = NoSession /\ Idle(client'[c])
    PROVE  CalcInv'
  <1>1. SessionsOK'
    BY DEF CalcInv, SessionsOK
  <1>2. s # NoSession
    BY NoSessionAssumption
  <1>3. ClientsOK'
    <2> SUFFICES ASSUME NEW d \in Clients
                 PROVE  IF client'[d].conn = NoSession THEN Idle(client'[d])
                        ELSE Connected(client'[d], net'[client'[d].conn],
                                       session'[client'[d].conn], calc[client'[d].conn])
      BY DEF ClientsOK
    <2>1. CASE d = c
      BY <2>1, <1>2
    <2>2. CASE d # c
      <3>1. client[d].conn \in Sessions \cup {NoSession}
        BY Fields DEF CalcInv, TypeInv
      <3> QED  BY <2>2, <3>1 DEF CalcInv, ClientsOK
    <2> QED  BY <2>1, <2>2
  <1>4. Exclusive'
    <2> SUFFICES ASSUME NEW d \in Clients, NEW e \in Clients,
                        client'[d].conn = client'[e].conn, client'[d].conn # NoSession
                 PROVE  d = e
      BY DEF Exclusive
    <2> QED  BY DEF CalcInv, Exclusive
  <1> QED  BY <1>1, <1>3, <1>4 DEF CalcInv

\* A step of client c on its connection s leaves the other clients and connections
\* alone, and the server.
LEMMA OneClient ==
    ASSUME CalcInv, NEW c \in Clients, NEW s \in Sessions, client[c].conn = s, TypeInv',
           UNCHANGED <<session, calc, clients>>,
           \A t \in Sessions \ {s} : net'[t] = net[t],
           \A d \in Clients \ {c} : client'[d] = client[d],
           SessionOK(net'[s], session[s], calc[s]),
           \/ client'[c].conn = s /\ Connected(client'[c], net'[s], session[s], calc[s])
           \/ client'[c].conn = NoSession /\ Idle(client'[c])
    PROVE  CalcInv'
  <1>1. \A d \in Clients \ {c} : client[d].conn # s
    BY NoSessionAssumption DEF CalcInv, Exclusive
  <1> QED  BY <1>1, OnePair

\* A command is read.
LEMMA Consumed ==
    ASSUME TypeInv, NEW s \in Sessions, Consume(s), net[s].toServer # <<>>
    PROVE  /\ net' \in [Sessions -> Nets] /\ net'[s] \in Nets
           /\ net'[s].toServer = Tail(net[s].toServer) /\ net'[s].toClient = net[s].toClient
           /\ net'[s].clientOpen = net[s].clientOpen /\ net'[s].serverOpen = net[s].serverOpen
           /\ \A t \in Sessions \ {s} : net'[t] = net[t]
  <1>1. net \in [Sessions -> Nets] /\ net[s] \in Nets
    BY DEF TypeInv
  <1>2. Tail(net[s].toServer) \in Seq(Commands)
    BY <1>1, Fields, Front
  <1>3. net' = [net EXCEPT ![s] = [net[s] EXCEPT !.toServer = Tail(net[s].toServer)]]
    BY DEF Consume
  <1>4. [net[s] EXCEPT !.toServer = Tail(net[s].toServer)] \in Nets
    BY <1>1, <1>2 DEF Nets
  <1> QED  BY <1>1, <1>3, <1>4 DEF Nets

\* A command is read and answered.
LEMMA Replied ==
    ASSUME TypeInv, NEW s \in Sessions, net[s].toServer # <<>>, net[s].toClient = <<>>,
           NEW r \in Replies, ConsumeAndReply(s, <<r>>)
    PROVE  /\ net' \in [Sessions -> Nets] /\ net'[s] \in Nets
           /\ net'[s].toServer = Tail(net[s].toServer)
           /\ net'[s].toClient = IF net[s].clientOpen THEN <<r>> ELSE <<>>
           /\ net'[s].clientOpen = net[s].clientOpen /\ net'[s].serverOpen = net[s].serverOpen
           /\ \A t \in Sessions \ {s} : net'[t] = net[t]
  <1> DEFINE q == Tail(net[s].toServer)
             p == IF net[s].clientOpen THEN <<r>> ELSE <<>>
  <1>1. net \in [Sessions -> Nets] /\ net[s] \in Nets
    BY DEF TypeInv
  <1>2. q \in Seq(Commands)
    BY <1>1, Fields, Front
  <1>3. p \in Seq(Replies)
    OBVIOUS
  <1>4. net' = [net EXCEPT ![s] = [net[s] EXCEPT !.toServer = q, !.toClient = p]]
    <2>1. <<>> \o <<r>> = <<r>>
      BY FirstReply
    <2>2. p = IF net[s].clientOpen THEN net[s].toClient \o <<r>> ELSE net[s].toClient
      BY <2>1
    <2> HIDE DEF p, q
    <2> QED  BY <2>2 DEF ConsumeAndReply, q
  <1> HIDE DEF p, q
  <1>5. [net[s] EXCEPT !.toServer = q, !.toClient = p] \in Nets
    BY <1>1, <1>2, <1>3 DEF Nets
  <1>6. net' \in [Sessions -> Nets] /\ \A t \in Sessions \ {s} : net'[t] = net[t]
    BY <1>1, <1>4, <1>5
  <1>7. net'[s] = [net[s] EXCEPT !.toServer = q, !.toClient = p]
    BY <1>1, <1>4
  <1> QED  BY <1>1, <1>5, <1>6, <1>7 DEF Nets, p, q

-------------------------------------------------------------------------------
(* Commands are read.                                                       *)

\* A session that reads a command has no reply on its way.
LEMMA Reading ==
    ASSUME CalcInv, NEW s \in Sessions, NEW cmd, Receives(s, cmd)
    PROVE  /\ net[s] \in Nets /\ session[s] \in SessionRecords /\ calc[s] \in [Slots -> Calcs]
           /\ SessionOK(net[s], session[s], calc[s])
           /\ net[s].toServer # <<>> /\ net[s].toServer \in Seq(Commands)
           /\ Head(net[s].toServer).cmd = cmd
           /\ net[s].toClient = <<>>
           /\ session[s].phase = "handling" /\ Alive(net[s], session[s])
           /\ net[s].serverOpen
           /\ \A c \in Clients : client[c].conn = s =>
                 /\ client[c] \in ClientRecords
                 /\ Connected(client[c], net[s], session[s], calc[s])
  <1>1. net[s] \in Nets /\ session[s] \in SessionRecords /\ calc[s] \in [Slots -> Calcs]
    BY DEF CalcInv, TypeInv
  <1>2. SessionOK(net[s], session[s], calc[s])
    BY DEF CalcInv, SessionsOK
  <1>3. /\ net[s].toServer # <<>> /\ net[s].toServer \in Seq(Commands)
        /\ Head(net[s].toServer).cmd = cmd /\ session[s].phase = "handling"
    BY <1>1, Fields DEF Receives
  <1>4. net[s].toClient = <<>>
    BY <1>2, <1>3 DEF SessionOK, OneRequest
  <1>5. net[s].serverOpen
    BY DEF Receives
  <1>6. ASSUME NEW c \in Clients, client[c].conn = s
        PROVE  client[c] \in ClientRecords /\ Connected(client[c], net[s], session[s], calc[s])
    BY <1>6, NoSessionAssumption DEF CalcInv, TypeInv, ClientsOK
  <1> QED  BY <1>1, <1>2, <1>3, <1>4, <1>5, <1>6 DEF Alive

\* What is left to read has one request at most.
LEMMA OneRequestLeft ==
    ASSUME NEW n \in Nets, NEW m, OneRequest(n), n.toServer # <<>>,
           m.toServer = Tail(n.toServer), m.toClient = <<>>
    PROVE  OneRequest(m)
  <1>1. n.toServer \in Seq(Commands)
    BY Fields
  <1> QED  BY <1>1, Front DEF OneRequest

\* The sizes fit when a command has been read.
LEMMA SizeFitsLeft ==
    ASSUME NEW cl, NEW q \in Seq(Commands), q # <<>>, NEW size, NEW then, SizeFits(cl, q, size),
           then = IF Head(q).cmd = "SEND_CONFIG" THEN Head(q).matrixSize ELSE size
    PROVE  SizeFits(cl, Tail(q), then)
  <1>1. /\ Len(q) \in Nat /\ Len(q) >= 1 /\ Head(q) = q[1] /\ Len(Tail(q)) = Len(q) - 1
        /\ \A i \in 1 .. Len(q) - 1 : Tail(q)[i] = q[i + 1]
    BY Front
  <1>2. ASSUME NEW i \in Nat \ {0}, NoConfig(Tail(q), i) PROVE NoConfig(q, i + 1)
    <2> SUFFICES ASSUME NEW j \in i + 1 .. Len(q) PROVE q[j].cmd # "SEND_CONFIG"
      BY DEF NoConfig
    <2>1. j - 1 \in i .. Len(q) - 1 /\ (j - 1) + 1 = j
      BY <1>1
    <2>2. Tail(q)[j - 1] = q[j]
      BY <1>1, <2>1
    <2> QED  BY <1>1, <1>2, <2>1, <2>2 DEF NoConfig
  <1>3. ASSUME NEW i \in 1 .. Len(Tail(q)), Tail(q)[i].cmd = "SEND_CONFIG",
               NoConfig(Tail(q), i + 1)
        PROVE  Tail(q)[i].matrixSize = cl.matrixSize
    <2>1. i + 1 \in 1 .. Len(q) /\ Tail(q)[i] = q[i + 1] /\ i + 1 \in Nat \ {0}
      BY <1>1
    <2>2. NoConfig(q, (i + 1) + 1)
      BY <1>2, <1>3, <2>1
    <2> QED  BY <1>3, <2>1, <2>2 DEF SizeFits
  <1>4. ASSUME NoConfig(Tail(q), 1) PROVE then \in {0, cl.matrixSize}
    <2>1. NoConfig(q, 1 + 1)
      BY <1>2, <1>4
    <2>2. CASE q[1].cmd = "SEND_CONFIG"
      BY <1>1, <2>1, <2>2 DEF SizeFits
    <2>3. CASE q[1].cmd # "SEND_CONFIG"
      <3>1. NoConfig(q, 1)
        BY <1>1, <2>1, <2>3 DEF NoConfig
      <3> QED  BY <1>1, <2>3, <3>1 DEF SizeFits
    <2> QED  BY <2>2, <2>3
  <1> QED  BY <1>3, <1>4 DEF SizeFits

\* A client is connected to a session that has read a command without an answer.
LEMMA AfterReading ==
    ASSUME NEW cl \in ClientRecords, NEW n \in Nets, NEW m \in Nets,
           NEW ss, NEW st, NEW k, NEW j,
           Connected(cl, n, ss, k), Alive(n, ss), n.toServer # <<>>, n.toClient = <<>>,
           m.toServer = Tail(n.toServer), m.toClient = <<>>, m.clientOpen = n.clientOpen,
           Alive(m, st) => st.matrixSize = IF Head(n.toServer).cmd = "SEND_CONFIG"
                                        THEN Head(n.toServer).matrixSize ELSE ss.matrixSize,
           Alive(m, st) /\ cl.next # "any" => ScriptOK(cl, m, st, j)
    PROVE  Connected(cl, m, st, j)
  <1>1. n.toServer \in Seq(Commands)
    BY Fields
  <1>2. Awaits(cl, m)
    BY <1>1, Front DEF Connected, Awaits
  <1>3. ReplyFits(cl, m)
    BY DEF ReplyFits
  <1>4. Alive(m, st) => SizeFits(cl, m.toServer, st.matrixSize)
    BY <1>1, SizeFitsLeft DEF Connected
  <1> QED  BY <1>2, <1>3, <1>4 DEF Connected

\* The script's session reads the configuration.
LEMMA ScriptConfigured ==
    ASSUME NEW cl \in ClientRecords, NEW n \in Nets, NEW m \in Nets, NEW ss, NEW st,
           NEW k, NEW j, ScriptOK(cl, n, ss, k), n.toServer # <<>>,
           n.toClient = <<>>, m.toServer = Tail(n.toServer), m.toClient = <<>>,
           Head(n.toServer).cmd = "SEND_CONFIG",
           st.matrixSize = Head(n.toServer).matrixSize, ~st.overlapped <=> Busy(k) = {},
           Busy(j) = Busy(k)
    PROVE  ScriptOK(cl, m, st, j)
  <1> DEFINE a == cl.awaiting
  <1>1. Unread(cl, n) = a /\ Unread(cl, m) = a
    BY DEF Unread
  <1>2. cl.next # "config"
    BY DEF ScriptOK
  <1>3. Head(n.toServer) = Cfg => st.matrixSize = MATRIX_SIZE
    BY CommandNames
  <1>4. Head(n.toServer) # Str /\ \A r \in Requests : Head(n.toServer) # Ask(r)
    BY CommandNames DEF Requests
  <1>5. ASSUME cl.next = "start"
        PROVE  a = "none" /\ m.toServer = <<>> /\ Configured(st, j)
    <2>1. a = "none" /\ n.toServer = <<Cfg>> /\ Busy(k) = {}
      BY <1>5 DEF ScriptOK
    <2> QED  BY <1>3, <2>1, FirstReply DEF Configured
  <1>6. ASSUME a \in {"none", "CHECK_STATUS", "GET_RESULT"} PROVE n.toServer # Nothing(a)
    <2>1. CASE a = "none"
      BY <2>1, ScriptRead
    <2>2. CASE a \in Requests
      BY <1>4, <2>2, ScriptRead DEF Requests
    <2> QED  BY <1>6, <2>1, <2>2 DEF Requests
  <1>7. ASSUME cl.next = "status"
        PROVE  a \in {"none", "CHECK_STATUS"} /\ m.toServer = JustStart(a) /\ Configured(st, j)
    <2>1. a \in {"none", "CHECK_STATUS"} /\ n.toServer # Nothing(a)
      BY <1>6, <1>7 DEF ScriptOK
    <2>2. n.toServer # JustStart(a)
      BY <1>4, ScriptRead
    <2>3. n.toServer = Both(a) /\ Busy(k) = {}
      BY <1>1, <1>7, <2>1, <2>2 DEF ScriptOK
    <2> QED  BY <1>3, <2>1, <2>3, ScriptRead DEF Configured
  <1>8. cl.next # "result"
    BY <1>1, <1>6 DEF ScriptOK
  <1>9. cl.next = "end" => a = "none"
    BY DEF ScriptOK
  <1> QED  BY <1>1, <1>2, <1>5, <1>7, <1>8, <1>9 DEF ScriptOK

\* The calculations of a session are those that have begun.
LEMMA RunningIsBusy == \A s : Running(s) = Busy(calc[s])
  BY DEF Running, Busy

\* Calculations that have lost what they work on stay what they are otherwise.
LEMMA Unsound ==
    ASSUME NEW s \in Sessions, calc[s] \in [Slots -> Calcs]
    PROVE  /\ MarkUnsound(s) \in [Slots -> Calcs]
           /\ Busy(MarkUnsound(s)) = Busy(calc[s])
           /\ (\A i \in Slots : BlocksOK(calc[s][i])) =>
                 \A i \in Slots : BlocksOK(MarkUnsound(s)[i])
           /\ Busy(calc[s]) = {} => MarkUnsound(s) = calc[s]
  <1>1. ASSUME NEW i \in Slots
        PROVE  /\ MarkUnsound(s)[i] \in Calcs
               /\ MarkUnsound(s)[i].pc = calc[s][i].pc
               /\ BlocksOK(calc[s][i]) => BlocksOK(MarkUnsound(s)[i])
               /\ i \notin Busy(calc[s]) => MarkUnsound(s)[i] = calc[s][i]
    <2> DEFINE x == calc[s][i]
               y == MarkUnsound(s)[i]
    <2>1. x \in Calcs /\ (i \in Busy(calc[s]) <=> x.pc # "none")
      BY DEF Busy
    <2>2. y = IF x.pc # "none" THEN [x EXCEPT !.sound = FALSE] ELSE x
      BY <2>1, RunningIsBusy DEF MarkUnsound
    <2> HIDE DEF x, y
    <2>3. CASE x = NoCalc
      <3>1. y = x
        BY <2>2, <2>3 DEF NoCalc
      <3> QED  BY <2>1, <3>1 DEF x, y
    <2>4. CASE x \in [pc : {"created"}, sound : BOOLEAN, threads : Nat, size : Nat]
      <3>1. y = [x EXCEPT !.sound = FALSE] /\ x.pc = "created"
        BY <2>2, <2>4
      <3>2. y.pc = x.pc /\ (BlocksOK(x) => BlocksOK(y))
        BY <2>4, <3>1 DEF BlocksOK
      <3>3. y \in Calcs
        BY <2>4, <3>1 DEF Calcs
      <3> QED  BY <2>1, <3>1, <3>2, <3>3 DEF x, y
    <2>5. CASE x \in [pc : {"running"}, sound : BOOLEAN, threads : Nat \ {0}, size : Nat,
                      next : UNION {[Threads(n) -> Nat] : n \in Nat}]
      <3>1. y = [x EXCEPT !.sound = FALSE] /\ x.pc = "running"
        BY <2>2, <2>5
      <3>2. y.pc = x.pc /\ y.threads = x.threads /\ y.size = x.size /\ y.next = x.next
        BY <2>5, <3>1
      <3>3. y \in Calcs
        BY <2>5, <3>1 DEF Calcs
      <3>4. BlocksOK(x) => BlocksOK(y)
        BY <3>2 DEF BlocksOK
      <3> QED  BY <2>1, <3>1, <3>2, <3>3, <3>4 DEF x, y
    <2> QED  BY <2>1, <2>3, <2>4, <2>5 DEF Calcs, x, y
  <1>2. MarkUnsound(s) = [i \in Slots |-> MarkUnsound(s)[i]]
    BY DEF MarkUnsound
  <1>3. MarkUnsound(s) \in [Slots -> Calcs]
    BY <1>1, <1>2
  <1>4. Busy(MarkUnsound(s)) = Busy(calc[s])
    BY <1>1 DEF Busy
  <1>5. Busy(calc[s]) = {} => MarkUnsound(s) = calc[s]
    BY <1>1, <1>3
  <1> QED  BY <1>1, <1>3, <1>4, <1>5

\* A configuration carries numbers.
LEMMA ConfigFields ==
    ASSUME NEW m \in Commands, m.cmd = "SEND_CONFIG"
    PROVE  m.threadsNum \in Nat /\ m.matrixSize \in Nat
  <1>1. PICK size \in Sizes \cup {MATRIX_SIZE}, threads \in ThreadCounts \cup {THREADS} :
            m = Config(size, threads)
    BY DEF Commands
  <1>2. \A i \in Sizes \cup {MATRIX_SIZE}, j \in ThreadCounts \cup {THREADS} :
            i \in Nat /\ j \in Nat
    BY MenuAssumption, ScriptAssumption
  <1>3. m.threadsNum = threads /\ m.matrixSize = size
    BY <1>1 DEF Config
  <1> QED  BY <1>2, <1>3

\* A session that has read a command without an answer, if it is as it should be.
LEMMA ReadStep ==
    ASSUME CalcInv, NEW s \in Sessions, NEW cmd, Receives(s, cmd), Consume(s),
           UNCHANGED <<client, clients>>,
           session' \in [Sessions -> SessionRecords], calc' \in [Sessions -> [Slots -> Calcs]],
           \A t \in Sessions \ {s} : session'[t] = session[t] /\ calc'[t] = calc[t],
           session'[s].phase \in {"handling", "removing"},
           Len(session'[s].matrix) = session'[s].matrixSize,
           \A i \in Slots : BlocksOK(calc'[s][i]),
           ~session'[s].overlapped => Orderly(net'[s], session'[s], calc'[s]),
           Alive(net'[s], session'[s]) =>
               /\ session'[s].matrixSize = IF cmd = "SEND_CONFIG"
                                           THEN Head(net[s].toServer).matrixSize
                                           ELSE session[s].matrixSize
               /\ \A c \in Clients : client[c].conn = s /\ client[c].next # "any" =>
                      ScriptOK(client[c], net'[s], session'[s], calc'[s])
    PROVE  CalcInv'
  <1> DEFINE n == net[s]
             ss == session[s]
             k == calc[s]
             m == net'[s]
             st == session'[s]
             j == calc'[s]
  <1>1. /\ n \in Nets /\ SessionOK(n, ss, k)
        /\ n.toServer # <<>> /\ Head(n.toServer).cmd = cmd /\ n.toClient = <<>>
        /\ Alive(n, ss) /\ n.serverOpen
        /\ \A c \in Clients : client[c].conn = s =>
              client[c] \in ClientRecords /\ Connected(client[c], n, ss, k)
    BY Reading
  <1>2. TypeInv
    BY DEF CalcInv
  <1>3. /\ net' \in [Sessions -> Nets] /\ m \in Nets
        /\ m.toServer = Tail(n.toServer) /\ m.toClient = <<>>
        /\ m.clientOpen = n.clientOpen /\ m.serverOpen = n.serverOpen
        /\ \A t \in Sessions \ {s} : net'[t] = net[t]
    BY <1>1, <1>2, Consumed
  <1>4. SessionOK(m, st, j)
    <2>1. OneRequest(m)
      BY <1>1, <1>3, OneRequestLeft DEF SessionOK
    <2> QED  BY <2>1 DEF SessionOK
  <1>5. ASSUME NEW c \in Clients, client[c].conn = s
        PROVE  Connected(client[c], m, st, j)
    <2> DEFINE cl == client[c]
    <2>1. cl \in ClientRecords /\ Connected(cl, n, ss, k)
      BY <1>1, <1>5
    <2>2. Alive(m, st) => /\ cl.next # "any" => ScriptOK(cl, m, st, j)
                       /\ st.matrixSize = IF Head(n.toServer).cmd = "SEND_CONFIG"
                                          THEN Head(n.toServer).matrixSize ELSE ss.matrixSize
      BY <1>1, <1>5
    <2> HIDE DEF cl, n, m, ss, st, k, j
    <2>3. Connected(cl, m, st, j)
      BY <1>1, <1>3, <2>1, <2>2, AfterReading
    <2> QED  BY <2>3 DEF cl
  <1>6. TypeInv'
    BY <1>2, <1>3 DEF TypeInv
  <1> QED  BY <1>3, <1>4, <1>5, <1>6, OneSession

\* processConfig() keeps the invariant.
LEMMA ProcessConfigStep ==
    ASSUME CalcInv, NEW s \in Sessions, ProcessConfig(s)
    PROVE  CalcInv'
  <1> DEFINE n == net[s]
             ss == session[s]
             k == calc[s]
             m == net'[s]
             st == session'[s]
             config == Head(n.toServer)
             matrix == [r \in 1 .. config.matrixSize |-> "raw"]
  <1>1. Receives(s, "SEND_CONFIG") /\ Consume(s) /\ UNCHANGED <<client, clients>>
    BY DEF ProcessConfig
  <1>2. /\ n \in Nets /\ ss \in SessionRecords /\ k \in [Slots -> Calcs]
        /\ SessionOK(n, ss, k)
        /\ n.toServer # <<>> /\ n.toServer \in Seq(Commands)
        /\ config.cmd = "SEND_CONFIG" /\ n.toClient = <<>>
        /\ Alive(n, ss) /\ n.serverOpen
        /\ \A c \in Clients : client[c].conn = s =>
              client[c] \in ClientRecords /\ Connected(client[c], n, ss, k)
    BY <1>1, Reading
  <1>3. TypeInv
    BY DEF CalcInv
  <1>4. /\ net' \in [Sessions -> Nets] /\ m \in Nets
        /\ m.toServer = Tail(n.toServer) /\ m.toClient = <<>>
        /\ m.clientOpen = n.clientOpen /\ m.serverOpen = n.serverOpen
        /\ \A t \in Sessions \ {s} : net'[t] = net[t]
    BY <1>1, <1>2, <1>3, Consumed
  <1>5. config.threadsNum \in Nat /\ config.matrixSize \in Nat
    BY <1>2, Front, ConfigFields
  <1>6. matrix \in Seq(Rows) /\ Len(matrix) = config.matrixSize
    BY <1>5 DEF Rows
  <1> HIDE DEF matrix
  <1>8. /\ session' \in [Sessions -> SessionRecords]
        /\ st.phase = "handling" /\ st.matrixSize = config.matrixSize /\ st.matrix = matrix
        /\ st.started = FALSE /\ st.overlapped = (Busy(k) # {})
        /\ \A t \in Sessions \ {s} : session'[t] = session[t]
    <2> DEFINE a == config.threadsNum
               b == config.matrixSize
               d == Busy(k) # {}
               x == [NewSession EXCEPT !.threadsNum = a, !.matrixSize = b, !.matrix = matrix,
                                       !.overlapped = d]
    <2>1. session' = [session EXCEPT ![s] = x]
      BY RunningIsBusy DEF ProcessConfig, Assigned, matrix
    <2>2. a \in Nat /\ b \in Nat /\ d \in BOOLEAN
      BY <1>5
    <2> HIDE DEF a, b, d
    <2>3. /\ x \in SessionRecords /\ x.phase = "handling" /\ x.matrixSize = b
          /\ x.matrix = matrix /\ x.started = FALSE /\ x.overlapped = d
      BY <1>6, <2>2 DEF SessionRecords, Statuses, NewSession
    <2> HIDE DEF x
    <2> QED  BY <1>3, <2>1, <2>3 DEF TypeInv, b, d
  <1>9. /\ calc' \in [Sessions -> [Slots -> Calcs]]
        /\ calc'[s] = MarkUnsound(s) /\ Busy(calc'[s]) = Busy(k)
        /\ Busy(k) = {} => calc'[s] = k
        /\ \A i \in Slots : BlocksOK(calc'[s][i])
        /\ \A t \in Sessions \ {s} : calc'[t] = calc[t]
    <2>1. calc' = [calc EXCEPT ![s] = MarkUnsound(s)]
      BY DEF ProcessConfig
    <2>2. \A i \in Slots : BlocksOK(k[i])
      BY <1>2 DEF SessionOK
    <2> QED  BY <1>2, <1>3, <2>1, <2>2, Unsound DEF TypeInv
  <1>10. ASSUME Busy(k) = {} PROVE Orderly(m, st, calc'[s])
    <2>1. \A r \in 1 .. st.matrixSize : st.matrix[r] # "garbage"
      BY <1>5, <1>8 DEF matrix
    <2> QED  BY <1>4, <1>8, <1>9, <1>10, <2>1 DEF Orderly
  <1>11. ASSUME NEW c \in Clients, client[c].conn = s, client[c].next # "any"
         PROVE  ScriptOK(client[c], m, st, calc'[s])
    <2> DEFINE cl == client[c]
    <2>1. cl \in ClientRecords /\ ScriptOK(cl, n, ss, k)
      BY <1>2, <1>11 DEF Connected
    <2> HIDE DEF cl, n, m, ss, st, k
    <2>2. ScriptOK(cl, m, st, calc'[s])
      BY <1>2, <1>4, <1>8, <1>9, <2>1, ScriptConfigured DEF config
    <2> QED  BY <2>2 DEF cl
  <1> QED  BY <1>1, <1>6, <1>8, <1>9, <1>10, <1>11, ReadStep

\* When the script's session comes to the start, it has read the configuration.
LEMMA ScriptAtStart ==
    ASSUME NEW cl \in ClientRecords, NEW n \in Nets, NEW ss, NEW k, ScriptOK(cl, n, ss, k),
           cl.next # "any", n.toServer # <<>>, n.toClient = <<>>,
           Head(n.toServer).cmd = "START_PROCESSING"
    PROVE  \/ cl.next = "end" /\ cl.awaiting = "none"
           \/ /\ cl.next = "status" /\ cl.awaiting \in {"none", "CHECK_STATUS"}
              /\ Tail(n.toServer) = Nothing(cl.awaiting) /\ Configured(ss, k)
  <1> DEFINE a == cl.awaiting
  <1>1. Unread(cl, n) = a
    BY DEF Unread
  <1>2. Head(n.toServer) # Cfg /\ \A r \in Requests : Head(n.toServer) # Ask(r)
    BY CommandNames DEF Requests
  <1>3. ASSUME a \in {"none", "CHECK_STATUS", "GET_RESULT"} PROVE n.toServer # Nothing(a)
    <2>1. CASE a = "none"
      BY <2>1, ScriptRead
    <2>2. CASE a \in Requests
      BY <1>2, <2>2, ScriptRead DEF Requests
    <2> QED  BY <1>3, <2>1, <2>2 DEF Requests
  <1>4. cl.next # "config" /\ cl.next # "result"
    BY <1>1, <1>3 DEF ScriptOK
  <1>5. cl.next # "start"
    BY <1>2, FirstReply DEF ScriptOK
  <1>6. ASSUME cl.next = "status"
        PROVE  /\ a \in {"none", "CHECK_STATUS"}
               /\ Tail(n.toServer) = Nothing(a) /\ Configured(ss, k)
    <2>1. a \in {"none", "CHECK_STATUS"} /\ n.toServer # Nothing(a)
      BY <1>3, <1>6 DEF ScriptOK
    <2>2. n.toServer # Both(a)
      BY <1>2, ScriptRead
    <2>3. n.toServer = JustStart(a) /\ Configured(ss, k)
      BY <1>1, <1>6, <2>1, <2>2 DEF ScriptOK
    <2> QED  BY <2>1, <2>3, ScriptRead
  <1>7. cl.next = "end" => a = "none"
    BY DEF ScriptOK
  <1>8. cl.next \in {"any", "config", "start", "status", "result", "end"}
    BY DEF ClientRecords
  <1> QED  BY <1>4, <1>5, <1>6, <1>7, <1>8

\* processStart() on an empty matrix keeps the invariant: the script's is not empty.
LEMMA IgnoreStartStep ==
    ASSUME CalcInv, NEW s \in Sessions, IgnoreStart(s)
    PROVE  CalcInv'
  <1> DEFINE n == net[s]
             ss == session[s]
             k == calc[s]
             m == net'[s]
  <1>1. /\ Receives(s, "START_PROCESSING") /\ Consume(s) /\ ss.matrixSize = 0
        /\ UNCHANGED <<client, session, calc, clients>>
    BY DEF IgnoreStart, ServerSide
  <1>2. /\ n \in Nets /\ SessionOK(n, ss, k)
        /\ n.toServer # <<>> /\ Head(n.toServer).cmd = "START_PROCESSING" /\ n.toClient = <<>>
        /\ Alive(n, ss) /\ ss.phase = "handling"
        /\ \A c \in Clients : client[c].conn = s =>
              client[c] \in ClientRecords /\ Connected(client[c], n, ss, k)
    BY <1>1, Reading
  <1>3. TypeInv
    BY DEF CalcInv
  <1>4. m.toServer = Tail(n.toServer) /\ m.toClient = <<>>
    BY <1>1, <1>2, <1>3, Consumed
  <1>5. ~ss.overlapped => Orderly(m, ss, k)
    BY <1>2, <1>4 DEF SessionOK, Orderly
  <1>6. ASSUME NEW c \in Clients, client[c].conn = s, client[c].next # "any"
        PROVE  ScriptOK(client[c], m, ss, k)
    <2> DEFINE cl == client[c]
    <2>1. cl \in ClientRecords /\ ScriptOK(cl, n, ss, k)
      BY <1>2, <1>6 DEF Connected
    <2>2. cl.next = "end" /\ cl.awaiting = "none"
      BY <1>1, <1>2, <1>6, <2>1, ScriptAtStart, ScriptAssumption DEF Configured
    <2> QED  BY <2>2 DEF ScriptOK
  <1> QED  BY <1>1, <1>2, <1>3, <1>5, <1>6, ReadStep DEF SessionOK, TypeInv

\* processStart() keeps the invariant: a start during a calculation is recorded.
LEMMA ProcessStartStep ==
    ASSUME CalcInv, NEW s \in Sessions, ProcessStart(s)
    PROVE  CalcInv'
  <1> DEFINE n == net[s]
             ss == session[s]
             k == calc[s]
             m == net'[s]
             st == session'[s]
             j == calc'[s]
             new == [pc |-> "created", sound |-> TRUE,
                     threads |-> ss.threadsNum, size |-> ss.matrixSize]
             overlapped == ss.overlapped \/ Busy(k) # {}
  <1>1. PICK i \in Slots \ Running(s) :
            /\ Receives(s, "START_PROCESSING") /\ Consume(s) /\ UNCHANGED <<client, clients>>
            /\ session' = [session EXCEPT ![s].status = "PROCESSING", ![s].started = TRUE,
                                          ![s].overlapped = @ \/ Running(s) # {}]
            /\ calc' = [calc EXCEPT ![s] = [MarkUnsound(s) EXCEPT ![i] = new]]
    BY DEF ProcessStart, StatusAtStart
  <1>2. /\ n \in Nets /\ ss \in SessionRecords /\ k \in [Slots -> Calcs]
        /\ SessionOK(n, ss, k)
        /\ n.toServer # <<>> /\ Head(n.toServer).cmd = "START_PROCESSING" /\ n.toClient = <<>>
        /\ Alive(n, ss) /\ ss.phase = "handling"
        /\ \A c \in Clients : client[c].conn = s =>
              client[c] \in ClientRecords /\ Connected(client[c], n, ss, k)
    BY <1>1, Reading
  <1>3. TypeInv
    BY DEF CalcInv
  <1>4. m.toServer = Tail(n.toServer) /\ m.toClient = <<>>
    BY <1>1, <1>2, <1>3, Consumed
  <1>5. /\ session' \in [Sessions -> SessionRecords]
        /\ st.phase = "handling" /\ st.matrixSize = ss.matrixSize /\ st.matrix = ss.matrix
        /\ st.status = "PROCESSING" /\ st.started = TRUE /\ st.overlapped = overlapped
        /\ \A t \in Sessions \ {s} : session'[t] = session[t]
    <2> DEFINE x == [ss EXCEPT !.status = "PROCESSING", !.started = TRUE,
                               !.overlapped = overlapped]
    <2>1. session' = [session EXCEPT ![s] = x]
      <3>1. session' = [session EXCEPT ![s].status = "PROCESSING", ![s].started = TRUE,
                                       ![s].overlapped = overlapped]
        BY <1>1, RunningIsBusy
      <3> HIDE DEF overlapped
      <3> QED  BY <1>3, <3>1 DEF TypeInv
    <2>2. overlapped \in BOOLEAN
      OBVIOUS
    <2> HIDE DEF overlapped, ss
    <2>3. /\ x \in SessionRecords /\ x.phase = "handling" /\ x.matrixSize = ss.matrixSize
          /\ x.matrix = ss.matrix /\ x.started = TRUE /\ x.overlapped = overlapped
          /\ x.status = "PROCESSING"
      BY <1>2, <2>2 DEF SessionRecords, Statuses
    <2> HIDE DEF x
    <2> QED  BY <1>3, <2>1, <2>3 DEF TypeInv
  <1> HIDE DEF overlapped
  <1>6. /\ calc' \in [Sessions -> [Slots -> Calcs]]
        /\ \A t \in Sessions \ {s} : calc'[t] = calc[t]
        /\ j = [MarkUnsound(s) EXCEPT ![i] = new] /\ new \in Calcs
        /\ MarkUnsound(s) \in [Slots -> Calcs]
    <2>1. new \in Calcs
      BY <1>2, Fields DEF Calcs
    <2>2. MarkUnsound(s) \in [Slots -> Calcs]
      BY <1>2, Unsound
    <2> HIDE DEF new
    <2>3. [MarkUnsound(s) EXCEPT ![i] = new] \in [Slots -> Calcs]
      BY <2>1, <2>2
    <2> QED  BY <1>1, <1>3, <2>1, <2>2, <2>3 DEF TypeInv
  <1>7. j[i] = new /\ \A b \in Slots \ {i} : j[b] = MarkUnsound(s)[b]
    BY <1>1, <1>6
  <1>8. ASSUME NEW b \in Slots PROVE BlocksOK(j[b])
    <2>1. BlocksOK(MarkUnsound(s)[b])
      BY <1>2, Unsound DEF SessionOK
    <2>2. BlocksOK(new)
      BY DEF BlocksOK
    <2> QED  BY <1>7, <2>1, <2>2
  <1>9. ASSUME ~st.overlapped PROVE Orderly(m, st, j)
    <2>1. ~ss.overlapped /\ Busy(k) = {} /\ Orderly(n, ss, k)
      BY <1>2, <1>5, <1>9 DEF overlapped, SessionOK
    <2>2. Busy(j) = {i}
      <3>1. Busy(MarkUnsound(s)) = {}
        BY <1>2, <2>1, Unsound
      <3> QED  BY <1>1, <1>7, <3>1 DEF Busy
    <2>3. j[i].sound /\ j[i].size = st.matrixSize /\ DoneSoFar(st, j[i])
      BY <1>5, <1>7 DEF DoneSoFar
    <2>4. \A r \in 1 .. st.matrixSize : st.matrix[r] # "garbage"
      BY <1>5, <2>1 DEF Orderly
    <2> QED  BY <1>4, <1>5, <2>2, <2>3, <2>4 DEF Orderly
  <1>10. ASSUME NEW c \in Clients, client[c].conn = s, client[c].next # "any"
         PROVE  ScriptOK(client[c], m, st, j)
    <2> DEFINE cl == client[c]
    <2>1. cl \in ClientRecords /\ ScriptOK(cl, n, ss, k)
      BY <1>2, <1>10 DEF Connected
    <2>2. CASE cl.next = "end" /\ cl.awaiting = "none"
      BY <2>2 DEF ScriptOK
    <2>3. CASE /\ cl.next = "status" /\ cl.awaiting \in {"none", "CHECK_STATUS"}
               /\ Tail(n.toServer) = Nothing(cl.awaiting) /\ Configured(ss, k)
      <3>1. m.toServer = Nothing(Unread(cl, m)) /\ Started(st)
        BY <1>4, <1>5, <2>3 DEF Unread, Configured, Started, overlapped
      <3> QED  BY <1>4, <2>3, <3>1 DEF ScriptOK
    <2> QED  BY <1>2, <1>10, <2>1, <2>2, <2>3, ScriptAtStart
  <1>11. Receives(s, "START_PROCESSING") /\ Consume(s) /\ UNCHANGED <<client, clients>>
    BY <1>1
  <1>12. Len(st.matrix) = st.matrixSize
    BY <1>2, <1>5 DEF SessionOK
  <1> HIDE DEF new
  <1> QED  BY <1>5, <1>6, <1>8, <1>9, <1>10, <1>11, <1>12, ReadStep

\* An exception in handle() keeps the invariant: nothing more will be read.
LEMMA HandleThrowsStep ==
    ASSUME CalcInv, NEW s \in Sessions, HandleThrows(s)
    PROVE  CalcInv'
  <1> DEFINE n == net[s]
             ss == session[s]
             k == calc[s]
             m == net'[s]
             st == session'[s]
             j == calc'[s]
  <1>1. PICK cmd \in {"SEND_CONFIG", "START_PROCESSING", "GET_RESULT"}, replaced \in BOOLEAN :
            /\ Receives(s, cmd) /\ Consume(s) /\ UNCHANGED <<client, clients>>
            /\ session' = [session EXCEPT
                  ![s].phase = "removing",
                  ![s].status = IF cmd = "START_PROCESSING" THEN "PROCESSING" ELSE @,
                  ![s].overlapped = @ \/ (replaced /\ Running(s) # {})]
            /\ calc' = IF replaced THEN [calc EXCEPT ![s] = MarkUnsound(s)] ELSE calc
    BY DEF HandleThrows
  <1> DEFINE status == IF cmd = "START_PROCESSING" THEN "PROCESSING" ELSE ss.status
             overlapped == ss.overlapped \/ (replaced /\ Busy(k) # {})
  <1>2. /\ n \in Nets /\ ss \in SessionRecords /\ k \in [Slots -> Calcs]
        /\ SessionOK(n, ss, k)
        /\ n.toServer # <<>> /\ n.toClient = <<>>
    BY <1>1, Reading
  <1>3. TypeInv
    BY DEF CalcInv
  <1>4. m.toServer = Tail(n.toServer) /\ m.toClient = <<>>
    BY <1>1, <1>2, <1>3, Consumed
  <1>5. status \in Statuses /\ overlapped \in BOOLEAN
    BY <1>2, Fields DEF Statuses
  <1>6. /\ session' \in [Sessions -> SessionRecords]
        /\ st.phase = "removing" /\ st.matrixSize = ss.matrixSize /\ st.matrix = ss.matrix
        /\ st.status = status /\ st.started = ss.started /\ st.overlapped = overlapped
        /\ \A t \in Sessions \ {s} : session'[t] = session[t]
    <2> DEFINE x == [ss EXCEPT !.phase = "removing", !.status = status, !.overlapped = overlapped]
    <2>1. session' = [session EXCEPT ![s] = x]
      <3>1. session' = [session EXCEPT ![s].phase = "removing", ![s].status = status,
                                       ![s].overlapped = overlapped]
        BY <1>1, <1>3, RunningIsBusy DEF TypeInv
      <3> HIDE DEF overlapped, status
      <3> QED  BY <1>3, <3>1 DEF TypeInv
    <2> HIDE DEF overlapped, status, ss
    <2>3. /\ x \in SessionRecords /\ x.phase = "removing" /\ x.matrixSize = ss.matrixSize
          /\ x.matrix = ss.matrix /\ x.started = ss.started /\ x.overlapped = overlapped
          /\ x.status = status
      BY <1>2, <1>5 DEF SessionRecords
    <2> HIDE DEF x
    <2> QED  BY <1>3, <2>1, <2>3 DEF TypeInv
  <1> HIDE DEF overlapped
  <1>7. /\ calc' \in [Sessions -> [Slots -> Calcs]]
        /\ \A t \in Sessions \ {s} : calc'[t] = calc[t]
        /\ j = k \/ (j = MarkUnsound(s) /\ replaced)
        /\ \A i \in Slots : BlocksOK(j[i])
    <2>1. MarkUnsound(s) \in [Slots -> Calcs] /\ \A i \in Slots : BlocksOK(MarkUnsound(s)[i])
      BY <1>2, Unsound DEF SessionOK
    <2>2. CASE replaced
      BY <1>1, <1>3, <2>1, <2>2 DEF TypeInv
    <2>3. CASE ~replaced
      BY <1>1, <1>2, <1>3, <2>3 DEF TypeInv, SessionOK
    <2> QED  BY <2>2, <2>3
  <1>8. ASSUME ~st.overlapped PROVE Orderly(m, st, j)
    <2>1. ~ss.overlapped /\ Orderly(n, ss, k) /\ (replaced => Busy(k) = {})
      BY <1>2, <1>6, <1>8 DEF overlapped, SessionOK
    <2>2. j = k
      BY <1>2, <1>7, <2>1, Unsound
    <2>3. ss.started => st.status = ss.status \/ st.status = "PROCESSING"
      BY <1>6
    <2>4. \A i \in Busy(j) : j[i].sound /\ j[i].size = st.matrixSize /\ DoneSoFar(st, j[i])
      BY <1>6, <2>1, <2>2 DEF Orderly, DoneSoFar
    <2>5. /\ \A a, b \in Busy(j) : a = b
          /\ Busy(j) # {} => st.started /\ st.status = "PROCESSING"
      BY <1>6, <2>1, <2>2, <2>3 DEF Orderly
    <2>6. /\ \A r \in 1 .. st.matrixSize : st.matrix[r] # "garbage"
          /\ st.started /\ st.status = "DONE" => Calculated(st.matrix)
      BY <1>6, <2>1, <2>3 DEF Orderly
    <2> QED  BY <1>4, <2>4, <2>5, <2>6 DEF Orderly
  <1>9. Receives(s, cmd) /\ Consume(s) /\ UNCHANGED <<client, clients>>
    BY <1>1
  <1>10. Len(st.matrix) = st.matrixSize /\ ~Alive(m, st)
    BY <1>2, <1>6 DEF SessionOK, Alive
  <1> QED  BY <1>6, <1>7, <1>8, <1>9, <1>10, ReadStep

\* A session that reads nothing more leaves its client what is on its way.
LEMMA NotAlive ==
    ASSUME NEW cl, NEW n, NEW m, NEW ss, NEW st, NEW k, NEW j, Connected(cl, n, ss, k),
           m.clientOpen = n.clientOpen, m.toClient = n.toClient,
           m.toServer = n.toServer \/ m.toServer = <<>>, ~Alive(m, st)
    PROVE  Connected(cl, m, st, j)
  <1>1. Awaits(cl, m)
    BY DEF Connected, Awaits
  <1>2. ReplyFits(cl, m)
    BY DEF Connected, ReplyFits
  <1> QED  BY <1>1, <1>2 DEF Connected

\* A session that has left handle() reads nothing more.
LEMMA LeaveHandleStep ==
    ASSUME CalcInv, NEW s \in Sessions, LeaveHandle(s)
    PROVE  CalcInv'
  <1> DEFINE n == net[s]
             ss == session[s]
             k == calc[s]
             m == net'[s]
             st == session'[s]
  <1>1. /\ ss.phase = "handling" /\ UNCHANGED <<client, calc, clients>>
        /\ session' = [session EXCEPT ![s].phase = "removing"]
    BY DEF LeaveHandle
  <1>2. TypeInv /\ n \in Nets /\ ss \in SessionRecords
        /\ SessionOK(n, ss, k)
    BY DEF CalcInv, TypeInv, SessionsOK
  <1>3. /\ session' \in [Sessions -> SessionRecords]
        /\ st.phase = "removing" /\ st.matrixSize = ss.matrixSize /\ st.matrix = ss.matrix
        /\ st.status = ss.status /\ st.started = ss.started /\ st.overlapped = ss.overlapped
        /\ \A t \in Sessions \ {s} : session'[t] = session[t]
    <2> DEFINE x == [ss EXCEPT !.phase = "removing"]
    <2>1. session' = [session EXCEPT ![s] = x]
      BY <1>1
    <2>2. /\ x \in SessionRecords /\ x.phase = "removing" /\ x.matrixSize = ss.matrixSize
          /\ x.matrix = ss.matrix /\ x.started = ss.started /\ x.overlapped = ss.overlapped
          /\ x.status = ss.status
      BY <1>2 DEF SessionRecords
    <2> HIDE DEF x
    <2> QED  BY <1>2, <2>1, <2>2 DEF TypeInv
  <1>4. ~Alive(m, st) /\ Len(st.matrix) = st.matrixSize /\ \A i \in Slots : BlocksOK(k[i])
    BY <1>2, <1>3 DEF Alive, SessionOK
  <1>5. ASSUME m.toClient = n.toClient, ~st.overlapped PROVE Orderly(m, st, k)
    <2>1. Orderly(n, ss, k)
      BY <1>2, <1>3, <1>5 DEF SessionOK
    <2>2. \A i \in Busy(k) : DoneSoFar(st, k[i])
      BY <1>3, <2>1 DEF Orderly, DoneSoFar
    <2> QED  BY <1>3, <1>5, <2>1, <2>2 DEF Orderly
  <1>6. CASE Receives(s, "END_SESSION") /\ Consume(s)
    <2>1. m.toClient = n.toClient
      <3>1. n.toServer # <<>>
        BY <1>6, Reading
      <3> QED  BY <1>2, <1>6, <3>1, Consumed
    <2>2. calc' \in [Sessions -> [Slots -> Calcs]] /\ calc' = calc
      BY <1>1, <1>2 DEF TypeInv
    <2> QED  BY <1>1, <1>3, <1>4, <1>5, <1>6, <2>1, <2>2, ReadStep
  <1>7. CASE ClientLost(s) /\ UNCHANGED net
    <2>1. TypeInv'
      BY <1>1, <1>2, <1>3, <1>7 DEF TypeInv
    <2>2. SessionOK(m, st, k)
      BY <1>2, <1>4, <1>5, <1>7 DEF SessionOK
    <2>3. ASSUME NEW c \in Clients, client[c].conn = s PROVE Connected(client[c], m, st, k)
      <3>1. Connected(client[c], n, ss, k)
        BY <2>3, NoSessionAssumption DEF CalcInv, ClientsOK
      <3> QED  BY <1>4, <1>7, <3>1, NotAlive
    <2> QED  BY <1>1, <1>3, <1>7, <2>1, <2>2, <2>3, OneSession
  <1> QED  BY <1>6, <1>7 DEF LeaveHandle

\* A request is the last command, and the client waits for its reply.
LEMMA LastRequest ==
    ASSUME NEW n \in Nets, OneRequest(n), n.toServer # <<>>, Head(n.toServer).cmd \in Requests
    PROVE  /\ Len(n.toServer) = 1 /\ n.toServer[1] = Head(n.toServer)
           /\ Tail(n.toServer) = <<>> /\ NoConfig(n.toServer, 1)
  <1> DEFINE q == n.toServer
  <1>1. /\ q \in Seq(Commands) /\ Len(q) \in Nat /\ Len(q) >= 1 /\ Head(q) = q[1]
        /\ Tail(q) \in Seq(Commands) /\ Len(Tail(q)) = Len(q) - 1
    BY Fields, Front
  <1>5. \A i \in 1 .. Len(q) : q[i].cmd \in Requests => i = Len(q)
    BY DEF OneRequest
  <1>6. q[1].cmd \in Requests
    BY <1>1
  <1> HIDE DEF q
  <1>2. Len(q) = 1
    <2>1. Len(q) \in Nat /\ Len(q) >= 1
      BY <1>1
    <2>2. 1 \in 1 .. Len(q)
      BY <2>1
    <2> QED  BY <1>5, <1>6, <2>2, Zenon
  <1>3. Tail(q) = <<>>
    <2>1. \A p \in Seq(Commands) : Len(p) = 0 => p = <<>>
      OBVIOUS
    <2>2. Tail(q) \in Seq(Commands) /\ Len(Tail(q)) = Len(q) - 1
      BY <1>1
    <2>3. Len(Tail(q)) = 0
      BY <1>2, <2>2
    <2> QED  BY <2>1, <2>2, <2>3, Zenon
  <1>4. \A j \in 1 .. Len(q) : q[j].cmd # "SEND_CONFIG"
    BY <1>2, <1>6 DEF Requests
  <1> QED  BY <1>1, <1>2, <1>3, <1>4 DEF NoConfig, q

\* The session of the script answers when it has read all the rest.
LEMMA ScriptAnswered ==
    ASSUME NEW cl \in ClientRecords, NEW n \in Nets, NEW ss, NEW k, ScriptOK(cl, n, ss, k),
           cl.next # "any", n.toServer # <<>>, n.toClient = <<>>,
           Head(n.toServer).cmd \in Requests, Head(n.toServer).cmd = cl.awaiting
    PROVE  \/ cl.next = "status" /\ cl.awaiting = "CHECK_STATUS" /\ Started(ss)
           \/ /\ cl.next = "result" /\ cl.awaiting = "GET_RESULT"
              /\ Started(ss) /\ ss.status = "DONE"
  <1>1. cl.awaiting # "none"
    BY DEF Requests
  <1>2. Head(n.toServer) # Cfg /\ Head(n.toServer) # Str
    BY CommandNames DEF Requests
  <1>3. ASSUME cl.next = "status" PROVE cl.awaiting = "CHECK_STATUS" /\ Started(ss)
    <2>1. n.toServer # Both(Unread(cl, n)) /\ n.toServer # JustStart(Unread(cl, n))
      BY <1>2, ScriptRead
    <2> QED  BY <1>1, <1>3, <2>1 DEF ScriptOK
  <1>4. ASSUME cl.next = "result"
        PROVE  cl.awaiting = "GET_RESULT" /\ Started(ss) /\ ss.status = "DONE"
    BY <1>1, <1>4 DEF ScriptOK
  <1>5. cl.next \notin {"config", "start", "end"}
    BY <1>1 DEF ScriptOK
  <1>6. cl.next \in {"any", "config", "start", "status", "result", "end"}
    BY DEF ClientRecords
  <1> QED  BY <1>3, <1>4, <1>5, <1>6

\* A reply that fits its request keeps the invariant.
LEMMA ReplyStep ==
    ASSUME CalcInv, NEW s \in Sessions, NEW cmd \in Requests, Receives(s, cmd),
           NEW r \in Replies, r.cmd = cmd, ConsumeAndReply(s, <<r>>),
           UNCHANGED <<client, session, calc, clients>>,
           cmd = "GET_RESULT" =>
               r.rows = IF session[s].status = "DONE" THEN session[s].matrix ELSE <<>>,
           cmd = "CHECK_STATUS" => r.status = session[s].status
    PROVE  CalcInv'
  <1> DEFINE n == net[s]
             ss == session[s]
             k == calc[s]
             m == net'[s]
  <1>1. /\ n \in Nets /\ ss \in SessionRecords /\ SessionOK(n, ss, k)
        /\ n.toServer # <<>> /\ Head(n.toServer).cmd = cmd /\ n.toClient = <<>>
        /\ Alive(n, ss) /\ n.serverOpen
        /\ \A c \in Clients : client[c].conn = s =>
              client[c] \in ClientRecords /\ Connected(client[c], n, ss, k)
    BY Reading
  <1>2. TypeInv
    BY DEF CalcInv
  <1>3. /\ net' \in [Sessions -> Nets] /\ m \in Nets
        /\ m.toServer = Tail(n.toServer) /\ m.toClient = IF n.clientOpen THEN <<r>> ELSE <<>>
        /\ m.clientOpen = n.clientOpen /\ m.serverOpen = n.serverOpen
        /\ \A t \in Sessions \ {s} : net'[t] = net[t]
    BY <1>1, <1>2, Replied
  <1>4. /\ Len(n.toServer) = 1 /\ n.toServer[1].cmd = cmd /\ m.toServer = <<>>
        /\ NoConfig(n.toServer, 1)
    BY <1>1, <1>3, LastRequest DEF SessionOK
  <1>5. /\ Len(<<r>>) = 1 /\ <<r>>[1] = r /\ <<r>> # <<>> /\ Len(<<>>) = 0
    OBVIOUS
  <1>6. ASSUME ~ss.overlapped, ss.started, cmd = "GET_RESULT" PROVE Calculated(r.rows)
    BY <1>1, <1>5, <1>6 DEF SessionOK, Orderly, Calculated
  <1>7. SessionOK(m, ss, k)
    <2>2. OneRequest(m)
      <3>1. m.toClient # <<>> => Len(m.toClient) = 1
        BY <1>3, <1>5
      <3>2. \A i \in 1 .. Len(m.toServer) : FALSE
        BY <1>4, <1>5
      <3> QED  BY <1>4, <3>1, <3>2 DEF OneRequest
    <2>3. ASSUME ~ss.overlapped PROVE Orderly(m, ss, k)
      <3>1. /\ m.toClient # <<>> => m.toClient[1] = r
        BY <1>3, <1>5
      <3> QED  BY <1>1, <1>6, <2>3, <3>1 DEF SessionOK, Orderly
    <2> QED  BY <1>1, <2>2, <2>3 DEF SessionOK
  <1>8. ASSUME NEW c \in Clients, client[c].conn = s
        PROVE  Connected(client[c], m, ss, k)
    <2> DEFINE cl == client[c]
    <2>1. cl \in ClientRecords /\ Connected(cl, n, ss, k)
      BY <1>1, <1>8
    <2>2. m.clientOpen /\ m.toClient = <<r>> /\ cl.awaiting = cmd
      <3>1. n.clientOpen /\ 1 \in 1 .. Len(n.toServer)
        BY <1>4, <2>1 DEF Connected
      <3> QED  BY <1>3, <1>4, <2>1, <3>1 DEF Connected, Awaits
    <2>3. SizeFits(cl, n.toServer, ss.matrixSize) /\ (cl.next # "any" => ScriptOK(cl, n, ss, k))
      BY <1>1, <2>1 DEF Connected
    <2>4. ASSUME cl.next # "any"
          PROVE  \/ cl.next = "status" /\ cmd = "CHECK_STATUS" /\ Started(ss)
                 \/ cl.next = "result" /\ cmd = "GET_RESULT" /\ Started(ss) /\ ss.status = "DONE"
      BY <1>1, <2>1, <2>2, <2>3, <2>4, ScriptAnswered
    <2> HIDE DEF cl
    <2>5. ReplyFits(cl, m)
      <3> SUFFICES ASSUME cmd = "GET_RESULT"
                   PROVE  /\ Len(r.rows) \in {0, cl.matrixSize}
                          /\ cl.next # "any" => r.rows = Whole
        BY <1>5, <2>2 DEF ReplyFits
      <3>1. Len(r.rows) \in {0, cl.matrixSize}
        BY <1>1, <1>4, <1>5, <2>3 DEF SizeFits, SessionOK
      <3>2. ASSUME cl.next # "any" PROVE r.rows = Whole
        <4>1. Started(ss) /\ ss.status = "DONE" /\ r.rows = ss.matrix
          BY <2>4, <3>2
        <4>2. Calculated(ss.matrix) /\ Len(ss.matrix) = MATRIX_SIZE
          BY <1>1, <4>1 DEF Started, SessionOK, Orderly
        <4>3. ss.matrix = [x \in 1 .. Len(ss.matrix) |-> ss.matrix[x]]
          BY <1>1, Fields, LenProperties
        <4> QED  BY <4>1, <4>2, <4>3 DEF Calculated, Whole
      <3> QED  BY <3>1, <3>2
    <2>6. Awaits(cl, m)
      BY <1>4, <1>5, <2>2 DEF Awaits
    <2>7. SizeFits(cl, m.toServer, ss.matrixSize)
      BY <1>4, <1>5, <2>3 DEF SizeFits, NoConfig
    <2>8. cl.next # "any" => ScriptOK(cl, m, ss, k)
      <3>1. Unread(cl, m) = "none" /\ m.toServer = Nothing("none")
        BY <1>4, <1>5, <2>2, ScriptRead DEF Unread
      <3> QED  BY <1>5, <2>2, <2>4, <3>1 DEF ScriptOK
    <2>9. Connected(cl, m, ss, k)
      BY <2>2, <2>5, <2>6, <2>7, <2>8 DEF Connected
    <2> QED  BY <2>9 DEF cl
  <1>9. TypeInv'
    BY <1>2, <1>3 DEF TypeInv
  <1> QED  BY <1>3, <1>7, <1>8, <1>9, OneSession

\* processStatus() keeps the invariant.
LEMMA ProcessStatusStep ==
    ASSUME CalcInv, NEW s \in Sessions, ProcessStatus(s)
    PROVE  CalcInv'
  <1> DEFINE r == [cmd |-> "CHECK_STATUS", status |-> session[s].status]
  <1>1. /\ Receives(s, "CHECK_STATUS") /\ ConsumeAndReply(s, <<r>>)
        /\ UNCHANGED <<client, session, calc, clients>>
    BY DEF ProcessStatus, ServerSide
  <1>2. r \in Replies
    BY <1>1, Reading, Fields DEF Replies
  <1> QED  BY <1>1, <1>2, ReplyStep DEF Requests

\* processResult() keeps the invariant.
LEMMA ProcessResultStep ==
    ASSUME CalcInv, NEW s \in Sessions, ProcessResult(s)
    PROVE  CalcInv'
  <1> DEFINE r == ResultOf(IF session[s].status = "DONE" THEN session[s].matrix ELSE <<>>)
  <1>1. /\ Receives(s, "GET_RESULT") /\ ConsumeAndReply(s, <<r>>)
        /\ UNCHANGED <<client, session, calc, clients>>
    BY DEF ProcessResult, ResultReplies, ServerSide
  <1>2. r \in Replies
    BY <1>1, Reading, Fields DEF Replies, ResultOf
  <1>3. r.cmd = "GET_RESULT"
        /\ r.rows = IF session[s].status = "DONE" THEN session[s].matrix ELSE <<>>
    BY DEF ResultOf
  <1> QED  BY <1>1, <1>2, <1>3, ReplyStep DEF Requests

-------------------------------------------------------------------------------
(* A session ends, and calculations go on.                                  *)

\* A session that is over.
LEMMA OverFields ==
    /\ OverSession \in SessionRecords
    /\ OverSession.phase = "gone" /\ OverSession.matrixSize = 0 /\ OverSession.matrix = <<>>
    /\ OverSession.started = FALSE
  <1>1. <<>> \in Seq(Rows)
    BY EmptySeq
  <1>2. NewSession \in SessionRecords
    BY <1>1 DEF NewSession, SessionRecords, Statuses
  <1>3. NewSession.matrixSize = 0 /\ NewSession.matrix = <<>> /\ NewSession.started = FALSE
    BY DEF NewSession
  <1> QED  BY <1>2, <1>3 DEF OverSession, SessionRecords

\* It has nothing to do.
LEMMA OverIsOK ==
    ASSUME NEW m, NEW j, m.toServer = <<>>, m.toClient # <<>> => Len(m.toClient) = 1,
           Busy(j) = {}, \A i \in Slots : BlocksOK(j[i])
    PROVE  /\ OverSession \in SessionRecords /\ ~Alive(m, OverSession)
           /\ SessionOK(m, OverSession, j)
  <1>1. /\ OverSession \in SessionRecords
        /\ OverSession.phase = "gone" /\ OverSession.matrixSize = 0 /\ OverSession.matrix = <<>>
        /\ OverSession.started = FALSE
    BY OverFields
  <1>2. OneRequest(m)
    BY DEF OneRequest
  <1>3. Orderly(m, OverSession, j)
    BY <1>1 DEF Orderly
  <1> QED  BY <1>1, <1>2, <1>3 DEF SessionOK, Alive

\* ~ClientSession(), when nothing holds the session any more.
LEMMA Destroyed ==
    ASSUME CalcInv, NEW s \in Sessions, Destroy(s), UNCHANGED client,
           calc' \in [Sessions -> [Slots -> Calcs]], Busy(calc'[s]) = {},
           \A i \in Slots : BlocksOK(calc'[s][i]),
           clients' \subseteq Sessions, \A t \in Sessions \ {s} : calc'[t] = calc[t]
    PROVE  CalcInv'
  <1> DEFINE n == net[s]
             m == net'[s]
  <1>1. /\ TypeInv /\ n \in Nets
        /\ SessionOK(n, session[s], calc[s])
    BY DEF CalcInv, TypeInv, SessionsOK
  <1>2. /\ net' \in [Sessions -> Nets] /\ \A t \in Sessions \ {s} : net'[t] = net[t]
        /\ m.toServer = <<>> /\ m.toClient = n.toClient /\ m.clientOpen = n.clientOpen
    <2> DEFINE x == [n EXCEPT !.serverOpen = FALSE, !.toServer = <<>>]
    <2>1. net' = [net EXCEPT ![s] = x]
      BY <1>1 DEF Destroy, TypeInv
    <2>2. /\ x \in Nets /\ x.toServer = <<>> /\ x.toClient = n.toClient
          /\ x.clientOpen = n.clientOpen
      <3>1. PICK e \in Seq(Commands) : e = <<>>
        BY EmptySeq
      <3>2. x = [n EXCEPT !.serverOpen = FALSE, !.toServer = e]
        BY <3>1
      <3> QED  BY <1>1, <3>1, <3>2 DEF Nets
    <2> HIDE DEF x
    <2> QED  BY <1>1, <2>1, <2>2 DEF TypeInv
  <1>3. m.toClient # <<>> => Len(m.toClient) = 1
    BY <1>1, <1>2 DEF SessionOK, OneRequest
  <1>4. /\ OverSession \in SessionRecords /\ ~Alive(m, OverSession)
        /\ SessionOK(m, OverSession, calc'[s])
    BY <1>2, <1>3, OverIsOK
  <1>5. /\ session' \in [Sessions -> SessionRecords] /\ session'[s] = OverSession
        /\ \A t \in Sessions \ {s} : session'[t] = session[t]
    BY <1>1, <1>4 DEF Destroy, TypeInv
  <1>6. SessionOK(m, session'[s], calc'[s])
    BY <1>4, <1>5
  <1>7. ASSUME NEW c \in Clients, client[c].conn = s
        PROVE  Connected(client[c], m, session'[s], calc'[s])
    <2>1. Connected(client[c], n, session[s], calc[s])
      BY <1>7, NoSessionAssumption DEF CalcInv, ClientsOK
    <2> QED  BY <1>2, <1>4, <1>5, <2>1, NotAlive
  <1>8. TypeInv'
    BY <1>1, <1>2, <1>5 DEF TypeInv
  <1> QED  BY <1>2, <1>5, <1>6, <1>7, <1>8, OneSession

\* removeClient() keeps the invariant: a session goes on as long as it is held.
LEMMA RemoveClientStep ==
    ASSUME CalcInv, NEW s \in Sessions, RemoveClient(s)
    PROVE  CalcInv'
  <1> DEFINE n == net[s]
             ss == session[s]
             k == calc[s]
             st == session'[s]
  <1>1. /\ ss.phase = "removing" /\ clients' = clients \ {s} /\ UNCHANGED <<client, calc>>
        /\ IF Busy(k) # {}
           THEN session' = [session EXCEPT ![s].phase = "gone"] /\ UNCHANGED net
           ELSE Destroy(s)
    BY RunningIsBusy DEF RemoveClient, Held
  <1>2. /\ TypeInv /\ ss \in SessionRecords /\ SessionOK(n, ss, k)
        /\ \A i \in Slots : BlocksOK(k[i])
    BY DEF CalcInv, TypeInv, SessionsOK, SessionOK
  <1>3. clients' \subseteq Sessions
    BY <1>1, <1>2 DEF TypeInv
  <1>4. CASE Busy(k) = {}
    BY <1>1, <1>2, <1>3, <1>4, Destroyed DEF TypeInv
  <1>5. CASE Busy(k) # {}
    <2>1. /\ session' \in [Sessions -> SessionRecords]
          /\ st.phase = "gone" /\ st.matrixSize = ss.matrixSize /\ st.matrix = ss.matrix
          /\ st.status = ss.status /\ st.started = ss.started /\ st.overlapped = ss.overlapped
          /\ \A t \in Sessions \ {s} : session'[t] = session[t]
      <3> DEFINE x == [ss EXCEPT !.phase = "gone"]
      <3>1. session' = [session EXCEPT ![s] = x]
        BY <1>1, <1>5
      <3>2. /\ x \in SessionRecords /\ x.phase = "gone" /\ x.matrixSize = ss.matrixSize
            /\ x.matrix = ss.matrix /\ x.started = ss.started /\ x.overlapped = ss.overlapped
            /\ x.status = ss.status
        BY <1>2 DEF SessionRecords
      <3> HIDE DEF x
      <3> QED  BY <1>2, <3>1, <3>2 DEF TypeInv
    <2>2. net' = net
      BY <1>1, <1>5
    <2>4. ASSUME ~st.overlapped PROVE Orderly(n, st, k)
      <3>1. Orderly(n, ss, k)
        BY <1>2, <2>1, <2>4 DEF SessionOK
      <3>2. \A i \in Busy(k) : DoneSoFar(st, k[i])
        BY <2>1, <3>1 DEF Orderly, DoneSoFar
      <3> QED  BY <2>1, <3>1, <3>2 DEF Orderly
    <2>5. SessionOK(n, st, k)
      BY <1>2, <2>1, <2>4 DEF SessionOK
    <2>6. ASSUME NEW c \in Clients, client[c].conn = s
          PROVE  Connected(client[c], n, st, k)
      <3>1. Connected(client[c], n, ss, k)
        BY <2>6, NoSessionAssumption DEF CalcInv, ClientsOK
      <3> QED  BY <2>1, <3>1, NotAlive DEF Alive
    <2>7. TypeInv'
      BY <1>1, <1>2, <1>3, <2>1, <2>2 DEF TypeInv
    <2> QED  BY <1>1, <1>3, <2>1, <2>2, <2>5, <2>6, <2>7, OneSession
  <1> QED  BY <1>4, <1>5

\* The script does not get ahead of a calculation that runs.
LEMMA ScriptCalculates ==
    ASSUME NEW cl, NEW n, NEW ss, NEW st, NEW k, NEW j, ScriptOK(cl, n, ss, k), Busy(k) # {},
           ~ss.overlapped => ss.status = "PROCESSING",
           st.matrixSize = ss.matrixSize, st.overlapped = ss.overlapped,
           st.started = ss.started
    PROVE  ScriptOK(cl, n, st, j)
  <1>1. cl.next # "config" /\ cl.next # "start"
    BY DEF ScriptOK, Configured
  <1>2. cl.next # "result"
    BY DEF ScriptOK, Started
  <1>3. ASSUME cl.next = "status"
        PROVE  /\ cl.awaiting \in {"none", "CHECK_STATUS"}
               /\ n.toServer = Nothing(Unread(cl, n)) /\ Started(ss)
    BY <1>3 DEF ScriptOK, Configured
  <1>4. Started(ss) => Started(st) /\ ss.status = "PROCESSING"
    BY DEF Started
  <1>5. cl.next = "status" /\ n.toClient # <<>> => n.toClient[1].status # "DONE"
    BY <1>3, <1>4 DEF ScriptOK
  <1>6. cl.next = "end" => cl.awaiting = "none"
    BY DEF ScriptOK
  <1> QED  BY <1>1, <1>2, <1>3, <1>4, <1>5, <1>6 DEF ScriptOK

\* A step of a calculation that leaves its session to go on.
LEMMA CalculationStep ==
    ASSUME CalcInv, NEW s \in Sessions, Busy(calc[s]) # {}, UNCHANGED <<client, net, clients>>,
           session' \in [Sessions -> SessionRecords], calc' \in [Sessions -> [Slots -> Calcs]],
           \A t \in Sessions \ {s} : session'[t] = session[t] /\ calc'[t] = calc[t],
           session'[s].phase = session[s].phase,
           session'[s].matrixSize = session[s].matrixSize,
           session'[s].overlapped = session[s].overlapped,
           session'[s].started = session[s].started,
           Len(session'[s].matrix) = session[s].matrixSize,
           \A i \in Slots : BlocksOK(calc'[s][i]),
           ~session[s].overlapped => Orderly(net[s], session'[s], calc'[s])
    PROVE  CalcInv'
  <1> DEFINE n == net[s]
             ss == session[s]
             k == calc[s]
             st == session'[s]
             j == calc'[s]
  <1>1. TypeInv /\ SessionOK(n, ss, k)
    BY DEF CalcInv, SessionsOK
  <1>4. SessionOK(n, st, j)
    BY <1>1 DEF SessionOK
  <1>5. ASSUME NEW c \in Clients, client[c].conn = s
        PROVE  Connected(client[c], n, st, j)
    <2> DEFINE cl == client[c]
    <2>1. Connected(cl, n, ss, k)
      BY <1>5, NoSessionAssumption DEF CalcInv, ClientsOK
    <2>2. ~ss.overlapped => ss.status = "PROCESSING"
      BY <1>1 DEF SessionOK, Orderly
    <2>3. Alive(n, st) <=> Alive(n, ss)
      BY DEF Alive
    <2>4. Alive(n, st) /\ cl.next # "any" => ScriptOK(cl, n, st, j)
      <3> HIDE DEF cl, n, ss, st, k, j
      <3> QED  BY <2>1, <2>2, <2>3, ScriptCalculates DEF Connected, k, ss, st
    <2> QED  BY <2>1, <2>3, <2>4 DEF Connected
  <1>6. TypeInv'
    BY <1>1 DEF TypeInv
  <1>7. net'[s] = n /\ clients' = clients /\ client' = client /\ net' = net
    OBVIOUS
  <1> QED  BY <1>4, <1>5, <1>6, <1>7, OneSession

\* The end of a calculation, when all is calculated or with an error.
LEMMA FinishStep ==
    ASSUME CalcInv, NEW s \in Sessions, NEW i \in Busy(calc[s]),
           NEW status \in {"DONE", "ERROR"}, Finish(s, i, status),
           status = "DONE" /\ ~session[s].overlapped => Calculated(session[s].matrix)
    PROVE  CalcInv'
  <1> DEFINE n == net[s]
             ss == session[s]
             k == calc[s]
             st == session'[s]
             j == calc'[s]
  <1>1. /\ TypeInv /\ ss \in SessionRecords /\ SessionOK(n, ss, k)
        /\ \A b \in Slots : BlocksOK(k[b])
    BY DEF CalcInv, TypeInv, SessionsOK, SessionOK
  <1>2. /\ calc' = [calc EXCEPT ![s][i] = NoCalc] /\ UNCHANGED <<client, clients>>
        /\ i \in Slots
        /\ IF LastHold(s, i)
           THEN Destroy(s)
           ELSE session' = [session EXCEPT ![s].status = status] /\ UNCHANGED net
    BY DEF Finish, EndStatus, Busy
  <1>3. /\ calc' \in [Sessions -> [Slots -> Calcs]]
        /\ \A t \in Sessions \ {s} : calc'[t] = calc[t]
        /\ j[i] = NoCalc /\ \A b \in Slots \ {i} : j[b] = k[b]
    <2>1. NoCalc \in Calcs
      BY DEF Calcs
    <2> QED  BY <1>1, <1>2, <2>1 DEF TypeInv
  <1>4. Busy(j) = Busy(k) \ {i} /\ \A b \in Slots : BlocksOK(j[b])
    <2>1. NoCalc.pc = "none" /\ BlocksOK(NoCalc)
      BY DEF NoCalc, BlocksOK
    <2> QED  BY <1>1, <1>3, <2>1 DEF Busy
  <1>5. CASE LastHold(s, i)
    <2>1. Busy(j) = {}
      BY <1>4, <1>5, RunningIsBusy DEF LastHold
    <2>2. clients' \subseteq Sessions
      BY <1>1, <1>2 DEF TypeInv
    <2> QED  BY <1>2, <1>3, <1>4, <1>5, <2>1, <2>2, Destroyed
  <1>6. CASE ~LastHold(s, i)
    <2>1. /\ session' \in [Sessions -> SessionRecords]
          /\ st.phase = ss.phase /\ st.matrixSize = ss.matrixSize /\ st.matrix = ss.matrix
          /\ st.status = status /\ st.started = ss.started /\ st.overlapped = ss.overlapped
          /\ \A t \in Sessions \ {s} : session'[t] = session[t]
      <3> DEFINE x == [ss EXCEPT !.status = status]
      <3>1. session' = [session EXCEPT ![s] = x]
        BY <1>2, <1>6
      <3>2. /\ x \in SessionRecords /\ x.phase = ss.phase /\ x.matrixSize = ss.matrixSize
            /\ x.matrix = ss.matrix /\ x.started = ss.started /\ x.overlapped = ss.overlapped
            /\ x.status = status
        BY <1>1 DEF SessionRecords, Statuses
      <3> HIDE DEF x
      <3> QED  BY <1>1, <3>1, <3>2 DEF TypeInv
    <2>2. ASSUME ~ss.overlapped PROVE Orderly(n, st, j)
      <3>1. Orderly(n, ss, k)
        BY <1>1, <2>2 DEF SessionOK
      <3>2. Busy(j) = {}
        BY <1>4, <3>1 DEF Orderly
      <3>3. status = "DONE" => Calculated(st.matrix)
        BY <2>1, <2>2
      <3> QED  BY <2>1, <3>1, <3>2, <3>3 DEF Orderly
    <2>3. Len(st.matrix) = ss.matrixSize /\ Busy(k) # {}
      BY <1>1, <2>1 DEF SessionOK
    <2>4. UNCHANGED <<client, net, clients>>
      BY <1>2, <1>6
    <2> QED  BY <1>3, <1>4, <2>1, <2>2, <2>3, <2>4, CalculationStep
  <1> QED  BY <1>5, <1>6

\* The error at the beginning of calculate() keeps the invariant.
LEMMA CalculateThrowsStep ==
    ASSUME CalcInv, NEW s \in Sessions, NEW i \in Busy(calc[s]), CalculateThrows(s, i)
    PROVE  CalcInv'
  BY FinishStep DEF CalculateThrows

\* calculate() begins: each thread is at the beginning of its block.
LEMMA BeginCalculateStep ==
    ASSUME CalcInv, NEW s \in Sessions, NEW i \in Busy(calc[s]), BeginCalculate(s, i)
    PROVE  CalcInv'
  <1> DEFINE n == net[s]
             ss == session[s]
             k == calc[s]
             j == calc'[s]
             x == calc[s][i]
             used == ThreadsUsed(x.threads, x.size)
             firsts == [t \in Threads(used) |-> FirstRow(t, used, x.size)]
             y == [pc |-> "running", sound |-> x.sound, threads |-> used, size |-> x.size,
                   next |-> firsts]
  <1>1. /\ TypeInv /\ SessionOK(n, ss, k) /\ i \in Slots
        /\ ss \in SessionRecords /\ x \in Calcs
        /\ \A b \in Slots : BlocksOK(k[b])
    BY DEF CalcInv, TypeInv, SessionsOK, SessionOK, Busy
  <1>2. /\ x.pc = "created" /\ used > 0 /\ calc' = [calc EXCEPT ![s][i] = y]
        /\ UNCHANGED <<client, net, session, clients>>
    BY DEF BeginCalculate
  <1>3. x \in [pc : {"created"}, sound : BOOLEAN, threads : Nat, size : Nat]
    BY <1>1, <1>2 DEF Calcs, NoCalc
  <1>4. x.sound \in BOOLEAN /\ x.size \in Nat /\ used \in Nat \ {0}
    BY <1>2, <1>3 DEF ThreadsUsed
  <1> HIDE DEF used, x
  <1>5. /\ firsts \in [Threads(used) -> Nat]
        /\ \A t \in Threads(used) :
              firsts[t] \in FirstRow(t, used, x.size) .. LastRow(t, used, x.size)
    <2>1. ASSUME NEW t \in Threads(used)
          PROVE  /\ FirstRow(t, used, x.size) \in Nat
                 /\ FirstRow(t, used, x.size)
                      \in FirstRow(t, used, x.size) .. LastRow(t, used, x.size)
      BY <1>4, BlockBounds DEF Threads
    <2> QED  BY <2>1
  <1> HIDE DEF firsts
  <1>6. y \in Calcs /\ y.pc = "running" /\ BlocksOK(y)
    <2>1. firsts \in UNION {[Threads(b) -> Nat] : b \in Nat}
      BY <1>4, <1>5
    <2>2. y \in [pc : {"running"}, sound : BOOLEAN, threads : Nat \ {0}, size : Nat,
                 next : UNION {[Threads(b) -> Nat] : b \in Nat}]
      BY <1>4, <2>1
    <2>3. y.next = firsts /\ y.threads = used /\ y.size = x.size
      OBVIOUS
    <2> QED  BY <1>5, <2>2, <2>3 DEF Calcs, BlocksOK
  <1>7. /\ y.next = firsts /\ y.threads = used /\ y.size = x.size /\ y.sound = x.sound
    OBVIOUS
  <1> HIDE DEF y
  <1>8. /\ calc' \in [Sessions -> [Slots -> Calcs]]
        /\ \A t \in Sessions \ {s} : calc'[t] = calc[t]
        /\ j[i] = y /\ \A b \in Slots \ {i} : j[b] = k[b]
    BY <1>1, <1>2, <1>6 DEF TypeInv
  <1>9. Busy(j) = Busy(k) /\ \A b \in Slots : BlocksOK(j[b])
    BY <1>1, <1>6, <1>8 DEF Busy
  <1>10. ASSUME ~ss.overlapped PROVE Orderly(n, ss, j)
    <2>1. Orderly(n, ss, k)
      BY <1>1, <1>10 DEF SessionOK
    <2>2. Busy(j) = {i} /\ x.sound /\ x.size = ss.matrixSize
      BY <1>9, <2>1 DEF Orderly, x
    <2>3. DoneSoFar(ss, y)
      <3> SUFFICES ASSUME NEW t \in Threads(used), NEW r \in 1 .. ss.matrixSize,
                          FirstRow(t, used, x.size) < r, r <= firsts[t]
                   PROVE  FALSE
        BY <1>7 DEF DoneSoFar
      <3>1. firsts[t] = FirstRow(t, used, x.size) /\ firsts[t] \in Nat
        BY <1>5 DEF firsts
      <3> QED  BY <3>1
    <2> QED  BY <1>7, <1>8, <2>1, <2>2, <2>3 DEF Orderly
  <1>11. Len(ss.matrix) = ss.matrixSize
    BY <1>1 DEF SessionOK
  <1>12. session' = session /\ session' \in [Sessions -> SessionRecords]
    BY <1>1, <1>2 DEF TypeInv
  <1> QED  BY <1>2, <1>8, <1>9, <1>10, <1>11, <1>12, CalculationStep

\* A running calculation: what it is made of.
LEMMA RunningFields ==
    ASSUME NEW x \in Calcs, x.pc = "running", BlocksOK(x)
    PROVE  /\ x.sound \in BOOLEAN /\ x.size \in Nat /\ x.threads \in Nat \ {0}
           /\ x.next \in [Threads(x.threads) -> Nat] /\ DOMAIN x.next = Threads(x.threads)
           /\ \A t \in Threads(x.threads) :
                 /\ FirstRow(t, x.threads, x.size) \in Nat /\ LastRow(t, x.threads, x.size) \in Nat
                 /\ FirstRow(t, x.threads, x.size) <= x.next[t]
                 /\ x.next[t] <= LastRow(t, x.threads, x.size)
                 /\ LastRow(t, x.threads, x.size) <= x.size
  <1>1. x \in [pc : {"running"}, sound : BOOLEAN, threads : Nat \ {0}, size : Nat,
               next : UNION {[Threads(n) -> Nat] : n \in Nat}]
    BY DEF Calcs, NoCalc
  <1>2. x.sound \in BOOLEAN /\ x.size \in Nat /\ x.threads \in Nat \ {0}
    BY <1>1
  <1>3. x.next \in [Threads(x.threads) -> Nat]
    BY DEF BlocksOK
  <1>4. ASSUME NEW t \in Threads(x.threads)
        PROVE  /\ FirstRow(t, x.threads, x.size) \in Nat /\ LastRow(t, x.threads, x.size) \in Nat
               /\ FirstRow(t, x.threads, x.size) <= x.next[t]
               /\ x.next[t] <= LastRow(t, x.threads, x.size)
               /\ LastRow(t, x.threads, x.size) <= x.size
    <2>1. /\ FirstRow(t, x.threads, x.size) \in Nat /\ LastRow(t, x.threads, x.size) \in Nat
          /\ LastRow(t, x.threads, x.size) <= x.size
      BY <1>2, BlockBounds DEF Threads
    <2>2. x.next[t] \in FirstRow(t, x.threads, x.size) .. LastRow(t, x.threads, x.size)
      BY DEF BlocksOK
    <2> QED  BY <2>1, <2>2
  <1> QED  BY <1>2, <1>3, <1>4

\* The join at the end of calculate(): all rows are calculated.
LEMMA FinishCalculateStep ==
    ASSUME CalcInv, NEW s \in Sessions, NEW i \in Busy(calc[s]), FinishCalculate(s, i)
    PROVE  CalcInv'
  <1> DEFINE ss == session[s]
             x == calc[s][i]
  <1>1. /\ SessionOK(net[s], ss, calc[s]) /\ i \in Slots
        /\ ss \in SessionRecords /\ x \in Calcs /\ BlocksOK(x)
    BY DEF CalcInv, TypeInv, SessionsOK, SessionOK, Busy
  <1>2. x.pc = "running" /\ Joined(s, i) /\ Finish(s, i, "DONE")
    BY DEF FinishCalculate
  <1>3. ASSUME ~ss.overlapped PROVE Calculated(ss.matrix)
    <2>1. x.size = ss.matrixSize /\ DoneSoFar(ss, x) /\ Len(ss.matrix) = ss.matrixSize
      BY <1>1, <1>3 DEF SessionOK, Orderly
    <2>2. /\ x.size \in Nat /\ x.threads \in Nat \ {0} /\ DOMAIN x.next = Threads(x.threads)
          /\ \A t \in Threads(x.threads) : FirstRow(t, x.threads, x.size) \in Nat
      BY <1>1, <1>2, RunningFields
    <2>3. \A t \in Threads(x.threads) : x.next[t] = LastRow(t, x.threads, x.size)
      BY <1>2, <2>2 DEF Joined, BlockDone
    <2> SUFFICES ASSUME NEW r \in 1 .. ss.matrixSize PROVE ss.matrix[r] = "calculated"
      BY <2>1 DEF Calculated
    <2> HIDE DEF x, ss
    <2>4. PICK t \in 0 .. x.threads - 1 :
              FirstRow(t, x.threads, x.size) <= r - 1 /\ r - 1 < LastRow(t, x.threads, x.size)
      <3>1. r - 1 \in 0 .. x.size - 1
        BY <2>1, <2>2
      <3> QED  BY <2>2, <3>1, BlocksCover
    <2>5. t \in Threads(x.threads)
      BY DEF Threads
    <2>6. FirstRow(t, x.threads, x.size) \in Nat /\ LastRow(t, x.threads, x.size) \in Nat
      BY <2>2, <2>4, BlockBounds
    <2>7. FirstRow(t, x.threads, x.size) < r /\ r <= x.next[t]
      BY <2>2, <2>3, <2>4, <2>5, <2>6
    <2> QED  BY <1>2, <2>1, <2>5, <2>7 DEF DoneSoFar, x
  <1> QED  BY <1>2, <1>3, FinishStep

\* calculateRow() keeps the invariant: a sound calculation calculates the row.
LEMMA CalculateRowStep ==
    ASSUME CalcInv, NEW s \in Sessions, NEW i \in Busy(calc[s]), calc[s][i].pc = "running",
           NEW t \in DOMAIN calc[s][i].next, CalculateRow(s, i, t)
    PROVE  CalcInv'
  <1> DEFINE n == net[s]
             ss == session[s]
             k == calc[s]
             st == session'[s]
             j == calc'[s]
             x == calc[s][i]
             y == calc'[s][i]
             row == x.next[t] + 1
  <1>1. /\ TypeInv /\ SessionOK(n, ss, k) /\ i \in Slots
        /\ ss \in SessionRecords /\ x \in Calcs /\ \A b \in Slots : BlocksOK(k[b])
        /\ Len(ss.matrix) = ss.matrixSize
    BY DEF CalcInv, TypeInv, SessionsOK, SessionOK, Busy
  <1>2. /\ x.sound \in BOOLEAN /\ x.size \in Nat /\ x.threads \in Nat \ {0}
        /\ x.next \in [Threads(x.threads) -> Nat] /\ DOMAIN x.next = Threads(x.threads)
        /\ \A u \in Threads(x.threads) :
              /\ FirstRow(u, x.threads, x.size) \in Nat /\ LastRow(u, x.threads, x.size) \in Nat
              /\ FirstRow(u, x.threads, x.size) <= x.next[u]
              /\ x.next[u] <= LastRow(u, x.threads, x.size)
              /\ LastRow(u, x.threads, x.size) <= x.size
    BY <1>1, RunningFields
  <1>3. t \in Threads(x.threads) /\ x.next[t] \in Nat /\ row \in Nat \ {0}
    BY <1>2
  <1>4. /\ x.next[t] < LastRow(t, x.threads, x.size)
        /\ calc' = [calc EXCEPT ![s][i].next[t] = x.next[t] + 1]
        /\ UNCHANGED <<client, net, clients>>
    BY DEF CalculateRow
  <1>5. \/ row \notin DOMAIN ss.matrix /\ session' = session
        \/ /\ row \in DOMAIN ss.matrix
           /\ \E v \in Rows :
                 /\ session' = [session EXCEPT ![s].matrix[row] = v]
                 /\ x.sound /\ ss.matrix[row] # "garbage" => v = "calculated"
    <2>1. CASE row \notin DOMAIN ss.matrix
      BY <2>1 DEF CalculateRow
    <2>2. CASE row \in DOMAIN ss.matrix
      <3>1. ss.matrix[row] \in Rows
        BY <1>1, <2>2, Fields, LenProperties
      <3>2. PICK v \in IF x.sound
                       THEN {IF ss.matrix[row] = "garbage" THEN "garbage" ELSE "calculated"}
                       ELSE {ss.matrix[row], "garbage"} :
                session' = [session EXCEPT ![s].matrix[row] = v]
        BY <2>2 DEF CalculateRow
      <3>3. v \in Rows /\ (x.sound /\ ss.matrix[row] # "garbage" => v = "calculated")
        BY <3>1, <3>2 DEF Rows
      <3> QED  BY <2>2, <3>2, <3>3
    <2> QED  BY <2>1, <2>2
  <1>6. /\ session' \in [Sessions -> SessionRecords]
        /\ \A u \in Sessions \ {s} : session'[u] = session[u]
        /\ st.phase = ss.phase /\ st.matrixSize = ss.matrixSize /\ st.status = ss.status
        /\ st.started = ss.started /\ st.overlapped = ss.overlapped
        /\ Len(st.matrix) = ss.matrixSize
        /\ \A r \in 1 .. ss.matrixSize : r # row => st.matrix[r] = ss.matrix[r]
        /\ row \in 1 .. ss.matrixSize /\ x.sound /\ ss.matrix[row] # "garbage"
              => st.matrix[row] = "calculated"
    <2>1. DOMAIN ss.matrix = 1 .. ss.matrixSize /\ ss.matrix \in Seq(Rows)
      BY <1>1, Fields, LenProperties
    <2>2. CASE row \notin DOMAIN ss.matrix /\ session' = session
      BY <1>1, <2>1, <2>2 DEF TypeInv
    <2>3. CASE row \in DOMAIN ss.matrix /\ ~(row \notin DOMAIN ss.matrix)
      <3>1. PICK v \in Rows : /\ session' = [session EXCEPT ![s].matrix[row] = v]
                              /\ x.sound /\ ss.matrix[row] # "garbage" => v = "calculated"
        BY <1>5, <2>3, Zenon
      <3> DEFINE rows == [ss.matrix EXCEPT ![row] = v]
                 z == [ss EXCEPT !.matrix = rows]
      <3>2. session' = [session EXCEPT ![s] = z]
        BY <3>1
      <3>3. /\ rows \in Seq(Rows) /\ Len(rows) = ss.matrixSize /\ rows[row] = v
            /\ \A r \in 1 .. ss.matrixSize : r # row => rows[r] = ss.matrix[r]
        BY <1>1, <2>1, <2>3, ExceptSeq
      <3> HIDE DEF rows
      <3>4. /\ z \in SessionRecords /\ z.phase = ss.phase /\ z.matrixSize = ss.matrixSize
            /\ z.status = ss.status /\ z.started = ss.started /\ z.overlapped = ss.overlapped
            /\ z.matrix = rows
        BY <1>1, <3>3 DEF SessionRecords
      <3> HIDE DEF z
      <3>5. st = z /\ session' \in [Sessions -> SessionRecords]
            /\ \A u \in Sessions \ {s} : session'[u] = session[u]
        BY <1>1, <3>2, <3>4 DEF TypeInv
      <3> QED  BY <3>1, <3>3, <3>4, <3>5, Zenon
    <2> QED  BY <1>5, <2>2, <2>3, Zenon
  <1>7. /\ calc' \in [Sessions -> [Slots -> Calcs]]
        /\ \A u \in Sessions \ {s} : calc'[u] = calc[u]
        /\ \A b \in Slots \ {i} : j[b] = k[b]
        /\ y.pc = "running" /\ y.sound = x.sound /\ y.size = x.size /\ y.threads = x.threads
        /\ y.next = [x.next EXCEPT ![t] = x.next[t] + 1]
    <2> DEFINE next == [x.next EXCEPT ![t] = x.next[t] + 1]
               z == [x EXCEPT !.next = next]
    <2>1. calc' = [calc EXCEPT ![s][i] = z]
      BY <1>4
    <2>2. next \in [Threads(x.threads) -> Nat]
      BY <1>2, <1>3
    <2>3. x \in [pc : {"running"}, sound : BOOLEAN, threads : Nat \ {0}, size : Nat,
                 next : UNION {[Threads(b) -> Nat] : b \in Nat}]
      BY <1>1 DEF Calcs, NoCalc
    <2>4. next \in UNION {[Threads(b) -> Nat] : b \in Nat}
      BY <1>2, <2>2
    <2> HIDE DEF next, x
    <2>5. /\ z \in Calcs /\ z.pc = "running" /\ z.sound = x.sound /\ z.size = x.size
          /\ z.threads = x.threads /\ z.next = next
      BY <2>3, <2>4 DEF Calcs
    <2> HIDE DEF z
    <2> QED  BY <1>1, <2>1, <2>5 DEF TypeInv, next
  <1>8. /\ y.next[t] = row /\ \A u \in Threads(x.threads) \ {t} : y.next[u] = x.next[u]
        /\ y.next \in [Threads(x.threads) -> Nat]
    BY <1>2, <1>3, <1>7
  <1>9. ASSUME NEW b \in Slots PROVE BlocksOK(j[b])
    <2>1. CASE b # i
      BY <1>1, <1>7, <2>1
    <2>2. CASE b = i
      <3>1. ASSUME NEW u \in Threads(x.threads)
            PROVE  y.next[u] \in FirstRow(u, x.threads, x.size) .. LastRow(u, x.threads, x.size)
        <4>1. CASE u = t
          BY <1>2, <1>3, <1>4, <1>8, <4>1, SMTT(30)
        <4>2. CASE u # t
          BY <1>2, <1>8, <4>2
        <4> QED  BY <4>1, <4>2
      <3> QED  BY <1>7, <1>8, <2>2, <3>1 DEF BlocksOK
    <2> QED  BY <2>1, <2>2
  <1>10. Busy(j) = Busy(k)
    BY <1>7, y.pc = "running", x.pc = "running" DEF Busy
  <1>11. ASSUME ~ss.overlapped PROVE Orderly(n, st, j)
    <2>1. Orderly(n, ss, k)
      BY <1>1, <1>11 DEF SessionOK
    <2>2. /\ Busy(j) = {i} /\ x.sound /\ x.size = ss.matrixSize /\ DoneSoFar(ss, x)
          /\ ss.started /\ ss.status = "PROCESSING"
          /\ \A r \in 1 .. ss.matrixSize : ss.matrix[r] # "garbage"
      BY <1>10, <2>1 DEF Orderly
    <2>3. row \in 1 .. ss.matrixSize /\ st.matrix[row] = "calculated"
      <3>1. row \in 1 .. ss.matrixSize
        BY <1>2, <1>3, <1>4, <2>2, SMTT(30)
      <3> QED  BY <1>6, <2>2, <3>1
    <2>4. \A r \in 1 .. ss.matrixSize : st.matrix[r] \in {ss.matrix[r], "calculated"}
      BY <1>6, <2>3
    <2>5. DoneSoFar(st, y)
      <3> SUFFICES ASSUME NEW u \in Threads(x.threads), NEW r \in 1 .. ss.matrixSize,
                          FirstRow(u, x.threads, x.size) < r, r <= y.next[u]
                   PROVE  st.matrix[r] = "calculated"
        <4>1. st.matrixSize = ss.matrixSize /\ y.size = x.size /\ y.threads = x.threads
          BY <1>6, <1>7, Zenon
        <4> HIDE DEF st, y, x, ss
        <4> QED  BY <4>1 DEF DoneSoFar
      <3>1. CASE r = row
        BY <2>3, <3>1
      <3>2. CASE r # row
        <4>1. r <= x.next[u]
          BY <1>2, <1>3, <1>8, <3>2
        <4>2. ss.matrix[r] = "calculated"
          BY <2>2, <4>1 DEF DoneSoFar
        <4> QED  BY <2>4, <4>2
      <3> QED  BY <3>1, <3>2
    <2>6. \A r \in 1 .. st.matrixSize : st.matrix[r] # "garbage"
      BY <1>6, <2>2, <2>4
    <2>7. y.sound /\ y.size = st.matrixSize
      BY <1>6, <1>7, <2>2
    <2>8. \A b \in Busy(j) : j[b].sound /\ j[b].size = st.matrixSize /\ DoneSoFar(st, j[b])
      BY <2>2, <2>5, <2>7
    <2>9. /\ \A a, b \in Busy(j) : a = b
          /\ st.started /\ st.status = "PROCESSING"
      BY <1>6, <2>2
    <2>10. st.started /\ n.toClient # <<>> /\ n.toClient[1].cmd = "GET_RESULT"
              => Calculated(n.toClient[1].rows)
      BY <2>1, <2>2 DEF Orderly
    <2> HIDE DEF j, st, n
    <2> QED  BY <2>6, <2>8, <2>9, <2>10 DEF Orderly
  <1>12. Busy(calc[s]) # {} /\ UNCHANGED <<client, net, clients>>
    BY <1>4
  <1>13. /\ session' \in [Sessions -> SessionRecords]
         /\ calc' \in [Sessions -> [Slots -> Calcs]]
         /\ \A u \in Sessions \ {s} : session'[u] = session[u] /\ calc'[u] = calc[u]
    BY <1>6, <1>7
  <1>14. /\ session'[s].phase = session[s].phase
         /\ session'[s].matrixSize = session[s].matrixSize
         /\ session'[s].overlapped = session[s].overlapped
         /\ session'[s].started = session[s].started
         /\ Len(session'[s].matrix) = session[s].matrixSize
    BY <1>6
  <1>15. \A b \in Slots : BlocksOK(calc'[s][b])
    BY <1>9
  <1>16. ~session[s].overlapped => Orderly(net[s], session'[s], calc'[s])
    BY <1>11
  <1> HIDE DEF n, ss, k, st, j, x, y, row
  <1> QED  BY <1>12, <1>13, <1>14, <1>15, <1>16, CalculationStep

-------------------------------------------------------------------------------
(* The steps of the clients.                                                *)

\* A connected client.
LEMMA Attached ==
    ASSUME CalcInv, NEW c \in Clients, client[c].conn # NoSession
    PROVE  LET s == client[c].conn IN
           /\ s \in Sessions /\ client[c] \in ClientRecords /\ net[s] \in Nets
           /\ session[s] \in SessionRecords
           /\ SessionOK(net[s], session[s], calc[s])
           /\ Connected(client[c], net[s], session[s], calc[s])
  <1>1. client[c] \in ClientRecords /\ client[c].conn \in Sessions
    BY Fields DEF CalcInv, TypeInv
  <1> QED  BY <1>1 DEF CalcInv, TypeInv, SessionsOK, ClientsOK

\* A client that waits for nothing has no request and no reply on its way.
LEMMA Quiet ==
    ASSUME NEW cl, NEW n \in Nets, Awaits(cl, n), cl.awaiting = "none"
    PROVE  /\ n.toClient = <<>>
           /\ \A i \in 1 .. Len(n.toServer) : n.toServer[i].cmd \notin Requests
  <1>1. n.toClient \in Seq(Replies)
    BY Fields
  <1>2. \A p \in Seq(Replies) : p # <<>> => p[1] \in Replies
    OBVIOUS
  <1>3. \A r \in Replies : r.cmd # "none"
    BY DEF Replies
  <1> QED  BY <1>1, <1>2, <1>3 DEF Awaits, Requests

\* The sizes fit when a command has been sent.
LEMMA SizeFitsMore ==
    ASSUME NEW cl, NEW q \in Seq(Commands), NEW x \in Commands, NEW size, NEW new,
           SizeFits(cl, q, size),
           new.matrixSize = IF x.cmd = "SEND_CONFIG" THEN x.matrixSize ELSE cl.matrixSize
    PROVE  SizeFits(new, Append(q, x), size)
  <1> DEFINE p == Append(q, x)
  <1>1. /\ Len(q) \in Nat /\ Len(p) = Len(q) + 1
        /\ \A i \in 1 .. Len(q) : p[i] = q[i] /\ p[Len(q) + 1] = x
    BY Back
  <1> HIDE DEF p
  <1>2. ASSUME NEW i \in Nat \ {0}, i <= Len(q) + 1, NoConfig(p, i)
        PROVE  NoConfig(q, i) /\ x.cmd # "SEND_CONFIG"
    <2>1. \A j \in i .. Len(q) + 1 : p[j].cmd # "SEND_CONFIG"
      BY <1>1, <1>2 DEF NoConfig
    <2>2. \A j \in i .. Len(q) : j \in i .. Len(q) + 1 /\ j \in 1 .. Len(q)
      BY <1>1, <1>2
    <2>3. Len(q) + 1 \in i .. Len(q) + 1
      BY <1>1, <1>2
    <2>4. p[Len(q) + 1] = x
      BY Back DEF p
    <2> QED  BY <1>1, <2>1, <2>2, <2>3, <2>4 DEF NoConfig
  <1>3. ASSUME NEW i \in 1 .. Len(p), p[i].cmd = "SEND_CONFIG", NoConfig(p, i + 1)
        PROVE  p[i].matrixSize = new.matrixSize
    <2>1. CASE i = Len(q) + 1
      <3>1. p[i] = x
        BY <2>1, Back DEF p
      <3> QED  BY <1>3, <3>1
    <2>2. CASE i # Len(q) + 1
      <3>1. i \in 1 .. Len(q) /\ i + 1 \in Nat \ {0} /\ i + 1 <= Len(q) + 1
        BY <1>1, <2>2
      <3>2. NoConfig(q, i + 1) /\ x.cmd # "SEND_CONFIG" /\ p[i] = q[i]
        BY <1>1, <1>2, <1>3, <3>1
      <3> QED  BY <1>3, <3>1, <3>2 DEF SizeFits
    <2> QED  BY <2>1, <2>2
  <1>4. ASSUME NoConfig(p, 1) PROVE size \in {0, new.matrixSize}
    <2>1. NoConfig(q, 1) /\ x.cmd # "SEND_CONFIG"
      BY <1>1, <1>2, <1>4
    <2> QED  BY <2>1 DEF SizeFits
  <1>5. SizeFits(new, p, size)
    BY <1>3, <1>4 DEF SizeFits
  <1> QED  BY <1>5 DEF p

\* A call that sends command x and leaves the client as new keeps the invariant.
LEMMA CallStep ==
    ASSUME CalcInv, NEW c \in Clients, client[c].conn # NoSession, client[c].awaiting = "none",
           NEW x \in Commands, Transmit(client[c].conn, x),
           NEW new \in ClientRecords, client' = [client EXCEPT ![c] = new],
           new.conn = client[c].conn,
           new.awaiting = IF x.cmd \in Requests THEN x.cmd ELSE "none",
           new.matrixSize = IF x.cmd = "SEND_CONFIG" THEN x.matrixSize ELSE client[c].matrixSize,
           new.next # "any" => client[c].next # "any",
           \A n \in Nets :
               /\ new.next # "any"
               /\ n.toServer = Append(net[client[c].conn].toServer, x) /\ n.toClient = <<>>
               /\ ScriptOK(client[c], net[client[c].conn], session[client[c].conn],
                           calc[client[c].conn])
               => ScriptOK(new, n, session[client[c].conn], calc[client[c].conn])
    PROVE  CalcInv'
  <1> DEFINE s == client[c].conn
             cl == client[c]
             n == net[s]
             ss == session[s]
             k == calc[s]
             m == net'[s]
  <1>1. /\ TypeInv /\ s \in Sessions /\ cl \in ClientRecords /\ n \in Nets
        /\ SessionOK(n, ss, k) /\ Connected(cl, n, ss, k)
    BY Attached DEF CalcInv
  <1>2. /\ n.toServer \in Seq(Commands) /\ n.toClient = <<>>
        /\ \A i \in 1 .. Len(n.toServer) : n.toServer[i].cmd \notin Requests
    BY <1>1, Quiet, Fields DEF Connected
  <1> DEFINE p == Sent(s, x)
             r == Append(n.toServer, x)
  <1>3. /\ r \in Seq(Commands) /\ Len(n.toServer) \in Nat /\ Len(r) = Len(n.toServer) + 1
        /\ \A i \in 1 .. Len(n.toServer) : r[i] = n.toServer[i]
        /\ r[Len(n.toServer) + 1] = x
    <2>1. PICK q \in Seq(Commands) : q = n.toServer
      BY <1>2
    <2>2. /\ Append(q, x) \in Seq(Commands) /\ Len(q) \in Nat /\ Len(Append(q, x)) = Len(q) + 1
          /\ \A i \in 1 .. Len(q) : Append(q, x)[i] = q[i]
          /\ Append(q, x)[Len(q) + 1] = x
      BY Back
    <2> QED  BY <2>1, <2>2
  <1>4. /\ net' = [net EXCEPT ![s] = [n EXCEPT !.toServer = p]]
        /\ UNCHANGED <<session, calc, clients>>
    BY DEF Transmit, ServerSide
  <1> HIDE DEF r
  <1>11. /\ p = (IF n.serverOpen THEN r ELSE n.toServer)
         /\ p \in Seq(Commands)
    BY <1>2, <1>3 DEF Sent, r
  <1> HIDE DEF p
  <1>5. /\ net' \in [Sessions -> Nets] /\ m \in Nets /\ \A t \in Sessions \ {s} : net'[t] = net[t]
        /\ m.toServer = p /\ m.toClient = <<>>
        /\ m.clientOpen = n.clientOpen /\ m.serverOpen = n.serverOpen
    <2> DEFINE y == [n EXCEPT !.toServer = p]
    <2>1. /\ y \in Nets /\ y.toServer = p /\ y.toClient = n.toClient
          /\ y.clientOpen = n.clientOpen /\ y.serverOpen = n.serverOpen
      BY <1>1, <1>11 DEF Nets
    <2>2. net \in [Sessions -> Nets] /\ net' = [net EXCEPT ![s] = y]
      BY <1>1, <1>4 DEF TypeInv
    <2> HIDE DEF y, n, s
    <2> QED  BY <1>1, <1>2, <2>1, <2>2
  <1>6. ASSUME NEW i \in 1 .. Len(p), p[i].cmd \in Requests PROVE i = Len(p) /\ p[i] = x
    <2>1. i \notin 1 .. Len(n.toServer)
      BY <1>2, <1>3, <1>6, <1>11
    <2>2. PICK l \in Nat : l = Len(n.toServer)
      BY <1>3
    <2>3. p = r /\ i = l + 1 /\ Len(p) = l + 1
      BY <1>3, <1>11, <2>1, <2>2
    <2> QED  BY <1>3, <2>2, <2>3
  <1>7. SessionOK(m, ss, k)
    <2>1. OneRequest(m)
      BY <1>5, <1>6 DEF OneRequest
    <2>2. ~ss.overlapped => Orderly(m, ss, k)
      BY <1>1, <1>5, Zenon DEF SessionOK, Orderly
    <2> QED  BY <1>1, <2>1, <2>2 DEF SessionOK
  <1>8. Connected(new, m, ss, k)
    <2>1. Awaits(new, m)
      BY <1>5, <1>6 DEF Awaits
    <2>2. ReplyFits(new, m)
      BY <1>5 DEF ReplyFits
    <2>3. Alive(m, ss) <=> Alive(n, ss)
      BY <1>5 DEF Alive
    <2>4. Alive(n, ss) => p = r
      BY <1>11 DEF Alive
    <2>5. Alive(n, ss) => SizeFits(new, m.toServer, ss.matrixSize)
      BY <1>1, <1>2, <1>5, <2>4, SizeFitsMore, Zenon DEF Connected, r
    <2>6. Alive(n, ss) /\ new.next # "any" => ScriptOK(new, m, ss, k)
      BY <1>1, <1>5, <2>4, Zenon DEF Connected, r
    <2> QED  BY <1>1, <1>5, <2>1, <2>2, <2>3, <2>5, <2>6 DEF Connected
  <1>9. client' \in [Clients -> ClientRecords] /\ client'[c] = new
        /\ \A d \in Clients \ {c} : client'[d] = client[d]
    BY <1>1 DEF TypeInv
  <1>10. TypeInv'
    BY <1>1, <1>4, <1>5, <1>9 DEF TypeInv
  <1> QED  BY <1>1, <1>4, <1>5, <1>7, <1>8, <1>9, <1>10, OneClient

\* A client that may make a call.
LEMMA MayCallNext ==
    ASSUME CalcInv, NEW c \in Clients, NEW call, MayCall(c, call)
    PROVE  /\ client[c].conn # NoSession /\ client[c].awaiting = "none"
           /\ client[c].next \in {"any", call} /\ client[c] \in ClientRecords
           /\ client \in [Clients -> ClientRecords]
           /\ \A next : Then(c, next) = IF client[c].next = "any" THEN "any" ELSE next
  BY DEF MayCall, CalcInv, TypeInv, Then, Scripted

\* handleConfig(), send_config() keep the invariant.
LEMMA SendConfigStep ==
    ASSUME CalcInv, NEW c \in Clients, NEW size \in Sizes \cup {MATRIX_SIZE},
           NEW threads \in ThreadCounts \cup {THREADS}, SendConfig(c, size, threads)
    PROVE  CalcInv'
  <1> DEFINE cl == client[c]
             x == Config(size, threads)
             next == IF cl.next = "any" THEN "any" ELSE "start"
  <1>1. /\ cl.conn # NoSession /\ cl.awaiting = "none" /\ cl.next \in {"any", "config"}
        /\ cl \in ClientRecords /\ client \in [Clients -> ClientRecords]
        /\ Then(c, "start") = next
    BY MayCallNext DEF SendConfig
  <1>2. PICK new \in ClientRecords :
            /\ new = [cl EXCEPT !.matrixSize = size, !.awaiting = "none", !.next = next]
            /\ new.conn = cl.conn /\ new.matrixSize = size
            /\ new.awaiting = "none" /\ new.next = next
    <2>1. /\ size \in Sizes \cup {0, MATRIX_SIZE} /\ "none" \in Requests \cup {"none"}
          /\ next \in {"any", "config", "start", "status", "result", "end"}
      OBVIOUS
    <2>2. PICK r \in ClientRecords : r = cl
      BY <1>1
    <2> DEFINE new == [r EXCEPT !.matrixSize = size, !.awaiting = "none", !.next = next]
    <2> HIDE DEF next, cl
    <2>3. /\ new \in ClientRecords /\ new.conn = r.conn /\ new.matrixSize = size
          /\ new.awaiting = "none" /\ new.next = next
      BY <2>1 DEF ClientRecords
    <2>4. new = [cl EXCEPT !.matrixSize = size, !.awaiting = "none", !.next = next]
      BY <2>2
    <2> QED  BY <2>2, <2>3, <2>4
  <1>3. client' = [client EXCEPT ![c] = new]
    <2>1. client' = [client EXCEPT ![c].matrixSize = size, ![c].next = next]
      BY <1>1 DEF SendConfig
    <2>2. new = [cl EXCEPT !.matrixSize = size, !.next = next]
      BY <1>1, <1>2 DEF ClientRecords
    <2> HIDE DEF next
    <2> QED  BY <1>1, <2>1, <2>2
  <1>4. x \in Commands /\ x.cmd = "SEND_CONFIG" /\ x.matrixSize = size
    <2>1. x \in Commands
      BY DEF Commands
    <2>2. x.cmd = "SEND_CONFIG" /\ x.matrixSize = size
      BY DEF Config
    <2> QED  BY <2>1, <2>2
  <1>5. cl.next # "any" => x = Cfg
    BY DEF SendConfig, Scripted, Cfg
  <1>6. Transmit(cl.conn, x)
    BY DEF SendConfig
  <1>7. ASSUME NEW n, NEW m \in Nets, NEW ss, NEW k, ScriptOK(cl, n, ss, k), new.next # "any",
               m.toServer = Append(n.toServer, x), m.toClient = <<>>
        PROVE  ScriptOK(new, m, ss, k)
    <2>1. cl.next = "config" /\ new.next = "start"
      BY <1>1, <1>2, <1>7
    <2>2. n.toServer = <<>> /\ Busy(k) = {}
      BY <1>7, <2>1 DEF ScriptOK
    <2>3. m.toServer = <<Cfg>>
      BY <1>5, <1>7, <2>1, <2>2, Appends
    <2> QED  BY <1>2, <2>1, <2>2, <2>3 DEF ScriptOK
  <1>8. \A m \in Nets :
            /\ new.next # "any"
            /\ m.toServer = Append(net[client[c].conn].toServer, x) /\ m.toClient = <<>>
            /\ ScriptOK(client[c], net[client[c].conn], session[client[c].conn],
                        calc[client[c].conn])
            => ScriptOK(new, m, session[client[c].conn], calc[client[c].conn])
    BY <1>7
  <1>9. /\ new.awaiting = IF x.cmd \in Requests THEN x.cmd ELSE "none"
        /\ new.matrixSize = IF x.cmd = "SEND_CONFIG" THEN x.matrixSize ELSE client[c].matrixSize
        /\ new.next # "any" => client[c].next # "any"
    BY <1>1, <1>2, <1>4 DEF Requests
  <1> HIDE DEF x
  <1> QED  BY <1>1, <1>2, <1>3, <1>4, <1>6, <1>8, <1>9, CallStep

\* handleStart(), send_start() keep the invariant.
LEMMA SendStartStep ==
    ASSUME CalcInv, NEW c \in Clients, SendStart(c)
    PROVE  CalcInv'
  <1> DEFINE cl == client[c]
             next == IF cl.next = "any" THEN "any" ELSE "status"
  <1>1. /\ cl.conn # NoSession /\ cl.awaiting = "none" /\ cl.next \in {"any", "start"}
        /\ cl \in ClientRecords /\ client \in [Clients -> ClientRecords]
        /\ Then(c, "status") = next
    BY MayCallNext DEF SendStart
  <1>2. PICK new \in ClientRecords :
            /\ new = [cl EXCEPT !.matrixSize = cl.matrixSize, !.awaiting = "none", !.next = next]
            /\ new.conn = cl.conn /\ new.matrixSize = cl.matrixSize
            /\ new.awaiting = "none" /\ new.next = next
    <2>1. /\ cl.matrixSize \in Sizes \cup {0, MATRIX_SIZE}
          /\ "none" \in Requests \cup {"none"}
          /\ next \in {"any", "config", "start", "status", "result", "end"}
      BY <1>1 DEF ClientRecords
    <2>2. PICK r \in ClientRecords : r = cl
      BY <1>1
    <2> DEFINE new == [r EXCEPT !.matrixSize = cl.matrixSize, !.awaiting = "none", !.next = next]
    <2> HIDE DEF next, cl
    <2>3. /\ new \in ClientRecords /\ new.conn = r.conn /\ new.matrixSize = cl.matrixSize
          /\ new.awaiting = "none" /\ new.next = next
      BY <2>1 DEF ClientRecords
    <2>4. new = [cl EXCEPT !.matrixSize = cl.matrixSize, !.awaiting = "none", !.next = next]
      BY <2>2
    <2> QED  BY <2>2, <2>3, <2>4
  <1>3. client' = [client EXCEPT ![c] = new]
    <2>1. client' = [client EXCEPT ![c].next = next]
      BY <1>1 DEF SendStart
    <2>2. new = [cl EXCEPT !.next = next]
      BY <1>1, <1>2 DEF ClientRecords
    <2> HIDE DEF next
    <2> QED  BY <1>1, <2>1, <2>2
  <1>4. Str \in Commands /\ Str.cmd = "START_PROCESSING"
    BY CommandNames
  <1>5. Transmit(cl.conn, Str)
    BY DEF SendStart, Str
  <1>6. ASSUME NEW n, NEW m \in Nets, NEW ss, NEW k, ScriptOK(cl, n, ss, k), new.next # "any",
               m.toServer = Append(n.toServer, Str), m.toClient = <<>>
        PROVE  ScriptOK(new, m, ss, k)
    <2>1. cl.next = "start" /\ new.next = "status"
      BY <1>1, <1>2, <1>6
    <2>2. \/ n.toServer = <<Cfg>> /\ Busy(k) = {}
          \/ n.toServer = <<>> /\ Configured(ss, k)
      BY <1>6, <2>1 DEF ScriptOK
    <2>3. \/ m.toServer = Both("none") /\ Busy(k) = {}
          \/ m.toServer = JustStart("none") /\ Configured(ss, k)
      BY <1>6, <2>2, Appends, ScriptRead
    <2>4. Unread(new, m) = "none"
      BY <1>2, <1>6 DEF Unread
    <2> QED  BY <1>2, <1>6, <2>1, <2>3, <2>4 DEF ScriptOK
  <1>7. \A m \in Nets :
            /\ new.next # "any"
            /\ m.toServer = Append(net[client[c].conn].toServer, Str) /\ m.toClient = <<>>
            /\ ScriptOK(client[c], net[client[c].conn], session[client[c].conn],
                        calc[client[c].conn])
            => ScriptOK(new, m, session[client[c].conn], calc[client[c].conn])
    BY <1>6
  <1>8. /\ new.awaiting = IF Str.cmd \in Requests THEN Str.cmd ELSE "none"
        /\ new.matrixSize = IF Str.cmd = "SEND_CONFIG" THEN Str.matrixSize
                                                      ELSE client[c].matrixSize
        /\ new.next # "any" => client[c].next # "any"
    BY <1>1, <1>2, <1>4 DEF Requests
  <1> QED  BY <1>1, <1>2, <1>3, <1>4, <1>5, <1>7, <1>8, CallStep

\* A call that waits for its reply.
Asks(c, call, request) ==
    /\ MayCall(c, call)
    /\ call = IF request = "CHECK_STATUS" THEN "status" ELSE "result"
    /\ Transmit(client[c].conn, Ask(request))
    /\ client' = [client EXCEPT ![c].awaiting = request]

\* A request of the status or the result keeps the invariant.
LEMMA AskStep ==
    ASSUME CalcInv, NEW c \in Clients, NEW request \in Requests, NEW call,
           Asks(c, call, request)
    PROVE  CalcInv'
  <1> DEFINE cl == client[c]
  <1>1. /\ cl.conn # NoSession /\ cl.awaiting = "none" /\ cl.next \in {"any", call}
        /\ cl \in ClientRecords /\ client \in [Clients -> ClientRecords]
    BY MayCallNext DEF Asks
  <1>2. PICK new \in ClientRecords :
            /\ new = [cl EXCEPT !.matrixSize = cl.matrixSize, !.awaiting = request,
                                !.next = cl.next]
            /\ new.conn = cl.conn /\ new.matrixSize = cl.matrixSize
            /\ new.awaiting = request /\ new.next = cl.next
    <2>1. /\ cl.matrixSize \in Sizes \cup {0, MATRIX_SIZE}
          /\ cl.next \in {"any", "config", "start", "status", "result", "end"}
      BY <1>1 DEF ClientRecords
    <2>2. request \in Requests \cup {"none"}
      OBVIOUS
    <2>3. PICK r \in ClientRecords : r = cl
      BY <1>1
    <2> DEFINE new == [r EXCEPT !.matrixSize = cl.matrixSize, !.awaiting = request,
                                !.next = cl.next]
    <2> HIDE DEF cl
    <2>4. /\ new \in ClientRecords /\ new.conn = r.conn /\ new.matrixSize = cl.matrixSize
          /\ new.awaiting = request /\ new.next = cl.next
      BY <2>1, <2>2 DEF ClientRecords
    <2>5. new = [cl EXCEPT !.matrixSize = cl.matrixSize, !.awaiting = request,
                           !.next = cl.next]
      BY <2>3
    <2> QED  BY <2>3, <2>4, <2>5
  <1>3. client' = [client EXCEPT ![c] = new]
    <2>1. new = [cl EXCEPT !.awaiting = request]
      BY <1>1, <1>2 DEF ClientRecords
    <2> QED  BY <1>1, <2>1 DEF Asks
  <1>4. Ask(request) \in Commands /\ Ask(request).cmd = request
    BY CommandNames
  <1>5. request # "none" /\ request # "SEND_CONFIG"
    BY DEF Requests
  <1>6. ASSUME NEW n, NEW m \in Nets, NEW ss, NEW k, ScriptOK(cl, n, ss, k), new.next # "any",
               m.toServer = Append(n.toServer, Ask(request)), m.toClient = <<>>
        PROVE  ScriptOK(new, m, ss, k)
    <2>1. cl.next = call /\ new.next = call
      BY <1>1, <1>2, <1>6
    <2>2. Unread(cl, n) = "none" /\ Unread(new, m) = request
      BY <1>1, <1>2, <1>6 DEF Unread
    <2>3. /\ Append(Both("none"), Ask(request)) = Both(request)
          /\ Append(JustStart("none"), Ask(request)) = JustStart(request)
          /\ Append(Nothing("none"), Ask(request)) = Nothing(request)
      BY <1>5, ScriptAsks
    <2>4. CASE call = "status" /\ request = "CHECK_STATUS"
      <3>1. \/ m.toServer = Both(Unread(new, m)) /\ Busy(k) = {}
            \/ m.toServer = JustStart(Unread(new, m)) /\ Configured(ss, k)
            \/ m.toServer = Nothing(Unread(new, m)) /\ Started(ss)
        BY <1>6, <2>1, <2>2, <2>3, <2>4 DEF ScriptOK
      <3> QED  BY <1>2, <1>6, <2>1, <2>4, <3>1 DEF ScriptOK
    <2>5. CASE call = "result" /\ request = "GET_RESULT"
      <3>1. m.toServer = Nothing(Unread(new, m)) /\ Started(ss) /\ ss.status = "DONE"
        BY <1>6, <2>1, <2>2, <2>3, <2>5 DEF ScriptOK
      <3> QED  BY <1>2, <1>6, <2>1, <2>5, <3>1 DEF ScriptOK
    <2> QED  BY <2>4, <2>5 DEF Requests, Asks
  <1>7. PICK x \in Commands : x = Ask(request)
    BY <1>4
  <1>8. \A m \in Nets :
            /\ new.next # "any"
            /\ m.toServer = Append(net[client[c].conn].toServer, x) /\ m.toClient = <<>>
            /\ ScriptOK(client[c], net[client[c].conn], session[client[c].conn],
                        calc[client[c].conn])
            => ScriptOK(new, m, session[client[c].conn], calc[client[c].conn])
    BY <1>6, <1>7
  <1>9. /\ new.awaiting = IF x.cmd \in Requests THEN x.cmd ELSE "none"
        /\ new.matrixSize = IF x.cmd = "SEND_CONFIG" THEN x.matrixSize ELSE client[c].matrixSize
        /\ new.next # "any" => client[c].next # "any"
    BY <1>2, <1>4, <1>5, <1>7
  <1>10. Transmit(client[c].conn, x)
    BY <1>7 DEF Asks
  <1> QED  BY <1>1, <1>2, <1>3, <1>8, <1>9, <1>10, CallStep

\* handleStatus(), check_status(), handleResult() and get_result() keep the invariant.
LEMMA AskSteps ==
    ASSUME CalcInv, NEW c \in Clients, AskStatus(c) \/ AskResult(c)
    PROVE  CalcInv'
  <1>1. CASE AskStatus(c)
    <2>1. Asks(c, "status", "CHECK_STATUS") /\ "CHECK_STATUS" \in Requests
      BY <1>1 DEF AskStatus, Asks, Ask, Requests
    <2> QED  BY <2>1, AskStep
  <1>2. CASE AskResult(c)
    <2>1. Asks(c, "result", "GET_RESULT") /\ "GET_RESULT" \in Requests
      BY <1>2 DEF AskResult, Asks, Ask, Requests
    <2> QED  BY <2>1, AskStep
  <1> QED  BY <1>1, <1>2

\* Reading a reply keeps the invariant: the script takes it to the call that fits.
LEMMA ReceiveReplyStep ==
    ASSUME CalcInv, NEW c \in Clients, ReceiveReply(c)
    PROVE  CalcInv'
  <1> DEFINE s == client[c].conn
             cl == client[c]
             n == net[s]
             ss == session[s]
             k == calc[s]
             m == net'[s]
             reply == Head(n.toClient)
             next == IF cl.next = "any" THEN "any" ELSE NextCall(reply)
  <1>1. /\ cl.awaiting # "none" /\ n.toClient # <<>> /\ reply.cmd = cl.awaiting
        /\ net' = [net EXCEPT ![s].toClient = Tail(@)]
        /\ client' = [client EXCEPT ![c].awaiting = "none", ![c].next = next]
        /\ UNCHANGED <<session, calc, clients>>
    BY DEF ReceiveReply, ValidReply, ServerSide, Then, Scripted
  <1>2. s # NoSession
    BY <1>1 DEF CalcInv, ClientsOK, Idle
  <1>3. /\ TypeInv /\ s \in Sessions /\ cl \in ClientRecords /\ n \in Nets
        /\ SessionOK(n, ss, k) /\ Connected(cl, n, ss, k)
    BY <1>2, Attached DEF CalcInv
  <1>4. n.toServer = <<>> /\ Tail(n.toClient) = <<>> /\ reply = n.toClient[1] /\ reply \in Replies
    <2>1. PICK q \in Seq(Replies) : q = n.toClient
      BY <1>3, Fields
    <2>2. Len(q) = 1 /\ n.toServer = <<>>
      BY <1>1, <1>3, <2>1 DEF SessionOK, OneRequest
    <2> QED  BY <2>1, <2>2, OnlyOne
  <1>5. next \in {"any", "status", "result", "end"}
    BY DEF NextCall
  <1>6. PICK new \in ClientRecords :
            /\ new = [cl EXCEPT !.awaiting = "none", !.next = next]
            /\ new.conn = s /\ new.matrixSize = cl.matrixSize
            /\ new.awaiting = "none" /\ new.next = next
    <2>1. PICK r \in ClientRecords : r = cl
      BY <1>3
    <2> DEFINE new == [r EXCEPT !.awaiting = "none", !.next = next]
    <2> HIDE DEF next, cl
    <2>2. /\ new \in ClientRecords /\ new.conn = r.conn /\ new.matrixSize = r.matrixSize
          /\ new.awaiting = "none" /\ new.next = next
      BY <1>5 DEF ClientRecords
    <2>3. new = [cl EXCEPT !.awaiting = "none", !.next = next]
      BY <2>1
    <2> QED  BY <2>1, <2>2, <2>3 DEF cl
  <1>7. client' = [client EXCEPT ![c] = new]
    <2> HIDE DEF next
    <2> QED  BY <1>1, <1>3, <1>6 DEF TypeInv
  <1>8. /\ net' \in [Sessions -> Nets] /\ m \in Nets /\ \A t \in Sessions \ {s} : net'[t] = net[t]
        /\ m.toServer = <<>> /\ m.toClient = <<>>
        /\ m.clientOpen = n.clientOpen /\ m.serverOpen = n.serverOpen
    <2> DEFINE y == [n EXCEPT !.toClient = <<>>]
    <2>1. /\ y \in Nets /\ y.toServer = n.toServer /\ y.toClient = <<>>
          /\ y.clientOpen = n.clientOpen /\ y.serverOpen = n.serverOpen
      <3>1. <<>> \in Seq(Replies)
        OBVIOUS
      <3> HIDE DEF n
      <3> QED  BY <1>3, <3>1 DEF Nets
    <2>2. net \in [Sessions -> Nets] /\ net' = [net EXCEPT ![s] = y]
      BY <1>1, <1>3, <1>4 DEF TypeInv
    <2> HIDE DEF y, n, s
    <2> QED  BY <1>3, <1>4, <2>1, <2>2
  <1>9. SessionOK(m, ss, k)
    <2>1. OneRequest(m)
      BY <1>8 DEF OneRequest
    <2>2. ~ss.overlapped => Orderly(m, ss, k)
      BY <1>3, <1>8, Zenon DEF SessionOK, Orderly
    <2> QED  BY <1>3, <2>1, <2>2 DEF SessionOK
  <1>10. ASSUME Alive(n, ss), new.next # "any" PROVE ScriptOK(new, m, ss, k)
    <2>1. ScriptOK(cl, n, ss, k) /\ cl.next # "any" /\ new.next = NextCall(reply)
      BY <1>3, <1>6, <1>10 DEF Connected
    <2>2. cl.next \in {"status", "result"}
      BY <1>1, <1>3, <2>1 DEF ScriptOK, ClientRecords
    <2>3. Unread(cl, n) = "none" /\ Unread(new, m) = "none"
      BY <1>1, <1>6, <1>8 DEF Unread
    <2>4. Nothing("none") = <<>> /\ Both("none") # <<>> /\ JustStart("none") # <<>>
      BY ScriptRead
    <2>5. CASE cl.next = "status"
      <3>1. cl.awaiting = "CHECK_STATUS" /\ Started(ss)
        BY <1>1, <1>4, <2>1, <2>3, <2>4, <2>5 DEF ScriptOK
      <3>2. reply.status = "DONE" => ss.status = "DONE"
        BY <1>1, <1>4, <2>1, <2>5 DEF ScriptOK
      <3>3. \/ new.next = "end"
            \/ new.next = "result" /\ ss.status = "DONE"
            \/ new.next = "status"
        BY <1>1, <2>1, <3>1, <3>2 DEF NextCall
      <3>4. new.awaiting = "none" /\ m.toServer = Nothing(Unread(new, m)) /\ m.toClient = <<>>
        BY <1>6, <1>8, <2>3, <2>4
      <3> HIDE DEF s, cl, n, ss, k, m, reply, next
      <3>5. CASE new.next = "end"
        BY <3>4, <3>5 DEF ScriptOK
      <3>6. CASE new.next = "result" /\ ss.status = "DONE"
        BY <3>1, <3>4, <3>6 DEF ScriptOK
      <3>7. CASE new.next = "status"
        BY <3>1, <3>4, <3>7 DEF ScriptOK
      <3> QED  BY <3>3, <3>5, <3>6, <3>7
    <2>6. CASE cl.next = "result"
      <3>1. cl.awaiting = "GET_RESULT"
        BY <1>1, <2>1, <2>6 DEF ScriptOK
      <3>2. new.next = "end"
        BY <1>1, <2>1, <3>1 DEF NextCall
      <3> QED  BY <1>6, <3>2 DEF ScriptOK
    <2> QED  BY <2>2, <2>5, <2>6
  <1>11. Connected(new, m, ss, k)
    <2>1. Awaits(new, m) /\ ReplyFits(new, m)
      BY <1>8 DEF Awaits, ReplyFits
    <2>2. Alive(n, ss) => SizeFits(new, m.toServer, ss.matrixSize)
      <3>1. n.toServer = m.toServer /\ new.matrixSize = cl.matrixSize
        BY <1>4, <1>6, <1>8, Zenon
      <3>2. Alive(n, ss) => SizeFits(cl, n.toServer, ss.matrixSize)
        BY <1>3, Zenon DEF Connected
      <3> HIDE DEF m, cl, n, ss
      <3> QED  BY <3>1, <3>2 DEF SizeFits
    <2>3. Alive(m, ss) <=> Alive(n, ss)
      BY <1>8 DEF Alive
    <2> QED  BY <1>3, <1>8, <1>10, <2>1, <2>2, <2>3 DEF Connected
  <1>12. client' \in [Clients -> ClientRecords] /\ client'[c] = new
         /\ \A d \in Clients \ {c} : client'[d] = client[d]
    BY <1>3, <1>7 DEF TypeInv
  <1>13. TypeInv'
    BY <1>1, <1>3, <1>8, <1>12 DEF TypeInv
  <1>14. /\ client'[c].conn = s /\ Connected(client'[c], net'[s], session[s], calc[s])
         /\ SessionOK(net'[s], session[s], calc[s])
    BY <1>6, <1>9, <1>11, <1>12
  <1> QED  BY <1>1, <1>3, <1>8, <1>12, <1>13, <1>14, OneClient, Zenon

\* The client closes its end: nothing reaches it any more, and q is what the server
\* may still read.
Leaves(s, q) ==
    net' = [net EXCEPT ![s].clientOpen = FALSE, ![s].toClient = <<>>, ![s].toServer = q]

\* A client that leaves its connection keeps the invariant.
LEMMA LeaveStep ==
    ASSUME CalcInv, NEW c \in Clients, NEW s \in Sessions, client[c].conn = s,
           NEW new \in ClientRecords, client' = [client EXCEPT ![c] = new],
           new.conn = NoSession, Idle(new),
           NEW q \in Seq(Commands), \A i \in 1 .. Len(q) : q[i].cmd \in Requests => i = Len(q),
           Leaves(s, q), UNCHANGED <<session, calc, clients>>
    PROVE  CalcInv'
  <1> DEFINE n == net[s]
             ss == session[s]
             k == calc[s]
             m == net'[s]
             y == [n EXCEPT !.clientOpen = FALSE, !.toClient = <<>>, !.toServer = q]
  <1>1. TypeInv /\ n \in Nets /\ SessionOK(n, ss, k)
    BY DEF CalcInv, TypeInv, SessionsOK
  <1>2. /\ y \in Nets /\ y.toServer = q /\ y.toClient = <<>>
        /\ y.serverOpen = n.serverOpen
    <2>1. <<>> \in Seq(Replies)
      OBVIOUS
    <2> HIDE DEF n
    <2> QED  BY <1>1, <2>1 DEF Nets
  <1>3. net' = [net EXCEPT ![s] = y]
    BY <1>1 DEF TypeInv, Leaves
  <1> HIDE DEF y
  <1>4. /\ net' \in [Sessions -> Nets] /\ m = y /\ \A t \in Sessions \ {s} : net'[t] = net[t]
    BY <1>1, <1>2, <1>3 DEF TypeInv
  <1>5. SessionOK(m, ss, k)
    <2>1. OneRequest(m)
      BY <1>2, <1>4 DEF OneRequest
    <2>2. ~ss.overlapped => Orderly(m, ss, k)
      BY <1>1, <1>2, <1>4 DEF SessionOK, Orderly
    <2> QED  BY <1>1, <2>1, <2>2 DEF SessionOK
  <1>6. client' \in [Clients -> ClientRecords] /\ client'[c] = new
        /\ \A d \in Clients \ {c} : client'[d] = client[d]
    BY <1>1 DEF TypeInv
  <1>7. TypeInv'
    BY <1>1, <1>4, <1>6 DEF TypeInv
  <1>8. client'[c].conn = NoSession /\ Idle(client'[c])
    BY <1>6
  <1> QED  BY <1>4, <1>5, <1>6, <1>7, <1>8, OneClient

\* A program that has just begun.
LEMMA NewClientFields ==
    ASSUME NEW next \in {"any", "config"}
    PROVE  /\ NewClient(next) \in ClientRecords /\ NewClient(next).conn = NoSession
           /\ Idle(NewClient(next)) /\ NewClient(next).next = next
  BY DEF NewClient, ClientRecords, Idle

\* END_SESSION keeps the invariant: nothing is waited for when it is sent.
LEMMA EndSessionStep ==
    ASSUME CalcInv, NEW c \in Clients, EndSession(c)
    PROVE  CalcInv'
  <1> DEFINE s == client[c].conn
             n == net[s]
             end == [cmd |-> "END_SESSION"]
             next == Then(c, "config")
  <1>1. /\ s # NoSession /\ client[c].awaiting = "none"
        /\ client' = [client EXCEPT ![c] = NewClient(next)]
        /\ net' = [net EXCEPT ![s].clientOpen = FALSE, ![s].toClient = <<>>,
                              ![s].toServer = Sent(s, end)]
        /\ UNCHANGED <<session, calc, clients>>
    BY DEF EndSession, MayCall, ServerSide
  <1>2. s \in Sessions /\ n \in Nets /\ Awaits(client[c], n)
    BY <1>1, Attached DEF Connected
  <1>3. end \in Commands /\ end.cmd \notin Requests
    BY DEF Commands, Requests
  <1>4. PICK p \in Seq(Commands) : p = n.toServer
    BY <1>2, Fields
  <1>5. \A i \in 1 .. Len(p) : p[i].cmd \notin Requests
    BY <1>1, <1>2, <1>4, Quiet
  <1> HIDE DEF end
  <1>6. PICK q \in Seq(Commands) :
            q = Sent(s, end) /\ \A i \in 1 .. Len(q) : q[i].cmd \notin Requests
    <2>1. /\ Append(p, end) \in Seq(Commands) /\ Len(p) \in Nat
          /\ Len(Append(p, end)) = Len(p) + 1
          /\ \A i \in 1 .. Len(p) : Append(p, end)[i] = p[i]
          /\ Append(p, end)[Len(p) + 1] = end
      BY <1>3, Back
    <2>2. ASSUME NEW i \in 1 .. Len(p) + 1 PROVE Append(p, end)[i].cmd \notin Requests
      BY <1>3, <1>5, <2>1
    <2>3. Sent(s, end) = Append(p, end) \/ Sent(s, end) = p
      BY <1>4 DEF Sent
    <2> QED  BY <1>5, <2>1, <2>2, <2>3
  <1>7. next \in {"any", "config"}
    BY DEF Then
  <1> HIDE DEF next
  <1>8. PICK new \in ClientRecords : new = NewClient(next) /\ new.conn = NoSession /\ Idle(new)
    BY <1>7, NewClientFields
  <1>9. /\ client' = [client EXCEPT ![c] = new]
        /\ Leaves(s, q)
    BY <1>1, <1>4, <1>6, <1>8 DEF Leaves
  <1> QED  BY <1>1, <1>2, <1>6, <1>8, <1>9, LeaveStep

\* The end of a client program keeps the invariant, whatever is lost.
LEMMA VanishStep ==
    ASSUME CalcInv, NEW c \in Clients, Vanish(c)
    PROVE  CalcInv'
  <1> DEFINE s == client[c].conn
             n == net[s]
             next == Then(c, "config")
  <1>1. /\ s # NoSession
        /\ client' = [client EXCEPT ![c] = NewClient(next)]
        /\ UNCHANGED <<session, calc, clients>>
    BY DEF Vanish, ServerSide
  <1>2. PICK l \in 0 .. Len(n.toServer) :
            net' = [net EXCEPT ![s].clientOpen = FALSE, ![s].toClient = <<>>,
                               ![s].toServer = SubSeq(n.toServer, 1, l)]
    BY DEF Vanish
  <1>3. s \in Sessions /\ n \in Nets /\ OneRequest(n)
    BY <1>1, Attached DEF SessionOK
  <1>4. PICK p \in Seq(Commands) : p = n.toServer
    BY <1>3, Fields
  <1>5. \A i \in 1 .. Len(p) : p[i].cmd \in Requests => i = Len(p)
    BY <1>3, <1>4 DEF OneRequest
  <1>6. PICK q \in Seq(Commands) :
            q = SubSeq(p, 1, l) /\ \A i \in 1 .. Len(q) : q[i].cmd \in Requests => i = Len(q)
    <2>1. l \in Nat /\ Len(p) \in Nat /\ l <= Len(p)
      BY <1>2, <1>4
    <2>2. /\ SubSeq(p, 1, l) \in Seq(Commands) /\ Len(SubSeq(p, 1, l)) = l
          /\ \A i \in 1 .. l : SubSeq(p, 1, l)[i] = p[i]
      BY <2>1, SMTT(30)
    <2>3. ASSUME NEW i \in 1 .. l, p[i].cmd \in Requests PROVE i = l
      BY <1>5, <2>1, <2>3, SMTT(30)
    <2> QED  BY <2>2, <2>3
  <1>7. next \in {"any", "config"}
    BY DEF Then
  <1> HIDE DEF next
  <1>8. PICK new \in ClientRecords : new = NewClient(next) /\ new.conn = NoSession /\ Idle(new)
    BY <1>7, NewClientFields
  <1>9. /\ client' = [client EXCEPT ![c] = new]
        /\ Leaves(s, q)
    BY <1>1, <1>2, <1>4, <1>6, <1>8 DEF Leaves
  <1> QED  BY <1>1, <1>3, <1>6, <1>8, <1>9, LeaveStep

\* A client that gives up a connection the server has closed keeps the invariant.
LEMMA ThrowsStep ==
    ASSUME CalcInv, NEW c \in Clients, client[c].conn # NoSession,
           ~net[client[c].conn].serverOpen, Throws(c)
    PROVE  CalcInv'
  <1> DEFINE s == client[c].conn
             cl == client[c]
             n == net[s]
             new == IF Scripted(c) THEN NewClient("config")
                    ELSE [cl EXCEPT !.conn = NoSession, !.awaiting = "none"]
  <1>1. s \in Sessions /\ n \in Nets /\ OneRequest(n) /\ cl \in ClientRecords
    BY Attached DEF SessionOK
  <1>2. /\ client' = [client EXCEPT ![c] = new]
        /\ net' = [net EXCEPT ![s].clientOpen = FALSE, ![s].toClient = <<>>,
                              ![s].toServer = n.toServer]
        /\ UNCHANGED <<session, calc, clients>>
    BY DEF Throws, Sent, ServerSide
  <1>3. PICK q \in Seq(Commands) :
            q = n.toServer /\ \A i \in 1 .. Len(q) : q[i].cmd \in Requests => i = Len(q)
    BY <1>1, Fields DEF OneRequest
  <1>4. PICK w \in ClientRecords : w = new /\ w.conn = NoSession /\ Idle(w)
    <2>1. CASE Scripted(c)
      BY <2>1, NewClientFields
    <2>2. CASE ~Scripted(c)
      <3>1. PICK r \in ClientRecords : r = cl /\ r.next = "any"
        BY <1>1, <2>2 DEF Scripted
      <3> DEFINE z == [r EXCEPT !.conn = NoSession, !.awaiting = "none"]
      <3>2. /\ z \in ClientRecords /\ z.conn = NoSession /\ z.awaiting = "none"
            /\ z.next = "any"
        BY <3>1 DEF ClientRecords
      <3>3. z = new
        BY <2>2, <3>1
      <3> QED  BY <3>2, <3>3 DEF Idle
    <2> QED  BY <2>1, <2>2
  <1>5. /\ client' = [client EXCEPT ![c] = w] /\ Leaves(s, q)
        /\ UNCHANGED <<session, calc, clients>>
    <2> HIDE DEF new
    <2> QED  BY <1>2, <1>3, <1>4 DEF Leaves
  <1> HIDE DEF new
  <1> QED  BY <1>1, <1>3, <1>4, <1>5, LeaveStep

\* The reply of a connected client is what it asked for.
LEMMA ReplyIsValid ==
    ASSUME CalcInv, NEW c \in Clients, client[c].conn # NoSession,
           net[client[c].conn].toClient # <<>>
    PROVE  /\ Len(net[client[c].conn].toClient) = 1
           /\ ValidReply(c, Head(net[client[c].conn].toClient))
  <1> DEFINE n == net[client[c].conn]
  <1>1. /\ n \in Nets /\ OneRequest(n) /\ Awaits(client[c], n) /\ ReplyFits(client[c], n)
    BY Attached DEF SessionOK, Connected
  <1>2. n.toClient \in Seq(Replies) /\ Len(n.toClient) = 1
    BY <1>1, Fields DEF OneRequest
  <1>3. PICK q \in Seq(Replies) : q = n.toClient
    BY <1>2
  <1>4. Head(q) = q[1]
    BY <1>3, Front
  <1>5. q[1].cmd = client[c].awaiting
    BY <1>1, <1>3 DEF Awaits
  <1>6. q[1].cmd = "GET_RESULT" => Len(q[1].rows) \in {0, client[c].matrixSize}
    BY <1>1, <1>3 DEF ReplyFits
  <1>7. ValidReply(c, Head(q))
    BY <1>4, <1>5, <1>6 DEF ValidReply
  <1> QED  BY <1>2, <1>3, <1>7

\* A client that loses its server keeps the invariant.
LEMMA LoseServerStep ==
    ASSUME CalcInv, NEW c \in Clients, LoseServer(c) \/ SendFails(c)
    PROVE  CalcInv'
  <1>1. Throws(c)
    BY DEF LoseServer, SendFails
  <1>2. client[c].conn # NoSession
    BY DEF LoseServer, SendFails, CalcInv, ClientsOK, Idle
  <1>3. ~net[client[c].conn].serverOpen
    BY <1>2, ReplyIsValid DEF LoseServer, SendFails, ServerLost
  <1> QED  BY <1>1, <1>2, <1>3, ThrowsStep

-------------------------------------------------------------------------------
(* The begin and the end of connections, and the invariant.                 *)

\* A session before it has read a command.
LEMMA Fresh ==
    ASSUME NEW ss \in {NewSession, [OverSession EXCEPT !.phase = "connecting"]}
    PROVE  /\ ss \in SessionRecords /\ ss.phase \in {"handling", "connecting"}
           /\ ss.matrixSize = 0 /\ ss.matrix = <<>> /\ ss.started = FALSE /\ ss.status = "DONE"
           /\ ss = NewSession => ss.phase = "handling"
           /\ ss # NewSession => ss.phase = "connecting"
  <1> DEFINE over == [NewSession EXCEPT !.phase = "gone"]
             new == [over EXCEPT !.phase = "connecting"]
  <1>1. <<>> \in Seq(Rows)
    BY EmptySeq
  <1>2. /\ NewSession \in SessionRecords
        /\ NewSession.phase = "handling" /\ NewSession.matrixSize = 0
        /\ NewSession.matrix = <<>> /\ NewSession.started = FALSE /\ NewSession.status = "DONE"
    BY <1>1 DEF NewSession, SessionRecords, Statuses
  <1>3. /\ over \in SessionRecords /\ over.matrixSize = 0
        /\ over.matrix = <<>> /\ over.started = FALSE /\ over.status = "DONE"
    BY <1>2 DEF SessionRecords
  <1> HIDE DEF over
  <1>4. /\ new \in SessionRecords /\ new.phase = "connecting" /\ new.matrixSize = 0
        /\ new.matrix = <<>> /\ new.started = FALSE /\ new.status = "DONE"
    BY <1>3 DEF SessionRecords
  <1>5. ss = NewSession \/ ss = new
    BY DEF OverSession, over
  <1> HIDE DEF new
  <1> QED  BY <1>2, <1>4, <1>5

\* Nothing has been asked of it.
LEMMA FreshIsOK ==
    ASSUME NEW ss, NEW n, NEW k, OneRequest(n), ss.matrixSize = 0, ss.matrix = <<>>,
           ss.started = FALSE, Busy(k) = {}, \A i \in Slots : BlocksOK(k[i])
    PROVE  SessionOK(n, ss, k)
  <1>1. Orderly(n, ss, k)
    BY DEF Orderly
  <1> QED  BY <1>1 DEF SessionOK

\* connect() keeps the invariant.
LEMMA ConnectStep ==
    ASSUME CalcInv, HoldInv, NEW c \in Clients, NEW s \in Sessions, Connect(c, s)
    PROVE  CalcInv'
  <1> DEFINE cl == client[c]
             n == net[s]
             k == calc[s]
             m == net'[s]
             st == [OverSession EXCEPT !.phase = "connecting"]
             y == [NoNet EXCEPT !.clientOpen = TRUE, !.serverOpen = TRUE]
  <1>1. /\ cl.conn = NoSession /\ ~n.serverOpen /\ ~n.clientOpen
        /\ session' = [session EXCEPT ![s].phase = "connecting"]
        /\ net' = [net EXCEPT ![s] = y]
        /\ client' = [client EXCEPT ![c].conn = s]
        /\ UNCHANGED <<calc, clients>>
    BY DEF Connect, ConnectToServer
  <1>2. /\ TypeInv /\ SessionOK(n, session[s], k) /\ Idle(cl)
        /\ cl \in ClientRecords
    BY <1>1 DEF CalcInv, TypeInv, SessionsOK, ClientsOK
  <1>3. session[s] = OverSession /\ Busy(k) = {}
    BY DEF Connect, HoldInv, Holding
  <1>4. /\ st \in SessionRecords /\ st.phase = "connecting" /\ st.matrixSize = 0
        /\ st.matrix = <<>> /\ st.started = FALSE
    <2>1. st # NewSession
      BY DEF OverSession, NewSession
    <2> HIDE DEF st
    <2>2. st \in {NewSession, [OverSession EXCEPT !.phase = "connecting"]}
      BY DEF st
    <2> QED  BY <2>1, <2>2, Fresh
  <1>5. session' = [session EXCEPT ![s] = st]
    BY <1>1, <1>2, <1>3 DEF TypeInv
  <1> HIDE DEF st
  <1>6. /\ session' \in [Sessions -> SessionRecords] /\ session'[s] = st
        /\ \A t \in Sessions \ {s} : session'[t] = session[t]
    BY <1>2, <1>4, <1>5 DEF TypeInv
  <1>7. y \in Nets /\ y.toServer = <<>> /\ y.toClient = <<>> /\ y.clientOpen /\ y.serverOpen
    <2>1. <<>> \in Seq(Commands) /\ <<>> \in Seq(Replies)
      BY EmptySeq
    <2>2. NoNet \in Nets /\ NoNet.toServer = <<>> /\ NoNet.toClient = <<>>
      BY <2>1 DEF NoNet, Nets
    <2> QED  BY <2>2 DEF Nets
  <1> HIDE DEF y
  <1>8. /\ net' \in [Sessions -> Nets] /\ m = y /\ \A t \in Sessions \ {s} : net'[t] = net[t]
    BY <1>1, <1>2, <1>7 DEF TypeInv
  <1>9. PICK new \in ClientRecords :
            /\ client' = [client EXCEPT ![c] = new]
            /\ new.conn = s /\ new.awaiting = cl.awaiting /\ new.next = cl.next
    <2>1. PICK r \in ClientRecords : r = cl
      BY <1>2
    <2> DEFINE new == [r EXCEPT !.conn = s]
    <2>2. new \in ClientRecords /\ new.conn = s /\ new.awaiting = r.awaiting /\ new.next = r.next
      BY DEF ClientRecords
    <2>3. client' = [client EXCEPT ![c] = new]
      BY <1>1, <1>2, <2>1 DEF TypeInv
    <2> QED  BY <2>1, <2>2, <2>3
  <1>10. client' \in [Clients -> ClientRecords] /\ client'[c] = new
         /\ \A d \in Clients \ {c} : client'[d] = client[d]
    BY <1>2, <1>9 DEF TypeInv
  <1>11. SessionOK(net'[s], session'[s], calc[s])
    <2>1. OneRequest(y)
      BY <1>7 DEF OneRequest
    <2>2. \A i \in Slots : BlocksOK(k[i])
      BY <1>2 DEF SessionOK
    <2>3. SessionOK(y, st, k)
      <3> HIDE DEF k, n, cl, m
      <3> QED  BY <1>3, <1>4, <2>1, <2>2, FreshIsOK
    <2> QED  BY <1>6, <1>8, <2>3
  <1>12. Connected(new, y, st, k)
    <2>1. Awaits(new, y) /\ ReplyFits(new, y)
      BY <1>7 DEF Awaits, ReplyFits
    <2>2. SizeFits(new, y.toServer, st.matrixSize)
      BY <1>4, <1>7 DEF SizeFits
    <2>3. new.next # "any" => ScriptOK(new, y, st, k)
      BY <1>2, <1>3, <1>7, <1>9 DEF Idle, ScriptOK
    <2> QED  BY <1>7, <2>1, <2>2, <2>3 DEF Connected
  <1>13. client'[c].conn = s /\ Connected(client'[c], net'[s], session'[s], calc[s])
    BY <1>6, <1>8, <1>9, <1>10, <1>12
  <1>14. ASSUME NEW d \in Clients \ {c} PROVE client[d].conn # s
    <2>1. client[d].conn = s => Connected(client[d], n, session[s], k)
      BY NoSessionAssumption DEF CalcInv, ClientsOK
    <2> QED  BY <1>1, <2>1 DEF Connected
  <1>15. TypeInv'
    BY <1>1, <1>2, <1>6, <1>8, <1>10 DEF TypeInv
  <1>16. client[c].conn \in {s, NoSession}
    BY <1>1
  <1> QED  BY <1>1, <1>6, <1>8, <1>10, <1>11, <1>13, <1>14, <1>15, <1>16, OnePair

\* acceptLoop() keeps the invariant: a session begins with nothing read.
LEMMA AcceptStep ==
    ASSUME CalcInv, HoldInv, NEW s \in Sessions, Accept(s)
    PROVE  CalcInv'
  <1> DEFINE n == net[s]
             ss == session[s]
             k == calc[s]
  <1>1. /\ ss.phase = "connecting" /\ session' = [session EXCEPT ![s] = NewSession]
        /\ clients' = clients \cup {s} /\ UNCHANGED <<client, net, calc>>
    BY DEF Accept, Accepts
  <1>2. TypeInv /\ SessionOK(n, ss, k)
    BY DEF CalcInv, SessionsOK
  <1>3. Busy(k) = {} /\ n.serverOpen /\ ss.matrixSize = 0
    BY <1>1 DEF HoldInv, Holding
  <1>4. PICK st \in SessionRecords :
            /\ st = NewSession /\ st.phase = "handling" /\ st.matrixSize = 0
            /\ st.matrix = <<>> /\ st.started = FALSE /\ st.status = "DONE"
    BY Fresh
  <1>5. /\ session' \in [Sessions -> SessionRecords] /\ session'[s] = st
        /\ \A t \in Sessions \ {s} : session'[t] = session[t]
    BY <1>1, <1>2, <1>4 DEF TypeInv
  <1>6. SessionOK(n, st, k)
    <2>1. OneRequest(n) /\ \A i \in Slots : BlocksOK(k[i])
      BY <1>2 DEF SessionOK
    <2> QED  BY <1>3, <1>4, <2>1, FreshIsOK
  <1>7. ASSUME NEW c \in Clients, client[c].conn = s
        PROVE  Connected(client[c], n, st, k)
    <2>1. Connected(client[c], n, ss, k) /\ Alive(n, ss)
      BY <1>1, <1>3, <1>7, NoSessionAssumption DEF CalcInv, ClientsOK, Alive
    <2>2. SizeFits(client[c], n.toServer, st.matrixSize)
      BY <1>3, <1>4, <2>1 DEF Connected
    <2>3. ASSUME client[c].next # "any" PROVE ScriptOK(client[c], n, st, k)
      <3>1. ScriptOK(client[c], n, ss, k) /\ ~Configured(ss, k) /\ ~Started(ss)
        BY <1>3, <2>1, <2>3, ScriptAssumption DEF Connected, Configured, Started
      <3> QED  BY <1>4, <3>1 DEF ScriptOK
    <2> QED  BY <2>1, <2>2, <2>3 DEF Connected
  <1>8. TypeInv'
    BY <1>1, <1>2, <1>5 DEF TypeInv
  <1>9. SessionOK(net'[s], session'[s], calc'[s])
    BY <1>1, <1>5, <1>6
  <1>10. \A t \in Sessions \ {s} : /\ net'[t] = net[t] /\ session'[t] = session[t]
                                   /\ calc'[t] = calc[t]
    BY <1>1, <1>5
  <1>11. \A c \in Clients : client[c].conn = s =>
             Connected(client[c], net'[s], session'[s], calc'[s])
    BY <1>1, <1>5, <1>7
  <1> QED  BY <1>1, <1>8, <1>9, <1>10, <1>11, OneSession

\* Sessions that read nothing more, whoever has closed their sockets, keep the
\* invariant.
LEMMA StopsReading ==
    ASSUME CalcInv, UNCHANGED <<client, calc>>, clients' \subseteq Sessions,
           net' \in [Sessions -> Nets], session' \in [Sessions -> SessionRecords],
           \A s \in Sessions :
              \/ net'[s] = net[s] /\ session'[s] = session[s]
              \/ /\ ~Alive(net'[s], session'[s]) /\ SessionOK(net'[s], session'[s], calc[s])
                 /\ net'[s].clientOpen = net[s].clientOpen
                 /\ net'[s].toClient = net[s].toClient
                 /\ net'[s].toServer = net[s].toServer \/ net'[s].toServer = <<>>
    PROVE  CalcInv'
  <1>1. TypeInv'
    BY DEF CalcInv, TypeInv
  <1>2. SessionsOK'
    <2> SUFFICES ASSUME NEW s \in Sessions PROVE SessionOK(net'[s], session'[s], calc[s])
      BY DEF SessionsOK
    <2>1. SessionOK(net[s], session[s], calc[s])
      BY DEF CalcInv, SessionsOK
    <2> QED  BY <2>1, Zenon
  <1>3. ASSUME NEW c \in Clients, NEW s \in Sessions,
               Connected(client[c], net[s], session[s], calc[s])
        PROVE  Connected(client[c], net'[s], session'[s], calc[s])
    <2>1. CASE net'[s] = net[s] /\ session'[s] = session[s]
      BY <1>3, <2>1
    <2>2. CASE /\ ~Alive(net'[s], session'[s])
               /\ net'[s].clientOpen = net[s].clientOpen
               /\ net'[s].toClient = net[s].toClient
               /\ net'[s].toServer = net[s].toServer \/ net'[s].toServer = <<>>
      BY <1>3, <2>2, NotAlive, Zenon
    <2> QED  BY <2>1, <2>2, Zenon
  <1>4. ClientsOK'
    <2>1. ASSUME NEW c \in Clients, client[c].conn # NoSession
          PROVE  Connected(client[c], net'[client[c].conn], session'[client[c].conn],
                           calc[client[c].conn])
      <3>1. PICK s \in Sessions : s = client[c].conn
        BY <2>1, Attached
      <3>2. Connected(client[c], net[s], session[s], calc[s])
        BY <2>1, <3>1 DEF CalcInv, ClientsOK
      <3>3. Connected(client[c], net'[s], session'[s], calc[s])
        BY <1>3, <3>2, Zenon
      <3> QED  BY <3>1, <3>3
    <2> QED  BY <2>1, Zenon DEF CalcInv, ClientsOK
  <1>5. Exclusive'
    BY Zenon DEF CalcInv, Exclusive
  <1> QED  BY <1>1, <1>2, <1>4, <1>5 DEF CalcInv

\* A session of which only the phase has changed, or whose socket has been closed.
LEMMA Muted ==
    ASSUME NEW n, NEW m, NEW ss, NEW st, NEW k, SessionOK(n, ss, k),
           m.toClient = n.toClient, m.toServer = n.toServer \/ m.toServer = <<>>,
           st.matrixSize = ss.matrixSize, st.matrix = ss.matrix, st.status = ss.status,
           st.started = ss.started, st.overlapped = ss.overlapped
    PROVE  SessionOK(m, st, k)
  <1>1. OneRequest(m)
    BY DEF SessionOK, OneRequest
  <1>2. ASSUME ~st.overlapped PROVE Orderly(m, st, k)
    <2>1. Orderly(n, ss, k)
      BY <1>2 DEF SessionOK
    <2>2. \A i \in Busy(k) : DoneSoFar(st, k[i])
      BY <2>1 DEF Orderly, DoneSoFar
    <2> QED  BY <2>1, <2>2 DEF Orderly
  <1> QED  BY <1>1, <1>2 DEF SessionOK

\* A connection that the server has closed.
LEMMA Closed ==
    ASSUME NEW n \in Nets, NEW m, m = [n EXCEPT !.serverOpen = FALSE, !.toServer = <<>>]
    PROVE  /\ m \in Nets /\ ~m.serverOpen /\ m.toServer = <<>>
           /\ m.toClient = n.toClient /\ m.clientOpen = n.clientOpen
  <1>1. PICK e \in Seq(Commands) : e = <<>>
    BY EmptySeq
  <1>2. m = [n EXCEPT !.serverOpen = FALSE, !.toServer = e]
    BY <1>1
  <1> QED  BY <1>1, <1>2 DEF Nets

\* An exception in acceptLoop() keeps the invariant.
LEMMA AcceptThrowsStep ==
    ASSUME CalcInv, HoldInv, NEW s \in Sessions, AcceptThrows(s)
    PROVE  CalcInv'
  <1> DEFINE waiting == {t \in Sessions : session[t].phase = "connecting"}
             st == [session[s] EXCEPT !.phase = "accepted"]
  <1>1. PICK lost \in {waiting, waiting \ {s}} :
            /\ session' = [t \in Sessions |->
                  IF t \in lost THEN OverSession ELSE IF t = s THEN st ELSE session[t]]
            /\ net' = [t \in Sessions |->
                  IF t \in lost THEN [net[t] EXCEPT !.serverOpen = FALSE, !.toServer = <<>>]
                                ELSE net[t]]
            /\ clients' = clients \/ clients' = clients \cup {s}
            /\ UNCHANGED <<client, calc>>
    BY Zenon DEF AcceptThrows
  <1>2. TypeInv /\ \A t \in Sessions : /\ net[t] \in Nets /\ session[t] \in SessionRecords
                                       /\ SessionOK(net[t], session[t], calc[t])
    BY DEF CalcInv, TypeInv, SessionsOK
  <1>3. lost \subseteq waiting
    BY <1>1
  <1>4. ASSUME NEW t \in lost
        PROVE  /\ t \in Sessions /\ session'[t] = OverSession /\ net'[t] \in Nets
               /\ OverSession \in SessionRecords /\ ~Alive(net'[t], OverSession)
               /\ SessionOK(net'[t], OverSession, calc[t])
               /\ net'[t].clientOpen = net[t].clientOpen
               /\ net'[t].toClient = net[t].toClient /\ net'[t].toServer = <<>>
    <2>1. t \in Sessions /\ session[t].phase = "connecting" /\ Busy(calc[t]) = {}
      BY <1>3 DEF HoldInv, Holding
    <2>2. /\ session'[t] = OverSession
          /\ net'[t] = [net[t] EXCEPT !.serverOpen = FALSE, !.toServer = <<>>]
      BY <1>1, <2>1, Zenon
    <2>3. /\ net'[t] \in Nets /\ net'[t].toServer = <<>>
          /\ net'[t].toClient = net[t].toClient /\ net'[t].clientOpen = net[t].clientOpen
      BY <1>2, <2>1, <2>2, Closed
    <2>4. net[t].toClient # <<>> => Len(net[t].toClient) = 1
      BY <1>2, <2>1 DEF SessionOK, OneRequest
    <2>5. \A i \in Slots : BlocksOK(calc[t][i])
      BY <1>2, <2>1 DEF SessionOK
    <2> QED  BY <2>1, <2>2, <2>3, <2>4, <2>5, OverIsOK
  <1>5. ASSUME s \notin lost
        PROVE  /\ session'[s] \in SessionRecords /\ net'[s] = net[s]
               /\ ~Alive(net'[s], session'[s]) /\ SessionOK(net'[s], session'[s], calc[s])
    <2>1. session'[s] = st /\ net'[s] = net[s]
      BY <1>1, <1>5, Zenon
    <2>2. /\ st \in SessionRecords /\ st.phase = "accepted"
          /\ st.matrixSize = session[s].matrixSize /\ st.matrix = session[s].matrix
          /\ st.status = session[s].status /\ st.started = session[s].started
          /\ st.overlapped = session[s].overlapped
      BY <1>2 DEF SessionRecords
    <2> HIDE DEF st
    <2>3. SessionOK(net[s], st, calc[s])
      BY <1>2, <2>2, Muted
    <2> QED  BY <2>1, <2>2, <2>3 DEF Alive
  <1>6. ASSUME NEW t \in Sessions, t \notin lost, t # s
        PROVE  session'[t] = session[t] /\ net'[t] = net[t]
    BY <1>1, <1>6, Zenon
  <1>7. clients' \subseteq Sessions
    BY <1>1, <1>2 DEF TypeInv
  <1> HIDE DEF waiting, st
  <1>8. net' \in [Sessions -> Nets]
    <2>1. \A t \in Sessions : net'[t] \in Nets
      BY <1>2, <1>4, <1>5, <1>6, Zenon
    <2> QED  BY <1>1, <2>1, Zenon
  <1>9. session' \in [Sessions -> SessionRecords]
    <2>1. \A t \in Sessions : session'[t] \in SessionRecords
      BY <1>2, <1>4, <1>5, <1>6, Zenon
    <2> QED  BY <1>1, <2>1, Zenon
  <1>10. ASSUME NEW t \in Sessions
         PROVE  \/ net'[t] = net[t] /\ session'[t] = session[t]
                \/ /\ ~Alive(net'[t], session'[t])
                   /\ SessionOK(net'[t], session'[t], calc[t])
                   /\ net'[t].clientOpen = net[t].clientOpen
                   /\ net'[t].toClient = net[t].toClient
                   /\ net'[t].toServer = net[t].toServer \/ net'[t].toServer = <<>>
    <2>1. CASE t \in lost
      BY <1>4, <2>1, Zenon
    <2>2. CASE t \notin lost /\ t = s
      BY <1>5, <2>2, Zenon
    <2>3. CASE t \notin lost /\ t # s
      BY <1>6, <2>3, Zenon
    <2> QED  BY <2>1, <2>2, <2>3
  <1> QED  BY <1>1, <1>7, <1>8, <1>9, <1>10, StopsReading

\* disconnect() in stop() keeps the invariant.
LEMMA DisconnectStep ==
    ASSUME CalcInv, NEW s \in Sessions, Disconnect(s)
    PROVE  CalcInv'
  <1> DEFINE m == [net[s] EXCEPT !.serverOpen = FALSE, !.toServer = <<>>]
  <1>1. net' = [net EXCEPT ![s] = m] /\ UNCHANGED <<client, session, calc, clients>>
    BY DEF Disconnect, ServerSide
  <1>2. TypeInv /\ net[s] \in Nets /\ SessionOK(net[s], session[s], calc[s])
    BY DEF CalcInv, TypeInv, SessionsOK
  <1>3. /\ m \in Nets /\ ~m.serverOpen /\ m.toServer = <<>>
        /\ m.toClient = net[s].toClient /\ m.clientOpen = net[s].clientOpen
    BY <1>2, Closed
  <1> HIDE DEF m
  <1>4. /\ net' \in [Sessions -> Nets] /\ net'[s] = m
        /\ \A t \in Sessions \ {s} : net'[t] = net[t]
    BY <1>1, <1>2, <1>3 DEF TypeInv
  <1>5. SessionOK(m, session[s], calc[s]) /\ ~Alive(m, session[s])
    BY <1>2, <1>3, Muted DEF Alive
  <1>6. session' \in [Sessions -> SessionRecords] /\ clients' \subseteq Sessions
    BY <1>1, <1>2 DEF TypeInv
  <1>7. ASSUME NEW t \in Sessions
        PROVE  \/ net'[t] = net[t] /\ session'[t] = session[t]
               \/ /\ ~Alive(net'[t], session'[t])
                  /\ SessionOK(net'[t], session'[t], calc[t])
                  /\ net'[t].clientOpen = net[t].clientOpen
                  /\ net'[t].toClient = net[t].toClient
                  /\ net'[t].toServer = net[t].toServer \/ net'[t].toServer = <<>>
    <2>1. CASE t = s
      BY <1>1, <1>3, <1>4, <1>5, <2>1, Zenon
    <2>2. CASE t # s
      BY <1>1, <1>4, <2>2
    <2> QED  BY <2>1, <2>2
  <1> QED  BY <1>1, <1>4, <1>6, <1>7, StopsReading

\* clients.clear() in stop() keeps the invariant.
LEMMA ClearClientsStep ==
    ASSUME CalcInv, HoldInv, ClearClients
    PROVE  CalcInv'
  <1> DEFINE Goes(s) == s \in clients /\ session[s].phase = "accepted"
  <1>1. /\ session' = [s \in Sessions |-> IF Goes(s) THEN OverSession ELSE session[s]]
        /\ clients' = {} /\ UNCHANGED <<client, net, calc>>
    BY Zenon DEF ClearClients
  <1>2. ASSUME NEW s \in Sessions
        PROVE  /\ net[s] \in Nets /\ session[s] \in SessionRecords
               /\ SessionOK(net[s], session[s], calc[s])
    BY DEF CalcInv, TypeInv, SessionsOK
  <1>3. ASSUME NEW s \in Sessions, Goes(s)
        PROVE  /\ session'[s] = OverSession /\ OverSession \in SessionRecords
               /\ ~Alive(net[s], OverSession) /\ SessionOK(net[s], OverSession, calc[s])
    <2>1. Busy(calc[s]) = {}
      BY <1>3 DEF HoldInv, Holding
    <2>2. OneRequest(net[s]) /\ \A i \in Slots : BlocksOK(calc[s][i])
      BY <1>2 DEF SessionOK
    <2>3. /\ OverSession \in SessionRecords /\ OverSession.phase = "gone"
          /\ OverSession.matrixSize = 0 /\ OverSession.matrix = <<>>
          /\ OverSession.started = FALSE
      BY OverFields
    <2>4. SessionOK(net[s], OverSession, calc[s])
      BY <2>1, <2>2, <2>3, FreshIsOK
    <2> QED  BY <1>1, <1>3, <2>3, <2>4 DEF Alive
  <1>4. ASSUME NEW s \in Sessions, ~Goes(s) PROVE session'[s] = session[s]
    BY <1>1, <1>4, Zenon
  <1> HIDE DEF Goes
  <1>5. session' \in [Sessions -> SessionRecords]
    <2>1. \A s \in Sessions : session'[s] \in SessionRecords
      BY <1>2, <1>3, <1>4, Zenon
    <2> QED  BY <1>1, <2>1, Zenon
  <1>6. net' \in [Sessions -> Nets] /\ clients' \subseteq Sessions
    BY <1>1 DEF CalcInv, TypeInv
  <1>7. ASSUME NEW s \in Sessions
        PROVE  \/ net'[s] = net[s] /\ session'[s] = session[s]
               \/ /\ ~Alive(net'[s], session'[s])
                  /\ SessionOK(net'[s], session'[s], calc[s])
                  /\ net'[s].clientOpen = net[s].clientOpen
                  /\ net'[s].toClient = net[s].toClient
                  /\ net'[s].toServer = net[s].toServer \/ net'[s].toServer = <<>>
    <2>1. net'[s] = net[s]
      BY <1>1
    <2>2. CASE Goes(s)
      BY <1>3, <2>1, <2>2
    <2>3. CASE ~Goes(s)
      BY <1>4, <2>1, <2>3
    <2> QED  BY <2>2, <2>3
  <1> QED  BY <1>1, <1>5, <1>6, <1>7, StopsReading

\* The end of the server process keeps the invariant: every session is over.
LEMMA ProcessEndsStep ==
    ASSUME CalcInv, ProcessEnds
    PROVE  CalcInv'
  <1> DEFINE idle == [i \in Slots |-> NoCalc]
  <1>1. /\ net' = [s \in Sessions |-> [net[s] EXCEPT !.serverOpen = FALSE, !.toServer = <<>>]]
        /\ session' = [s \in Sessions |-> OverSession]
        /\ calc' = [s \in Sessions |-> idle]
        /\ clients' = {} /\ UNCHANGED client
    BY Zenon DEF ProcessEnds
  <1>2. ASSUME NEW s \in Sessions
        PROVE  /\ net'[s] \in Nets /\ net'[s].toServer = <<>>
               /\ net'[s].toClient = net[s].toClient /\ net'[s].clientOpen = net[s].clientOpen
               /\ session'[s] = OverSession /\ calc'[s] = idle
    <2>1. net[s] \in Nets /\ <<>> \in Seq(Commands)
      BY EmptySeq DEF CalcInv, TypeInv
    <2> DEFINE y == [net[s] EXCEPT !.serverOpen = FALSE, !.toServer = <<>>]
    <2>2. /\ y \in Nets /\ y.toServer = <<>>
          /\ y.toClient = net[s].toClient /\ y.clientOpen = net[s].clientOpen
      BY <2>1 DEF Nets
    <2>3. net'[s] = y
      BY <1>1, Zenon
    <2> HIDE DEF y
    <2> QED  BY <1>1, <2>2, <2>3, Zenon
  <1>3. idle \in [Slots -> Calcs] /\ Busy(idle) = {} /\ \A i \in Slots : BlocksOK(idle[i])
    BY DEF NoCalc, Calcs, Busy, BlocksOK
  <1> HIDE DEF idle
  <1>4. ASSUME NEW s \in Sessions
        PROVE  /\ OverSession \in SessionRecords /\ ~Alive(net'[s], OverSession)
               /\ SessionOK(net'[s], session'[s], calc'[s])
    <2>1. net[s].toClient # <<>> => Len(net[s].toClient) = 1
      BY DEF CalcInv, SessionsOK, SessionOK, OneRequest
    <2> QED  BY <1>2, <1>3, <2>1, OverIsOK
  <1>5. SessionsOK'
    BY <1>4 DEF SessionsOK
  <1>6. ClientsOK'
    <2>1. ASSUME NEW c \in Clients, client[c].conn # NoSession
          PROVE  Connected(client[c], net'[client[c].conn], session'[client[c].conn],
                           calc'[client[c].conn])
      <3>1. PICK s \in Sessions : s = client[c].conn
        BY <2>1, Attached
      <3>2. Connected(client[c], net[s], session[s], calc[s])
        BY <2>1, <3>1 DEF CalcInv, ClientsOK
      <3>3. Connected(client[c], net'[s], session'[s], calc'[s])
        BY <1>2, <1>4, <3>2, NotAlive, Zenon
      <3> QED  BY <3>1, <3>3
    <2> QED  BY <1>1, <2>1, Zenon DEF CalcInv, ClientsOK
  <1>7. TypeInv'
    <2>1. net' \in [Sessions -> Nets]
      BY <1>1, <1>2, Zenon
    <2>2. session' \in [Sessions -> SessionRecords]
      BY <1>1, <1>4, Zenon
    <2>3. calc' \in [Sessions -> [Slots -> Calcs]]
      BY <1>1, <1>3, Zenon
    <2> QED  BY <1>1, <2>1, <2>2, <2>3, Zenon DEF CalcInv, TypeInv
  <1>8. Exclusive'
    BY <1>1, Zenon DEF CalcInv, Exclusive
  <1> QED  BY <1>5, <1>6, <1>7, <1>8 DEF CalcInv

\* The invariant holds before the server is started.
LEMMA InitInv == Init => CalcInv
  <1> SUFFICES ASSUME Init PROVE CalcInv
    OBVIOUS
  <1> DEFINE idle == [i \in Slots |-> NoCalc]
  <1>1. /\ client \in [Clients -> {NewClient("any"), NewClient("config")}]
        /\ net = [s \in Sessions |-> NoNet] /\ session = [s \in Sessions |-> OverSession]
        /\ calc = [s \in Sessions |-> idle] /\ clients = {}
    BY DEF Init
  <1>2. NoNet \in Nets /\ NoNet.toServer = <<>> /\ NoNet.toClient = <<>>
    <2>1. <<>> \in Seq(Commands) /\ <<>> \in Seq(Replies)
      BY EmptySeq
    <2> QED  BY <2>1 DEF NoNet, Nets
  <1>3. idle \in [Slots -> Calcs] /\ Busy(idle) = {} /\ \A i \in Slots : BlocksOK(idle[i])
    BY DEF NoCalc, Calcs, Busy, BlocksOK
  <1> HIDE DEF idle
  <1>4. OverSession \in SessionRecords /\ SessionOK(NoNet, OverSession, idle)
    BY <1>2, <1>3, OverIsOK
  <1>5. ASSUME NEW c \in Clients
        PROVE  client[c] \in ClientRecords /\ client[c].conn = NoSession /\ Idle(client[c])
    <2>1. client[c] \in {NewClient("any"), NewClient("config")}
      BY <1>1
    <2> QED  BY <2>1, NewClientFields
  <1>6. TypeInv
    <2>1. client \in [Clients -> ClientRecords]
      BY <1>1, <1>5
    <2>2. net \in [Sessions -> Nets] /\ session \in [Sessions -> SessionRecords]
      BY <1>1, <1>2, <1>4
    <2>3. calc \in [Sessions -> [Slots -> Calcs]]
      BY <1>1, <1>3
    <2> QED  BY <1>1, <2>1, <2>2, <2>3 DEF TypeInv
  <1>7. SessionsOK
    BY <1>1, <1>4 DEF SessionsOK
  <1>8. ClientsOK /\ Exclusive
    BY <1>5 DEF ClientsOK, Exclusive
  <1> QED  BY <1>6, <1>7, <1>8 DEF CalcInv

\* Every step keeps the invariant.
LEMMA NextInv == CalcInv /\ HoldInv /\ [Next]_vars => CalcInv'
  <1> SUFFICES ASSUME CalcInv, HoldInv, [Next]_vars PROVE CalcInv'
    OBVIOUS
  <1>1. ASSUME NEW c \in Clients, Call(c) PROVE CalcInv'
    <2>1. CASE \E size \in Sizes \cup {MATRIX_SIZE}, threads \in ThreadCounts \cup {THREADS} :
                  SendConfig(c, size, threads)
      BY <2>1, SendConfigStep
    <2>2. CASE SendStart(c)
      BY <2>2, SendStartStep
    <2>3. CASE AskStatus(c) \/ AskResult(c)
      BY <2>3, AskSteps
    <2>4. CASE EndSession(c)
      BY <2>4, EndSessionStep
    <2>5. CASE SendFails(c)
      BY <2>5, LoseServerStep
    <2> QED  BY <1>1, <2>1, <2>2, <2>3, <2>4, <2>5 DEF Call
  <1>2. ASSUME NEW c \in Clients, Returns(c) PROVE CalcInv'
    BY <1>2, ReceiveReplyStep, LoseServerStep DEF Returns
  <1>3. ASSUME NEW c \in Clients, Vanish(c) PROVE CalcInv'
    BY <1>3, VanishStep
  <1>4. ASSUME NEW c \in Clients, NEW s \in Sessions, Connect(c, s) PROVE CalcInv'
    BY <1>4, ConnectStep
  <1>5. ASSUME NEW s \in Sessions, Accept(s) \/ AcceptThrows(s) PROVE CalcInv'
    BY <1>5, AcceptStep, AcceptThrowsStep
  <1>6. ASSUME NEW s \in Sessions, SessionStep(s) PROVE CalcInv'
    BY <1>6, ProcessConfigStep, HandleThrowsStep, IgnoreStartStep, ProcessStartStep,
       ProcessStatusStep, ProcessResultStep, LeaveHandleStep, RemoveClientStep
       DEF SessionStep
  <1>7. ASSUME NEW s \in Sessions, CalcStep(s) PROVE CalcInv'
    <2>1. PICK i \in Busy(calc[s]) :
              \/ BeginCalculate(s, i) \/ CalculateThrows(s, i) \/ FinishCalculate(s, i)
              \/ /\ calc[s][i].pc = "running"
                 /\ \E t \in DOMAIN calc[s][i].next : CalculateRow(s, i, t)
      BY <1>7, RunningIsBusy DEF CalcStep
    <2> QED  BY <2>1, BeginCalculateStep, CalculateThrowsStep, FinishCalculateStep,
                CalculateRowStep
  <1>8. ASSUME Start \/ vars' = vars PROVE CalcInv'
    <2>1. UNCHANGED <<client, net, session, calc, clients>>
      BY <1>8 DEF Start, vars
    <2>2. TypeInv' /\ SessionsOK'
      BY <2>1 DEF CalcInv, TypeInv, SessionsOK
    <2>3. ClientsOK' /\ Exclusive'
      BY <2>1 DEF CalcInv, ClientsOK, Exclusive
    <2> QED  BY <2>2, <2>3 DEF CalcInv
  <1>9. ASSUME Crash \/ StopStep PROVE CalcInv'
    BY <1>9, DisconnectStep, ClearClientsStep, ProcessEndsStep DEF Crash, StopStep, Exit
  <1> QED  BY <1>1, <1>2, <1>3, <1>4, <1>5, <1>6, <1>7, <1>8, <1>9 DEF Next

-------------------------------------------------------------------------------
(* Who holds a session.                                                     *)

\* Nobody is connected before the server is started.
LEMMA InitHold == Init => HoldInv
  <1> SUFFICES ASSUME Init PROVE HoldInv
    OBVIOUS
  <1>1. /\ net = [s \in Sessions |-> NoNet] /\ session = [s \in Sessions |-> OverSession]
        /\ calc = [s \in Sessions |-> [k \in Slots |-> NoCalc]]
        /\ clients = {} /\ serverUp = FALSE /\ stopping = "no"
    BY DEF Init
  <1>2. ASSUME NEW s \in Sessions PROVE Holding(s)
    <2>1. /\ session[s] = OverSession /\ Busy(calc[s]) = {} /\ net[s].serverOpen = FALSE
      BY <1>1 DEF Busy, NoCalc, NoNet
    <2> QED  BY <1>1, <2>1, OverFields DEF Holding
  <1> QED  BY <1>1, <1>2 DEF HoldInv

\* A session that is let go, or lost, is over, and its socket is closed.
LEMMA HoldOver ==
    ASSUME NEW s \in Sessions, s \notin clients', session'[s] = OverSession,
           ~net'[s].serverOpen, Busy(calc'[s]) = {}
    PROVE  Holding(s)'
  BY OverFields DEF Holding

\* A session whose thread or calculations go on: its thread may leave handle(), and
\* after removeClient() a calculation holds it.
LEMMA HoldOn ==
    ASSUME NEW s \in Sessions, Holding(s), serverUp', stopping' = stopping,
           s \in clients' <=> s \in clients,
           session[s].phase \in {"handling", "removing"} \/ Busy(calc[s]) # {},
           \/ session'[s].phase = session[s].phase
           \/ session[s].phase = "handling" /\ session'[s].phase = "removing",
           net'[s].serverOpen = net[s].serverOpen,
           session'[s].phase # "gone" \/ Busy(calc'[s]) # {}
    PROVE  Holding(s)'
  <1>1. session[s].phase \notin {"connecting", "accepted"}
    BY DEF Holding
  <1>2. ~net[s].serverOpen => (stopping = "disconnecting" /\ s \in clients) \/ stopping = "cleared"
    BY OverFields DEF Holding
  <1> QED  BY <1>1, <1>2 DEF Holding

\* A session that a step leaves alone.
LEMMA HoldSame ==
    ASSUME NEW s \in Sessions, Holding(s), serverUp' = serverUp, stopping' = stopping,
           s \in clients' <=> s \in clients, session'[s] = session[s], calc'[s] = calc[s],
           net'[s].serverOpen = net[s].serverOpen
    PROVE  Holding(s)'
  BY DEF Holding

\* Clients neither open nor close the server's end, once they are connected.
LEMMA HoldByClient ==
    ASSUME CalcInv, HoldInv, NEW c \in Clients, Call(c) \/ Returns(c) \/ Vanish(c)
    PROVE  HoldInv'
  <1>1. net \in [Sessions -> Nets]
    BY DEF CalcInv, TypeInv
  <1>2. UNCHANGED <<session, calc, clients, serverUp, stopping>>
    BY Zenon DEF Call, Returns, Vanish, SendConfig, SendStart, AskStatus, AskResult, EndSession,
           SendFails, ReceiveReply, LoseServer, Throws, Transmit, ServerSide
  <1>3. ASSUME NEW s \in Sessions PROVE net'[s].serverOpen = net[s].serverOpen
    <2>1. CASE \/ \E size \in Sizes \cup {MATRIX_SIZE}, threads \in ThreadCounts \cup {THREADS} :
                      SendConfig(c, size, threads)
               \/ SendStart(c) \/ AskStatus(c) \/ AskResult(c)
      <3>1. PICK t, x : net' = [net EXCEPT ![t].toServer = x]
        BY <2>1, Zenon DEF SendConfig, SendStart, AskStatus, AskResult, Transmit
      <3> QED  BY <1>1, <3>1 DEF Nets
    <2>2. CASE ReceiveReply(c)
      BY <1>1, <2>2 DEF ReceiveReply, Nets
    <2>3. ASSUME NEW t, NEW x,
                 net' = [net EXCEPT ![t].clientOpen = FALSE, ![t].toClient = <<>>,
                                    ![t].toServer = x]
          PROVE  net'[s].serverOpen = net[s].serverOpen
      BY <1>1, <2>3 DEF Nets
    <2>4. CASE EndSession(c)
      BY <2>3, <2>4, Zenon DEF EndSession
    <2>5. CASE SendFails(c) \/ LoseServer(c)
      <3>1. Throws(c)
        BY <2>5 DEF SendFails, LoseServer
      <3> QED  BY <2>3, <3>1, Zenon DEF Throws
    <2>6. CASE Vanish(c)
      BY <2>3, <2>6, Zenon DEF Vanish
    <2> QED  BY <2>1, <2>2, <2>4, <2>5, <2>6 DEF Call, Returns
  <1>4. ASSUME NEW s \in Sessions PROVE Holding(s)'
    BY <1>2, <1>3, HoldSame DEF HoldInv
  <1> QED  BY <1>2, <1>4 DEF HoldInv

\* connect() finds a connection that is not in use.
LEMMA HoldByConnect ==
    ASSUME CalcInv, HoldInv, NEW c \in Clients, NEW s \in Sessions, Connect(c, s)
    PROVE  HoldInv'
  <1>0. session \in [Sessions -> SessionRecords] /\ net \in [Sessions -> Nets]
    BY DEF CalcInv, TypeInv
  <1>1. /\ UNCHANGED <<calc, clients, serverUp, stopping>> /\ serverUp /\ stopping = "no"
        /\ session[s].phase = "gone" /\ ~net[s].serverOpen
        /\ session' = [session EXCEPT ![s].phase = "connecting"]
        /\ net' = [net EXCEPT ![s] = [NoNet EXCEPT !.clientOpen = TRUE, !.serverOpen = TRUE]]
    BY DEF Connect, ConnectToServer
  <1>2. session[s] = OverSession /\ Busy(calc[s]) = {} /\ s \notin clients
    BY <1>1 DEF HoldInv, Holding
  <1>3. session'[s].phase = "connecting" /\ session'[s].matrixSize = 0 /\ net'[s].serverOpen
    BY <1>0, <1>1, <1>2, OverFields DEF SessionRecords, NoNet
  <1>4. Holding(s)'
    BY <1>1, <1>2, <1>3 DEF Holding
  <1>5. ASSUME NEW t \in Sessions \ {s} PROVE Holding(t)'
    BY <1>0, <1>1, HoldSame DEF HoldInv
  <1> QED  BY <1>1, <1>4, <1>5 DEF HoldInv

\* accept() returns, and the thread of the session and its entry in the list begin.
LEMMA HoldByAccept ==
    ASSUME CalcInv, HoldInv, NEW s \in Sessions, Accept(s)
    PROVE  HoldInv'
  <1>0. session \in [Sessions -> SessionRecords]
    BY DEF CalcInv, TypeInv
  <1>1. /\ UNCHANGED <<calc, net, serverUp, stopping>> /\ serverUp /\ stopping = "no"
        /\ session[s].phase = "connecting" /\ clients' = clients \cup {s}
        /\ session' = [session EXCEPT ![s] = NewSession]
    BY DEF Accept, Accepts
  <1>2. net[s].serverOpen /\ Busy(calc[s]) = {}
    BY <1>1 DEF HoldInv, Holding
  <1>3. session'[s].phase = "handling"
    BY <1>0, <1>1, Fresh
  <1>4. Holding(s)'
    BY <1>1, <1>2, <1>3 DEF Holding
  <1>5. ASSUME NEW t \in Sessions \ {s} PROVE Holding(t)'
    BY <1>0, <1>1, HoldSame DEF HoldInv
  <1> QED  BY <1>1, <1>4, <1>5 DEF HoldInv

\* An exception in acceptLoop(): what waited in the backlog is lost, and stop() has the
\* list before it.
LEMMA HoldByAcceptThrows ==
    ASSUME CalcInv, HoldInv, NEW s \in Sessions, AcceptThrows(s)
    PROVE  HoldInv'
  <1> DEFINE waiting == {t \in Sessions : session[t].phase = "connecting"}
             st == [session[s] EXCEPT !.phase = "accepted"]
  <1>1. /\ serverUp /\ serverUp' /\ stopping = "no" /\ stopping' = "disconnecting"
        /\ session[s].phase = "connecting" /\ calc' = calc
    BY DEF AcceptThrows, Accepts
  <1>2. PICK lost \in {waiting, waiting \ {s}} :
            /\ session' = [t \in Sessions |->
                  IF t \in lost THEN OverSession ELSE IF t = s THEN st ELSE session[t]]
            /\ net' = [t \in Sessions |->
                  IF t \in lost THEN [net[t] EXCEPT !.serverOpen = FALSE, !.toServer = <<>>]
                                ELSE net[t]]
            /\ clients' = clients \/ (clients' = clients \cup {s} /\ s \notin lost)
    BY Zenon DEF AcceptThrows
  <1>3. ASSUME NEW t \in Sessions
        PROVE  Holding(t) /\ net[t] \in Nets /\ session[t] \in SessionRecords
    BY DEF HoldInv, CalcInv, TypeInv
  <1>4. ASSUME NEW t \in lost PROVE Holding(t)'
    <2>1. t \in Sessions /\ session[t].phase = "connecting"
      BY <1>2
    <2>2. Busy(calc'[t]) = {} /\ t \notin clients'
      BY <1>1, <1>2, <1>3, <1>4, <2>1 DEF Holding
    <2>3. /\ session'[t] = OverSession
          /\ net'[t] = [net[t] EXCEPT !.serverOpen = FALSE, !.toServer = <<>>]
      BY <1>2, <1>4, <2>1, Zenon
    <2>4. ~net'[t].serverOpen
      BY <1>3, <2>1, <2>3, Closed
    <2> QED  BY <2>1, <2>2, <2>3, <2>4, HoldOver
  <1>5. ASSUME s \notin lost PROVE Holding(s)'
    <2>1. session'[s] = st /\ net'[s] = net[s]
      BY <1>2, <1>5, Zenon
    <2>2. st.phase = "accepted"
      BY <1>3 DEF SessionRecords
    <2> HIDE DEF st
    <2> QED  BY <1>1, <1>3, <2>1, <2>2 DEF Holding
  <1>6. ASSUME NEW t \in Sessions, t \notin lost, t # s PROVE Holding(t)'
    <2>1. session'[t] = session[t] /\ net'[t] = net[t]
      BY <1>2, <1>6, Zenon
    <2>2. session[t].phase # "connecting" /\ (t \in clients' <=> t \in clients)
      BY <1>2, <1>6
    <2> QED  BY <1>1, <1>3, <2>1, <2>2 DEF Holding
  <1>7. \A t \in Sessions : Holding(t)'
    BY <1>4, <1>5, <1>6
  <1> QED  BY <1>1, <1>7 DEF HoldInv

\* disconnect() of a session in the list.
LEMMA HoldByDisconnect ==
    ASSUME CalcInv, HoldInv, NEW s \in Sessions, Disconnect(s)
    PROVE  HoldInv'
  <1>0. net \in [Sessions -> Nets] /\ net[s] \in Nets
    BY DEF CalcInv, TypeInv
  <1>1. /\ UNCHANGED <<session, calc, clients, serverUp, stopping>>
        /\ stopping = "disconnecting" /\ s \in clients
        /\ net' = [net EXCEPT ![s] = [@ EXCEPT !.serverOpen = FALSE, !.toServer = <<>>]]
    BY DEF Disconnect, ServerSide
  <1>2. net'[s].serverOpen = FALSE
    BY <1>0, <1>1 DEF Nets
  <1>3. session[s].phase # "connecting"
    BY <1>1 DEF HoldInv, Holding
  <1>4. Holding(s)'
    BY <1>1, <1>2, <1>3 DEF HoldInv, Holding
  <1>5. ASSUME NEW t \in Sessions \ {s} PROVE Holding(t)'
    BY <1>0, <1>1, HoldSame DEF HoldInv
  <1> QED  BY <1>1, <1>4, <1>5 DEF HoldInv

\* clients.clear(): every socket in the list has been closed.
LEMMA HoldByClear ==
    ASSUME CalcInv, HoldInv, ClearClients
    PROVE  HoldInv'
  <1>1. /\ stopping = "disconnecting" /\ stopping' = "cleared" /\ clients' = {}
        /\ UNCHANGED <<net, calc, serverUp>>
        /\ \A s \in clients : ~net[s].serverOpen
        /\ session' = [s \in Sessions |->
              IF s \in clients /\ session[s].phase = "accepted" THEN OverSession
                                                                ELSE session[s]]
    BY Zenon DEF ClearClients
  <1>2. ASSUME NEW s \in Sessions PROVE Holding(s)'
    <2>1. Holding(s)
      BY DEF HoldInv
    <2>2. CASE s \in clients /\ session[s].phase = "accepted"
      <3>1. session'[s] = OverSession /\ ~net'[s].serverOpen /\ Busy(calc'[s]) = {}
        BY <1>1, <2>1, <2>2 DEF Holding
      <3> QED  BY <1>1, <3>1, HoldOver
    <2>3. CASE ~(s \in clients /\ session[s].phase = "accepted")
      <3>1. session'[s] = session[s]
        BY <1>1, <2>3, Zenon
      <3> QED  BY <1>1, <2>1, <3>1 DEF Holding
    <2> QED  BY <2>2, <2>3
  <1> QED  BY <1>1, <1>2 DEF HoldInv

\* The process ends, and holds nothing.
LEMMA HoldByEnd ==
    ASSUME CalcInv, HoldInv, ProcessEnds
    PROVE  HoldInv'
  <1>1. clients' = {} /\ stopping' = "no"
    BY DEF ProcessEnds
  <1>2. ASSUME NEW s \in Sessions PROVE Holding(s)'
    <2>1. /\ session'[s] = OverSession
          /\ net'[s] = [net[s] EXCEPT !.serverOpen = FALSE, !.toServer = <<>>]
          /\ calc'[s] = [k \in Slots |-> NoCalc]
      BY Zenon DEF ProcessEnds
    <2>2. net[s] \in Nets
      BY DEF CalcInv, TypeInv
    <2>3. ~net'[s].serverOpen
      BY <2>1, <2>2, Closed
    <2>4. Busy(calc'[s]) = {}
      BY <2>1 DEF Busy, NoCalc
    <2> QED  BY <1>1, <2>1, <2>3, <2>4, HoldOver
  <1> QED  BY <1>1, <1>2 DEF HoldInv

\* The thread of a session and its calculations close the socket as the last one goes.
LEMMA HoldBySession ==
    ASSUME CalcInv, HoldInv, NEW s \in Sessions, SessionStep(s) \/ CalcStep(s)
    PROVE  Holding(s)'
  <1>0. /\ session \in [Sessions -> SessionRecords] /\ net \in [Sessions -> Nets]
        /\ calc \in [Sessions -> [Slots -> Calcs]] /\ session[s] \in SessionRecords
        /\ net[s] \in Nets
        /\ serverUp' /\ stopping' = stopping /\ Holding(s)
    <2>1. serverUp /\ serverUp' = serverUp /\ stopping' = stopping
      BY Zenon DEF SessionStep, CalcStep, ProcessConfig, HandleThrows,
           IgnoreStart, ProcessStart, ProcessStatus, ProcessResult, LeaveHandle, RemoveClient,
           BeginCalculate, CalculateThrows, FinishCalculate, CalculateRow, Finish, Receives,
           ServerSide
    <2> QED  BY <2>1 DEF CalcInv, TypeInv, HoldInv
  <1>1. ASSUME Consume(s) \/ \E replies : ConsumeAndReply(s, replies)
        PROVE  net'[s].serverOpen = net[s].serverOpen
    BY <1>0, <1>1 DEF Consume, ConsumeAndReply, Nets
  <1>2. CASE ProcessConfig(s)
    <2>1. session'[s].phase = "handling" /\ session[s].phase = "handling" /\ clients' = clients
      BY <1>0, <1>2 DEF ProcessConfig, NewSession, Receives
    <2>2. net'[s].serverOpen = net[s].serverOpen
      BY <1>1, <1>2 DEF ProcessConfig
    <2> QED  BY <1>0, <2>1, <2>2, HoldOn
  <1>3. CASE HandleThrows(s) \/ LeaveHandle(s)
    <2>1. session'[s].phase = "removing" /\ session[s].phase = "handling" /\ clients' = clients
      <3>1. CASE HandleThrows(s)
        BY <1>0, <3>1 DEF HandleThrows, SessionRecords, Receives
      <3>2. CASE LeaveHandle(s)
        BY <1>0, <3>2 DEF LeaveHandle, SessionRecords
      <3> QED  BY <1>3, <3>1, <3>2
    <2>2. net'[s].serverOpen = net[s].serverOpen
      BY <1>1, <1>3 DEF HandleThrows, LeaveHandle
    <2> QED  BY <1>0, <2>1, <2>2, HoldOn
  <1>4. CASE IgnoreStart(s) \/ ProcessStart(s) \/ ProcessStatus(s) \/ ProcessResult(s)
    <2>1. session'[s].phase = "handling" /\ session[s].phase = "handling" /\ clients' = clients
      <3>1. CASE ProcessStart(s)
        BY <1>0, <3>1 DEF ProcessStart, Receives, SessionRecords
      <3>2. CASE IgnoreStart(s) \/ ProcessStatus(s) \/ ProcessResult(s)
        BY <3>2 DEF IgnoreStart, ProcessStatus, ProcessResult, Receives, ServerSide
      <3> QED  BY <1>4, <3>1, <3>2
    <2>2. net'[s].serverOpen = net[s].serverOpen
      BY <1>1, <1>4 DEF IgnoreStart, ProcessStart, ProcessStatus, ProcessResult
    <2> QED  BY <1>0, <2>1, <2>2, HoldOn
  <1>5. CASE RemoveClient(s)
    <2>0. s \notin clients' /\ calc' = calc /\ stopping # "disconnecting"
      BY <1>5 DEF RemoveClient
    <2>1. CASE Running(s) = {}
      <3>1. /\ session' = [session EXCEPT ![s] = OverSession]
            /\ net' = [net EXCEPT ![s].serverOpen = FALSE, ![s].toServer = <<>>]
        BY <1>5, <2>1 DEF RemoveClient, Held, Destroy
      <3>2. session'[s] = OverSession /\ ~net'[s].serverOpen
        BY <1>0, <3>1 DEF Nets
      <3> QED  BY <2>0, <2>1, <3>2, RunningIsBusy, HoldOver
    <2>2. CASE Running(s) # {}
      <3>1. /\ Busy(calc[s]) # {} /\ net' = net
            /\ session' = [session EXCEPT ![s].phase = "gone"]
        BY <1>5, <2>2, RunningIsBusy DEF RemoveClient, Held
      <3>2. session'[s].phase = "gone"
        BY <1>0, <3>1 DEF SessionRecords
      <3> QED  BY <1>0, <2>0, <3>1, <3>2 DEF Holding
    <2> QED  BY <2>1, <2>2
  <1>6. CASE CalcStep(s)
    <2>1. PICK k \in Running(s) :
              \/ BeginCalculate(s, k) \/ CalculateThrows(s, k) \/ FinishCalculate(s, k)
              \/ /\ calc[s][k].pc = "running"
                 /\ \E i \in DOMAIN calc[s][k].next : CalculateRow(s, k, i)
      BY <1>6 DEF CalcStep
    <2>2. /\ k \in Slots /\ calc[s][k].pc # "none" /\ calc[s][k] \in Calcs
          /\ Busy(calc[s]) # {}
      BY <1>0, RunningIsBusy DEF Running
    <2>3. CASE BeginCalculate(s, k)
      <3>1. calc'[s][k].pc = "running" /\ UNCHANGED <<session, net, clients>>
        BY <1>0, <2>2, <2>3 DEF BeginCalculate
      <3>2. k \in Busy(calc'[s])
        BY <2>2, <3>1 DEF Busy
      <3> QED  BY <1>0, <2>2, <3>1, <3>2, HoldOn
    <2>4. CASE calc[s][k].pc = "running" /\ \E i \in DOMAIN calc[s][k].next : CalculateRow(s, k, i)
      <3>1. PICK i \in DOMAIN calc[s][k].next : CalculateRow(s, k, i)
        BY <2>4
      <3>2. calc' = [calc EXCEPT ![s][k].next[i] = @ + 1]
        BY <3>1 DEF CalculateRow
      <3>3. calc'[s][k] = [calc[s][k] EXCEPT !.next[i] = @ + 1]
        BY <1>0, <2>2, <3>2
      <3>4. calc'[s][k].pc = calc[s][k].pc
        BY <2>2, <2>4, <3>3 DEF Calcs, NoCalc
      <3>5. k \in Busy(calc'[s])
        BY <2>2, <3>4 DEF Busy
      <3>6. UNCHANGED <<net, clients>> /\ session'[s].phase = session[s].phase
        <4>1. UNCHANGED <<net, clients>>
              /\ (\/ session' = session
                  \/ \E row, v : session' = [session EXCEPT ![s].matrix[row] = v])
          BY <3>1, Zenon DEF CalculateRow
        <4> QED  BY <1>0, <4>1 DEF SessionRecords
      <3> QED  BY <1>0, <2>2, <3>5, <3>6, HoldOn
    <2>5. CASE CalculateThrows(s, k) \/ FinishCalculate(s, k)
      <3>1. PICK status : Finish(s, k, status)
        BY <2>5 DEF CalculateThrows, FinishCalculate
      <3>0. clients' = clients /\ calc' = [calc EXCEPT ![s][k] = NoCalc]
        BY <3>1 DEF Finish
      <3>2. CASE LastHold(s, k)
        <4>1. /\ session' = [session EXCEPT ![s] = OverSession]
              /\ net' = [net EXCEPT ![s].serverOpen = FALSE, ![s].toServer = <<>>]
          BY <3>1, <3>2, Zenon DEF Finish, Destroy
        <4>2. session'[s] = OverSession /\ ~net'[s].serverOpen
          BY <1>0, <4>1 DEF Nets
        <4>3. Busy(calc'[s]) = {}
          <5>1. \A j \in Slots \ {k} : calc[s][j].pc = "none"
            BY <3>2 DEF LastHold, Running
          <5>2. calc'[s] = [calc[s] EXCEPT ![k] = NoCalc]
            BY <1>0, <3>0
          <5> QED  BY <1>0, <5>1, <5>2 DEF Busy, NoCalc
        <4>4. s \notin clients'
          BY <1>0, <3>0, <3>2 DEF Holding, LastHold
        <4> QED  BY <4>2, <4>3, <4>4, HoldOver
      <3>3. CASE ~LastHold(s, k)
        <4>1. session'[s].phase = session[s].phase /\ net' = net
          BY <1>0, <3>1, <3>3 DEF Finish, SessionRecords
        <4>2. session[s].phase # "gone" \/ Busy(calc'[s]) # {}
          <5>1. CASE session[s].phase = "gone"
            <6>1. PICK j \in Running(s) : j # k
              BY <3>3, <5>1 DEF LastHold
            <6>2. calc'[s][j] = calc[s][j]
              BY <1>0, <2>2, <3>0, <6>1
            <6>3. j \in Busy(calc'[s])
              BY <6>1, <6>2 DEF Running, Busy
            <6> QED  BY <6>3
          <5> QED  BY <5>1
        <4> QED  BY <1>0, <2>2, <3>0, <4>1, <4>2, HoldOn
      <3> QED  BY <3>2, <3>3
    <2> QED  BY <2>1, <2>3, <2>4, <2>5
  <1> QED  BY <1>2, <1>3, <1>4, <1>5, <1>6 DEF SessionStep

\* They leave the other sessions alone.
LEMMA HoldOthers ==
    ASSUME CalcInv, HoldInv, NEW s \in Sessions, SessionStep(s) \/ CalcStep(s),
           NEW t \in Sessions \ {s}
    PROVE  Holding(t)'
  <1>0. /\ session \in [Sessions -> SessionRecords] /\ net \in [Sessions -> Nets]
        /\ calc \in [Sessions -> [Slots -> Calcs]] /\ Holding(t)
    BY DEF CalcInv, TypeInv, HoldInv
  <1>1. /\ net'[t] = net[t] /\ session'[t] = session[t] /\ calc'[t] = calc[t]
        /\ serverUp' = serverUp /\ stopping' = stopping /\ (t \in clients' <=> t \in clients)
    <2>1. CASE IgnoreStart(s) \/ ProcessStart(s) \/ ProcessConfig(s) \/ LeaveHandle(s)
      BY <1>0, <2>1 DEF IgnoreStart, ProcessStart, ProcessConfig, LeaveHandle,
                        Consume, ServerSide
    <2>2. CASE ProcessStatus(s) \/ ProcessResult(s)
      BY <1>0, <2>2 DEF ProcessStatus, ProcessResult, ConsumeAndReply, ServerSide
    <2>3. CASE HandleThrows(s)
      BY <1>0, <2>3 DEF HandleThrows, Consume
    <2>4. CASE RemoveClient(s)
      BY <1>0, <2>4 DEF RemoveClient, Destroy
    <2>5. CASE CalcStep(s)
      <3>1. PICK k \in Running(s) :
                \/ BeginCalculate(s, k) \/ \E status : serverUp /\ Finish(s, k, status)
                \/ \E i \in DOMAIN calc[s][k].next : CalculateRow(s, k, i)
        BY <2>5, Zenon DEF CalcStep, CalculateThrows, FinishCalculate
      <3>2. CASE BeginCalculate(s, k)
        BY <1>0, <3>2 DEF BeginCalculate
      <3>3. CASE \E status : Finish(s, k, status)
        BY <1>0, <3>3 DEF Finish, Destroy
      <3>4. CASE \E i \in DOMAIN calc[s][k].next : CalculateRow(s, k, i)
        BY <1>0, <3>4 DEF CalculateRow
      <3> QED  BY <3>1, <3>2, <3>3, <3>4
    <2> QED  BY <2>1, <2>2, <2>3, <2>4, <2>5 DEF SessionStep
  <1> QED  BY <1>0, <1>1, HoldSame

\* Every step keeps who holds what.
LEMMA NextHold == CalcInv /\ HoldInv /\ [Next]_vars => HoldInv'
  <1> SUFFICES ASSUME CalcInv, HoldInv, [Next]_vars PROVE HoldInv'
    OBVIOUS
  <1>1. ASSUME NEW c \in Clients, Call(c) \/ Returns(c) \/ Vanish(c) PROVE HoldInv'
    BY <1>1, HoldByClient
  <1>2. ASSUME NEW c \in Clients, NEW s \in Sessions, Connect(c, s) PROVE HoldInv'
    BY <1>2, HoldByConnect
  <1>3. ASSUME NEW s \in Sessions, Accept(s) \/ AcceptThrows(s) PROVE HoldInv'
    BY <1>3, HoldByAccept, HoldByAcceptThrows
  <1>4. ASSUME NEW s \in Sessions, SessionStep(s) \/ CalcStep(s) PROVE HoldInv'
    <2>1. \A t \in Sessions : Holding(t)'
      BY <1>4, HoldBySession, HoldOthers
    <2>2. stopping' = stopping /\ clients' \in {clients, clients \ {s}}
      BY <1>4, Zenon DEF SessionStep, CalcStep, ProcessConfig, HandleThrows,
           IgnoreStart, ProcessStart, ProcessStatus, ProcessResult, LeaveHandle, RemoveClient,
           BeginCalculate, CalculateThrows, FinishCalculate, CalculateRow, Finish, ServerSide
    <2> QED  BY <2>1, <2>2 DEF HoldInv
  <1>5. CASE Start \/ UNCHANGED vars
    <2>1. /\ UNCHANGED <<net, session, calc, clients, stopping>>
          /\ serverUp' = serverUp \/ serverUp'
      BY <1>5 DEF Start, vars
    <2> QED  BY <2>1 DEF HoldInv, Holding
  <1>6. CASE Crash \/ StopStep
    BY <1>6, HoldByDisconnect, HoldByClear, HoldByEnd DEF Crash, StopStep, Exit
  <1> QED  BY <1>1, <1>2, <1>3, <1>4, <1>5, <1>6 DEF Next

-------------------------------------------------------------------------------
(* The properties that the runs check.                                      *)

\* The inductive invariant holds in every behaviour of the service.
LEMMA BothInvariants == Spec => [](CalcInv /\ HoldInv)
  <1>1. Init => CalcInv /\ HoldInv
    BY InitInv, InitHold
  <1>2. CalcInv /\ HoldInv /\ [Next]_vars => (CalcInv /\ HoldInv)'
    BY NextInv, NextHold
  <1> QED  BY <1>1, <1>2, PTL DEF Spec

\* Its part on the data.
THEOREM CalcInvariant == Spec => []CalcInv
  BY BothInvariants, PTL

\* Its part on who holds a session.
LEMMA HoldInvariant == Spec => []HoldInv
  BY BothInvariants, PTL

\* The types of the clients, connections, sessions and calculations: the matrix of
\* a session always has the size it was configured with, and no thread of a
\* calculation leaves its block of rows (ClientHandler.cpp 77-88; TaskHandler.cpp
\* 20-41).
THEOREM CalcTypes == Spec => []CalcTypeOK
  <1>1. CalcInv /\ HoldInv => CalcTypeOK
    <2> SUFFICES ASSUME CalcInv, HoldInv PROVE CalcTypeOK
      OBVIOUS
    <2>1. ASSUME NEW c \in Clients
          PROVE  /\ client[c].conn \in Sessions \cup {NoSession}
                 /\ client[c].matrixSize \in Sizes \cup {0, MATRIX_SIZE}
                 /\ client[c].awaiting \in {"none", "CHECK_STATUS", "GET_RESULT"}
                 /\ client[c].next \in {"any", "config", "start", "status", "result", "end"}
      BY DEF CalcInv, TypeInv, ClientRecords, Requests
    <2>2. ASSUME NEW s \in Sessions
          PROVE  /\ net[s].toServer \in Seq(Commands)
                 /\ session[s].phase \in
                        {"connecting", "accepted", "handling", "removing", "gone"}
                 /\ session[s].status \in {"PROCESSING", "DONE", "ERROR"}
                 /\ session[s].matrix \in [1 .. session[s].matrixSize -> Rows]
      <3>1. net[s] \in Nets /\ session[s] \in SessionRecords
        BY DEF CalcInv, TypeInv
      <3>2. Len(session[s].matrix) = session[s].matrixSize
        BY DEF CalcInv, SessionsOK, SessionOK
      <3>3. session[s].matrix \in Seq(Rows)
        BY <3>1, Fields
      <3> QED  BY <3>1, <3>2, <3>3, Fields, LenProperties DEF Statuses
    <2>3. ASSUME NEW s \in Sessions, NEW k \in Running(s), calc[s][k].pc = "running",
                 NEW i \in DOMAIN calc[s][k].next
          PROVE  calc[s][k].next[i] \in FirstRow(i, calc[s][k].threads, calc[s][k].size)
                                        .. LastRow(i, calc[s][k].threads, calc[s][k].size)
      <3>1. BlocksOK(calc[s][k])
        BY DEF Running, CalcInv, SessionsOK, SessionOK
      <3> QED  BY <2>3, <3>1 DEF BlocksOK
    <2>4. clients \subseteq Sessions /\ stopping \in {"no", "disconnecting", "cleared"}
      BY DEF CalcInv, TypeInv, HoldInv
    <2> QED  BY <2>1, <2>2, <2>3, <2>4 DEF CalcTypeOK
  <1> QED  BY <1>1, BothInvariants, PTL

\* Replies come in the order of the requests and fit them, whatever is pipelined
\* and whatever the client remembers of an earlier connection (Client.cpp 156, 178,
\* 189; Client.py 76, 89, 96).
THEOREM RepliesFit == Spec => []RepliesFitRequests
  <1>1. CalcInv => RepliesFitRequests
    <2> SUFFICES ASSUME CalcInv, NEW c \in Clients, client[c].conn # NoSession
                 PROVE  /\ Len(net[client[c].conn].toClient) <= 1
                        /\ net[client[c].conn].toClient # <<>> =>
                              ValidReply(c, Head(net[client[c].conn].toClient))
      BY DEF RepliesFitRequests
    <2>1. CASE net[client[c].conn].toClient = <<>>
      BY <2>1, EmptySeq
    <2>2. CASE net[client[c].conn].toClient # <<>>
      <3>1. /\ Len(net[client[c].conn].toClient) = 1
            /\ ValidReply(c, Head(net[client[c].conn].toClient))
        BY <2>2, ReplyIsValid
      <3>2. Len(net[client[c].conn].toClient) <= 1
        BY <3>1
      <3> QED  BY <3>1, <3>2
    <2> QED  BY <2>1, <2>2
  <1> QED  BY <1>1, CalcInvariant, PTL

\* The replies on their way: at most one, a member of Replies.
LEMMA ReplyOnItsWay ==
    ASSUME CalcInv, NEW s \in Sessions, NEW i \in DOMAIN net[s].toClient
    PROVE  /\ i = 1 /\ net[s].toClient # <<>> /\ net[s].toClient[i] \in Replies
  <1>1. net[s].toClient \in Seq(Replies)
    BY Fields DEF CalcInv, TypeInv
  <1>2. PICK q \in Seq(Replies) : q = net[s].toClient
    BY <1>1
  <1>3. i \in 1 .. Len(q) /\ q[i] \in Replies /\ q # <<>>
    BY <1>2, LenProperties
  <1>4. Len(q) = 1
    BY <1>2, <1>3 DEF CalcInv, SessionsOK, SessionOK, OneRequest
  <1> QED  BY <1>2, <1>3, <1>4

\* After a start, DONE means that every row has been calculated, and so has every
\* row of a result on its way, in a session that sends neither a configuration nor
\* a start while a calculation runs (ClientHandler.cpp 98-121, 138-154;
\* TaskHandler.cpp 20-41).
THEOREM DoneIsCalculated == Spec => []DoneMeansCalculated
  <1>1. CalcInv => DoneMeansCalculated
    <2> SUFFICES ASSUME CalcInv, NEW s \in Sessions,
                        session[s].started, ~session[s].overlapped
                 PROVE  /\ session[s].status = "DONE" =>
                              \A r \in DOMAIN session[s].matrix :
                                  session[s].matrix[r] = "calculated"
                        /\ \A n \in DOMAIN net[s].toClient :
                              net[s].toClient[n].cmd = "GET_RESULT" =>
                                  \A r \in DOMAIN net[s].toClient[n].rows :
                                      net[s].toClient[n].rows[r] = "calculated"
      BY DEF DoneMeansCalculated
    <2>1. /\ Orderly(net[s], session[s], calc[s])
          /\ session[s] \in SessionRecords
      BY DEF CalcInv, TypeInv, SessionsOK, SessionOK
    <2>2. ASSUME session[s].status = "DONE", NEW r \in DOMAIN session[s].matrix
          PROVE  session[s].matrix[r] = "calculated"
      <3>1. Calculated(session[s].matrix)
        BY <2>1, <2>2 DEF Orderly
      <3>2. r \in 1 .. Len(session[s].matrix)
        BY <2>1, Fields, LenProperties
      <3> QED  BY <3>1, <3>2 DEF Calculated
    <2>3. ASSUME NEW n \in DOMAIN net[s].toClient, net[s].toClient[n].cmd = "GET_RESULT",
                 NEW r \in DOMAIN net[s].toClient[n].rows
          PROVE  net[s].toClient[n].rows[r] = "calculated"
      <3>1. n = 1 /\ net[s].toClient # <<>> /\ net[s].toClient[n] \in Replies
        BY ReplyOnItsWay
      <3>2. Calculated(net[s].toClient[n].rows)
        BY <2>1, <2>3, <3>1 DEF Orderly
      <3>3. net[s].toClient[n].rows \in Seq(Rows)
        BY <2>3, <3>1 DEF Replies
      <3>4. r \in 1 .. Len(net[s].toClient[n].rows)
        BY <3>3, LenProperties
      <3> QED  BY <3>2, <3>4 DEF Calculated
    <2> QED  BY <2>2, <2>3
  <1> QED  BY <1>1, CalcInvariant, PTL

\* The script gets the whole matrix, calculated: no poll sees the DONE of the
\* constructor or of the configuration (Client.py 124-146; ClientHandler.cpp 88, 98).
THEOREM PollSeesResult == Spec => []PollSeesOwnResult
  <1>1. CalcInv => PollSeesOwnResult
    <2> SUFFICES ASSUME CalcInv, NEW c \in Clients, Scripted(c), client[c].conn # NoSession,
                        NEW n \in DOMAIN net[client[c].conn].toClient,
                        net[client[c].conn].toClient[n].cmd = "GET_RESULT"
                 PROVE  net[client[c].conn].toClient[n].rows
                            = [r \in 1 .. MATRIX_SIZE |-> "calculated"]
      BY DEF PollSeesOwnResult
    <2>1. client[c].conn \in Sessions /\ ReplyFits(client[c], net[client[c].conn])
      BY Attached DEF Connected
    <2>2. n = 1 /\ net[client[c].conn].toClient # <<>>
      BY <2>1, ReplyOnItsWay
    <2> QED  BY <2>1, <2>2 DEF ReplyFits, Whole, Scripted
  <1> QED  BY <1>1, CalcInvariant, PTL

\* The socket of a session stays open as long as anything may use it, except that stop(),
\* after an exception in the accept loop, closes those of the sessions in its list; a
\* session that is over is not in that list (Server.cpp 80-130; ClientHandler.cpp 11-24,
\* 103).
THEOREM SocketOutlives == Spec => []SocketOutlivesUse
  <1>1. HoldInv => SocketOutlivesUse
    <2> SUFFICES ASSUME HoldInv, NEW s \in Sessions
                 PROVE  /\ \/ s \in clients \/ Running(s) # {}
                           \/ session[s].phase \in {"handling", "removing"}
                           => \/ net[s].serverOpen
                              \/ stopping = "disconnecting" /\ s \in clients
                              \/ stopping = "cleared"
                        /\ session[s].phase = "gone" => s \notin clients
      BY Zenon DEF SocketOutlivesUse
    <2>1. Running(s) = Busy(calc[s]) /\ OverSession.phase = "gone"
      BY RunningIsBusy, OverFields
    <2> QED  BY <2>1 DEF HoldInv, Holding
  <1> QED  BY <1>1, HoldInvariant, PTL

-------------------------------------------------------------------------------
(* Nobody waits in vain: what a blocked recv() of a client rests on. This is the *)
(* safety behind RequestsAnswered and SocketsAreClosed, which TLC checks.        *)

\* What a client waits for is on its way, in one direction or the other.
OnItsWay(request, n) ==
    \/ n.toClient # <<>>
    \/ \E i \in 1 .. Len(n.toServer) : n.toServer[i].cmd = request

\* No request is read without an answer as long as the session goes on.
Attended ==
    \A c \in Clients :
        /\ client[c].awaiting # "none"
        /\ Alive(net[client[c].conn], session[client[c].conn])
        => OnItsWay(client[c].awaiting, net[client[c].conn])

\* A request that is not at the front stays on its way when the front is read.
LEMMA StaysOnItsWay ==
    ASSUME NEW q \in Seq(Commands), q # <<>>, NEW request, Head(q).cmd # request,
           NEW i \in 1 .. Len(q), q[i].cmd = request
    PROVE  \E j \in 1 .. Len(Tail(q)) : Tail(q)[j].cmd = request
  <1>1. /\ Len(q) \in Nat /\ Head(q) = q[1] /\ Len(Tail(q)) = Len(q) - 1
        /\ \A j \in 1 .. Len(q) - 1 : Tail(q)[j] = q[j + 1]
    BY Front
  <1>2. i # 1
    BY <1>1
  <1>3. i - 1 \in 1 .. Len(q) - 1 /\ (i - 1) + 1 = i
    BY <1>1, <1>2
  <1>4. Tail(q)[i - 1].cmd = request
    BY <1>1, <1>3
  <1> QED  BY <1>1, <1>3, <1>4

\* A step of session s that leaves the clients alone.
LEMMA AttendedOne ==
    ASSUME CalcInv, Attended, NEW s \in Sessions, client' = client,
           \A t \in Sessions \ {s} : net'[t] = net[t] /\ session'[t] = session[t],
           \A c \in Clients :
               client[c].conn = s /\ client[c].awaiting # "none" /\ Alive(net'[s], session'[s])
                   => OnItsWay(client[c].awaiting, net'[s])
    PROVE  Attended'
  <1> SUFFICES ASSUME NEW c \in Clients, client[c].awaiting # "none",
                      Alive(net'[client[c].conn], session'[client[c].conn])
               PROVE  OnItsWay(client[c].awaiting, net'[client[c].conn])
    BY DEF Attended
  <1>1. client[c].conn \in Sessions
    BY Attached DEF CalcInv, ClientsOK, Idle
  <1>2. CASE client[c].conn = s
    BY <1>2
  <1>3. CASE client[c].conn # s
    BY <1>1, <1>3 DEF Attended
  <1> QED  BY <1>2, <1>3

\* A command that is no request is read.
LEMMA AttendedRead ==
    ASSUME CalcInv, Attended, NEW s \in Sessions, NEW cmd, cmd \notin Requests,
           Receives(s, cmd), Consume(s), client' = client,
           \A t \in Sessions \ {s} : session'[t] = session[t]
    PROVE  Attended'
  <1>1. /\ net[s].toServer # <<>> /\ net[s].toServer \in Seq(Commands)
        /\ Head(net[s].toServer).cmd = cmd /\ net[s].toClient = <<>>
        /\ Alive(net[s], session[s])
        /\ \A c \in Clients : client[c].conn = s => client[c] \in ClientRecords
    BY Reading
  <1>2. /\ net'[s].toServer = Tail(net[s].toServer)
        /\ \A t \in Sessions \ {s} : net'[t] = net[t]
    BY <1>1, Consumed DEF CalcInv
  <1>3. ASSUME NEW c \in Clients, client[c].conn = s, client[c].awaiting # "none"
        PROVE  OnItsWay(client[c].awaiting, net'[s])
    <2>1. client[c].awaiting \in Requests
      BY <1>1, <1>3, Fields
    <2>2. PICK i \in 1 .. Len(net[s].toServer) :
              net[s].toServer[i].cmd = client[c].awaiting
      BY <1>1, <1>3 DEF Attended, OnItsWay
    <2>3. \E j \in 1 .. Len(Tail(net[s].toServer)) :
              Tail(net[s].toServer)[j].cmd = client[c].awaiting
      BY <1>1, <2>1, <2>2, StaysOnItsWay
    <2> QED  BY <1>2, <2>3 DEF OnItsWay
  <1> QED  BY <1>2, <1>3, AttendedOne

\* A request is read and answered.
LEMMA AttendedReply ==
    ASSUME CalcInv, Attended, NEW s \in Sessions, NEW cmd, Receives(s, cmd),
           NEW r \in Replies, ConsumeAndReply(s, <<r>>), UNCHANGED <<client, session>>
    PROVE  Attended'
  <1>1. /\ net[s].toServer # <<>> /\ net[s].toClient = <<>>
        /\ \A c \in Clients : client[c].conn = s => net[s].clientOpen
    BY Reading DEF Connected
  <1>2. /\ net'[s].toClient = IF net[s].clientOpen THEN <<r>> ELSE <<>>
        /\ \A t \in Sessions \ {s} : net'[t] = net[t]
    BY <1>1, Replied DEF CalcInv
  <1>3. <<r>> # <<>>
    BY FirstReply
  <1> QED  BY <1>1, <1>2, <1>3, AttendedOne DEF OnItsWay

\* A step that takes nothing off a connection, and begins no session.
LEMMA AttendedQuiet ==
    ASSUME CalcInv, Attended, NEW s \in Sessions, client' = client,
           \A t \in Sessions \ {s} : net'[t] = net[t] /\ session'[t] = session[t],
           \/ ~Alive(net'[s], session'[s])
           \/ net'[s] = net[s] /\ Alive(net[s], session[s])
    PROVE  Attended'
  BY AttendedOne DEF Attended

\* A step of the server that takes nothing off a connection, but may end sessions.
LEMMA AttendedStops ==
    ASSUME CalcInv, Attended, client' = client,
           \A t \in Sessions :
               (net'[t] = net[t] /\ session'[t] = session[t]) \/ ~Alive(net'[t], session'[t])
    PROVE  Attended'
  <1> SUFFICES ASSUME NEW c \in Clients, client[c].awaiting # "none",
                      Alive(net'[client[c].conn], session'[client[c].conn])
               PROVE  OnItsWay(client[c].awaiting, net'[client[c].conn])
    BY DEF Attended
  <1>1. PICK t \in Sessions : t = client[c].conn
    BY Attached DEF CalcInv, ClientsOK, Idle
  <1>2. net'[t] = net[t] /\ session'[t] = session[t]
    BY <1>1
  <1> QED  BY <1>1, <1>2 DEF Attended

\* The thread of a session answers every request it reads, or ends.
LEMMA AttendedBySession ==
    ASSUME CalcInv, CalcInv', Attended, NEW s \in Sessions, Accept(s) \/ SessionStep(s)
    PROVE  Attended'
  <1>0. /\ session \in [Sessions -> SessionRecords] /\ session[s] \in SessionRecords
        /\ net \in [Sessions -> Nets]
    BY DEF CalcInv, TypeInv
  <1>1. CASE Accept(s)
    BY <1>0, <1>1, AttendedQuiet DEF Accept, Accepts, Alive
  <1>2. CASE ProcessConfig(s)
    <2>1. \A t \in Sessions \ {s} : session'[t] = session[t]
      BY <1>0, <1>2 DEF ProcessConfig
    <2> QED  BY <1>2, <2>1, AttendedRead, Zenon DEF ProcessConfig, Requests
  <1>3. CASE HandleThrows(s)
    <2>1. PICK cmd \in {"SEND_CONFIG", "START_PROCESSING", "GET_RESULT"} :
              /\ Receives(s, cmd) /\ Consume(s) /\ client' = client
              /\ \A t \in Sessions \ {s} : session'[t] = session[t]
              /\ session'[s].phase = "removing"
      <3>1. PICK cmd \in {"SEND_CONFIG", "START_PROCESSING", "GET_RESULT"},
                 replaced \in BOOLEAN :
                /\ Receives(s, cmd) /\ Consume(s) /\ client' = client
                /\ session' = [session EXCEPT
                      ![s].phase = "removing",
                      ![s].status = IF cmd = "START_PROCESSING" THEN "PROCESSING" ELSE @,
                      ![s].overlapped = @ \/ (replaced /\ Running(s) # {})]
        BY <1>3 DEF HandleThrows
      <3> QED  BY <1>0, <3>1 DEF SessionRecords
    <2>2. \A t \in Sessions \ {s} : net'[t] = net[t]
      BY <2>1, Reading, Consumed DEF CalcInv
    <2> QED  BY <2>1, <2>2, AttendedQuiet DEF Alive
  <1>4. CASE IgnoreStart(s)
    BY <1>4, AttendedRead DEF IgnoreStart, ServerSide, Requests
  <1>5. CASE ProcessStart(s)
    <2>1. \A t \in Sessions \ {s} : session'[t] = session[t]
      BY <1>0, <1>5 DEF ProcessStart
    <2> QED  BY <1>5, <2>1, AttendedRead DEF ProcessStart, Requests
  <1>6. CASE ProcessStatus(s)
    <2> DEFINE r == [cmd |-> "CHECK_STATUS", status |-> session[s].status]
    <2>1. Receives(s, "CHECK_STATUS") /\ ConsumeAndReply(s, <<r>>) /\ UNCHANGED <<client, session>>
      BY <1>6 DEF ProcessStatus, ServerSide
    <2>2. r \in Replies
      BY <1>0, Fields DEF Replies
    <2> QED  BY <2>1, <2>2, AttendedReply
  <1>7. CASE ProcessResult(s)
    <2> DEFINE r == ResultOf(IF session[s].status = "DONE" THEN session[s].matrix ELSE <<>>)
    <2>1. Receives(s, "GET_RESULT") /\ ConsumeAndReply(s, <<r>>) /\ UNCHANGED <<client, session>>
      BY <1>7 DEF ProcessResult, ResultReplies, ServerSide
    <2>2. r \in Replies
      BY <1>0, Fields DEF Replies, ResultOf
    <2> QED  BY <2>1, <2>2, AttendedReply
  <1>8. CASE LeaveHandle(s)
    <2>1. session'[s].phase = "removing" /\ \A t \in Sessions \ {s} : session'[t] = session[t]
      BY <1>0, <1>8 DEF LeaveHandle, SessionRecords
    <2>2. \A t \in Sessions \ {s} : net'[t] = net[t]
      BY <1>0, <1>8 DEF LeaveHandle, Consume
    <2> QED  BY <1>8, <2>1, <2>2, AttendedQuiet DEF LeaveHandle, Alive
  <1>9. CASE RemoveClient(s)
    <2>1. session'[s].phase = "gone" /\ \A t \in Sessions \ {s} : session'[t] = session[t]
      BY <1>0, <1>9 DEF RemoveClient, Destroy, OverSession, SessionRecords, NewSession
    <2>2. \A t \in Sessions \ {s} : net'[t] = net[t]
      BY <1>0, <1>9 DEF RemoveClient, Destroy
    <2> QED  BY <1>9, <2>1, <2>2, AttendedQuiet DEF RemoveClient, Alive
  <1> QED  BY <1>1, <1>2, <1>3, <1>4, <1>5, <1>6, <1>7, <1>8, <1>9 DEF SessionStep

\* A step of client c on its connection s, after which it waits for nothing or has its
\* request on its way; it sends or takes nothing on the connections of others.
LEMMA AttendedClient ==
    ASSUME CalcInv, Attended, NEW c \in Clients, NEW s \in Sessions,
           client[c].conn \in {s, NoSession}, \A d \in Clients \ {c} : client[d].conn # s,
           \A t \in Sessions \ {s} : net'[t] = net[t] /\ session'[t] = session[t],
           \A d \in Clients \ {c} : client'[d] = client[d],
           client'[c].awaiting # "none" =>
               /\ client'[c].conn = s
               /\ Alive(net'[s], session'[s]) => OnItsWay(client'[c].awaiting, net'[s])
    PROVE  Attended'
  <1> SUFFICES ASSUME NEW d \in Clients, client'[d].awaiting # "none",
                      Alive(net'[client'[d].conn], session'[client'[d].conn])
               PROVE  OnItsWay(client'[d].awaiting, net'[client'[d].conn])
    BY DEF Attended
  <1>1. CASE d = c
    BY <1>1
  <1>2. CASE d # c
    <2>1. client'[d] = client[d] /\ client[d].conn # s
      BY <1>2
    <2>2. client[d].conn \in Sessions
      BY <2>1, Attached DEF CalcInv, ClientsOK, Idle
    <2> QED  BY <2>1, <2>2 DEF Attended
  <1> QED  BY <1>1, <1>2

\* A call sends its request before it waits, and a client that gives up waits no more.
LEMMA AttendedByClient ==
    ASSUME CalcInv, CalcInv', Attended, NEW c \in Clients,
           Call(c) \/ Returns(c) \/ Vanish(c)
    PROVE  Attended'
  <1> DEFINE s == client[c].conn
  <1>0. s # NoSession
    <2>1. CASE Call(c)
      BY <2>1, Zenon DEF Call, SendConfig, SendStart, AskStatus, AskResult, EndSession,
                       SendFails, MayCall
    <2>2. CASE Returns(c)
      BY <2>2 DEF Returns, ReceiveReply, LoseServer, CalcInv, ClientsOK, Idle
    <2>3. CASE Vanish(c)
      BY <2>3, Zenon DEF Vanish
    <2> QED  BY <2>1, <2>2, <2>3
  <1>1. /\ s \in Sessions /\ net[s] \in Nets /\ client[c] \in ClientRecords
        /\ net \in [Sessions -> Nets] /\ client \in [Clients -> ClientRecords]
        /\ \A d \in Clients \ {c} : client[d].conn # s
    BY <1>0, Attached DEF CalcInv, TypeInv, Exclusive
  <1>2. ASSUME NEW cmd \in Requests, NEW call, Asks(c, call, cmd)
        PROVE  Attended'
    <2>1. /\ net' = [net EXCEPT ![s].toServer = Sent(s, Ask(cmd))]
          /\ client' = [client EXCEPT ![c].awaiting = cmd] /\ UNCHANGED session
      BY <1>2, Zenon DEF Asks, Transmit, ServerSide
    <2>2. /\ net'[s].toServer = Sent(s, Ask(cmd))
          /\ net'[s].serverOpen = net[s].serverOpen
      BY <1>1, <2>1 DEF Nets
    <2>3. client'[c].awaiting = cmd /\ client'[c].conn = s
      BY <1>1, <2>1 DEF ClientRecords
    <2>4. PICK q \in Seq(Commands) : q = net[s].toServer
      BY <1>1, Fields
    <2>5. PICK a \in Commands : a = Ask(cmd) /\ a.cmd = cmd
      BY CommandNames
    <2>6. \E i \in 1 .. Len(Append(q, a)) : Append(q, a)[i].cmd = cmd
      <3>1. /\ Len(q) \in Nat /\ Len(Append(q, a)) = Len(q) + 1
            /\ Append(q, a)[Len(q) + 1] = a
        BY Back
      <3>2. Len(q) + 1 \in 1 .. Len(Append(q, a))
        BY <3>1
      <3> QED  BY <2>5, <3>1, <3>2
    <2>7. ASSUME Alive(net'[s], session'[s]) PROVE OnItsWay(cmd, net'[s])
      <3>1. net'[s].toServer = Append(q, a)
        BY <2>2, <2>4, <2>5, <2>7 DEF Alive, Sent
      <3> QED  BY <2>6, <3>1, Zenon DEF OnItsWay
    <2>8. /\ \A t \in Sessions \ {s} : net'[t] = net[t] /\ session'[t] = session[t]
          /\ \A d \in Clients \ {c} : client'[d] = client[d]
      BY <1>1, <2>1
    <2>9. Alive(net'[s], session'[s]) => OnItsWay(client'[c].awaiting, net'[s])
      BY <2>3, <2>7
    <2> HIDE DEF s
    <2> QED  BY <1>1, <2>3, <2>8, <2>9, AttendedClient DEF s
  <1>3. ASSUME client'[c].awaiting = "none", UNCHANGED session,
               \A d \in Clients \ {c} : client'[d] = client[d],
               \A t \in Sessions \ {s} : net'[t] = net[t]
        PROVE  Attended'
    BY <1>1, <1>3, AttendedClient
  <1>4. CASE AskStatus(c) \/ AskResult(c)
    BY <1>2, <1>4 DEF AskStatus, AskResult, Asks, Ask, Requests
  <1>5. CASE \/ \E size \in Sizes \cup {MATRIX_SIZE}, threads \in ThreadCounts \cup {THREADS} :
                   SendConfig(c, size, threads)
             \/ SendStart(c)
    <2>1. client'[c].awaiting = "none" /\ \A d \in Clients \ {c} : client'[d] = client[d]
      <3>1. client[c].awaiting = "none"
        BY <1>5, Zenon DEF SendConfig, SendStart, MayCall
      <3>2. \/ \E size, next : client' = [client EXCEPT ![c].matrixSize = size, ![c].next = next]
            \/ \E next : client' = [client EXCEPT ![c].next = next]
        BY <1>5, Zenon DEF SendConfig, SendStart
      <3>3. CASE \E next : client' = [client EXCEPT ![c].next = next]
        BY <1>1, <3>1, <3>3 DEF ClientRecords
      <3>4. CASE \E size, next :
                    client' = [client EXCEPT ![c].matrixSize = size, ![c].next = next]
        BY <1>1, <3>1, <3>4 DEF ClientRecords
      <3> QED  BY <3>2, <3>3, <3>4, Zenon
    <2>2. UNCHANGED session /\ \A t \in Sessions \ {s} : net'[t] = net[t]
      BY <1>1, <1>5 DEF SendConfig, SendStart, Transmit, ServerSide
    <2> QED  BY <1>3, <2>1, <2>2
  <1>6. CASE ReceiveReply(c)
    <2>1. client'[c].awaiting = "none" /\ \A d \in Clients \ {c} : client'[d] = client[d]
      BY <1>1, <1>6 DEF ReceiveReply, ClientRecords
    <2>2. UNCHANGED session /\ \A t \in Sessions \ {s} : net'[t] = net[t]
      BY <1>1, <1>6 DEF ReceiveReply, ServerSide
    <2> QED  BY <1>3, <2>1, <2>2
  <1>7. CASE EndSession(c) \/ Vanish(c)
    <2>1. client'[c].awaiting = "none" /\ \A d \in Clients \ {c} : client'[d] = client[d]
      <3>1. PICK next : client' = [client EXCEPT ![c] = NewClient(next)]
        BY <1>7, Zenon DEF EndSession, Vanish
      <3>2. client'[c] = NewClient(next)
        BY <1>1, <3>1, Zenon
      <3> QED  BY <1>1, <3>1, <3>2 DEF NewClient
    <2>2. UNCHANGED session /\ \A t \in Sessions \ {s} : net'[t] = net[t]
      BY <1>1, <1>7, Zenon DEF EndSession, Vanish, ServerSide
    <2> QED  BY <1>3, <2>1, <2>2
  <1>8. CASE SendFails(c) \/ LoseServer(c)
    <2>0. Throws(c)
      BY <1>8 DEF SendFails, LoseServer
    <2>1. client'[c].awaiting = "none" /\ \A d \in Clients \ {c} : client'[d] = client[d]
      BY <1>1, <2>0 DEF Throws, NewClient, ClientRecords
    <2>2. UNCHANGED session /\ \A t \in Sessions \ {s} : net'[t] = net[t]
      BY <1>1, <2>0, Zenon DEF Throws, ServerSide
    <2> QED  BY <1>3, <2>1, <2>2
  <1> QED  BY <1>4, <1>5, <1>6, <1>7, <1>8 DEF Call, Returns

\* No step forgets a request.
LEMMA AttendedStep ==
    ASSUME CalcInv, CalcInv', Attended, [Next]_vars
    PROVE  Attended'
  <1>0. /\ session \in [Sessions -> SessionRecords] /\ net \in [Sessions -> Nets]
        /\ client \in [Clients -> ClientRecords] /\ calc \in [Sessions -> [Slots -> Calcs]]
    BY DEF CalcInv, TypeInv
  <1>1. ASSUME NEW c \in Clients, Call(c) \/ Returns(c) \/ Vanish(c) PROVE Attended'
    BY <1>1, AttendedByClient
  <1>2. ASSUME NEW c \in Clients, NEW s \in Sessions, Connect(c, s) PROVE Attended'
    <2>1. /\ client[c].conn = NoSession /\ client[c].awaiting = "none"
          /\ \A d \in Clients : client[d].conn # s
      <3>1. client[c].conn = NoSession /\ ~net[s].clientOpen
        BY <1>2 DEF Connect
      <3>2. client[c].awaiting = "none"
        BY <3>1 DEF CalcInv, ClientsOK, Idle
      <3>3. ASSUME NEW d \in Clients PROVE client[d].conn # s
        BY <3>1, Attached, NoSessionAssumption DEF Connected
      <3> QED  BY <3>1, <3>2, <3>3
    <2>2. /\ \A t \in Sessions \ {s} : net'[t] = net[t] /\ session'[t] = session[t]
          /\ client' = [client EXCEPT ![c].conn = s]
      BY <1>0, <1>2 DEF Connect, ConnectToServer
    <2>3. client'[c].awaiting = "none" /\ \A d \in Clients \ {c} : client'[d] = client[d]
      BY <1>0, <2>1, <2>2 DEF ClientRecords
    <2> QED  BY <2>1, <2>2, <2>3, AttendedClient
  <1>3. ASSUME NEW s \in Sessions, Accept(s) \/ SessionStep(s) PROVE Attended'
    BY <1>3, AttendedBySession
  <1>4. ASSUME NEW s \in Sessions, CalcStep(s) PROVE Attended'
    <2>1. client' = client
      BY <1>4, Zenon DEF CalcStep, BeginCalculate, CalculateThrows, FinishCalculate, Finish,
                         CalculateRow
    <2>2. PICK k \in Running(s) :
              \/ BeginCalculate(s, k) \/ CalculateThrows(s, k) \/ FinishCalculate(s, k)
              \/ \E i \in DOMAIN calc[s][k].next : CalculateRow(s, k, i)
      BY <1>4 DEF CalcStep
    <2>3. CASE BeginCalculate(s, k)
      BY <2>3 DEF BeginCalculate, Attended
    <2>4. CASE \E i \in DOMAIN calc[s][k].next : CalculateRow(s, k, i)
      <3>1. /\ net' = net /\ session'[s].phase = session[s].phase
            /\ \A t \in Sessions \ {s} : session'[t] = session[t]
        <4>1. net' = net /\ (\/ session' = session
                             \/ \E row, v : session' = [session EXCEPT ![s].matrix[row] = v])
          BY <2>4, Zenon DEF CalculateRow
        <4> QED  BY <1>0, <4>1 DEF SessionRecords
      <3> QED  BY <2>1, <3>1, AttendedQuiet DEF Alive
    <2>5. CASE CalculateThrows(s, k) \/ FinishCalculate(s, k)
      <3>1. PICK status : Finish(s, k, status)
        BY <2>5 DEF CalculateThrows, FinishCalculate
      <3>2. CASE LastHold(s, k)
        <4>1. Destroy(s)
          BY <3>1, <3>2 DEF Finish
        <4>2. session'[s].phase = "gone" /\ \A t \in Sessions \ {s} : session'[t] = session[t]
          BY <1>0, <4>1 DEF Destroy, OverSession, NewSession
        <4>3. \A t \in Sessions \ {s} : net'[t] = net[t]
          BY <1>0, <4>1 DEF Destroy
        <4> QED  BY <2>1, <4>2, <4>3, AttendedQuiet DEF Alive
      <3>3. CASE ~LastHold(s, k)
        <4>1. /\ net' = net /\ session'[s].phase = session[s].phase
              /\ \A t \in Sessions \ {s} : session'[t] = session[t]
          BY <1>0, <3>1, <3>3 DEF Finish, SessionRecords
        <4> QED  BY <2>1, <4>1, AttendedQuiet DEF Alive
      <3> QED  BY <3>2, <3>3
    <2> QED  BY <2>2, <2>3, <2>4, <2>5
  <1>5. CASE Start \/ UNCHANGED vars
    BY <1>5 DEF Start, vars, Attended
  <1>6. CASE Crash \/ Exit
    <2>1. client' = client /\ \A s \in Sessions : session'[s] = OverSession
      BY <1>6, Zenon DEF Crash, Exit, ProcessEnds
    <2> QED  BY <2>1, AttendedStops, OverFields DEF Alive
  <1>7. ASSUME NEW s \in Sessions, AcceptThrows(s) PROVE Attended'
    <2>1. PICK lost \in {{t \in Sessions : session[t].phase = "connecting"},
                         {t \in Sessions : session[t].phase = "connecting"} \ {s}} :
              /\ client' = client
              /\ session' = [t \in Sessions |->
                    IF t \in lost THEN OverSession
                    ELSE IF t = s THEN [session[t] EXCEPT !.phase = "accepted"] ELSE session[t]]
              /\ net' = [t \in Sessions |->
                    IF t \in lost THEN [net[t] EXCEPT !.serverOpen = FALSE, !.toServer = <<>>]
                                  ELSE net[t]]
      BY <1>7, Zenon DEF AcceptThrows
    <2>2. ASSUME NEW t \in Sessions
          PROVE  (net'[t] = net[t] /\ session'[t] = session[t]) \/ ~Alive(net'[t], session'[t])
      <3>1. CASE t \in lost
        BY <2>1, <3>1, OverFields DEF Alive
      <3>2. CASE t \notin lost /\ t = s
        BY <1>0, <2>1, <3>2 DEF Alive, SessionRecords
      <3>3. CASE t \notin lost /\ t # s
        BY <2>1, <3>3, Zenon
      <3> QED  BY <3>1, <3>2, <3>3
    <2> QED  BY <2>1, <2>2, AttendedStops
  <1>8. CASE ClearClients
    <2>1. ASSUME NEW t \in Sessions
          PROVE  (net'[t] = net[t] /\ session'[t] = session[t]) \/ ~Alive(net'[t], session'[t])
      <3>1. net' = net /\ session'[t] \in {OverSession, session[t]}
        BY <1>8 DEF ClearClients
      <3> QED  BY <3>1, OverFields DEF Alive
    <2> QED  BY <1>8, <2>1, AttendedStops DEF ClearClients
  <1>9. ASSUME NEW s \in Sessions, Disconnect(s) PROVE Attended'
    <2>1. ASSUME NEW t \in Sessions
          PROVE  (net'[t] = net[t] /\ session'[t] = session[t]) \/ ~Alive(net'[t], session'[t])
      BY <1>0, <1>9 DEF Disconnect, ServerSide, Alive, Nets
    <2> QED  BY <1>9, <2>1, AttendedStops DEF Disconnect
  <1> QED  BY <1>1, <1>2, <1>3, <1>4, <1>5, <1>6, <1>7, <1>8, <1>9 DEF Next, StopStep

\* No client is blocked in a recv() that nothing will end: its reply is there; or its
\* request lies before a session of a running server that reads it; or the thread of the
\* session is on its way to removeClient(), or a calculation holds the session, and the
\* last of them closes the socket; or no thread could be had for the session, and the
\* process is about to end; or the socket has been closed (Client.cpp 152, 162, 174, 195;
\* Client.py 73, 79, 86, 99; ClientHandler.cpp 11-14, 104, 126-154; Server.cpp 80-130).
THEOREM NobodyWaitsInVain ==
    Spec => [](\A c \in Clients : client[c].awaiting # "none" =>
                  LET s == client[c].conn IN
                  \/ net[s].toClient # <<>>
                  \/ /\ serverUp /\ session[s].phase \in {"connecting", "handling"}
                     /\ \E i \in 1 .. Len(net[s].toServer) :
                            net[s].toServer[i].cmd = client[c].awaiting
                  \/ serverUp /\ (session[s].phase = "removing" \/ Running(s) # {})
                  \/ serverUp /\ session[s].phase = "accepted" /\ stopping # "no"
                  \/ ~net[s].serverOpen)
  <1> DEFINE Waits(c) ==
        LET s == client[c].conn IN
        \/ net[s].toClient # <<>>
        \/ /\ serverUp /\ session[s].phase \in {"connecting", "handling"}
           /\ \E i \in 1 .. Len(net[s].toServer) :
                  net[s].toServer[i].cmd = client[c].awaiting
        \/ serverUp /\ (session[s].phase = "removing" \/ Running(s) # {})
        \/ serverUp /\ session[s].phase = "accepted" /\ stopping # "no"
        \/ ~net[s].serverOpen
  <1>1. Init => Attended
    BY DEF Init, Attended, NewClient
  <1>2. Spec => []Attended
    <2>1. (CalcInv /\ HoldInv) /\ (CalcInv /\ HoldInv)' /\ Attended /\ [Next]_vars => Attended'
      BY AttendedStep
    <2> QED  BY <1>1, <2>1, BothInvariants, PTL DEF Spec
  <1>3. CalcInv /\ HoldInv /\ Attended =>
            \A c \in Clients : client[c].awaiting # "none" => Waits(c)
    <2> SUFFICES ASSUME CalcInv, HoldInv, Attended, NEW c \in Clients,
                        client[c].awaiting # "none"
                 PROVE  Waits(c)
      OBVIOUS
    <2> DEFINE s == client[c].conn
    <2>1. s \in Sessions /\ session[s] \in SessionRecords
      BY Attached DEF CalcInv, ClientsOK, Idle, TypeInv
    <2>2. session[s].phase \in {"connecting", "accepted", "handling", "removing", "gone"}
      BY <2>1, Fields
    <2>3. Holding(s) /\ Running(s) = Busy(calc[s])
      BY <2>1, RunningIsBusy DEF HoldInv
    <2>4. CASE Alive(net[s], session[s])
      <3>1. OnItsWay(client[c].awaiting, net[s])
        BY <2>4 DEF Attended
      <3> QED  BY <2>3, <2>4, <3>1 DEF OnItsWay, Alive, Holding
    <2>5. CASE ~Alive(net[s], session[s])
      BY <2>2, <2>3, <2>5 DEF Alive, Holding
    <2> QED  BY <2>4, <2>5
  <1> QED  BY <1>2, <1>3, BothInvariants, PTL

\* The server leaks no socket: it is open only as long as the session is connecting or
\* accepted, has its thread, or is held by a calculation of a server that runs; so the
\* last hold that goes closes it (Server.cpp 80-130; ClientHandler.cpp 11-14, 104).
THEOREM SocketsAreOwned ==
    Spec => [](\A s \in Sessions : net[s].serverOpen =>
                  serverUp /\ (session[s].phase # "gone" \/ Running(s) # {}))
  <1>1. HoldInv => \A s \in Sessions : net[s].serverOpen =>
                       serverUp /\ (session[s].phase # "gone" \/ Running(s) # {})
    BY RunningIsBusy DEF HoldInv, Holding
  <1> QED  BY <1>1, HoldInvariant, PTL
================================================================================
