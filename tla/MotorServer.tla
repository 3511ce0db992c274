---------------------------- MODULE MotorServer ----------------------------
(***************************************************************************)
(* The motor server (src/Zynq-Moror).                                      *)
(* Clients (the launcher, a radar) send lines over TCP; each connection    *)
(* has a handler thread, which writes what one recv returned to the serial *)
(* line and adds an end of line.  A stream has no boundaries: one recv may *)
(* return a piece of an order, or several orders.                          *)
(*                                                                         *)
(*   main     start; a signal runs stop() on it, wherever it is, and ends  *)
(*            the process;                                                 *)
(*   srv      serverLoop: accepts clients and starts their handlers;       *)
(*   handler  handleClient, one per client.                                *)
(*                                                                         *)
(* The clients are modelled as their senders behave: a connection, whole   *)
(* orders, the end of the connection at any time.                          *)
(***************************************************************************)
EXTENDS MotorLines, FiniteSets, SequencesExt

CONSTANTS Clients,
          NoClient,
          OrdersOf,   \* [Clients -> set of orders the client may send]
          Faulty,     \* bound: clients whose handler may fail to open the device
          Early,      \* bound: clients that connect before the thread is stored
          MaxSends    \* bound: orders a client sends, or any two together

ASSUME ServerAssumption ==
    /\ MaxSends \in Nat /\ NoClient \notin Clients
    /\ Faulty \subseteq Clients /\ Early \subseteq Clients
    /\ OrdersOf \in [Clients -> SUBSET Seq(Text)]
    /\ \A c \in Clients : \A order \in OrdersOf[c] :
          \/ IsRotation(order)
          \/ IsStop(order) /\ \A k \in 3..Len(order) : order[k] \in Digits

VARIABLES
    main,       \* place of the main thread
    running,    \* running
    stored,     \* serverThread holds the server thread
    socket,     \* the listening socket; "orphan": closed, but accept holds it
    srv,        \* place of the server thread
    taken,      \* the client accept has returned
    threads,    \* clientThreads
    handler,    \* place of each client's thread
    device,     \* initUart succeeded
    chunk,      \* what recv returned
    conn,       \* state of each connection
    sent,       \* orders each client has sent
    stream,     \* the bytes of them, by their origins
    recvd,      \* bytes of them the server has received
    torn,       \* orders a recv has cut in two
    wire        \* bytes written to the serial line, by their origins

mainVars   == <<main, running, stored>>
srvVars    == <<srv, taken, threads>>
handlerVars == <<handler, device, chunk, recvd, torn, wire>>
clientVars == <<sent, stream>>
vars == <<mainVars, socket, srvVars, handlerVars, conn, clientVars>>

Init ==
    /\ main = "start" /\ running = FALSE /\ stored = FALSE /\ socket = "none"
    /\ srv = "none" /\ taken = NoClient /\ threads = {}
    /\ handler = [c \in Clients |-> "none"]
    /\ device = [c \in Clients |-> FALSE]
    /\ chunk = [c \in Clients |-> <<>>]
    /\ conn = [c \in Clients |-> "none"]
    /\ sent = [c \in Clients |-> <<>>]
    /\ stream = [c \in Clients |-> <<>>]
    /\ recvd = [c \in Clients |-> 0]
    /\ torn = {} /\ wire = <<>>

Alive == main \notin {"exited", "killed"}

\* A byte is known by its origin: the order it belongs to, by the client that
\* sent it, and its place there, the last one being that of the end of line.
Added == [by |-> NoClient, order |-> 0, at |-> 0]   \* by sendCommand

BytesOf(c, i, order) ==
    [k \in 1..Len(order) + 1 |-> [by |-> c, order |-> i, at |-> k]]

IsEnd(o) == o = Added \/ o.at > Len(sent[o.by][o.order])

ByteOf(o) == IF IsEnd(o) THEN EOL ELSE sent[o.by][o.order][o.at]

\* The bytes on the serial line.
Written == [n \in DOMAIN wire |-> ByteOf(wire[n])]

-----------------------------------------------------------------------------
(* The main thread. *)

(* start, up to running = true: the socket is bound and listens, or main   *)
(* returns.                                                                *)
Start ==
    /\ main = "start"
    /\ \/ main' = "create" /\ running' = TRUE /\ socket' = "open"
       \/ main' = "exited" /\ UNCHANGED <<running, socket>>
    /\ UNCHANGED <<stored, srvVars, handlerVars, conn, clientVars>>

(* serverThread = std::thread(...): the thread runs before it is stored.   *)
CreateThread ==
    /\ main = "create"
    /\ srv' = "test"
    /\ main' = "store"
    /\ UNCHANGED <<running, stored, socket, taken, threads, handlerVars, conn,
                   clientVars>>

StoreThread ==
    /\ main = "store"
    /\ stored' = TRUE
    /\ main' = "serving"
    /\ UNCHANGED <<running, socket, srvVars, handlerVars, conn, clientVars>>

(* signalHandler: stop, and exit when it returns.  As long as running is   *)
(* false stop has nothing to do.                                           *)
Signal ==
    /\ \/ /\ main \in {"create", "store", "serving"}
          /\ main' = "close" /\ running' = FALSE
       \/ main = "start" /\ main' = "exited" /\ UNCHANGED running
    /\ UNCHANGED <<stored, socket, srvVars, handlerVars, conn, clientVars>>

\* Connections nobody has accepted are reset with the listening socket.
Refused == [c \in Clients |-> IF conn[c] = "backlog" THEN "closed" ELSE conn[c]]

(* close(serverSocket): a blocked accept is not woken, and as long as it   *)
(* is blocked the kernel goes on taking connections.  Unless serverThread  *)
(* is joinable, that is stored, the join of it is skipped.                 *)
CloseSocket ==
    /\ main = "close"
    /\ main' = IF stored THEN "joinServer" ELSE "joinClients"
    /\ IF srv = "accept"
       THEN socket' = "orphan" /\ UNCHANGED conn
       ELSE socket' = "none" /\ conn' = Refused
    /\ UNCHANGED <<running, stored, srvVars, handlerVars, clientVars>>

(* Mutated JoinServer: the server thread is not joined. *)
JoinServerUnjoined ==
    /\ main = "joinServer"
    /\ main' = "joinClients"
    /\ UNCHANGED <<running, stored, socket, srvVars, handlerVars, conn, clientVars>>

JoinServer ==
    /\ main = "joinServer" /\ srv = "ended"
    /\ main' = "joinClients"
    /\ UNCHANGED <<running, stored, socket, srvVars, handlerVars, conn, clientVars>>

JoinClients ==
    /\ main = "joinClients"
    /\ \A c \in threads : handler[c] = "ended"
    /\ threads' = {}
    /\ main' = "exited"
    /\ UNCHANGED <<running, stored, socket, srv, taken, handlerVars, conn,
                   clientVars>>

-----------------------------------------------------------------------------
(* serverLoop. *)
TestRunning ==
    /\ Alive /\ srv = "test"
    /\ srv' = IF running THEN "call" ELSE "ended"
    /\ UNCHANGED <<mainVars, socket, taken, threads, handlerVars, conn,
                   clientVars>>

(* Mutated CallAccept: no continue after a failed accept. *)
CallAcceptFallsThrough ==
    /\ Alive /\ srv = "call"
    /\ srv' = IF socket = "open" THEN "accept" ELSE "spawn"
    /\ UNCHANGED <<mainVars, socket, taken, threads, handlerVars, conn,
                   clientVars>>

(* accept blocks on an open socket and fails on a closed one.              *)
CallAccept ==
    /\ Alive /\ srv = "call"
    /\ srv' = IF socket = "open" THEN "accept" ELSE "test"
    /\ UNCHANGED <<mainVars, socket, taken, threads, handlerVars, conn,
                   clientVars>>

Accept(c) ==
    /\ Alive /\ srv = "accept" /\ conn[c] = "backlog"
    /\ srv' = "spawn" /\ taken' = c
    /\ IF socket = "orphan"
       THEN socket' = "none" /\ conn' = [Refused EXCEPT ![c] = "open"]
       ELSE conn' = [conn EXCEPT ![c] = "open"] /\ UNCHANGED socket
    /\ UNCHANGED <<mainVars, threads, handlerVars, clientVars>>

(* Mutated SpawnHandler: one client only, as the controller's servers do. *)
SpawnOneHandler ==
    /\ Alive /\ srv = "spawn"
    /\ threads' = threads \cup {taken}
    /\ handler' = [handler EXCEPT ![taken] = "test"]
    /\ \E ok \in {TRUE, taken \notin Faulty} : device' = [device EXCEPT ![taken] = ok]
    /\ srv' = "ended" /\ taken' = NoClient
    /\ UNCHANGED <<mainVars, socket, chunk, recvd, torn, wire, conn, clientVars>>

(* clientThreads.emplace_back, whatever running is by now; the handler's   *)
(* initUart may fail.                                                      *)
SpawnHandler ==
    /\ Alive /\ srv = "spawn"
    /\ threads' = threads \cup {taken}
    /\ handler' = [handler EXCEPT ![taken] = "test"]
    /\ \E ok \in {TRUE, taken \notin Faulty} : device' = [device EXCEPT ![taken] = ok]
    /\ srv' = "test" /\ taken' = NoClient
    \* a stop that has not joined this thread may be walking clientThreads
    /\ \/ UNCHANGED main
       \/ main = "joinClients" /\ main' = "killed"
    /\ UNCHANGED <<running, stored, socket, chunk, recvd, torn, wire, conn, clientVars>>

ServerThread == TestRunning \/ CallAccept \/ SpawnHandler
                \/ \E c \in Clients : Accept(c)

-----------------------------------------------------------------------------
(* handleClient. *)
\* while (running): receive, or close the connection, which is in state s,
\* and end.
Continue(c, s) ==
    IF running
    THEN /\ handler' = [handler EXCEPT ![c] = "recv"]
         /\ conn' = [conn EXCEPT ![c] = s]
    ELSE /\ handler' = [handler EXCEPT ![c] = "ended"]
         /\ conn' = [conn EXCEPT ![c] = "closed"]

TestHandler(c) ==
    /\ Alive /\ handler[c] = "test"
    /\ Continue(c, conn[c])
    /\ UNCHANGED <<mainVars, socket, srvVars, device, chunk, recvd, torn, wire,
                   clientVars>>

\* A cut after byte n of a stream, there being more, falls inside an order.
CutsOrder(c, n) ==
    n < Len(stream[c]) /\ ~IsEnd(stream[c][n]) /\ ~IsEnd(stream[c][n + 1])

(* recv returns whatever part of the stream has arrived.                   *)
Recv(c) ==
    /\ Alive /\ handler[c] = "recv"
    /\ \E n \in recvd[c] + 1 .. Len(stream[c]) :
          /\ chunk' = [chunk EXCEPT ![c] = SubSeq(stream[c], recvd[c] + 1, n)]
          /\ recvd' = [recvd EXCEPT ![c] = n]
          /\ torn' = IF CutsOrder(c, n)
                     THEN torn \cup {<<c, stream[c][n].order>>} ELSE torn
    /\ handler' = [handler EXCEPT ![c] = "forward"]
    /\ UNCHANGED <<mainVars, socket, srvVars, device, wire, conn, clientVars>>

(* recv returns 0 at the end of the stream, or fails when the connection   *)
(* is reset and what had not been read is lost.                            *)
RecvEnds(c) ==
    /\ Alive /\ handler[c] = "recv" /\ conn[c] \in {"left", "reset"}
    /\ recvd[c] = Len(stream[c]) \/ conn[c] = "reset"
    /\ handler' = [handler EXCEPT ![c] = "ended"]
    /\ conn' = [conn EXCEPT ![c] = "closed"]
    /\ UNCHANGED <<mainVars, socket, srvVars, device, chunk, recvd, torn, wire,
                   clientVars>>

(* Mutated Forward: without the end of line of sendCommand. *)
ForwardBare(c) ==
    /\ Alive /\ handler[c] = "forward" /\ conn[c] \in {"open", "left"}
    /\ \/ Continue(c, conn[c])
       \/ conn[c] = "left" /\ Continue(c, "reset")
    /\ wire' = IF device[c] THEN wire \o chunk[c] ELSE wire
    /\ chunk' = [chunk EXCEPT ![c] = <<>>]
    /\ UNCHANGED <<mainVars, socket, srvVars, device, recvd, torn, clientVars>>

(* The echo, then sendCommand: nothing without a device, else the chunk    *)
(* and an end of line in one write.                                        *)
Forward(c) ==
    /\ Alive /\ handler[c] = "forward" /\ conn[c] \in {"open", "left"}
    \* the kernel of a client that has left answers the echo with a reset
    /\ \/ Continue(c, conn[c])
       \/ conn[c] = "left" /\ Continue(c, "reset")
    /\ wire' = IF device[c] THEN wire \o Append(chunk[c], Added) ELSE wire
    /\ chunk' = [chunk EXCEPT ![c] = <<>>]
    /\ UNCHANGED <<mainVars, socket, srvVars, device, recvd, torn, clientVars>>

(* An echo after the reset raises SIGPIPE, which nobody handles.           *)
BrokenPipe(c) ==
    /\ Alive /\ handler[c] = "forward" /\ conn[c] = "reset"
    /\ main' = "killed"
    /\ UNCHANGED <<running, stored, socket, srvVars, handlerVars, conn, clientVars>>

HandlerThread(c) == \/ TestHandler(c) \/ Recv(c) \/ RecvEnds(c)
                    \/ Forward(c) \/ BrokenPipe(c)

-----------------------------------------------------------------------------
(* The clients: connectToServer, rotateToAngle and sendCmd, close. *)
Connect(c) ==
    /\ conn[c] = "none" /\ Alive /\ socket \in {"open", "orphan"}
    /\ stored \/ c \in Early
    /\ conn' = [conn EXCEPT ![c] = "backlog"]
    /\ UNCHANGED <<mainVars, socket, srvVars, handlerVars, clientVars>>

SendOrder(c) ==
    /\ Alive /\ conn[c] \in {"backlog", "open"} /\ Len(sent[c]) < MaxSends
    /\ \A d \in Clients \ {c} : Len(sent[c]) + Len(sent[d]) < MaxSends
    /\ \E order \in OrdersOf[c] :
          /\ sent' = [sent EXCEPT ![c] = Append(@, order)]
          /\ stream' = [stream EXCEPT
                            ![c] = @ \o BytesOf(c, Len(sent[c]) + 1, order)]
    /\ UNCHANGED <<mainVars, socket, srvVars, handlerVars, conn>>

Leave(c) ==
    /\ Alive /\ conn[c] = "open"
    /\ conn' = [conn EXCEPT ![c] = "left"]
    /\ UNCHANGED <<mainVars, socket, srvVars, handlerVars, clientVars>>

MainThread == \/ Start \/ CreateThread \/ StoreThread
              \/ CloseSocket \/ JoinServer \/ JoinClients

Next ==
    \/ MainThread \/ Signal
    \/ ServerThread
    \/ \E c \in Clients : HandlerThread(c)
    \/ \E c \in Clients : Connect(c) \/ SendOrder(c) \/ Leave(c)

Spec == Init /\ [][Next]_vars

Fairness ==
    /\ WF_vars(MainThread)
    /\ WF_vars(ServerThread)
    /\ \A c \in Clients : WF_vars(HandlerThread(c))

FairSpec == Spec /\ Fairness

-----------------------------------------------------------------------------
Origins == [by : Clients \cup {NoClient}, order : 0..MaxSends, at : Nat]

TypeOK ==
    /\ main \in {"start", "create", "store", "serving", "close",
                 "joinServer", "joinClients", "exited", "killed"}
    /\ running \in BOOLEAN /\ stored \in BOOLEAN
    /\ socket \in {"none", "open", "orphan"}
    /\ srv \in {"none", "test", "call", "accept", "spawn", "ended"}
    /\ taken \in Clients \cup {NoClient}
    /\ threads \subseteq Clients
    /\ handler \in [Clients -> {"none", "test", "recv", "forward", "ended"}]
    /\ device \in [Clients -> BOOLEAN]
    /\ conn \in [Clients -> {"none", "backlog", "open", "left", "reset", "closed"}]
    /\ chunk \in [Clients -> Seq(Origins)] /\ stream \in [Clients -> Seq(Origins)]
    /\ recvd \in [Clients -> Nat] /\ sent \in [Clients -> Seq(Seq(Text))]
    /\ \A c \in Clients :
          /\ sent[c] \in Seq(OrdersOf[c]) /\ Len(sent[c]) <= MaxSends
          /\ recvd[c] <= Len(stream[c])
    /\ torn \subseteq Clients \X (1..MaxSends)
    /\ wire \in Seq(Origins)

(* stop joins the server thread before it walks clientThreads: no client   *)
(* accepted while the server stops is overlooked, and when the process     *)
(* ends by one signal every thread has ended.  The one exception is a      *)
(* signal between the creation of the server thread and its assignment to  *)
(* serverThread: stop finds nothing to join then, and the process ends     *)
(* under the running thread.                                               *)
JoinedAll ==
    main = "exited" =>
        \/ srv # "none" /\ ~stored
        \/ /\ srv \in {"none", "ended"}
           /\ \A c \in Clients : handler[c] \in {"none", "ended"}

\* The origin of the line that ends at byte n of the serial line.
Origin(n) == wire[n - Len(LineAt(Written, n))]

\* Order i of client c stands there, whole and on a line of its own.
Stands(c, i) ==
    \E n \in DOMAIN wire :
        LET end == n + Len(sent[c][i]) IN
        /\ wire[n] = [by |-> c, order |-> i, at |-> 1]
        /\ end \in OrderEnds(Written)
        /\ LineAt(Written, end) = sent[c][i]

(* The serial line carries lines that no two handlers mix: an order on it  *)
(* is one that a client sent, whole, or the beginning of one that a recv   *)
(* has cut; and those of a client stand there once each and in their       *)
(* order, none but cut ones left out.                                      *)
OrdersInOrder ==
    LET ends == OrderEnds(Written) IN
    \A n \in ends :
        LET first == Origin(n)
            order == sent[first.by][first.order]
        IN
        /\ first.at = 1
        /\ \/ LineAt(Written, n) = order
           \/ /\ <<first.by, first.order>> \in torn
              /\ IsPrefix(LineAt(Written, n), order)
        /\ \A m \in ends :
              m < n /\ Origin(m).by = first.by => Origin(m).order < first.order
        /\ \A i \in 1..first.order - 1 :
              <<first.by, i>> \in torn \/ Stands(first.by, i)

Serves(c) == /\ main \in {"create", "store", "serving"}
             /\ conn[c] \in {"backlog", "open"}
             /\ handler[c] = "none" \/ device[c]

(* Every chunk gets an end of line of its own, so an order that was cut    *)
(* spoils neither the next one nor another client's: time and again, each  *)
(* order sent by a client the server serves, and not cut itself, has gone  *)
(* out.                                                                    *)
EveryOrderWritten ==
    []<>\A c \in Clients : \A i \in DOMAIN sent[c] :
        ~Serves(c) \/ <<c, i>> \in torn \/ Stands(c, i)
=============================================================================
