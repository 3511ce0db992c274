-------------------------- MODULE MotorServerProofs --------------------------
(***************************************************************************)
(* For every set of clients and whatever they send: the motor server's     *)
(* process does not exit under a thread that still runs, unless a signal   *)
(* met it before the server thread was stored, and the serial line carries *)
(* the orders of each client in their order, none mixed with another's.    *)
(***************************************************************************)
EXTENDS MotorServer, WellFoundedInduction, TLAPS

-----------------------------------------------------------------------------
(* The threads. *)

Idle == {"none", "ended"}

\* The shape of the state the argument needs.
Shape ==
    /\ handler \in [Clients -> {"none", "test", "recv", "forward", "ended"}]
    /\ conn \in [Clients -> {"none", "backlog", "open", "left", "reset", "closed"}]
    /\ taken \in Clients \cup {NoClient}

\* A client accepted is one of Clients, and has no handler yet ...
TakenIsClient ==
    srv = "spawn" => /\ taken \in Clients /\ handler[taken] = "none"
                     /\ conn[taken] \notin {"none", "backlog"}

\* ... as any client before.
NotYetHandled ==
    \A c \in Clients : conn[c] \in {"none", "backlog"} => handler[c] = "none"

\* Whoever runs is among those stop will join.
RunningListed == \A c \in Clients : handler[c] \notin Idle => c \in threads

\* Before the server thread is created nothing runs; once it is joined it
\* stays so, and only a thread that is not stored goes unjoined.
Before == main \in {"start", "create"} => srv = "none" /\ threads = {}
Joined == main \in {"joinClients", "exited"} /\ stored => srv \in Idle
After  == main = "exited" => threads = {}

IInv == /\ Shape /\ TakenIsClient /\ NotYetHandled /\ RunningListed
        /\ Before /\ Joined /\ After

USE DEF IInv, Shape, Idle, TakenIsClient, NotYetHandled, RunningListed, Before,
        Joined, After

-----------------------------------------------------------------------------
LEMMA InitIInv == Init => IInv
  BY DEF Init

LEMMA MainStep == IInv /\ (MainThread \/ Signal) => IInv'
<1>. SUFFICES ASSUME IInv, MainThread \/ Signal PROVE IInv'
  OBVIOUS
<1>1. CASE Start
  BY <1>1 DEF Start, srvVars, handlerVars
<1>2. CASE Signal
  BY <1>2 DEF Signal, srvVars, handlerVars
<1>3. CASE CloseSocket
  <2>1. /\ main = "close"
        /\ main' = IF stored THEN "joinServer" ELSE "joinClients"
        /\ UNCHANGED <<stored, srv, taken, threads, handler>>
        /\ conn' = conn \/ conn' = Refused
    BY <1>3 DEF CloseSocket, srvVars, handlerVars
  <2>2. /\ conn' \in [Clients -> {"none", "backlog", "open", "left", "reset", "closed"}]
        /\ \A c \in Clients : conn'[c] = conn[c] \/ conn'[c] = "closed"
    BY <2>1 DEF Refused
  <2>. QED  BY <2>1, <2>2
<1>4. CASE JoinServer
  BY <1>4 DEF JoinServer, srvVars, handlerVars
<1>5. CASE JoinClients
  <2>1. \A c \in Clients : handler[c] \in Idle
    BY <1>5 DEF JoinClients
  <2>. QED  BY <1>5, <2>1 DEF JoinClients, handlerVars
<1>6. CASE CreateThread \/ StoreThread
  BY <1>6 DEF CreateThread, StoreThread, srvVars, handlerVars
<1>. QED  BY <1>1, <1>2, <1>3, <1>4, <1>5, <1>6 DEF MainThread

LEMMA ServerStep == IInv /\ ServerThread => IInv'
<1>. SUFFICES ASSUME IInv, ServerThread PROVE IInv'
  OBVIOUS
<1>. USE DEF Alive
<1>1. CASE TestRunning
  BY <1>1 DEF TestRunning, mainVars, handlerVars
<1>2. CASE CallAccept
  BY <1>2 DEF CallAccept, mainVars, handlerVars
<1>3. CASE SpawnHandler
  <2>1. /\ threads' = threads \cup {taken} /\ taken \in Clients
        /\ handler' = [handler EXCEPT ![taken] = "test"]
        /\ srv' = "test" /\ taken' = NoClient /\ stored' = stored
        /\ main' = main \/ main' = "killed"
        /\ main \notin {"start", "create", "exited"}
        /\ ~(main = "joinClients" /\ stored)
        /\ conn' = conn /\ conn[taken] \notin {"none", "backlog"}
    BY <1>3 DEF SpawnHandler, mainVars
  <2>2. \A c \in Clients : handler'[c] \notin Idle => c \in threads'
    BY <2>1
  <2>3. Shape' /\ NotYetHandled'
    BY <2>1
  <2>. QED  BY <2>1, <2>2, <2>3
<1>4. ASSUME NEW c \in Clients, Accept(c) PROVE IInv'
  <2>1. /\ srv = "accept" /\ srv' = "spawn" /\ taken' = c /\ conn[c] = "backlog"
        /\ UNCHANGED <<main, stored, threads, handler>>
        /\ \/ conn' = [conn EXCEPT ![c] = "open"]
           \/ conn' = [Refused EXCEPT ![c] = "open"]
    BY <1>4 DEF Accept, mainVars, handlerVars
  <2>2. /\ conn' \in [Clients -> {"none", "backlog", "open", "left", "reset", "closed"}]
        /\ conn'[c] = "open"
        /\ \A d \in Clients : conn'[d] \in {"none", "backlog"} => conn'[d] = conn[d]
    BY <2>1 DEF Refused
  <2>. QED  BY <2>1, <2>2
<1>. QED  BY <1>1, <1>2, <1>3, <1>4 DEF ServerThread

\* A handler thread runs only where one ran before.
LEMMA HandlerStep ==
    ASSUME IInv, NEW c \in Clients, HandlerThread(c)
    PROVE  IInv'
<1>1. CASE BrokenPipe(c)
  BY <1>1 DEF BrokenPipe, srvVars, handlerVars
<1>2. CASE ~BrokenPipe(c)
  <2>1. UNCHANGED <<mainVars, srvVars>>
    BY <1>2 DEF HandlerThread, TestHandler, Recv, RecvEnds, Forward
  <2>2. handler[c] \notin Idle
    BY <1>2 DEF HandlerThread, TestHandler, Recv, RecvEnds, Forward
  <2>3. \E p \in {"recv", "forward", "ended"} : handler' = [handler EXCEPT ![c] = p]
    BY <1>2 DEF HandlerThread, TestHandler, Recv, RecvEnds, Forward, Continue
  <2>4. \E s \in {conn[c], "reset", "closed"} : conn' = [conn EXCEPT ![c] = s]
    BY <1>2 DEF HandlerThread, TestHandler, Recv, RecvEnds, Forward, Continue
  <2>5. /\ conn' \in [Clients -> {"none", "backlog", "open", "left", "reset", "closed"}]
        /\ \A d \in Clients : conn'[d] \in {"none", "backlog"} => conn'[d] = conn[d]
        /\ \A d \in Clients : conn[d] \notin {"none", "backlog"}
                                 => conn'[d] \notin {"none", "backlog"}
    BY <2>4
  <2>6. conn[c] \notin {"none", "backlog"}
    BY <2>2
  <2>7. Shape' /\ NotYetHandled' /\ RunningListed'
    <3>1. taken' = taken /\ threads' = threads
      BY <2>1 DEF srvVars
    <3>2. Shape'
      BY <2>3, <2>5, <3>1
    <3>3. NotYetHandled'
      BY <2>3, <2>5, <2>6
    <3>4. RunningListed'
      BY <2>2, <2>3, <3>1
    <3>. QED  BY <3>2, <3>3, <3>4
  <2>8. TakenIsClient'
    <3>1. srv' = srv /\ taken' = taken
      BY <2>1 DEF srvVars
    <3>2. srv = "spawn" => taken \in Clients /\ taken # c
      BY <2>2
    <3>3. srv = "spawn" => handler'[taken] = "none"
      BY <2>3, <3>2
    <3>4. srv = "spawn" => conn'[taken] \notin {"none", "backlog"}
      BY <2>5, <3>2
    <3>. QED  BY <3>1, <3>2, <3>3, <3>4
  <2>. QED  BY <2>1, <2>7, <2>8 DEF mainVars, srvVars
<1>. QED  BY <1>1, <1>2

LEMMA ClientStep ==
    ASSUME IInv, NEW c \in Clients, Connect(c) \/ SendOrder(c) \/ Leave(c)
    PROVE  IInv'
<1>1. UNCHANGED <<mainVars, srvVars, handlerVars>>
  BY DEF Connect, SendOrder, Leave
<1>2. \/ conn' = conn
      \/ conn[c] = "none" /\ conn' = [conn EXCEPT ![c] = "backlog"]
      \/ conn[c] = "open" /\ conn' = [conn EXCEPT ![c] = "left"]
  BY DEF Connect, SendOrder, Leave
<1>. QED  BY <1>1, <1>2 DEF mainVars, srvVars, handlerVars

LEMMA NextIInv == IInv /\ [Next]_vars => IInv'
<1>. SUFFICES ASSUME IInv, [Next]_vars PROVE IInv'
  OBVIOUS
<1>1. CASE UNCHANGED vars
  BY <1>1 DEF vars, mainVars, srvVars, handlerVars
<1>. QED  BY <1>1, MainStep, ServerStep, HandlerStep, ClientStep DEF Next

(* When the process exits by one signal, no thread of it is left: stop     *)
(* (Server.cpp) joins the server thread before the clients' threads, and   *)
(* none is started after that.  A signal that comes after the server       *)
(* thread was created and before it is stored in serverThread is the one   *)
(* exception.                                                              *)
THEOREM AllJoined == Spec => []JoinedAll
<1>1. IInv => JoinedAll
  BY DEF JoinedAll
<1>. QED  BY <1>1, InitIInv, NextIInv, PTL DEF Spec

-----------------------------------------------------------------------------
(* What a step does to the streams and to the serial line. *)

\* The handlers keep what they hold.
Quiet ==
    /\ UNCHANGED <<device, chunk, recvd, torn, wire, sent, stream>>
    /\ \A c \in Clients : \A p \in {"none", "forward"} :
          handler'[c] = p <=> handler[c] = p

LEMMA NextMoves ==
    ASSUME IInv, [Next]_vars
    PROVE  \/ Quiet
           \/ SpawnHandler
           \/ \E c \in Clients : Recv(c) \/ Forward(c) \/ SendOrder(c)
<1>1. CASE UNCHANGED vars \/ MainThread \/ Signal
  BY <1>1 DEF vars, MainThread, Start, CreateThread, StoreThread, CloseSocket, JoinServer, JoinClients, Signal,
              mainVars, srvVars, handlerVars, clientVars, Quiet
<1>2. CASE TestRunning \/ CallAccept
  BY <1>2 DEF TestRunning, CallAccept, handlerVars, clientVars, Quiet
<1>3. ASSUME NEW c \in Clients, Accept(c) PROVE Quiet
  BY <1>3 DEF Accept, handlerVars, clientVars, Quiet
<1>4. ASSUME NEW c \in Clients, TestHandler(c) \/ RecvEnds(c) \/ BrokenPipe(c)
      PROVE  Quiet
  <2>1. UNCHANGED <<device, chunk, recvd, torn, wire, sent, stream>>
    BY <1>4 DEF TestHandler, RecvEnds, BrokenPipe, handlerVars, clientVars
  <2>2. \/ handler' = handler
        \/ /\ handler[c] \notin {"none", "forward"}
           /\ \E p \in {"recv", "ended"} : handler' = [handler EXCEPT ![c] = p]
    BY <1>4 DEF TestHandler, RecvEnds, BrokenPipe, Continue, handlerVars
  <2>. QED  BY <2>1, <2>2 DEF Quiet
<1>5. ASSUME NEW c \in Clients, Connect(c) \/ Leave(c) PROVE Quiet
  BY <1>5 DEF Connect, Leave, handlerVars, clientVars, Quiet
<1>. QED  BY <1>1, <1>2, <1>3, <1>4, <1>5 DEF Next, ServerThread, HandlerThread

\* The half of TypeOK that is about places, connections and threads.
Places ==
    /\ main \in {"start", "create", "store", "serving", "close",
                 "joinServer", "joinClients", "exited", "killed"}
    /\ running \in BOOLEAN /\ stored \in BOOLEAN
    /\ socket \in {"none", "open", "orphan"}
    /\ srv \in {"none", "test", "call", "accept", "spawn", "ended"}
    /\ threads \subseteq Clients
    /\ device \in [Clients -> BOOLEAN]

LEMMA NextPlaces == IInv /\ Places /\ [Next]_vars => Places'
<1>. SUFFICES ASSUME IInv, Places, [Next]_vars PROVE Places'
  OBVIOUS
<1>1. CASE UNCHANGED vars \/ MainThread \/ Signal
  BY <1>1 DEF vars, MainThread, Start, CreateThread, StoreThread, CloseSocket, JoinServer, JoinClients, Signal,
              mainVars, srvVars, handlerVars, Places
<1>2. CASE TestRunning \/ CallAccept
  BY <1>2 DEF TestRunning, CallAccept, mainVars, handlerVars, Places
<1>3. CASE SpawnHandler
  BY <1>3 DEF SpawnHandler, mainVars, Places
<1>4. ASSUME NEW c \in Clients, Accept(c) PROVE Places'
  BY <1>4 DEF Accept, mainVars, handlerVars, Places
<1>5. ASSUME NEW c \in Clients, HandlerThread(c) PROVE Places'
  BY <1>5 DEF HandlerThread, TestHandler, Recv, RecvEnds, Forward, BrokenPipe,
              mainVars, srvVars, handlerVars, Places
<1>6. ASSUME NEW c \in Clients, Connect(c) \/ SendOrder(c) \/ Leave(c) PROVE Places'
  BY <1>6 DEF Connect, SendOrder, Leave, mainVars, srvVars, handlerVars, Places
<1>. QED  BY <1>1, <1>2, <1>3, <1>4, <1>5, <1>6 DEF Next, ServerThread

-----------------------------------------------------------------------------
(* The streams. *)

Earlier(o, q) == o.order < q.order \/ (o.order = q.order /\ o.at < q.at)

Follower(o) == [by |-> o.by, order |-> o.order, at |-> o.at + 1]

\* The bytes clients have sent.
Sent(c) == [by : {c}, order : 1..Len(sent[c]), at : Nat \ {0}]

\* A stream carries every order its client has sent, in their order, byte
\* after byte to the end of its line.
Streamed(c) ==
    /\ sent[c] \in Seq(OrdersOf[c]) /\ Len(sent[c]) <= MaxSends
    /\ stream[c] \in Seq(Sent(c))
    /\ \A p \in DOMAIN stream[c] : ~IsEnd(stream[c][p]) =>
          /\ p + 1 \in DOMAIN stream[c]
          /\ stream[c][p + 1] = Follower(stream[c][p])
    /\ \A p, q \in DOMAIN stream[c] : p < q => Earlier(stream[c][p], stream[c][q])
    /\ \A i \in DOMAIN sent[c] : \E p \in DOMAIN stream[c] :
          stream[c][p] = [by |-> c, order |-> i, at |-> 1]

\* Bytes of the stream the handler is done with.
Done(c) == recvd[c] - Len(chunk[c])

\* The chunk is what comes next in the stream, and a cut after it is known.
Received(c) ==
    /\ chunk[c] \in Seq(Sent(c))
    /\ recvd[c] \in Nat /\ recvd[c] <= Len(stream[c]) /\ Done(c) \in Nat
    /\ \A k \in DOMAIN chunk[c] : chunk[c][k] = stream[c][Done(c) + k]
    /\ handler[c] # "forward" => chunk[c] = <<>>
    /\ handler[c] = "none" => recvd[c] = 0
    /\ handler[c] = "forward" => /\ recvd[c] > 0
                                 /\ CutsOrder(c, recvd[c]) =>
                                       <<c, stream[c][recvd[c]].order>> \in torn

Streams ==
    /\ sent \in [Clients -> Seq(Seq(Text))]
    /\ DOMAIN stream = Clients /\ DOMAIN chunk = Clients /\ DOMAIN recvd = Clients
    /\ torn \subseteq Clients \X (1..MaxSends)
    /\ \A c \in Clients : Streamed(c) /\ Received(c)

LEMMA InitStreams == Init => Streams
<1>. SUFFICES ASSUME Init PROVE Streams
  OBVIOUS
<1>1. ASSUME NEW c \in Clients PROVE Streamed(c) /\ Received(c)
  <2>1. sent[c] = <<>> /\ stream[c] = <<>> /\ chunk[c] = <<>> /\ recvd[c] = 0
        /\ handler[c] = "none"
    BY DEF Init
  <2>2. Len(<<>>) = 0
    OBVIOUS
  <2>. QED  BY <2>1, <2>2, ServerAssumption DEF Streamed, Received, Done
<1>2. sent \in [Clients -> Seq(Seq(Text))]
  BY DEF Init
<1>. QED  BY <1>1, <1>2 DEF Init, Streams

\* IsEnd after the step.
EndsThen(o) == o = Added \/ o.at > Len(sent'[o.by][o.order])

\* What has been sent of an order stays what it was.
LEMMA IsEndStays ==
    ASSUME NEW c \in Clients, NEW o \in Sent(c),
           sent[c] \in Seq(Seq(Text)), sent'[c] \in Seq(Seq(Text)),
           Len(sent[c]) <= Len(sent'[c]),
           \A i \in DOMAIN sent[c] : sent'[c][i] = sent[c][i]
    PROVE  EndsThen(o) <=> IsEnd(o)
<1>1. o.by = c /\ o.order \in DOMAIN sent[c]
  BY DEF Sent
<1>. QED  BY <1>1 DEF IsEnd, EndsThen

LEMMA Concatenated ==
    ASSUME NEW S, NEW u \in Seq(S), NEW v \in Seq(S)
    PROVE  /\ u \o v \in Seq(S) /\ Len(u \o v) = Len(u) + Len(v)
           /\ Len(u) \in Nat /\ Len(v) \in Nat
           /\ DOMAIN (u \o v) = 1..Len(u) + Len(v)
           /\ \A p \in 1..Len(u) : (u \o v)[p] = u[p]
           /\ \A k \in 1..Len(v) : (u \o v)[Len(u) + k] = v[k]
           /\ \A p \in 1..Len(u) + Len(v) :
                 p \in 1..Len(u) \/ \E k \in 1..Len(v) : p = Len(u) + k
<1>1. Len(u) \in Nat /\ Len(v) \in Nat
  OBVIOUS
<1>2. u \o v \in Seq(S) /\ Len(u \o v) = Len(u) + Len(v)
  OBVIOUS
<1>3. DOMAIN (u \o v) = 1..Len(u) + Len(v)
  BY <1>2
<1>4. \A p \in 1..Len(u) : (u \o v)[p] = u[p]
  OBVIOUS
<1>5. \A k \in 1..Len(v) : (u \o v)[Len(u) + k] = v[k]
  OBVIOUS
<1>6. \A p \in 1..Len(u) + Len(v) :
         p \in 1..Len(u) \/ \E k \in 1..Len(v) : p = Len(u) + k
  <2>1. \A p \in 1..Len(u) + Len(v) :
           \/ p \in 1..Len(u)
           \/ p - Len(u) \in 1..Len(v) /\ p = Len(u) + (p - Len(u))
    BY <1>1
  <2>. QED  BY <2>1
<1>. QED  BY <1>1, <1>2, <1>3, <1>4, <1>5, <1>6

LEMMA SendOrderStreams ==
    ASSUME Streams, NEW c \in Clients, SendOrder(c)
    PROVE  Streamed(c)' /\ Received(c)' /\ sent' \in [Clients -> Seq(Seq(Text))]
<1>. DEFINE N == Len(sent[c]) + 1
            s == stream[c]
            L == Len(s)
<1>1. PICK order \in OrdersOf[c] :
          /\ sent' = [sent EXCEPT ![c] = Append(@, order)]
          /\ stream' = [stream EXCEPT ![c] = @ \o BytesOf(c, N, order)]
  BY DEF SendOrder
<1>. DEFINE b == BytesOf(c, N, order)
            t == stream'[c]
<1>2. UNCHANGED <<chunk, recvd, torn, handler>> /\ Len(sent[c]) < MaxSends
  BY DEF SendOrder, handlerVars
<1>3. order \in Seq(Text) /\ MaxSends \in Nat
  BY ServerAssumption
<1>4. /\ sent \in [Clients -> Seq(Seq(Text))] /\ sent[c] \in Seq(OrdersOf[c])
      /\ s \in Seq(Sent(c)) /\ DOMAIN stream = Clients
      /\ Streamed(c) /\ Received(c)
  BY DEF Streams, Streamed
<1>5. /\ sent'[c] = Append(sent[c], order) /\ sent'[c] \in Seq(OrdersOf[c])
      /\ sent' \in [Clients -> Seq(Seq(Text))]
      /\ sent'[c] \in Seq(Seq(Text)) /\ sent[c] \in Seq(Seq(Text))
      /\ Len(sent[c]) \in Nat /\ N = Len(sent[c]) + 1
      /\ Len(sent'[c]) = N /\ N <= MaxSends /\ N \in 1..MaxSends /\ sent'[c][N] = order
      /\ DOMAIN sent'[c] = DOMAIN sent[c] \cup {N} /\ DOMAIN sent[c] = 1..N - 1
      /\ \A i \in DOMAIN sent[c] : sent'[c][i] = sent[c][i]
  BY <1>1, <1>2, <1>3, <1>4
<1>6. /\ b \in Seq(Sent(c)') /\ Len(b) = Len(order) + 1 /\ Len(order) \in Nat
      /\ \A k \in 1..Len(b) : b[k] = [by |-> c, order |-> N, at |-> k]
  BY <1>3, <1>5 DEF BytesOf, Sent
<1>7. s \in Seq(Sent(c)') /\ \A p \in 1..Len(s) : s[p] \in Sent(c)
  <2>1. Sent(c) \subseteq Sent(c)'
    BY <1>5 DEF Sent
  <2>. QED  BY <1>4, <2>1
<1>8. t = s \o b
  BY <1>1, <1>4
<1>. HIDE DEF b, N, s, t, L
<1>9. /\ t \in Seq(Sent(c)') /\ L = Len(s) /\ L \in Nat /\ Len(t) = L + Len(b) /\ Len(b) \in Nat
      /\ \A p \in 1..L : t[p] = s[p]
      /\ \A k \in 1..Len(b) : t[L + k] = b[k]
      /\ \A p \in DOMAIN t : p \in 1..L \/ \E k \in 1..Len(b) : p = L + k
      /\ DOMAIN t = 1..L + Len(b) /\ DOMAIN s = 1..L
  <2>1. PICK S : S = Sent(c)'
    OBVIOUS
  <2>2. s \in Seq(S) /\ b \in Seq(S)
    BY <1>6, <1>7, <2>1
  <2>3. DOMAIN s = 1..Len(s)
    BY <2>2
  <2>. QED  BY <1>8, <2>1, <2>2, <2>3, Concatenated DEF L
<1>10. \A p \in 1..L : EndsThen(t[p]) <=> IsEnd(s[p])
  <2>1. Len(sent[c]) <= Len(sent'[c])
    BY <1>5
  <2>2. ASSUME NEW o \in Sent(c) PROVE EndsThen(o) <=> IsEnd(o)
    BY <1>5, <2>1, IsEndStays
  <2>3. \A p \in 1..L : s[p] \in Sent(c) /\ t[p] = s[p]
    BY <1>7, <1>9
  <2>. QED  BY <2>2, <2>3
<1>11. \A k \in 1..Len(b) : EndsThen(t[L + k]) <=> k > Len(order)
  <2>. SUFFICES ASSUME NEW k \in 1..Len(b)
                PROVE  EndsThen(t[L + k]) <=> k > Len(order)
    OBVIOUS
  <2>1. t[L + k] = [by |-> c, order |-> N, at |-> k]
    BY <1>6, <1>9
  <2>2. t[L + k] # Added
    BY <2>1, ServerAssumption DEF Added
  <2>. QED  BY <1>5, <2>1, <2>2 DEF EndsThen
<1>12. /\ \A p \in DOMAIN s : ~IsEnd(s[p]) => p + 1 \in DOMAIN s /\ s[p + 1] = Follower(s[p])
       /\ \A p, q \in DOMAIN s : p < q => Earlier(s[p], s[q])
       /\ \A i \in DOMAIN sent[c] : \E p \in DOMAIN s :
             s[p] = [by |-> c, order |-> i, at |-> 1]
  BY <1>4 DEF Streamed, s
<1>13. ASSUME NEW p \in DOMAIN t, ~EndsThen(t[p])
       PROVE  p + 1 \in DOMAIN t /\ t[p + 1] = Follower(t[p])
  <2>1. CASE p \in 1..L
    BY <1>9, <1>10, <1>12, <1>13, <2>1
  <2>2. ASSUME NEW k \in 1..Len(b), p = L + k PROVE p + 1 \in DOMAIN t /\ t[p + 1] = Follower(t[p])
    <3>1. k <= Len(order) /\ k + 1 \in 1..Len(b) /\ p + 1 = L + (k + 1)
      BY <1>6, <1>9, <1>11, <1>13, <2>2
    <3>2. t[L + (k + 1)] = b[k + 1] /\ t[L + k] = b[k] /\ L + (k + 1) \in DOMAIN t
      BY <1>9, <3>1
    <3>. QED  BY <1>6, <2>2, <3>1, <3>2 DEF Follower
  <2>. QED  BY <1>9, <2>1, <2>2
<1>14. ASSUME NEW p \in DOMAIN t, NEW q \in DOMAIN t, p < q
       PROVE  Earlier(t[p], t[q])
  <2>1. CASE p \in 1..L /\ q \in 1..L
    BY <1>9, <1>12, <1>14, <2>1
  <2>2. ASSUME NEW k \in 1..Len(b), p = L + k PROVE Earlier(t[p], t[q])
    <3>1. PICK j \in 1..Len(b) : q = L + j
      <4>1. ~(q \in 1..L)
        BY <1>9, <1>14, <2>2
      <4>. QED  BY <1>9, <1>14, <4>1
    <3>2. t[p] = b[k] /\ t[q] = b[j] /\ k < j
      BY <1>9, <1>14, <2>2, <3>1
    <3>. QED  BY <1>6, <3>2 DEF Earlier
  <2>3. ASSUME NEW j \in 1..Len(b), q = L + j, p \in 1..L PROVE Earlier(t[p], t[q])
    <3>1. t[p] = s[p] /\ t[q] = b[j] /\ s[p] \in Sent(c)
      BY <1>7, <1>9, <2>3
    <3>2. b[j].order = N
      BY <1>6
    <3>3. s[p].order \in 1..Len(sent[c])
      BY <3>1 DEF Sent
    <3>4. s[p].order < N
      BY <1>5, <3>3
    <3>. QED  BY <3>1, <3>2, <3>4 DEF Earlier
  <2>. QED  BY <1>9, <2>1, <2>2, <2>3
<1>15. ASSUME NEW i \in DOMAIN sent'[c]
       PROVE  \E p \in DOMAIN t : t[p] = [by |-> c, order |-> i, at |-> 1]
  <2>1. CASE i \in DOMAIN sent[c]
    BY <1>9, <1>12, <2>1
  <2>2. CASE i = N
    <3>1. 1 \in 1..Len(b) /\ L + 1 \in DOMAIN t /\ t[L + 1] = b[1]
      BY <1>6, <1>9
    <3>. QED  BY <1>6, <2>2, <3>1
  <2>. QED  BY <1>5, <2>1, <2>2
<1>16. Streamed(c)'
  BY <1>5, <1>9, <1>13, <1>14, <1>15 DEF Streamed, EndsThen, IsEnd, t
<1>17. Received(c)'
  <2>1. /\ chunk[c] \in Seq(Sent(c)') /\ recvd[c] \in Nat /\ recvd[c] <= L
        /\ Done(c) \in Nat /\ Done(c)' = Done(c)
    <3>1. Sent(c) \subseteq Sent(c)'
      BY <1>5 DEF Sent
    <3>. QED  BY <1>2, <1>4, <1>9, <3>1 DEF Received, Done, s
  <2>2. \A k \in DOMAIN chunk[c] : chunk[c][k] = t[Done(c) + k]
    <3>1. \A k \in DOMAIN chunk[c] : Done(c) + k \in 1..L
      <4>1. DOMAIN chunk[c] = 1..Len(chunk[c]) /\ Len(chunk[c]) \in Nat
        BY <2>1
      <4>. QED  BY SMTT(30), <1>9, <2>1, <4>1 DEF Done
    <3>. QED  BY <1>4, <1>9, <3>1 DEF Received, s
  <2>3. ASSUME handler[c] = "forward", recvd[c] < Len(t),
               ~EndsThen(t[recvd[c]]), ~EndsThen(t[recvd[c] + 1])
        PROVE  <<c, t[recvd[c]].order>> \in torn
    <3>1. recvd[c] \in 1..L
      BY <1>4, <2>1, <2>3 DEF Received
    <3>2. ~IsEnd(s[recvd[c]]) /\ t[recvd[c]] = s[recvd[c]]
      BY <1>9, <1>10, <2>3, <3>1
    <3>3. recvd[c] + 1 \in 1..L
      BY <1>9, <1>12, <3>1, <3>2
    <3>4. CutsOrder(c, recvd[c])
      <4>1. ~IsEnd(s[recvd[c] + 1])
        BY <1>10, <2>3, <3>3
      <4>2. recvd[c] < Len(s)
        BY <1>9, <2>1, <3>3
      <4>. QED  BY <3>2, <4>1, <4>2 DEF CutsOrder, s
    <3>. QED  BY <1>4, <2>3, <3>2, <3>4 DEF Received, s
  <2>4. /\ handler[c] # "forward" => chunk[c] = <<>>
        /\ handler[c] = "none" => recvd[c] = 0
        /\ handler[c] = "forward" => recvd[c] > 0
    BY <1>4 DEF Received
  <2>5. recvd[c] <= Len(t)
    BY <1>9, <2>1
  <2>6. handler[c] = "forward" /\ CutsOrder(c, recvd[c])' =>
           <<c, t[recvd[c]].order>> \in torn
    BY <1>2, <2>3 DEF CutsOrder, EndsThen, IsEnd, t
  <2>. QED  BY <1>2, <2>1, <2>2, <2>4, <2>5, <2>6 DEF Received, t
<1>. QED  BY <1>5, <1>16, <1>17

LEMMA StreamedStays ==
    ASSUME Streams, NEW c \in Clients, stream'[c] = stream[c], sent'[c] = sent[c]
    PROVE  /\ Streamed(c)' /\ Sent(c)' = Sent(c)
           /\ \A n \in DOMAIN stream[c] : IsEnd(stream[c][n])' <=> IsEnd(stream[c][n])
           /\ \A n \in DOMAIN stream[c] : CutsOrder(c, n)' <=> CutsOrder(c, n)
<1>1. /\ Streamed(c) /\ sent[c] \in Seq(Seq(Text)) /\ stream[c] \in Seq(Sent(c))
      /\ Sent(c)' = Sent(c)
  BY DEF Streams, Streamed, Sent
<1>2. \A n \in DOMAIN stream[c] : EndsThen(stream[c][n]) <=> IsEnd(stream[c][n])
  BY <1>1, IsEndStays
<1>3. \A n \in DOMAIN stream[c] : IsEnd(stream[c][n])' <=> IsEnd(stream[c][n])
  BY <1>2 DEF IsEnd, EndsThen
<1>4. Streamed(c)'
  BY <1>1, <1>3 DEF Streamed
<1>5. \A n \in DOMAIN stream[c] : CutsOrder(c, n)' <=> CutsOrder(c, n)
  <2>1. \A n \in DOMAIN stream[c] : n < Len(stream[c]) => n + 1 \in DOMAIN stream[c]
    BY <1>1
  <2>. QED  BY <1>3, <2>1 DEF CutsOrder
<1>. QED  BY <1>1, <1>3, <1>4, <1>5

LEMMA ReceivedStays ==
    ASSUME Streams, NEW c \in Clients, stream'[c] = stream[c], sent'[c] = sent[c],
           chunk'[c] = chunk[c], recvd'[c] = recvd[c], torn \subseteq torn',
           handler'[c] = "forward" <=> handler[c] = "forward",
           handler'[c] = "none" => handler[c] = "none"
    PROVE  Received(c)'
<1>1. Received(c) /\ stream[c] \in Seq(Sent(c))
  BY DEF Streams, Streamed
<1>2. recvd[c] > 0 => recvd[c] \in DOMAIN stream[c]
  BY <1>1 DEF Received
<1>3. handler'[c] = "forward" =>
         /\ recvd'[c] > 0
         /\ CutsOrder(c, recvd[c])' => <<c, stream'[c][recvd'[c]].order>> \in torn'
  BY <1>1, <1>2, StreamedStays DEF Received
<1>4. Done(c)' = Done(c)
  BY DEF Done
<1>. QED  BY <1>1, <1>3, <1>4, StreamedStays DEF Received

LEMMA PartOf ==
    ASSUME NEW S, NEW u \in Seq(S), NEW r \in Nat, NEW n \in Nat, r <= n, n <= Len(u)
    PROVE  /\ SubSeq(u, r + 1, n) \in Seq(S) /\ Len(SubSeq(u, r + 1, n)) = n - r
           /\ DOMAIN SubSeq(u, r + 1, n) = 1..n - r
           /\ \A k \in 1..n - r : SubSeq(u, r + 1, n)[k] = u[r + k]
<1>1. \A p \in 1..n - r : r + p \in 1..Len(u)
  OBVIOUS
<1>2. (n - (r + 1)) + 1 = n - r /\ n - r \in Nat
  OBVIOUS
<1>3. Len(SubSeq(u, r + 1, n)) = n - r /\ DOMAIN SubSeq(u, r + 1, n) = 1..n - r
  BY <1>2
<1>4. \A k \in 1..n - r : SubSeq(u, r + 1, n)[k] = u[r + k]
  BY <1>2
<1>5. SubSeq(u, r + 1, n) \in Seq(S)
  BY <1>1, <1>2, <1>3, <1>4
<1>. QED  BY <1>3, <1>4, <1>5

LEMMA RecvReceives ==
    ASSUME Streams, Shape, NEW c \in Clients, Recv(c)
    PROVE  /\ Received(c)' /\ torn \subseteq torn' /\ torn' \subseteq Clients \X (1..MaxSends)
           /\ Done(c)' = Done(c)
<1>1. Received(c) /\ Streamed(c) /\ stream[c] \in Seq(Sent(c))
  BY DEF Streams, Streamed
<1>2. PICK n \in recvd[c] + 1 .. Len(stream[c]) :
          /\ chunk' = [chunk EXCEPT ![c] = SubSeq(stream[c], recvd[c] + 1, n)]
          /\ recvd' = [recvd EXCEPT ![c] = n]
          /\ torn' = IF CutsOrder(c, n)
                     THEN torn \cup {<<c, stream[c][n].order>>} ELSE torn
  BY DEF Recv
<1>3. /\ UNCHANGED <<sent, stream>>
      /\ handler' = [handler EXCEPT ![c] = "forward"] /\ handler[c] = "recv"
  BY DEF Recv, clientVars
<1>4. /\ chunk'[c] = SubSeq(stream[c], recvd[c] + 1, n) /\ recvd'[c] = n
      /\ handler'[c] = "forward" /\ recvd[c] \in Nat /\ chunk[c] = <<>>
      /\ n \in DOMAIN stream[c] /\ n \in Nat
  <2>1. recvd[c] \in Nat /\ chunk[c] = <<>>
    BY <1>1, <1>3 DEF Received
  <2>2. n \in DOMAIN stream[c] /\ n \in Nat
    BY <1>1, <2>1
  <2>. QED  BY <1>2, <1>3, <2>1, <2>2 DEF Streams
<1>5. /\ chunk'[c] \in Seq(Sent(c)) /\ Len(chunk'[c]) = n - recvd[c]
      /\ \A k \in DOMAIN chunk'[c] : chunk'[c][k] = stream[c][recvd[c] + k]
  <2>1. PICK S : S = Sent(c)
    OBVIOUS
  <2>2. PICK r \in Nat : r = recvd[c]
    BY <1>4
  <2>3. stream[c] \in Seq(S) /\ r <= n /\ n <= Len(stream[c])
    BY <1>1, <1>2, <1>4, <2>1, <2>2
  <2>4. /\ SubSeq(stream[c], r + 1, n) \in Seq(S)
        /\ Len(SubSeq(stream[c], r + 1, n)) = n - r
        /\ DOMAIN SubSeq(stream[c], r + 1, n) = 1..n - r
        /\ \A k \in 1..n - r : SubSeq(stream[c], r + 1, n)[k] = stream[c][r + k]
    <3>1. \A u \in Seq(S) : r <= n /\ n <= Len(u) =>
             /\ SubSeq(u, r + 1, n) \in Seq(S)
             /\ Len(SubSeq(u, r + 1, n)) = n - r
             /\ DOMAIN SubSeq(u, r + 1, n) = 1..n - r
             /\ \A k \in 1..n - r : SubSeq(u, r + 1, n)[k] = u[r + k]
      <4>1. n \in Nat
        BY <1>4
      <4>. QED  BY <4>1, PartOf
    <3>. QED  BY <2>3, <3>1
  <2>. QED  BY <1>4, <2>1, <2>2, <2>4
<1>6. Done(c) = recvd[c] /\ Done(c)' = recvd[c]
  <2>1. Len(<<>>) = 0
    OBVIOUS
  <2>. QED  BY <1>2, <1>4, <1>5, <2>1 DEF Done
<1>7. CutsOrder(c, n)' => <<c, stream'[c][n].order>> \in torn'
  BY <1>2, <1>3, <1>4, StreamedStays
<1>8. Received(c)'
  <2>1. Sent(c)' = Sent(c) /\ stream'[c] = stream[c]
    BY <1>3, StreamedStays
  <2>2. /\ recvd'[c] \in Nat /\ recvd'[c] <= Len(stream'[c]) /\ recvd'[c] > 0
        /\ Done(c)' \in Nat
    BY <1>1, <1>2, <1>4, <1>6, <2>1
  <2>3. \A k \in DOMAIN chunk'[c] : chunk'[c][k] = stream'[c][Done(c)' + k]
    BY <1>5, <1>6, <2>1
  <2>4. CutsOrder(c, recvd[c])' => <<c, stream'[c][recvd'[c]].order>> \in torn'
    BY <1>4, <1>7
  <2>. QED  BY <1>4, <1>5, <2>1, <2>2, <2>3, <2>4 DEF Received
<1>9. stream[c][n].order \in 1..MaxSends
  <2>1. stream[c][n] \in Sent(c)
    BY <1>1, <1>4
  <2>2. stream[c][n].order \in 1..Len(sent[c])
    BY <2>1 DEF Sent
  <2>. QED  BY <1>1, <2>2, ServerAssumption DEF Streamed
<1>. QED  BY <1>2, <1>6, <1>8, <1>9 DEF Streams

LEMMA ForwardReceived ==
    ASSUME Streams, Shape, NEW c \in Clients, Forward(c)
    PROVE  Received(c)' /\ Done(c)' = recvd[c]
<1>1. /\ Received(c) /\ stream[c] \in Seq(Sent(c))
      /\ DOMAIN chunk = Clients /\ UNCHANGED <<sent, stream, recvd, torn>>
  BY DEF Forward, clientVars, Streams, Streamed
<1>2. chunk'[c] = <<>> /\ handler'[c] \in {"recv", "ended"}
  BY <1>1 DEF Forward, Continue
<1>3. <<>> \in Seq(Sent(c)) /\ Len(<<>>) = 0 /\ DOMAIN <<>> = {}
  OBVIOUS
<1>4. Done(c)' = recvd[c]
  BY <1>1, <1>2, <1>3 DEF Done, Received
<1>. QED  BY <1>1, <1>2, <1>3, <1>4, StreamedStays DEF Received

LEMMA NextStreams == IInv /\ Streams /\ [Next]_vars => Streams'
<1>. SUFFICES ASSUME IInv, Streams, [Next]_vars PROVE Streams'
  OBVIOUS
<1>1. CASE Quiet
  BY <1>1, StreamedStays, ReceivedStays DEF Quiet, Streams
<1>2. CASE SpawnHandler
  <2>1. /\ UNCHANGED <<chunk, recvd, torn, sent, stream>>
        /\ handler' = [handler EXCEPT ![taken] = "test"] /\ handler[taken] = "none"
    BY <1>2 DEF SpawnHandler, clientVars
  <2>2. \A c \in Clients : /\ handler'[c] = "forward" <=> handler[c] = "forward"
                           /\ handler'[c] = "none" => handler[c] = "none"
    BY <2>1
  <2>. QED  BY <2>1, <2>2, StreamedStays, ReceivedStays DEF Streams
<1>3. ASSUME NEW c \in Clients, Recv(c) PROVE Streams'
  <2>1. /\ UNCHANGED <<sent, stream>>
        /\ \A d \in Clients \ {c} : /\ chunk'[d] = chunk[d] /\ recvd'[d] = recvd[d]
                                    /\ handler'[d] = handler[d]
        /\ DOMAIN chunk' = Clients /\ DOMAIN recvd' = Clients
    BY <1>3 DEF Recv, clientVars, Streams
  <2>2. Received(c)' /\ torn \subseteq torn' /\ torn' \subseteq Clients \X (1..MaxSends)
    BY <1>3, RecvReceives
  <2>3. \A d \in Clients \ {c} : Received(d)'
    BY <2>1, <2>2, ReceivedStays
  <2>4. \A d \in Clients : Streamed(d)'
    BY <2>1, StreamedStays
  <2>. QED  BY <2>1, <2>2, <2>3, <2>4 DEF Streams
<1>4. ASSUME NEW c \in Clients, Forward(c) PROVE Streams'
  <2>1. /\ UNCHANGED <<sent, stream, recvd, torn>>
        /\ \A d \in Clients \ {c} : chunk'[d] = chunk[d] /\ handler'[d] = handler[d]
        /\ DOMAIN chunk' = Clients
    BY <1>4 DEF Forward, Continue, clientVars, Streams
  <2>2. Received(c)'
    BY <1>4, ForwardReceived
  <2>3. \A d \in Clients \ {c} : Received(d)'
    BY <2>1, ReceivedStays
  <2>4. \A d \in Clients : Streamed(d)'
    BY <2>1, StreamedStays
  <2>. QED  BY <2>1, <2>2, <2>3, <2>4 DEF Streams
<1>5. ASSUME NEW c \in Clients, SendOrder(c) PROVE Streams'
  <2>1. /\ UNCHANGED <<handler, chunk, recvd, torn>>
        /\ \A d \in Clients \ {c} : sent'[d] = sent[d] /\ stream'[d] = stream[d]
        /\ DOMAIN stream' = Clients
    BY <1>5 DEF SendOrder, handlerVars, Streams
  <2>2. Streamed(c)' /\ Received(c)' /\ sent' \in [Clients -> Seq(Seq(Text))]
    BY <1>5, SendOrderStreams
  <2>3. \A d \in Clients \ {c} : Streamed(d)' /\ Received(d)'
    BY <2>1, StreamedStays, ReceivedStays
  <2>. QED  BY <2>1, <2>2, <2>3 DEF Streams
<1>. QED  BY <1>1, <1>2, <1>3, <1>4, <1>5, NextMoves

-----------------------------------------------------------------------------
(* The serial line. *)

\* A byte on the serial line comes from a stream, or sendCommand adds it.
Sourced(o) ==
    o = Added \/ \E c \in Clients : device[c] /\ \E p \in 1..Done(c) : o = stream[c][p]

\* An order goes on with its next byte, unless it is over or was torn.
Continued(n) ==
    IsEnd(wire[n]) \/
    /\ n + 1 \in DOMAIN wire
    /\ \/ wire[n + 1] = Follower(wire[n])
       \/ /\ wire[n + 1] = Added
          /\ \/ wire[n].at = Len(sent[wire[n].by][wire[n].order])
             \/ <<wire[n].by, wire[n].order>> \in torn

\* The serial line carries what the handlers have forwarded, all of it, and
\* that of each client in its order.
Wired ==
    /\ wire \in Seq(Origins)
    /\ \A n \in DOMAIN wire : Sourced(wire[n]) /\ Continued(n)
    /\ \A m, n \in DOMAIN wire :
          m < n /\ wire[m].by = wire[n].by /\ wire[n] # Added
             => Earlier(wire[m], wire[n])
    /\ \A c \in Clients : device[c] =>
          \A p \in 1..Done(c) : \E n \in DOMAIN wire : wire[n] = stream[c][p]

LEMMA SentIsOrigin ==
    ASSUME Streams, NEW c \in Clients
    PROVE  Sent(c) \subseteq Origins /\ Added \notin Sent(c)
<1>1. Len(sent[c]) \in Nat /\ Len(sent[c]) <= MaxSends /\ MaxSends \in Nat
  BY ServerAssumption DEF Streams, Streamed
<1>2. 1..Len(sent[c]) \subseteq 0..MaxSends
  BY <1>1
<1>. QED  BY <1>2, ServerAssumption DEF Sent, Origins, Added

LEMMA DoneInStream ==
    ASSUME Streams, NEW c \in Clients
    PROVE  /\ Done(c) \in Nat /\ Len(chunk[c]) \in Nat
           /\ Done(c) + Len(chunk[c]) = recvd[c] /\ recvd[c] <= Len(stream[c])
           /\ \A p \in 1..recvd[c] : p \in DOMAIN stream[c]
           /\ \A p \in 1..Done(c) : p \in DOMAIN stream[c]
<1>1. /\ stream[c] \in Seq(Sent(c)) /\ chunk[c] \in Seq(Sent(c))
      /\ recvd[c] \in Nat /\ recvd[c] <= Len(stream[c]) /\ Done(c) \in Nat
  BY DEF Streams, Streamed, Received
<1>2. Len(chunk[c]) \in Nat /\ DOMAIN stream[c] = 1..Len(stream[c]) /\ Len(stream[c]) \in Nat
  BY <1>1
<1>3. Done(c) + Len(chunk[c]) = recvd[c]
  BY <1>1, <1>2 DEF Done
<1>. QED  BY <1>1, <1>2, <1>3

LEMMA SourcedIsSent ==
    ASSUME Streams, NEW o, Sourced(o), o # Added
    PROVE  \E c \in Clients : o \in Sent(c) /\ o.by = c
<1>1. PICK c \in Clients : \E p \in 1..Done(c) : o = stream[c][p]
  BY DEF Sourced
<1>2. stream[c] \in Seq(Sent(c)) /\ \A p \in 1..Done(c) : p \in DOMAIN stream[c]
  BY DoneInStream DEF Streams, Streamed
<1>3. o \in Sent(c)
  BY <1>1, <1>2
<1>. QED  BY <1>3 DEF Sent

LEMMA InitWired == Init => Wired
<1>. SUFFICES ASSUME Init PROVE Wired
  OBVIOUS
<1>1. wire = <<>> /\ \A c \in Clients : ~device[c]
  BY DEF Init
<1>. QED  BY <1>1 DEF Wired

\* As long as nothing is forwarded, the line stays as it is.
LEMMA WiredStays ==
    ASSUME Streams, Wired, UNCHANGED wire, torn \subseteq torn',
           \A c \in Clients : /\ Done(c)' = Done(c)
                              /\ device'[c] = device[c] \/ Done(c) = 0,
           \A c \in Clients : \A p \in 1..Done(c) : stream'[c][p] = stream[c][p],
           \A c \in Clients : /\ sent'[c] \in Seq(Seq(Text))
                              /\ Len(sent[c]) <= Len(sent'[c])
                              /\ \A i \in DOMAIN sent[c] : sent'[c][i] = sent[c][i]
    PROVE  Wired'
<1>1. ASSUME NEW n \in DOMAIN wire PROVE Sourced(wire[n])'
  BY <1>1 DEF Wired, Sourced
<1>2. ASSUME NEW n \in DOMAIN wire PROVE Continued(n)'
  <2>1. CASE wire[n] = Added
    BY <2>1 DEF Continued, IsEnd
  <2>2. CASE wire[n] # Added
    <3>1. PICK c \in Clients : wire[n] \in Sent(c) /\ wire[n].by = c
      BY <2>2, SourcedIsSent DEF Wired
    <3>2. sent[c] \in Seq(Seq(Text)) /\ wire[n].order \in DOMAIN sent[c]
      BY <3>1 DEF Streams, Sent
    <3>3. EndsThen(wire[n]) <=> IsEnd(wire[n])
      BY <3>1, <3>2, IsEndStays
    <3>4. sent'[wire[n].by][wire[n].order] = sent[wire[n].by][wire[n].order]
      BY <3>1, <3>2
    <3>5. Continued(n)
      BY DEF Wired
    <3>. QED  BY <3>3, <3>4, <3>5 DEF Continued, EndsThen, IsEnd, Follower
  <2>. QED  BY <2>1, <2>2
<1>3. ASSUME NEW c \in Clients, device'[c], NEW p \in 1..Done(c)
      PROVE  \E n \in DOMAIN wire : wire[n] = stream'[c][p]
  BY <1>3 DEF Wired
<1>. QED  BY <1>1, <1>2, <1>3 DEF Wired, Earlier, Origins

\* A chunk and its end of line continue what was forwarded before.
LEMMA ForwardWired ==
    ASSUME IInv, Streams, Wired, NEW c \in Clients, Forward(c)
    PROVE  Wired'
<1>. DEFINE D == Done(c)
            k == Len(chunk[c])
            L == Len(wire)
            f == Append(chunk[c], Added)
<1>1. /\ UNCHANGED <<sent, stream, recvd, torn, device>>
      /\ handler[c] = "forward"
      /\ wire' = IF device[c] THEN wire \o f ELSE wire
      /\ chunk' = [chunk EXCEPT ![c] = <<>>]
  BY DEF Forward, clientVars
<1>2. Received(c)' /\ Done(c)' = recvd[c]
      /\ \A d \in Clients \ {c} : Done(d)' = Done(d)
  BY <1>1, ForwardReceived DEF Streams, Done
<1>3. /\ D \in Nat /\ k \in Nat /\ D + k = recvd[c]
      /\ \A p \in 1..recvd[c] : p \in DOMAIN stream[c]
      /\ Received(c) /\ Streamed(c) /\ stream[c] \in Seq(Sent(c))
  BY DoneInStream DEF Streams, Streamed
<1>4. CASE ~device[c]
  <2>1. ASSUME NEW n \in DOMAIN wire PROVE Sourced(wire[n])'
    BY <1>1, <1>2, <1>4 DEF Wired, Sourced
  <2>2. ASSUME NEW n \in DOMAIN wire PROVE Continued(n)'
    <3>1. Continued(n)
      BY DEF Wired
    <3>. QED  BY <1>1, <1>4, <3>1 DEF Continued, IsEnd, Follower
  <2>3. ASSUME NEW d \in Clients, device[d], NEW p \in 1..Done(d)'
        PROVE  \E n \in DOMAIN wire : wire[n] = stream[d][p]
    BY <1>2, <1>4, <2>3 DEF Wired
  <2>4. wire' = wire /\ device' = device /\ stream' = stream
    BY <1>1, <1>4
  <2>. QED  BY <2>1, <2>2, <2>3, <2>4 DEF Wired, Earlier, Origins
<1>5. CASE device[c]
  <2>. PICK w : w = wire'
    OBVIOUS
  <2>1. /\ chunk[c] \in Seq(Origins) /\ Added \in Origins /\ wire \in Seq(Origins)
        /\ chunk[c] \in Seq(Sent(c))
    <3>1. Sent(c) \subseteq Origins
      BY SentIsOrigin
    <3>2. Added \in Origins
      BY ServerAssumption DEF Added, Origins
    <3>. QED  BY <1>3, <3>1, <3>2 DEF Received, Wired
  <2>2. /\ f \in Seq(Origins) /\ Len(f) = k + 1
        /\ \A j \in 1..k : f[j] = chunk[c][j] /\ f[k + 1] = Added
    BY <2>1
  <2>3. w = wire \o f
    BY <1>1, <1>5
  <2>4. \A j \in 1..k : chunk[c][j] = stream[c][D + j] /\ chunk[c][j] \in Sent(c)
    BY <1>3, <2>1 DEF Received
  <2>. HIDE DEF f, L, k, D
  <2>5. /\ w \in Seq(Origins) /\ L \in Nat /\ DOMAIN w = 1..L + (k + 1)
        /\ DOMAIN wire = 1..L
        /\ \A p \in 1..L : w[p] = wire[p]
        /\ \A j \in 1..k + 1 : w[L + j] = f[j]
        /\ \A p \in DOMAIN w : p \in 1..L \/ \E j \in 1..k + 1 : p = L + j
    <3>1. /\ \A u, v \in Seq(Origins) :
                /\ u \o v \in Seq(Origins) /\ Len(u) \in Nat
                /\ DOMAIN (u \o v) = 1..Len(u) + Len(v)
                /\ \A p \in 1..Len(u) : (u \o v)[p] = u[p]
                /\ \A j \in 1..Len(v) : (u \o v)[Len(u) + j] = v[j]
                /\ \A p \in 1..Len(u) + Len(v) :
                      p \in 1..Len(u) \/ \E j \in 1..Len(v) : p = Len(u) + j
      BY Concatenated
    <3>2. DOMAIN wire = 1..Len(wire)
      BY <2>1
    <3>. QED  BY <2>1, <2>2, <2>3, <3>1, <3>2 DEF L
  <2>6. /\ \A j \in 1..k : w[L + j] = stream[c][D + j] /\ w[L + j] \in Sent(c)
        /\ w[L + (k + 1)] = Added
    <3>1. \A j \in 1..k : j \in 1..k + 1 /\ f[j] = chunk[c][j]
      BY <1>3, <2>2
    <3>2. f[k + 1] = Added /\ k + 1 \in 1..k + 1
      BY <1>3, <2>1 DEF f, k
    <3>. QED  BY <2>4, <2>5, <3>1, <3>2
  <2>7. \A p \in DOMAIN w : \/ p \in 1..L
                            \/ \E j \in 1..k : p = L + j
                            \/ p = L + (k + 1)
    <3>1. \A j \in 1..k + 1 : j \in 1..k \/ j = k + 1
      BY <1>3
    <3>. QED  BY <2>5, <3>1
  <2>. DEFINE Then(o) == o = Added \/ \E d \in Clients :
                             device[d] /\ \E p \in 1..Done(d)' : o = stream[d][p]
  <2>8. ASSUME NEW n \in DOMAIN w PROVE Then(w[n])
    <3>1. CASE n \in 1..L
      <4>1. w[n] = wire[n] /\ Sourced(wire[n])
        BY <2>5, <3>1 DEF Wired
      <4>2. ASSUME NEW d \in Clients, device[d], NEW p \in 1..Done(d) PROVE p \in 1..Done(d)'
        BY <1>2, <1>3, <4>2 DEF D
      <4>. QED  BY <4>1, <4>2 DEF Sourced
    <3>2. ASSUME NEW j \in 1..k, n = L + j PROVE Then(w[n])
      <4>1. D + j \in 1..Done(c)' /\ w[n] = stream[c][D + j]
        BY <1>2, <1>3, <2>6, <3>2
      <4>. QED  BY <1>5, <4>1
    <3>3. CASE n = L + (k + 1)
      BY <2>6, <3>3
    <3>. QED  BY <2>7, <3>1, <3>2, <3>3
  <2>. DEFINE Goes(n) ==
          IsEnd(w[n]) \/
          /\ n + 1 \in DOMAIN w
          /\ \/ w[n + 1] = Follower(w[n])
             \/ /\ w[n + 1] = Added
                /\ \/ w[n].at = Len(sent[w[n].by][w[n].order])
                   \/ <<w[n].by, w[n].order>> \in torn
  <2>9. ASSUME NEW n \in DOMAIN w PROVE Goes(n)
    <3>1. CASE n \in 1..L
      <4>1. Continued(n) /\ w[n] = wire[n]
        BY <2>5, <3>1 DEF Wired
      <4>2. n + 1 \in DOMAIN wire => n + 1 \in DOMAIN w /\ w[n + 1] = wire[n + 1]
        BY <1>3, <2>5
      <4>. QED  BY <4>1, <4>2 DEF Continued
    <3>2. ASSUME NEW j \in 1..k, n = L + j, ~IsEnd(w[n]) PROVE Goes(n)
      <4>. DEFINE p == D + j
      <4>1. p \in DOMAIN stream[c] /\ w[n] = stream[c][p] /\ w[n] \in Sent(c)
        BY <1>3, <2>6, <3>2
      <4>2. p + 1 \in DOMAIN stream[c] /\ stream[c][p + 1] = Follower(w[n])
        BY <1>3, <3>2, <4>1 DEF Streamed
      <4>3. CASE j # k
        <5>1. j + 1 \in 1..k /\ D + (j + 1) = p + 1 /\ L + (j + 1) = n + 1
          <6>1. D \in Nat /\ k \in Nat /\ L \in Nat /\ n = L + j
            BY <1>3, <2>5, <3>2
          <6>. QED  BY <4>3, <6>1
        <5>2. n + 1 \in DOMAIN w
          BY <1>3, <2>5, <5>1
        <5>. QED  BY <2>6, <4>2, <5>1, <5>2
      <4>4. CASE j = k
        <5>1. n + 1 \in DOMAIN w /\ w[n + 1] = Added /\ p = recvd[c]
          <6>1. n + 1 = L + (k + 1)
            BY <1>3, <2>5, <3>2, <4>4
          <6>. QED  BY <1>3, <2>5, <2>6, <4>4, <6>1
        <5>2. CASE CutsOrder(c, p)
          BY <1>1, <1>3, <4>1, <5>1, <5>2 DEF Received, Sent
        <5>3. CASE ~CutsOrder(c, p)
          <6>1. p < Len(stream[c])
            BY <1>3, <4>1, <4>2
          <6>2. IsEnd(Follower(w[n]))
            BY <3>2, <4>1, <4>2, <5>3, <6>1 DEF CutsOrder
          <6>3. Follower(w[n]) # Added
            BY <4>1, ServerAssumption DEF Follower, Added, Sent
          <6>4. /\ w[n].at + 1 > Len(sent[w[n].by][w[n].order])
                /\ ~(w[n].at > Len(sent[w[n].by][w[n].order]))
            BY <3>2, <6>2, <6>3 DEF IsEnd, Follower
          <6>5. w[n].at \in Nat /\ Len(sent[w[n].by][w[n].order]) \in Nat
            BY <4>1 DEF Sent, Streams
          <6>6. w[n].at = Len(sent[w[n].by][w[n].order])
            BY <6>4, <6>5
          <6>. QED  BY <5>1, <6>6
        <5>. QED  BY <5>2, <5>3
      <4>. QED  BY <4>3, <4>4
    <3>3. CASE n = L + (k + 1)
      BY <2>6, <3>3 DEF IsEnd
    <3>. QED  BY <2>7, <3>1, <3>2, <3>3
  <2>10. ASSUME NEW m \in DOMAIN w, NEW n \in DOMAIN w,
                m < n, w[m].by = w[n].by, w[n] # Added
         PROVE  Earlier(w[m], w[n])
    <3>1. CASE n \in 1..L
      <4>1. m \in 1..L
        BY <1>3, <2>5, <2>10, <3>1
      <4>. QED  BY <2>5, <2>10, <3>1, <4>1 DEF Wired
    <3>2. ASSUME NEW j \in 1..k, n = L + j PROVE Earlier(w[m], w[n])
      <4>1. w[n] = stream[c][D + j] /\ w[n].by = c /\ w[m].by = c
            /\ D + j \in DOMAIN stream[c]
        BY <1>3, <2>6, <2>10, <3>2 DEF Sent
      <4>2. \E p \in 1..D + j - 1 : w[m] = stream[c][p] /\ p \in DOMAIN stream[c]
        <5>1. CASE m \in 1..L
          <6>1. w[m] = wire[m] /\ Sourced(wire[m])
            BY <2>5, <5>1 DEF Wired
          <6>2. w[m] # Added
            BY <4>1, ServerAssumption DEF Added
          <6>3. PICK d \in Clients : \E p \in 1..Done(d) : w[m] = stream[d][p]
            BY <6>1, <6>2 DEF Sourced
          <6>4. stream[d] \in Seq(Sent(d)) /\ \A p \in 1..Done(d) : p \in DOMAIN stream[d]
            BY DoneInStream DEF Streams, Streamed
          <6>5. d = c
            <7>1. w[m] \in Sent(d)
              BY <6>3, <6>4
            <7>. QED  BY <4>1, <7>1 DEF Sent
          <6>6. PICK p \in 1..D : w[m] = stream[c][p] /\ p \in DOMAIN stream[c]
            BY <6>3, <6>4, <6>5 DEF D
          <6>7. p \in 1..D + j - 1
            BY <1>3
          <6>. QED  BY <6>6, <6>7
        <5>2. ASSUME NEW i \in 1..k, m = L + i
              PROVE  \E p \in 1..D + j - 1 : w[m] = stream[c][p] /\ p \in DOMAIN stream[c]
          <6>1. D + i \in 1..D + j - 1 /\ D + i \in DOMAIN stream[c]
            BY <1>3, <2>5, <2>10, <3>2, <5>2
          <6>. QED  BY <2>6, <5>2, <6>1
        <5>3. m # L + (k + 1)
          BY <1>3, <2>5, <2>10, <3>2
        <5>. QED  BY <2>7, <5>1, <5>2, <5>3
      <4>3. PICK p \in 1..D + j - 1 : w[m] = stream[c][p] /\ p \in DOMAIN stream[c]
        BY <4>2
      <4>4. p < D + j
        BY <1>3
      <4>. QED  BY <1>3, <4>1, <4>3, <4>4 DEF Streamed
    <3>. QED  BY <2>6, <2>7, <2>10, <3>1, <3>2
  <2>11. ASSUME NEW d \in Clients, device[d], NEW p \in 1..Done(d)'
         PROVE  \E n \in DOMAIN w : w[n] = stream[d][p]
    <3>1. CASE p \in 1..Done(d)
      <4>1. PICK n \in DOMAIN wire : wire[n] = stream[d][p]
        BY <2>11, <3>1 DEF Wired
      <4>2. n \in DOMAIN w /\ w[n] = wire[n]
        BY <1>3, <2>5
      <4>. QED  BY <4>1, <4>2
    <3>2. CASE p \notin 1..Done(d)
      <4>1. d = c /\ p \in 1..D + k /\ p \notin 1..D
        BY <1>2, <1>3, <3>2 DEF D
      <4>2. p - D \in 1..k /\ p = D + (p - D)
        BY <1>3, <4>1
      <4>3. L + (p - D) \in DOMAIN w
        BY <1>3, <2>5, <4>2
      <4>. QED  BY <2>6, <4>1, <4>2, <4>3
    <3>. QED  BY <3>1, <3>2
  <2>12. \A n \in DOMAIN w : Continued(n)' <=> Goes(n)
    BY <1>1 DEF Continued, IsEnd, Follower
  <2>13. \A n \in DOMAIN w : Sourced(wire[n])' <=> Then(w[n])
    BY <1>1 DEF Sourced, Added
  <2>. HIDE DEF Then, Goes
  <2>. QED
    <3>1. wire' \in Seq(Origins)' /\ \A n \in DOMAIN wire' : Continued(n)'
      BY <2>5, <2>9, <2>12 DEF Origins
    <3>2. \A n \in DOMAIN wire' : Sourced(wire[n])'
      BY <2>8, <2>13
    <3>3. \A m, n \in DOMAIN wire' :
             m < n /\ wire'[m].by = wire'[n].by /\ wire'[n] # Added
                => Earlier(wire'[m], wire'[n])
      BY <2>10
    <3>4. \A d \in Clients : device'[d] =>
             \A p \in 1..Done(d)' : \E n \in DOMAIN wire' : wire'[n] = stream'[d][p]
      BY <1>1, <2>11
    <3>. QED  BY <3>1, <3>2, <3>3, <3>4 DEF Wired, Earlier, Added
<1>. QED  BY <1>4, <1>5

LEMMA NextWired == IInv /\ Streams /\ Wired /\ [Next]_vars => Wired'
<1>. SUFFICES ASSUME IInv, Streams, Wired, [Next]_vars PROVE Wired'
  OBVIOUS
<1>1. \A c \in Clients : /\ sent[c] \in Seq(Seq(Text)) /\ Len(sent[c]) <= Len(sent[c])
                         /\ \A p \in 1..Done(c) : p \in DOMAIN stream[c]
                         /\ stream[c] \in Seq(Sent(c))
  <2>1. \A c \in Clients : sent[c] \in Seq(Seq(Text)) /\ stream[c] \in Seq(Sent(c))
    BY DEF Streams, Streamed
  <2>2. \A s \in Seq(Seq(Text)) : Len(s) <= Len(s)
    OBVIOUS
  <2>. QED  BY <2>1, <2>2, DoneInStream
<1>2. CASE Quiet
  BY <1>1, <1>2, WiredStays DEF Quiet, Done
<1>3. CASE SpawnHandler
  <2>1. /\ UNCHANGED <<chunk, recvd, torn, wire, sent, stream>>
        /\ handler[taken] = "none" /\ taken \in Clients
        /\ \A c \in Clients : c # taken => device'[c] = device[c]
    BY <1>3 DEF SpawnHandler, clientVars
  <2>2. Done(taken) = 0
    <3>1. Received(taken)
      BY <2>1 DEF Streams
    <3>2. Len(<<>>) = 0
      OBVIOUS
    <3>. QED  BY <2>1, <3>1, <3>2 DEF Received, Done
  <2>3. \A c \in Clients : Done(c)' = Done(c) /\ (device'[c] = device[c] \/ Done(c) = 0)
    BY <2>1, <2>2 DEF Done
  <2>. QED  BY <1>1, <2>1, <2>3, WiredStays
<1>4. ASSUME NEW c \in Clients, Recv(c) PROVE Wired'
  <2>1. UNCHANGED <<sent, stream, device, wire>>
        /\ \A d \in Clients \ {c} : chunk'[d] = chunk[d] /\ recvd'[d] = recvd[d]
    BY <1>4 DEF Recv, clientVars, Streams
  <2>2. \A d \in Clients : Done(d)' = Done(d)
    BY <1>4, <2>1, RecvReceives DEF Done
  <2>3. torn \subseteq torn'
    BY <1>4, RecvReceives
  <2>. QED  BY <1>1, <2>1, <2>2, <2>3, WiredStays
<1>5. ASSUME NEW c \in Clients, SendOrder(c) PROVE Wired'
  <2>1. PICK order \in OrdersOf[c] :
            /\ sent' = [sent EXCEPT ![c] = Append(@, order)]
            /\ stream' = [stream EXCEPT
                              ![c] = @ \o BytesOf(c, Len(sent[c]) + 1, order)]
    BY <1>5 DEF SendOrder
  <2>2. /\ UNCHANGED <<handler, device, chunk, recvd, torn, wire>>
        /\ sent' \in [Clients -> Seq(Seq(Text))] /\ order \in Seq(Text)
        /\ DOMAIN stream = Clients /\ sent \in [Clients -> Seq(Seq(Text))]
    BY <1>5, SendOrderStreams, ServerAssumption DEF SendOrder, handlerVars, Streams
  <2>3. \A d \in Clients : /\ sent'[d] \in Seq(Seq(Text))
                           /\ Len(sent[d]) <= Len(sent'[d])
                           /\ \A i \in DOMAIN sent[d] : sent'[d][i] = sent[d][i]
    <3>1. sent'[c] = Append(sent[c], order) /\ \A d \in Clients \ {c} : sent'[d] = sent[d]
      BY <2>1, <2>2
    <3>2. /\ Len(sent[c]) <= Len(sent'[c])
          /\ \A i \in DOMAIN sent[c] : sent'[c][i] = sent[c][i]
      BY <1>1, <2>2, <3>1
    <3>. QED  BY <1>1, <2>2, <3>1, <3>2
  <2>4. \A d \in Clients : \A p \in 1..Done(d) : stream'[d][p] = stream[d][p]
    <3>. DEFINE b == BytesOf(c, Len(sent[c]) + 1, order)
                S == Sent(c) \cup [by : {c}, order : {Len(sent[c]) + 1}, at : Nat]
    <3>1. b \in Seq(S) /\ stream[c] \in Seq(S) /\ DOMAIN stream[c] = 1..Len(stream[c])
      <4>1. PICK O : O = [by : {c}, order : {Len(sent[c]) + 1}, at : Nat]
        OBVIOUS
      <4>2. b \in Seq(O)
        BY <2>2, <4>1 DEF BytesOf
      <4>3. O \subseteq S /\ Sent(c) \subseteq S
        BY <4>1
      <4>4. stream[c] \in Seq(Sent(c)) /\ DOMAIN stream[c] = 1..Len(stream[c])
        BY <1>1
      <4>. HIDE DEF b, S
      <4>5. b \in Seq(S)
        BY <4>2, <4>3
      <4>6. stream[c] \in Seq(S)
        BY <4>3, <4>4
      <4>. QED  BY <4>4, <4>5, <4>6
    <3>2. stream'[c] = stream[c] \o b /\ \A d \in Clients \ {c} : stream'[d] = stream[d]
      BY <2>1, <2>2
    <3>. HIDE DEF b, S
    <3>3. \A p \in DOMAIN stream[c] : stream'[c][p] = stream[c][p]
      BY <3>1, <3>2, Concatenated
    <3>. QED  BY <1>1, <3>2, <3>3
  <2>. QED  BY <2>2, <2>3, <2>4, WiredStays DEF Done
<1>6. ASSUME NEW c \in Clients, Forward(c) PROVE Wired'
  BY <1>6, ForwardWired
<1>. QED  BY <1>2, <1>3, <1>4, <1>5, <1>6, NextMoves

-----------------------------------------------------------------------------
(* The lines on the serial line. *)

(* A set of naturals has a least element: the order on Nat is well founded. *)
LEMMA LeastNatural ==
    ASSUME NEW S \in SUBSET Nat, S # {}
    PROVE  \E x \in S : \A y \in S : x <= y
<1>1. IsWellFoundedOn(OpToRel(<, Nat), Nat)
  BY NatLessThanWellFounded
<1>2. PICK x \in S : \A y \in S : ~(<<y, x>> \in OpToRel(<, Nat))
  BY <1>1, WFMin
<1>3. \A y \in S : ~(y < x)
  BY <1>2 DEF OpToRel
<1>. QED  BY <1>3

(* The last end before n is an end, and none follows it up to n. *)
LEMMA LastEndIsLast ==
    ASSUME NEW s \in Seq(Bytes), NEW n \in 1..Len(s) + 1
    PROVE  /\ LastEnd(s, n) \in 0..n - 1
           /\ LastEnd(s, n) # 0 => s[LastEnd(s, n)] = EOL
           /\ \A k \in LastEnd(s, n) + 1..n - 1 : s[k] # EOL
<1>. DEFINE ends == {0} \cup {m \in 1..n - 1 : s[m] = EOL}
            U    == {x \in 0..n - 1 : n - 1 - x \in ends}
<1>1. ends \in SUBSET (0..n - 1) /\ 0 \in ends /\ n - 1 \in Nat
  OBVIOUS
<1>2. U \in SUBSET Nat /\ n - 1 \in U
  BY <1>1
<1>3. PICK u \in U : \A x \in U : u <= x
  BY <1>2, LeastNatural
<1>4. n - 1 - u \in ends /\ u \in 0..n - 1 /\ \A y \in ends : n - 1 - y \in U
  BY <1>1
<1>. HIDE DEF ends, U
<1>5. \A y \in ends : y <= n - 1 - u
  BY <1>1, <1>3, <1>4
<1>6. LastEnd(s, n) \in ends /\ \A y \in ends : y <= LastEnd(s, n)
  BY <1>4, <1>5 DEF LastEnd, Max, ends
<1>7. LastEnd(s, n) \in 0..n - 1
  BY <1>1, <1>6
<1>. QED  BY <1>6, <1>7 DEF ends

LEMMA OrderShape ==
    ASSUME NEW c \in Clients, NEW order \in OrdersOf[c]
    PROVE  /\ order \in Seq(Text) /\ Len(order) \in Nat /\ Len(order) >= 2
           /\ order[1] \in {ROTATION, STOP}
           /\ \A k \in 2..Len(order) : order[k] \notin {ROTATION, STOP}
<1>1. order \in Seq(Text)
  BY ServerAssumption
<1>2. CASE IsRotation(order)
  BY <1>1, <1>2 DEF IsRotation, ROTATION, STOP, MODE
<1>3. CASE IsStop(order) /\ \A k \in 3..Len(order) : order[k] \in Digits
  <2>1. \A k \in 3..Len(order) : order[k] \in Nat
    BY <1>3, LinesAssumption
  <2>2. \A k \in 2..Len(order) : k = 2 \/ k \in 3..Len(order)
    BY <1>1
  <2>. QED  BY <1>1, <1>3, <2>1, <2>2 DEF IsStop, ROTATION, STOP, MODE
<1>. QED  BY <1>2, <1>3, ServerAssumption

\* The bytes on the line are ends of lines and text of orders.
LEMMA WrittenBytes ==
    ASSUME Streams, Wired
    PROVE  /\ Written \in Seq(Bytes) /\ Len(Written) = Len(wire)
           /\ DOMAIN Written = DOMAIN wire /\ DOMAIN wire = 1..Len(wire)
           /\ Len(wire) \in Nat
           /\ \A n \in DOMAIN wire :
                 /\ Written[n] = EOL <=> IsEnd(wire[n])
                 /\ Written[n] = ByteOf(wire[n])
           /\ \A n \in DOMAIN wire : ~IsEnd(wire[n]) =>
                 \E c \in Clients :
                    /\ wire[n] \in Sent(c) /\ wire[n].by = c
                    /\ wire[n].at \in 1..Len(sent[c][wire[n].order])
<1>1. wire \in Seq(Origins) /\ DOMAIN wire = 1..Len(wire) /\ Len(wire) \in Nat
  BY DEF Wired
<1>2. ASSUME NEW n \in DOMAIN wire, ~IsEnd(wire[n])
      PROVE  \E c \in Clients :
                /\ wire[n] \in Sent(c) /\ wire[n].by = c
                /\ wire[n].at \in 1..Len(sent[c][wire[n].order])
                /\ sent[c][wire[n].order][wire[n].at] \in Text
  <2>1. PICK c \in Clients : wire[n] \in Sent(c) /\ wire[n].by = c
    BY <1>2, SourcedIsSent DEF Wired, IsEnd
  <2>2. wire[n].order \in DOMAIN sent[c] /\ sent[c] \in Seq(Seq(Text))
        /\ wire[n].at \in Nat \ {0}
    BY <2>1 DEF Sent, Streams
  <2>3. sent[c][wire[n].order] \in Seq(Text)
    BY <2>2
  <2>4. wire[n].at \in 1..Len(sent[c][wire[n].order])
    BY <1>2, <2>1, <2>2, <2>3 DEF IsEnd
  <2>. QED  BY <2>1, <2>3, <2>4
<1>3. EOL \notin Text /\ EOL \in Bytes /\ Text \subseteq Bytes
  BY LinesAssumption DEF EOL, Text, Bytes, ROTATION, STOP, MODE
<1>4. \A n \in DOMAIN wire : /\ ByteOf(wire[n]) \in Bytes
                             /\ ByteOf(wire[n]) = EOL <=> IsEnd(wire[n])
  BY <1>2, <1>3 DEF ByteOf
<1>. QED  BY <1>1, <1>2, <1>4 DEF Written

\* Byte k of what begins at byte o.
Kth(o, k) == [by |-> o.by, order |-> o.order, at |-> o.at + k]

\* Up to the next end of a line, the text is that of one order ...
LEMMA TextRuns ==
    ASSUME Streams, Wired, NEW n \in DOMAIN wire, NEW h \in Nat,
           \A k \in 0..h : n + k \in DOMAIN wire /\ ~IsEnd(wire[n + k])
    PROVE  \A k \in 0..h : wire[n + k] = Kth(wire[n], k)
<1>. DEFINE Bad == {k \in 0..h : wire[n + k] # Kth(wire[n], k)}
<1>. SUFFICES ASSUME Bad # {} PROVE FALSE
  OBVIOUS
<1>1. PICK k \in Bad : \A j \in Bad : k <= j
  <2>1. Bad \in SUBSET Nat
    OBVIOUS
  <2>. HIDE DEF Bad
  <2>. QED  BY <2>1, LeastNatural
<1>2. n \in Nat /\ ~IsEnd(wire[n])
  BY WrittenBytes
<1>3. k # 0
  <2>1. PICK c \in Clients : wire[n] \in Sent(c)
    BY <1>2, WrittenBytes
  <2>2. Kth(wire[n], 0) = wire[n]
    BY <2>1 DEF Sent, Kth
  <2>3. n + 0 = n
    BY <1>2
  <2>. QED  BY <1>1, <2>2, <2>3
<1>4. k - 1 \in 0..h /\ k - 1 \notin Bad /\ k \in 0..h
  BY <1>1, <1>3
<1>5. wire[n + (k - 1)] = Kth(wire[n], k - 1) /\ n + (k - 1) \in DOMAIN wire
  BY <1>4
<1>6. Continued(n + (k - 1)) /\ (n + (k - 1)) + 1 = n + k
  BY <1>2, <1>4, <1>5 DEF Wired
<1>7. wire[n + k] = Follower(wire[n + (k - 1)])
  BY <1>4, <1>5, <1>6 DEF Continued, IsEnd
<1>8. wire[n].at \in Nat
  BY <1>2, WrittenBytes DEF Sent
<1>9. Follower(Kth(wire[n], k - 1)) = Kth(wire[n], k)
  BY <1>4, <1>8 DEF Follower, Kth
<1>. QED  BY <1>1, <1>5, <1>7, <1>9

\* ... and an order not torn runs to its end.
LEMMA OrderRuns ==
    ASSUME Streams, Wired, NEW c \in Clients, NEW i \in DOMAIN sent[c],
           <<c, i>> \notin torn, Len(sent[c][i]) \in Nat, Len(sent[c][i]) >= 1,
           NEW n \in DOMAIN wire, wire[n] = [by |-> c, order |-> i, at |-> 1]
    PROVE  /\ \A k \in 1..Len(sent[c][i]) :
                 /\ (n - 1) + k \in DOMAIN wire
                 /\ wire[(n - 1) + k] = [by |-> c, order |-> i, at |-> k]
           /\ n + Len(sent[c][i]) \in DOMAIN wire
           /\ IsEnd(wire[n + Len(sent[c][i])])
<1>. DEFINE N == Len(sent[c][i])
            O(k) == [by |-> c, order |-> i, at |-> k]
            Good(k) == (n - 1) + k \in DOMAIN wire /\ wire[(n - 1) + k] = O(k)
            Bad == {k \in 1..N : ~Good(k)}
<1>1. n \in Nat \ {0}
  BY WrittenBytes
<1>2. \A k \in 1..N : ~IsEnd(O(k))
  BY ServerAssumption DEF IsEnd, Added
<1>3. ASSUME NEW k \in 1..N, Good(k)
      PROVE  /\ n + k \in DOMAIN wire
             /\ \/ wire[n + k] = O(k + 1)
                \/ wire[n + k] = Added /\ k = N
  <2>1. Continued((n - 1) + k) /\ ((n - 1) + k) + 1 = n + k
    BY <1>1, <1>3 DEF Wired
  <2>2. Follower(O(k)) = O(k + 1)
    BY DEF Follower
  <2>. QED  BY <1>2, <1>3, <2>1, <2>2 DEF Continued
<1>4. Bad = {}
  <2>. SUFFICES ASSUME Bad # {} PROVE FALSE
    OBVIOUS
  <2>1. PICK k \in Bad : \A j \in Bad : k <= j
    <3>1. Bad \in SUBSET Nat
      OBVIOUS
    <3>. HIDE DEF Bad
    <3>. QED  BY <3>1, LeastNatural
  <2>2. k # 1
    <3>1. (n - 1) + 1 = n
      BY <1>1
    <3>. QED  BY <2>1, <3>1
  <2>3. k - 1 \in 1..N /\ k - 1 \notin Bad /\ k \in Nat
    BY <2>1, <2>2
  <2>4. Good(k - 1) /\ k - 1 # N
    BY <2>3
  <2>5. n + (k - 1) = (n - 1) + k /\ (k - 1) + 1 = k
    BY SMTT(30), <1>1, <2>3
  <2>6. Good(k)
    BY <1>3, <2>3, <2>4, <2>5
  <2>. QED  BY <2>1, <2>6
<1>5. \A k \in 1..N : Good(k)
  BY <1>4
<1>6. /\ n + N \in DOMAIN wire
      /\ wire[n + N] = O(N + 1) \/ wire[n + N] = Added
  <2>1. N \in 1..N /\ Good(N)
    BY <1>5
  <2>. QED  BY <1>3, <2>1
<1>7. IsEnd(O(N + 1)) /\ IsEnd(Added)
  BY DEF IsEnd
<1>. QED  BY <1>5, <1>6, <1>7

\* A line that orders is an order from its first byte on, whole or torn.
LEMMA LineOf ==
    ASSUME Streams, Wired, NEW n \in OrderEnds(Written)
    PROVE  \E c \in Clients : \E l \in 0..n - 1 : \E i \in DOMAIN sent[c] :
              /\ l = LastEnd(Written, n) /\ n \in DOMAIN wire
              /\ l + 1 \in DOMAIN wire /\ l + 1 < n
              /\ wire[l + 1] = [by |-> c, order |-> i, at |-> 1]
              /\ Origin(n) = wire[l + 1]
              /\ \/ LineAt(Written, n) = sent[c][i]
                 \/ <<c, i>> \in torn /\ IsPrefix(LineAt(Written, n), sent[c][i])
<1>. DEFINE l == LastEnd(Written, n)
            line == LineAt(Written, n)
            h == n - 1 - l
<1>1. /\ n \in DOMAIN wire /\ n \in 1..Len(Written) /\ n \in Nat \ {0}
      /\ IsEnd(wire[n]) /\ IsOrder(line) /\ Written \in Seq(Bytes)
      /\ DOMAIN wire = 1..Len(Written)
  BY WrittenBytes DEF OrderEnds
<1>2. /\ l \in 0..n - 1
      /\ \A k \in l + 1..n - 1 : k \in DOMAIN wire /\ ~IsEnd(wire[k])
  <2>1. n \in 1..Len(Written) + 1
    BY <1>1
  <2>2. l \in 0..n - 1 /\ \A k \in l + 1..n - 1 : Written[k] # EOL
    BY <1>1, <2>1, LastEndIsLast
  <2>3. \A k \in l + 1..n - 1 : k \in DOMAIN wire
    BY <1>1, <2>2
  <2>. QED  BY <2>2, <2>3, WrittenBytes
<1>3. /\ line \in Seq(Bytes) /\ Len(line) = h /\ h \in Nat
      /\ \A k \in 1..h : line[k] = Written[l + k]
  <2>1. PICK s : s = Written
    OBVIOUS
  <2>2. PICK r \in 0..n - 1 : r = l
    BY <1>2
  <2>3. s \in Seq(Bytes) /\ r \in Nat /\ n - 1 \in Nat /\ r <= n - 1 /\ n - 1 <= Len(s)
    BY <1>1, <2>1
  <2>4. /\ SubSeq(s, r + 1, n - 1) \in Seq(Bytes) /\ Len(SubSeq(s, r + 1, n - 1)) = n - 1 - r
        /\ \A k \in 1..n - 1 - r : SubSeq(s, r + 1, n - 1)[k] = s[r + k]
    BY <2>3, PartOf
  <2>5. line = SubSeq(s, r + 1, n - 1)
    BY <2>1, <2>2 DEF LineAt
  <2>. QED  BY SMTT(30), <1>1, <2>1, <2>2, <2>4, <2>5
<1>. HIDE DEF l, line, h
<1>4. Len(line) >= 2 /\ line[1] \in {ROTATION, STOP}
  <2>1. CASE IsRotation(line)
    <3>1. line = <<ROTATION, MODE>>
      BY <2>1 DEF IsRotation
    <3>2. Len(<<ROTATION, MODE>>) = 2 /\ <<ROTATION, MODE>>[1] = ROTATION
      OBVIOUS
    <3>. QED  BY <3>1, <3>2
  <2>2. CASE IsStop(line)
    BY <2>2 DEF IsStop
  <2>. QED  BY <1>1, <2>1, <2>2 DEF IsOrder
<1>5. h = n - 1 - l /\ h >= 2
  BY <1>3, <1>4 DEF h
<1>6. l + 1 \in l + 1..n - 1 /\ l + 1 < n
  BY <1>1, <1>2, <1>5
<1>7. PICK c \in Clients : /\ wire[l + 1] \in Sent(c) /\ wire[l + 1].by = c
                           /\ wire[l + 1].at \in 1..Len(sent[c][wire[l + 1].order])
  BY <1>2, <1>6, WrittenBytes
<1>. DEFINE i == wire[l + 1].order
            order == sent[c][i]
<1>8. i \in DOMAIN sent[c] /\ order \in OrdersOf[c]
  <2>1. sent[c] \in Seq(OrdersOf[c])
    BY DEF Streams, Streamed
  <2>2. i \in 1..Len(sent[c])
    BY <1>7 DEF Sent
  <2>. QED  BY <2>1, <2>2
<1>. HIDE DEF i
<1>9. wire[l + 1].at = 1
  <2>1. line[1] = order[wire[l + 1].at]
    BY <1>2, <1>3, <1>5, <1>6, <1>7, WrittenBytes DEF ByteOf, i
  <2>. QED  BY <1>4, <1>7, <1>8, <2>1, OrderShape DEF i
<1>10. wire[l + 1] = [by |-> c, order |-> i, at |-> 1]
  BY <1>7, <1>9 DEF Sent, i
<1>11. \A k \in 1..h : wire[l + k] = [by |-> c, order |-> i, at |-> k]
  <2>1. \A k \in 0..h - 1 : (l + 1) + k \in DOMAIN wire /\ ~IsEnd(wire[(l + 1) + k])
    <3>1. \A k \in 0..h - 1 : (l + 1) + k \in l + 1..n - 1
      BY <1>1, <1>2, <1>3, <1>5
    <3>. QED  BY <1>2, <3>1
  <2>2. \A k \in 0..h - 1 : wire[(l + 1) + k] = Kth(wire[l + 1], k)
    <3>1. h - 1 \in Nat /\ l + 1 \in DOMAIN wire
      BY <1>2, <1>3, <1>5, <1>6
    <3>. QED  BY <2>1, <3>1, TextRuns
  <2>3. \A k \in 1..h : /\ k - 1 \in 0..h - 1 /\ (l + 1) + (k - 1) = l + k
                        /\ 1 + (k - 1) = k
    BY <1>2, <1>3
  <2>4. \A k \in 1..h : wire[l + k] = Kth(wire[l + 1], k - 1)
    BY <2>2, <2>3
  <2>. QED  BY <1>10, <2>3, <2>4 DEF Kth
<1>12. order \in Seq(Text) /\ Len(order) \in Nat
  BY <1>8, OrderShape
<1>13. \A k \in 1..h : line[k] = order[k] /\ k <= Len(order)
  <2>. SUFFICES ASSUME NEW k \in 1..h PROVE line[k] = order[k] /\ k <= Len(order)
    OBVIOUS
  <2>1. l + k \in DOMAIN wire /\ ~IsEnd(wire[l + k])
    <3>1. l + k \in l + 1..n - 1
      BY <1>1, <1>2, <1>3, <1>5
    <3>. QED  BY <1>2, <3>1
  <2>2. wire[l + k] = [by |-> c, order |-> i, at |-> k]
    BY <1>11
  <2>3. Written[l + k] = order[k]
    BY <2>1, <2>2, WrittenBytes DEF ByteOf
  <2>. QED  BY <1>3, <1>12, <2>1, <2>2, <2>3 DEF IsEnd
<1>14. h <= Len(order)
  BY <1>3, <1>5, <1>13
<1>15. h = Len(order) \/ <<c, i>> \in torn
  <2>1. n - 1 \in DOMAIN wire /\ ~IsEnd(wire[n - 1]) /\ (n - 1) + 1 = n
    BY <1>1, <1>2, <1>5, <1>6
  <2>2. wire[n - 1] = [by |-> c, order |-> i, at |-> h]
    <3>1. h \in Nat /\ h >= 2 /\ n \in Nat /\ l \in Nat
      BY <1>1, <1>2, <1>3, <1>5
    <3>2. l + h = n - 1 /\ h \in 1..h
      BY <1>5, <3>1
    <3>. QED  BY <1>11, <3>2
  <2>3. Continued(n - 1)
    BY <2>1 DEF Wired
  <2>4. CASE wire[n] = Follower(wire[n - 1])
    <3>1. wire[n] = [by |-> c, order |-> i, at |-> h + 1]
      BY <2>2, <2>4 DEF Follower
    <3>2. h + 1 > Len(order)
      BY <1>1, <3>1, ServerAssumption DEF IsEnd, Added
    <3>. QED  BY <1>3, <1>12, <1>14, <3>2
  <2>5. CASE h = Len(order) \/ <<c, i>> \in torn
    BY <2>5
  <2>. QED  BY <2>1, <2>2, <2>3, <2>4, <2>5 DEF Continued
<1>16. h = Len(order) => line = order
  BY <1>3, <1>12, <1>13 DEF Bytes
<1>17. IsPrefix(line, order)
  BY <1>3, <1>12, <1>13, <1>14 DEF IsPrefix
<1>18. Origin(n) = wire[l + 1]
  BY <1>1, <1>2, <1>3, <1>5 DEF Origin, line
<1>. QED  BY <1>1, <1>2, <1>6, <1>8, <1>10, <1>15, <1>16, <1>17, <1>18 DEF l, line

\* What has been forwarded of an order not torn is all of it.
LEMMA ForwardedStands ==
    ASSUME Streams, Wired, NEW c \in Clients, NEW i \in DOMAIN sent[c],
           <<c, i>> \notin torn, device[c], NEW p \in 1..Done(c),
           stream[c][p] = [by |-> c, order |-> i, at |-> 1]
    PROVE  Stands(c, i)
<1>. DEFINE order == sent[c][i]
            N == Len(order)
<1>1. /\ order \in OrdersOf[c] /\ order \in Seq(Text) /\ N \in Nat /\ N >= 2
      /\ IsOrder(order)
  <2>1. order \in OrdersOf[c]
    BY DEF Streams, Streamed
  <2>. QED  BY <2>1, OrderShape, ServerAssumption DEF IsOrder
<1>2. PICK n \in DOMAIN wire : wire[n] = [by |-> c, order |-> i, at |-> 1]
  BY DEF Wired
<1>. DEFINE end == n + N
            l == LastEnd(Written, end)
<1>. HIDE DEF order, N
<1>3. /\ \A k \in 1..N : /\ (n - 1) + k \in DOMAIN wire
                         /\ wire[(n - 1) + k] = [by |-> c, order |-> i, at |-> k]
      /\ end \in DOMAIN wire /\ IsEnd(wire[end])
  BY <1>1, <1>2, OrderRuns DEF order, N
<1>4. /\ Written \in Seq(Bytes) /\ n \in Nat \ {0} /\ end \in Nat
      /\ end \in 1..Len(Written) /\ DOMAIN wire = 1..Len(Written)
      /\ Written[end] = EOL
  BY <1>1, <1>3, WrittenBytes
<1>5. \A k \in 1..N : /\ ~IsEnd(wire[(n - 1) + k])
                      /\ Written[(n - 1) + k] = order[k]
                      /\ Written[(n - 1) + k] # EOL
  <2>1. \A k \in 1..N : ~IsEnd([by |-> c, order |-> i, at |-> k])
    BY <1>1, ServerAssumption DEF IsEnd, Added, N, order
  <2>2. \A k \in 1..N : ByteOf([by |-> c, order |-> i, at |-> k]) = order[k]
    BY <2>1 DEF ByteOf, order
  <2>3. \A m \in DOMAIN wire : /\ Written[m] = ByteOf(wire[m])
                               /\ Written[m] = EOL <=> IsEnd(wire[m])
    BY WrittenBytes
  <2>. SUFFICES ASSUME NEW k \in 1..N
                PROVE  /\ ~IsEnd(wire[(n - 1) + k])
                       /\ Written[(n - 1) + k] = order[k]
                       /\ Written[(n - 1) + k] # EOL
    OBVIOUS
  <2>4. PICK m \in DOMAIN wire : m = (n - 1) + k /\ wire[m] = [by |-> c, order |-> i, at |-> k]
    BY <1>3
  <2>5. ~IsEnd(wire[m]) /\ Written[m] = order[k]
    BY <2>1, <2>2, <2>3, <2>4
  <2>. QED  BY <2>3, <2>4, <2>5
<1>6. l = n - 1
  <2>1. /\ l \in 0..end - 1
        /\ l # 0 => Written[l] = EOL
        /\ \A k \in l + 1..end - 1 : Written[k] # EOL
    <3>1. end \in 1..Len(Written) + 1
      BY <1>4
    <3>. QED  BY <1>4, <3>1, LastEndIsLast
  <2>. HIDE DEF l
  <2>2. PICK e : e = end
    OBVIOUS
  <2>3. /\ n \in Nat /\ n >= 1 /\ N \in Nat /\ N >= 2 /\ e = n + N
        /\ l \in Int /\ 0 <= l /\ l <= e - 1
    BY <1>1, <1>4, <2>1, <2>2
  <2>4. ~(l > n - 1)
    <3>. SUFFICES ASSUME l > n - 1 PROVE FALSE
      OBVIOUS
    <3>1. l - (n - 1) \in 1..N /\ (n - 1) + (l - (n - 1)) = l /\ l # 0
      BY <2>3
    <3>2. Written[l] # EOL
      BY <1>5, <3>1
    <3>. QED  BY <2>1, <3>1, <3>2
  <2>5. n # 1 => n - 1 \in DOMAIN wire /\ IsEnd(wire[n - 1])
    <3>. SUFFICES ASSUME n # 1, n - 1 \in DOMAIN wire, ~IsEnd(wire[n - 1]) PROVE FALSE
      BY <1>2, <1>4
    <3>1. Continued(n - 1) /\ (n - 1) + 1 = n
      BY <1>4 DEF Wired
    <3>2. wire[n] = Follower(wire[n - 1])
      BY <1>2, <3>1, ServerAssumption DEF Continued, Added
    <3>3. wire[n - 1].at \in Nat \ {0}
      BY WrittenBytes DEF Sent
    <3>. QED  BY <1>2, <3>2, <3>3 DEF Follower
  <2>6. n # 1 => Written[n - 1] = EOL
    BY <2>5, WrittenBytes
  <2>7. ~(l < n - 1)
    <3>. SUFFICES ASSUME l < n - 1 PROVE FALSE
      OBVIOUS
    <3>1. n # 1 /\ n - 1 \in l + 1..e - 1
      BY <2>3
    <3>. QED  BY <2>1, <2>2, <2>6, <3>1
  <2>. QED  BY <2>3, <2>4, <2>7
<1>7. LineAt(Written, end) = order
  <2>1. PICK s : s = Written
    OBVIOUS
  <2>2. PICK r : r = n - 1
    OBVIOUS
  <2>3. PICK h : h = end - 1
    OBVIOUS
  <2>4. s \in Seq(Bytes) /\ r \in Nat /\ h \in Nat /\ r <= h /\ h <= Len(s) /\ h - r = N
    <3>1. s \in Seq(Bytes) /\ end \in 1..Len(s) /\ end = n + N
      BY <1>4, <2>1
    <3>2. n \in Nat /\ n >= 1 /\ N \in Nat
      BY <1>1, <1>4
    <3>. HIDE DEF end
    <3>3. h = (n + N) - 1 /\ n + N <= Len(s) /\ Len(s) \in Nat
      BY <2>3, <3>1, <3>2
    <3>4. r \in Nat /\ h \in Nat /\ r <= h /\ h <= Len(s)
      BY <2>2, <3>2, <3>3, <1>1
    <3>5. h - r = N
      BY <2>2, <3>2, <3>3
    <3>. QED  BY <3>1, <3>4, <3>5
  <2>5. /\ SubSeq(s, r + 1, h) \in Seq(Bytes) /\ Len(SubSeq(s, r + 1, h)) = N
        /\ \A k \in 1..N : SubSeq(s, r + 1, h)[k] = s[r + k]
    BY <2>4, PartOf
  <2>6. LineAt(Written, end) = SubSeq(s, r + 1, h)
    BY <1>6, <2>1, <2>2, <2>3 DEF LineAt
  <2>7. \A k \in 1..N : SubSeq(s, r + 1, h)[k] = order[k]
    BY <1>5, <2>1, <2>2, <2>5
  <2>8. order \in Seq(Text) /\ Len(order) = N
    BY <1>1 DEF N
  <2>9. SubSeq(s, r + 1, h) = order
    <3>1. \A u \in Seq(Bytes), v \in Seq(Text) :
             Len(u) = Len(v) /\ (\A k \in 1..Len(v) : u[k] = v[k]) => u = v
      OBVIOUS
    <3>. QED  BY <2>5, <2>7, <2>8, <3>1
  <2>. QED  BY <2>6, <2>9
<1>8. end \in OrderEnds(Written)
  BY <1>1, <1>4, <1>7 DEF OrderEnds
<1>. QED  BY <1>2, <1>7, <1>8 DEF Stands, order, N

LEMMA InOrder == Streams /\ Wired => OrdersInOrder
<1>. SUFFICES ASSUME Streams, Wired, NEW n \in OrderEnds(Written)
              PROVE  LET first == Origin(n)
                         order == sent[first.by][first.order]
                     IN
                     /\ first.at = 1
                     /\ \/ LineAt(Written, n) = order
                        \/ /\ <<first.by, first.order>> \in torn
                           /\ IsPrefix(LineAt(Written, n), order)
                     /\ \A m \in OrderEnds(Written) :
                           m < n /\ Origin(m).by = first.by
                              => Origin(m).order < first.order
                     /\ \A i \in 1..first.order - 1 :
                           <<first.by, i>> \in torn \/ Stands(first.by, i)
  BY DEF OrdersInOrder
<1>1. PICK c \in Clients : \E l \in 0..n - 1 : \E i \in DOMAIN sent[c] :
              /\ l = LastEnd(Written, n) /\ n \in DOMAIN wire
              /\ l + 1 \in DOMAIN wire /\ l + 1 < n
              /\ wire[l + 1] = [by |-> c, order |-> i, at |-> 1]
              /\ Origin(n) = wire[l + 1]
              /\ \/ LineAt(Written, n) = sent[c][i]
                 \/ <<c, i>> \in torn /\ IsPrefix(LineAt(Written, n), sent[c][i])
  BY LineOf
<1>2. PICK l \in 0..n - 1, i \in DOMAIN sent[c] :
              /\ l = LastEnd(Written, n) /\ n \in DOMAIN wire
              /\ l + 1 \in DOMAIN wire /\ l + 1 < n
              /\ wire[l + 1] = [by |-> c, order |-> i, at |-> 1]
              /\ Origin(n) = wire[l + 1]
              /\ \/ LineAt(Written, n) = sent[c][i]
                 \/ <<c, i>> \in torn /\ IsPrefix(LineAt(Written, n), sent[c][i])
  BY <1>1
<1>3. /\ Origin(n).by = c /\ Origin(n).order = i /\ Origin(n).at = 1
      /\ i \in 1..Len(sent[c]) /\ Len(sent[c]) \in Nat /\ n \in Nat
  BY SMTT(30), <1>2, WrittenBytes DEF Streams
<1>4. ASSUME NEW m \in OrderEnds(Written), m < n, Origin(m).by = c
      PROVE  Origin(m).order < i
  <2>1. PICK d \in Clients : \E k \in 0..m - 1 : \E j \in DOMAIN sent[d] :
              /\ m \in DOMAIN wire /\ k + 1 \in DOMAIN wire /\ k + 1 < m
              /\ wire[k + 1] = [by |-> d, order |-> j, at |-> 1]
              /\ Origin(m) = wire[k + 1]
    BY LineOf
  <2>2. PICK k \in 0..m - 1, j \in DOMAIN sent[d] :
              /\ m \in DOMAIN wire /\ k + 1 \in DOMAIN wire /\ k + 1 < m
              /\ wire[k + 1] = [by |-> d, order |-> j, at |-> 1]
              /\ Origin(m) = wire[k + 1]
    BY <2>1
  <2>3. Written[m] = EOL /\ m \in Nat
    BY <2>2, WrittenBytes DEF OrderEnds
  <2>4. m \notin l + 1..n - 1
    <3>1. Written \in Seq(Bytes) /\ n \in 1..Len(Written) + 1
      BY <1>2, WrittenBytes
    <3>. QED  BY <1>2, <2>3, <3>1, LastEndIsLast
  <2>5. k + 1 < l + 1
    BY <1>2, <1>3, <1>4, <2>2, <2>3, <2>4
  <2>6. Earlier(wire[k + 1], wire[l + 1])
    <3>1. wire[l + 1] # Added /\ wire[k + 1].by = wire[l + 1].by
      BY <1>2, <1>4, <2>2, ServerAssumption DEF Added
    <3>. QED  BY <1>2, <2>2, <2>5, <3>1 DEF Wired
  <2>. QED  BY <1>2, <2>2, <2>6 DEF Earlier
<1>5. ASSUME NEW j \in 1..i - 1, <<c, j>> \notin torn PROVE Stands(c, j)
  <2>1. j \in DOMAIN sent[c] /\ j < i
    BY <1>3
  <2>2. PICK p \in DOMAIN stream[c] : stream[c][p] = [by |-> c, order |-> j, at |-> 1]
    BY <2>1 DEF Streams, Streamed
  <2>3. PICK d \in Clients : device[d] /\ \E q \in 1..Done(d) : wire[l + 1] = stream[d][q]
    BY <1>2, ServerAssumption DEF Wired, Sourced, Added
  <2>4. PICK q \in 1..Done(d) : wire[l + 1] = stream[d][q]
    BY <2>3
  <2>5. stream[d] \in Seq(Sent(d)) /\ q \in DOMAIN stream[d]
    BY DoneInStream DEF Streams, Streamed
  <2>6. d = c
    <3>1. stream[d][q] \in Sent(d)
      BY <2>5
    <3>. QED  BY <1>2, <2>4, <3>1 DEF Sent
  <2>7. ~(q < p)
    <3>1. q < p => Earlier(stream[c][q], stream[c][p])
      BY <2>2, <2>5, <2>6 DEF Streams, Streamed
    <3>. QED  BY <1>2, <1>3, <2>1, <2>2, <2>4, <2>6, <3>1 DEF Earlier
  <2>8. p \in 1..Done(c)
    <3>1. p \in Nat \ {0} /\ Done(c) \in Nat /\ q \in 1..Done(c)
      BY <2>2, <2>5, <2>6, DoneInStream
    <3>. QED  BY <2>7, <3>1
  <2>. QED  BY <1>5, <2>1, <2>2, <2>3, <2>6, <2>8, ForwardedStands
<1>. QED  BY <1>2, <1>3, <1>4, <1>5

-----------------------------------------------------------------------------
\* What each handler and each client holds.
Tables ==
    /\ chunk = [c \in Clients |-> chunk[c]] /\ recvd = [c \in Clients |-> recvd[c]]
    /\ stream = [c \in Clients |-> stream[c]]

LEMMA NextTables == IInv /\ Tables /\ [Next]_vars => Tables'
<1>. SUFFICES ASSUME IInv, Tables, [Next]_vars PROVE Tables'
  OBVIOUS
<1>1. CASE Quiet
  BY <1>1 DEF Quiet, Tables
<1>2. CASE SpawnHandler
  BY <1>2 DEF SpawnHandler, clientVars, Tables
<1>3. ASSUME NEW c \in Clients, Recv(c) PROVE Tables'
  BY <1>3 DEF Recv, clientVars, Tables
<1>4. ASSUME NEW c \in Clients, Forward(c) PROVE Tables'
  BY <1>4 DEF Forward, clientVars, Tables
<1>5. ASSUME NEW c \in Clients, SendOrder(c) PROVE Tables'
  BY <1>5 DEF SendOrder, handlerVars, Tables
<1>. QED  BY <1>1, <1>2, <1>3, <1>4, <1>5, NextMoves

LEMMA Forwarding == Spec => [](IInv /\ Streams /\ Wired)
<1>1. Init => IInv /\ Streams /\ Wired
  BY InitIInv, InitStreams, InitWired
<1>2. IInv /\ Streams /\ Wired /\ [Next]_vars => (IInv /\ Streams /\ Wired)'
  BY NextIInv, NextStreams, NextWired
<1>. QED  BY <1>1, <1>2, PTL DEF Spec

(* Every variable keeps its type: no order is cut that was not sent, and   *)
(* no byte is received before it was.                                      *)
THEOREM TypeCorrect == Spec => []TypeOK
<1>1. Init => Places /\ Tables
  <2>1. Init => Places
    <3>1. Init => device \in [Clients -> BOOLEAN]
      BY DEF Init
    <3>2. Init => threads \subseteq Clients
      BY DEF Init
    <3>3. Init => /\ main = "start" /\ running = FALSE /\ stored = FALSE /\ socket = "none" /\ srv = "none"
      BY DEF Init
    <3>. QED  BY <3>1, <3>2, <3>3 DEF Places
  <2>2. Init => Tables
    BY DEF Init, Tables
  <2>. QED  BY <2>1, <2>2
<1>2. Spec => [](IInv /\ Places /\ Tables)
  BY <1>1, InitIInv, NextIInv, NextPlaces, NextTables, PTL DEF Spec
<1>3. IInv /\ Places /\ Tables /\ Streams /\ Wired => TypeOK
  <2>. SUFFICES ASSUME IInv, Places, Tables, Streams, Wired PROVE TypeOK
    OBVIOUS
  <2>1. chunk \in [Clients -> Seq(Origins)] /\ stream \in [Clients -> Seq(Origins)]
    <3>1. \A c \in Clients : /\ Sent(c) \subseteq Origins
                             /\ chunk[c] \in Seq(Sent(c)) /\ stream[c] \in Seq(Sent(c))
      BY SentIsOrigin DEF Streams, Streamed, Received
    <3>2. \A c \in Clients : chunk[c] \in Seq(Origins) /\ stream[c] \in Seq(Origins)
      BY <3>1
    <3>. QED  BY <3>2 DEF Tables
  <2>2. recvd \in [Clients -> Nat] /\ sent \in [Clients -> Seq(Seq(Text))]
    BY DEF Tables, Streams, Received
  <2>3. \A c \in Clients : /\ sent[c] \in Seq(OrdersOf[c]) /\ Len(sent[c]) <= MaxSends
                           /\ recvd[c] <= Len(stream[c])
    BY DEF Streams, Streamed, Received
  <2>. QED  BY <2>1, <2>2, <2>3 DEF TypeOK, Places, Streams, Wired
<1>. QED  BY <1>2, <1>3, Forwarding, PTL

(* The lines on the serial line are the orders of the clients, each of     *)
(* them whole or, when a recv has cut it, from its beginning; those of a   *)
(* client in their order, none left out but cut ones (handleClient,        *)
(* sendCommand).                                                           *)
THEOREM LinesInOrder == Spec => []OrdersInOrder
BY Forwarding, InOrder, PTL

(* The safety half of EveryOrderWritten: when a handler whose device       *)
(* answers is done with the bytes its client has sent so far, every order  *)
(* of the client that no recv has cut stands on the serial line, between   *)
(* two ends of line and complete, whatever the other handlers write.       *)
THEOREM ReadIsWritten ==
    Spec => [](\A c \in Clients : device[c] /\ Done(c) = Len(stream[c]) =>
                  \A i \in DOMAIN sent[c] : <<c, i>> \in torn \/ Stands(c, i))
<1>1. ASSUME Streams, Wired, NEW c \in Clients, device[c], Done(c) = Len(stream[c]),
             NEW i \in DOMAIN sent[c], <<c, i>> \notin torn
      PROVE  Stands(c, i)
  <2>1. PICK p \in DOMAIN stream[c] : stream[c][p] = [by |-> c, order |-> i, at |-> 1]
    BY <1>1 DEF Streams, Streamed
  <2>2. p \in 1..Done(c)
    <3>1. stream[c] \in Seq(Sent(c))
      BY <1>1 DEF Streams, Streamed
    <3>. QED  BY <1>1, <2>1, <3>1
  <2>. QED  BY <1>1, <2>1, <2>2, ForwardedStands
<1>2. Streams /\ Wired =>
          \A c \in Clients : device[c] /\ Done(c) = Len(stream[c]) =>
              \A i \in DOMAIN sent[c] : <<c, i>> \in torn \/ Stands(c, i)
  BY <1>1
<1>. QED  BY <1>2, Forwarding, PTL
=============================================================================
