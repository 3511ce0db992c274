----------------------------- MODULE StatusLink -----------------------------
(***************************************************************************)
(* The way of a status from the controller to the console's screen         *)
(* (src/newECC) and on to the map viewer: the bytes the controller writes, *)
(* the signature the console looks for, what its parser and the viewer     *)
(* expect.  The console of src/ECC looks for another signature, the one    *)
(* the controller writes; it is left out.                                  *)
(*                                                                         *)
(* Of a packet only the first ten bytes and the length are modelled, as    *)
(* nothing behind them decides whether it is taken.  A read of the console *)
(* returns what has arrived and only its start is looked at; a rest of a   *)
(* cut packet whose data happen to look like a start is left out, and so   *)
(* is a connection that ends.                                              *)
(***************************************************************************)
EXTENDS Integers, Sequences

CONSTANTS Counts,     \* bound: lengths of the controller's two lists, one byte each
          MaxStream   \* bound: statuses waiting for the console

Nothing == <<>>

VARIABLES
    targets, missiles,  \* lengths of status.targets and status.missiles
    requested,          \* a status request is on its way to the controller
    stream,             \* the packets on their way to the console
    shown,              \* <<targets, missiles>> on the console's screen
    drawn               \* <<targets, missiles>> on the map

vars == <<targets, missiles, requested, stream, shown, drawn>>

Init ==
    /\ targets \in Counts /\ missiles \in Counts
    /\ requested = FALSE
    /\ stream = <<>>
    /\ shown = Nothing /\ drawn = Nothing

-----------------------------------------------------------------------------
(* The controller. *)

\* the radar, the launcher and the missile, the target records
PayloadSize(t, m) == 5 + 37 + 37 + 28 + 57 * m + 58 * t

\* serializeStatusResponse: the type, the size in four bytes, low byte first,
\* then the numbers of radars, controllers, launchers, targets and missiles
Status(t, m) ==
    LET size == PayloadSize(t, m) IN
    [head |-> <<81, size % 256, (size \div 256) % 256, (size \div 65536) % 256,
                size \div 16777216, 1, 1, 1, t % 256, m % 256>>,
     length |-> size + 5]

\* targets are detected and fall, missiles are launched and vanish
ListsChange ==
    /\ targets' \in Counts /\ missiles' \in Counts
    /\ UNCHANGED <<requested, stream, shown, drawn>>

\* STATUS_REQUEST
SendStatus ==
    /\ requested /\ Len(stream) < MaxStream
    /\ requested' = FALSE
    /\ stream' = Append(stream, Status(targets, missiles))
    /\ UNCHANGED <<targets, missiles, shown, drawn>>

-----------------------------------------------------------------------------
(* The map viewer, for a buffer forwarded to it. *)

SizeField(p) ==
    p.head[2] + 256 * p.head[3] + 65536 * p.head[4] + 16777216 * p.head[5]

MapLimit == 3072

\* HandleClientAsync and OnDataReceived: a message has its size in front, the
\* three numbers behind it are 1, and it is not too long.
Drawable(p) ==
    /\ p.head[1] = 81
    /\ 3 <= SizeField(p) /\ SizeField(p) + 5 <= MapLimit
    /\ SizeField(p) + 5 <= p.length
    /\ SubSeq(p.head, 6, 8) = <<1, 1, 1>>

-----------------------------------------------------------------------------
(* The console. *)

RequestStatus ==
    /\ requested' = TRUE
    /\ UNCHANGED <<targets, missiles, stream, shown, drawn>>

\* recvThread: what a buffer starts with to be taken
Recognised(p) ==
    p.head[1] = 81 /\ p.head[2] = 1 /\ p.head[3] = 1 /\ p.head[4] = 1

\* Parse: the two numbers of a packet behind the signature, if it holds what
\* they say; the exception otherwise is caught
Parsed(p) ==
    LET t == p.head[5]  m == p.head[6] IN
    IF p.length >= 1 + PayloadSize(t, m) THEN <<t, m>> ELSE Nothing

\* recv into a buffer of 4096 bytes
Cut(p) == [p EXCEPT !.length = IF p.length > 4096 THEN 4096 ELSE p.length]

ReceiveStatus ==
    /\ \E k \in 1..Len(stream) : stream' = SubSeq(stream, k + 1, Len(stream))
    /\ LET p == Cut(stream[1]) IN
       IF Recognised(p)
       THEN /\ shown' = IF Parsed(p) = Nothing THEN shown ELSE Parsed(p)
            /\ drawn' = IF Drawable(p) THEN SubSeq(p.head, 9, 10) ELSE drawn
       ELSE UNCHANGED <<shown, drawn>>
    /\ UNCHANGED <<targets, missiles, requested>>

Next == ListsChange \/ SendStatus \/ RequestStatus \/ ReceiveStatus

Spec == Init /\ [][Next]_vars

(* The controller's and the console's receiver threads run. *)
FairSpec == Spec /\ WF_vars(SendStatus) /\ WF_vars(ReceiveStatus)

-----------------------------------------------------------------------------
(* The console that asks for the status comes to show one: recvThread lets *)
(* a status pass by the first four bytes it says a status starts with.     *)
AnswerIsShown == requested ~> shown # Nothing
=============================================================================
