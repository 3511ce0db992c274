--------------------------- MODULE LauncherProofs ---------------------------
(***************************************************************************)
(* Proofs about the launcher, for every set of angles and places, every    *)
(* stride and every bound on the number of commands.  The inductive        *)
(* invariant Inv is proved conjunct by conjunct, one lemma for each, and   *)
(* one step in it for each action that can disturb the conjunct.           *)
(***************************************************************************)
EXTENDS Launcher, SequenceTheorems, TLAPS

(* Every message is one of four records. *)
LEMMA MessageType ==
    ASSUME NEW m \in Numbered
    PROVE  /\ m.type \in {"LAUNCH", "MOVE", "MODE_CHANGE", "STATUS_REQUEST"}
           /\ m.arg \in Int
           /\ m.n \in 0..MaxCommands
           /\ m.type = "MODE_CHANGE" => m.arg \in ModeBytes
<1>1. PICK c \in LauncherMessage, k \in 0..MaxCommands :
         m = [type |-> c.type, arg |-> c.arg, n |-> k]
  BY DEF Numbered
<1>2. /\ c.type \in {"LAUNCH", "MOVE", "MODE_CHANGE", "STATUS_REQUEST"}
      /\ c.arg \in Int
      /\ c.type = "MODE_CHANGE" => c.arg \in ModeBytes
  <2>1. CASE c \in [type : {"LAUNCH"}, arg : Angles]
    BY <2>1, LauncherAssumption
  <2>2. CASE c \in [type : {"MOVE"}, arg : Places]
    BY <2>2, LauncherAssumption
  <2>3. CASE c \in [type : {"MODE_CHANGE"}, arg : ModeBytes]
    <3>1. c.arg \in ModeBytes
      BY <2>3
    <3>2. c.arg \in 0..255
      BY <3>1, LauncherAssumption
    <3> QED
      BY <2>3, <3>1, <3>2
  <2>4. CASE c \in [type : {"STATUS_REQUEST"}, arg : {0}]
    BY <2>4
  <2> QED
    BY <2>1, <2>2, <2>3, <2>4 DEF LauncherMessage
<1> QED
  BY <1>1, <1>2

(* What the proofs need to know besides the properties: a handler runs for *)
(* its own type of command, a worker about to fire has just set the angle, *)
(* a mover that is done stands at its destination, a worker about to start *)
(* a move has joined the previous one, and the command being executed is   *)
(* one of those begun.                                                     *)
HandlerMatchesCommand ==
    /\ worker \in {"rotate", "fire"} => current.type = "LAUNCH"
    /\ worker \in {"cancel", "wake", "join", "restart"} => current.type = "MOVE"
    /\ worker = "setMode" => current.type = "MODE_CHANGE"
    /\ worker \in {"readPos", "readMode"} => current.type = "STATUS_REQUEST"

AlignedToFire == worker = "fire" => angle = current.arg

DoneAtDestination == mover \in {"halt", "clear"} => pos = dest

PreviousMoverJoined == worker = "restart" => mover = "none"

SomeBegun == Begun >= 0 /\ (Busy => Begun >= 1)

(* The inductive invariant. *)
Inv ==
    /\ TypeOK
    /\ HandlerMatchesCommand
    /\ AlignedToFire
    /\ DoneAtDestination
    /\ CommandsInOrder
    /\ SomeBegun
    /\ PreviousMoverJoined
    /\ MoveFlagOwned
    /\ NoLostWakeup

-----------------------------------------------------------------------------
(* Every variable keeps its type.  The one delicate case is ChangeMode,    *)
(* which assigns the argument of the command to the mode.                  *)
LEMMA TypeStep ==
    ASSUME TypeOK, HandlerMatchesCommand, [Next]_vars
    PROVE  TypeOK'
<1> USE DEF TypeOK
<1>1. CASE Push
  <2>1. PICK m \in LauncherMessage :
           schedule' = Append(schedule,
                              [type |-> m.type, arg |-> m.arg, n |-> accepted + 1])
    BY <1>1 DEF Push
  <2>2. accepted + 1 \in 0..MaxCommands
    BY <1>1, LauncherAssumption DEF Push
  <2>3. [type |-> m.type, arg |-> m.arg, n |-> accepted + 1] \in Numbered
    BY <2>2 DEF Numbered
  <2>4. schedule' \in Seq(Numbered)
    BY <2>1, <2>3
  <2> QED
    BY <1>1, <2>2, <2>4 DEF Push, moveVars, statusVars, outVars
<1>2. CASE Take
  <2>1. /\ Head(schedule) \in Numbered
        /\ Tail(schedule) \in Seq(Numbered)
    BY <1>2 DEF Take
  <2>2. Handler(Head(schedule).type) \in WorkerPlaces
    BY <2>1, MessageType DEF Handler, WorkerPlaces
  <2> QED
    BY <1>2, <2>1, <2>2 DEF Take, moveVars, statusVars, outVars
<1>3. CASE NotifyPush
  BY <1>3 DEF NotifyPush, NotifyWorker, WorkerPlaces, queueVars, moveVars,
     statusVars, outVars
<1>4. CASE Sleep
  BY <1>4 DEF Sleep, WorkerPlaces, queueVars, moveVars, statusVars, outVars
<1>5. CASE WorkerExit
  BY <1>5 DEF WorkerExit, WorkerPlaces, queueVars, moveVars, statusVars, outVars
<1>6. CASE Rotate
  BY <1>6, MessageType DEF Rotate, MotorOutcomes, WorkerPlaces, queueVars, moveVars, outVars
<1>7. CASE Fire
  BY <1>7, MessageType DEF Fire, WorkerPlaces, queueVars, moveVars, statusVars
<1>8. CASE CancelMove
  BY <1>8 DEF CancelMove, WorkerPlaces, queueVars, statusVars, outVars
<1>9. CASE WakeMover
  BY <1>9 DEF WakeMover, NotifyMover, WorkerPlaces, MoverPlaces, queueVars,
     statusVars, outVars
<1>10. CASE JoinMover
  BY <1>10 DEF JoinMover, WorkerPlaces, MoverPlaces, queueVars, statusVars,
     outVars
<1>11. CASE StartMover
  BY <1>11, MessageType DEF StartMover, WorkerPlaces, MoverPlaces,
     OperationMode, queueVars, outVars
<1>12. CASE ChangeMode
  BY <1>12, MessageType DEF ChangeMode, HandlerMatchesCommand, WorkerPlaces,
     queueVars, moveVars, outVars
<1>13. CASE ReadPosition
  BY <1>13 DEF ReadPosition, WorkerPlaces, queueVars, moveVars, statusVars
<1>14. CASE SendStatus
  BY <1>14 DEF SendStatus, WorkerPlaces, queueVars, moveVars, statusVars
<1>15. CASE MoverLoop
  BY <1>15 DEF MoverLoop, MoverPlaces, queueVars, statusVars, outVars
<1>16. CASE Advance
  BY <1>16, LauncherAssumption DEF Advance, NextPosition, MoverPlaces,
     queueVars, outVars
<1>17. CASE Arrive
  BY <1>17 DEF Arrive, MoverPlaces, queueVars, outVars
<1>18. CASE Halt
  BY <1>18 DEF Halt, MoverPlaces, OperationMode, queueVars, outVars
<1>19. CASE ClearMoveFlag
  BY <1>19 DEF ClearMoveFlag, MoverPlaces, queueVars, statusVars, outVars
<1>20. CASE MoverCheck
  BY <1>20 DEF MoverCheck, MoverPlaces, queueVars, statusVars, outVars
<1>21. CASE MoverTimeout
  BY <1>21 DEF MoverTimeout, MoverPlaces, queueVars, statusVars, outVars
<1>22. CASE SetStop
  BY <1>22 DEF SetStop, OwnerPlaces, moveVars, statusVars, outVars
<1>23. CASE NotifyStop
  BY <1>23 DEF NotifyStop, NotifyWorker, OwnerPlaces, WorkerPlaces, queueVars,
     moveVars, statusVars, outVars
<1>24. CASE JoinWorker
  BY <1>24 DEF JoinWorker, OwnerPlaces, queueVars, moveVars, statusVars, outVars
<1>25. CASE StopMove
  BY <1>25 DEF StopMove, OwnerPlaces, queueVars, statusVars, outVars
<1>26. CASE StopWake
  BY <1>26 DEF StopWake, NotifyMover, OwnerPlaces, MoverPlaces, queueVars,
     statusVars, outVars
<1>27. CASE StopJoin
  BY <1>27 DEF StopJoin, OwnerPlaces, MoverPlaces, queueVars, statusVars,
     outVars
<1>28. CASE FallAsleep
  BY <1>28 DEF FallAsleep, MoverPlaces, queueVars, statusVars, outVars
<1>29. CASE UNCHANGED vars
  BY <1>29 DEF vars, queueVars, moveVars, statusVars, outVars
<1> QED
  BY <1>1, <1>2, <1>3, <1>4, <1>5, <1>6, <1>7, <1>8, <1>9, <1>10, <1>11,
     <1>12, <1>13, <1>14, <1>15, <1>16, <1>17, <1>18, <1>19, <1>20, <1>21,
     <1>22, <1>23, <1>24, <1>25, <1>26, <1>27, <1>28, <1>29
  DEF Next, WorkerStep, MoverStep, OwnerStep

-----------------------------------------------------------------------------
(* Steps that leave the worker and the command it executes alone. *)
OtherStep == MoverStep \/ (OwnerStep /\ ~NotifyStop) \/ UNCHANGED vars

LEMMA OthersLeaveWorker ==
    ASSUME OtherStep
    PROVE  UNCHANGED <<worker, current, angle, schedule, accepted, listener>>
  BY DEF OtherStep, MoverStep, OwnerStep, MoverLoop, Advance, Arrive, Halt,
     ClearMoveFlag, MoverCheck, FallAsleep, MoverTimeout, SetStop, NotifyStop,
     JoinWorker, StopMove, StopWake, StopJoin, vars, queueVars, statusVars,
     moveVars, outVars

(* A handler is entered only by Take, for the command it takes, and the    *)
(* command is not replaced before the handler is left.                     *)
LEMMA HandlerStep ==
    ASSUME TypeOK, HandlerMatchesCommand, [Next]_vars
    PROVE  HandlerMatchesCommand'
<1> USE DEF HandlerMatchesCommand
<1>1. CASE Take
  <2>1. Head(schedule) \in Numbered
    BY <1>1 DEF Take, TypeOK
  <2> QED
    BY <1>1, <2>1, MessageType DEF Take, Handler
<1>2. CASE Push
  BY <1>2 DEF Push
<1>3. CASE NotifyPush \/ NotifyStop
  BY <1>3 DEF NotifyPush, NotifyStop, NotifyWorker
<1>4. CASE Sleep \/ WorkerExit \/ Rotate \/ Fire
  BY <1>4 DEF Sleep, WorkerExit, Rotate, MotorOutcomes, Fire
<1>5. CASE CancelMove \/ WakeMover \/ JoinMover \/ StartMover
  BY <1>5 DEF CancelMove, WakeMover, JoinMover, StartMover
<1>6. CASE ChangeMode \/ ReadPosition \/ SendStatus
  BY <1>6 DEF ChangeMode, ReadPosition, SendStatus
<1>7. CASE OtherStep
  BY <1>7, OthersLeaveWorker
<1> QED
  BY <1>1, <1>2, <1>3, <1>4, <1>5, <1>6, <1>7 DEF Next, WorkerStep, OtherStep,
     OwnerStep

(* Only Rotate enters "fire", and it sets the angle.                       *)
LEMMA AlignedStep ==
    ASSUME TypeOK, AlignedToFire, [Next]_vars
    PROVE  AlignedToFire'
<1> USE DEF AlignedToFire
<1>1. CASE Take
  <2>1. Head(schedule) \in Numbered
    BY <1>1 DEF Take, TypeOK
  <2> QED
    BY <1>1, <2>1, MessageType DEF Take, Handler
<1>2. CASE Push
  BY <1>2 DEF Push, statusVars
<1>3. CASE NotifyPush \/ NotifyStop
  BY <1>3 DEF NotifyPush, NotifyStop, NotifyWorker, statusVars
<1>4. CASE Sleep \/ WorkerExit \/ Rotate \/ Fire
  BY <1>4 DEF Sleep, WorkerExit, Rotate, MotorOutcomes, Fire, statusVars
<1>5. CASE CancelMove \/ WakeMover \/ JoinMover \/ StartMover
  BY <1>5 DEF CancelMove, WakeMover, JoinMover, StartMover, statusVars
<1>6. CASE ChangeMode \/ ReadPosition \/ SendStatus
  BY <1>6 DEF ChangeMode, ReadPosition, SendStatus, statusVars
<1>7. CASE OtherStep
  BY <1>7, OthersLeaveWorker
<1> QED
  BY <1>1, <1>2, <1>3, <1>4, <1>5, <1>6, <1>7 DEF Next, WorkerStep, OtherStep,
     OwnerStep

(* Push numbers the new command after the last one, Take removes the next  *)
(* one, and no other step touches the deque or begins a command.           *)
LEMMA OrderStep ==
    ASSUME TypeOK, CommandsInOrder, SomeBegun, [Next]_vars
    PROVE  CommandsInOrder' /\ SomeBegun'
<1> USE DEF CommandsInOrder, SomeBegun, Begun, Busy
<1>1. CASE Push
  <2>1. PICK m \in LauncherMessage :
           schedule' = Append(schedule,
                              [type |-> m.type, arg |-> m.arg, n |-> accepted + 1])
    BY <1>1 DEF Push
  <2> DEFINE last == [type |-> m.type, arg |-> m.arg, n |-> accepted + 1]
  <2>2. /\ Len(schedule') = Len(schedule) + 1
        /\ \A i \in 1..Len(schedule) : schedule'[i] = schedule[i]
        /\ schedule'[Len(schedule) + 1] = last
        /\ Len(schedule) \in Nat
    BY <2>1 DEF TypeOK
  <2>3. /\ accepted' = accepted + 1
        /\ accepted \in Int
        /\ UNCHANGED <<worker, current>>
    BY <1>1, LauncherAssumption DEF Push, TypeOK
  <2>4. Begun' = Begun /\ Begun \in Int
    BY <2>2, <2>3
  <2>5. ASSUME NEW i \in 1..Len(schedule')
        PROVE  schedule'[i].n = Begun' + i
    <3>1. CASE i \in 1..Len(schedule)
      BY <2>2, <2>4, <3>1
    <3>2. CASE i = Len(schedule) + 1
      <4>1. schedule'[i].n = accepted + 1
        BY <2>2, <3>2
      <4> QED
        BY <2>2, <2>3, <2>4, <3>2, <4>1
    <3> QED
      BY <2>2, <3>1, <3>2
  <2> QED
    BY <2>3, <2>4, <2>5
<1>2. CASE Take
  <2>1. /\ Len(schedule) \in Nat \ {0}
        /\ Len(schedule') = Len(schedule) - 1
        /\ \A i \in 1..Len(schedule') : schedule'[i] = schedule[i + 1]
        /\ current' = schedule[1]
        /\ accepted' = accepted
        /\ accepted \in Int
    BY <1>2 DEF Take, TypeOK
  <2>2. Begun' = Begun + 1 /\ Begun \in Int
    BY <2>1
  <2>3. \A i \in 1..Len(schedule') : schedule'[i].n = Begun' + i
    BY <2>1, <2>2
  <2>4. current'.n = Begun'
    BY <2>1, <2>2
  <2>5. Begun' >= 0 /\ Begun' >= 1
    BY <2>2 DEF SomeBegun
  <2> QED
    BY <2>3, <2>4, <2>5
<1>3. CASE NotifyPush \/ NotifyStop
  BY <1>3 DEF NotifyPush, NotifyStop, NotifyWorker, queueVars
<1>4. CASE Sleep \/ WorkerExit \/ Rotate \/ Fire
  BY <1>4 DEF Sleep, WorkerExit, Rotate, MotorOutcomes, Fire, queueVars
<1>5. CASE CancelMove \/ WakeMover \/ JoinMover \/ StartMover
  BY <1>5 DEF CancelMove, WakeMover, JoinMover, StartMover, queueVars
<1>6. CASE ChangeMode \/ ReadPosition \/ SendStatus
  BY <1>6 DEF ChangeMode, ReadPosition, SendStatus, queueVars
<1>7. CASE OtherStep
  BY <1>7, OthersLeaveWorker
<1> QED
  BY <1>1, <1>2, <1>3, <1>4, <1>5, <1>6, <1>7 DEF Next, WorkerStep, OtherStep,
     OwnerStep

-----------------------------------------------------------------------------
(* Steps that leave the mover, its flag and its destination alone. *)
QuietStep ==
    \/ Push \/ NotifyPush
    \/ Take \/ Sleep \/ WorkerExit \/ Rotate \/ Fire
    \/ ChangeMode \/ ReadPosition \/ SendStatus
    \/ SetStop \/ NotifyStop \/ JoinWorker
    \/ UNCHANGED vars

(* Nobody enters or leaves the places between cancelling a move and        *)
(* starting the next one, or moves the launcher, in a quiet step.          *)
LEMMA QuietLeavesMover ==
    ASSUME TypeOK, QuietStep
    PROVE  /\ UNCHANGED <<moveFlag, mover, dest, pos>>
           /\ Cancelling' <=> Cancelling
           /\ worker' = "restart" => worker = "restart"
<1> USE DEF Cancelling
<1>1. CASE Take
  <2>1. Head(schedule) \in Numbered
    BY <1>1 DEF Take, TypeOK
  <2> QED
    BY <1>1, <2>1, MessageType DEF Take, Handler, moveVars, statusVars
<1>2. CASE Push
  BY <1>2 DEF Push, moveVars, statusVars
<1>3. CASE NotifyPush
  BY <1>3 DEF NotifyPush, NotifyWorker, moveVars, statusVars
<1>4. CASE Sleep \/ WorkerExit \/ Rotate \/ Fire
  BY <1>4 DEF Sleep, WorkerExit, Rotate, MotorOutcomes, Fire, moveVars, statusVars
<1>5. CASE ChangeMode \/ ReadPosition \/ SendStatus
  BY <1>5 DEF ChangeMode, ReadPosition, SendStatus, moveVars, statusVars
<1>6. CASE SetStop \/ NotifyStop \/ JoinWorker
  BY <1>6 DEF SetStop, NotifyStop, NotifyWorker, JoinWorker, moveVars, statusVars
<1>7. CASE UNCHANGED vars
  BY <1>7 DEF vars, moveVars, statusVars
<1> QED
  BY <1>1, <1>2, <1>3, <1>4, <1>5, <1>6, <1>7 DEF QuietStep

(* Only JoinMover enters "restart", with the old mover gone, and a mover   *)
(* that is gone takes no step of its own.                                  *)
LEMMA JoinedStep ==
    ASSUME TypeOK, PreviousMoverJoined, [Next]_vars
    PROVE  PreviousMoverJoined'
<1> USE DEF PreviousMoverJoined
<1>1. CASE QuietStep
  BY <1>1, QuietLeavesMover
<1>2. CASE CancelMove \/ WakeMover \/ JoinMover \/ StartMover
  BY <1>2 DEF CancelMove, WakeMover, JoinMover, StartMover
<1>3. CASE MoverStep
  BY <1>3 DEF MoverStep, MoverLoop, Advance, Arrive, Halt, ClearMoveFlag,
     MoverCheck, FallAsleep, MoverTimeout
<1>4. CASE StopMove \/ StopWake \/ StopJoin
  BY <1>4 DEF StopMove, StopWake, NotifyMover, StopJoin
<1> QED
  BY <1>1, <1>2, <1>3, <1>4 DEF Next, WorkerStep, OwnerStep, QuietStep

(* The flag is raised only with a new mover, lowered by whoever cancels    *)
(* the mover or by the mover in its last step, and whoever cancels stays   *)
(* in its place until the mover has gone.                                  *)
LEMMA FlagStep ==
    ASSUME TypeOK, PreviousMoverJoined, MoveFlagOwned, [Next]_vars
    PROVE  MoveFlagOwned'
<1> USE DEF MoveFlagOwned, MoverLive
<1>1. CASE QuietStep
  BY <1>1, QuietLeavesMover
<1>2. CASE CancelMove
  BY <1>2 DEF CancelMove, Cancelling
<1>3. CASE WakeMover
  BY <1>3 DEF WakeMover, NotifyMover, Cancelling
<1>4. CASE JoinMover
  BY <1>4 DEF JoinMover, Cancelling
<1>5. CASE StartMover
  BY <1>5 DEF StartMover, Cancelling
<1>6. CASE MoverLoop
  BY <1>6 DEF MoverLoop, Cancelling
<1>7. CASE Advance \/ Arrive \/ Halt \/ MoverCheck \/ FallAsleep \/ MoverTimeout
  BY <1>7 DEF Advance, Arrive, Halt, MoverCheck, FallAsleep, MoverTimeout,
     Cancelling
<1>8. CASE ClearMoveFlag
  BY <1>8 DEF ClearMoveFlag
<1>9. CASE StopMove
  BY <1>9 DEF StopMove, Cancelling
<1>10. CASE StopWake
  BY <1>10 DEF StopWake, NotifyMover, Cancelling
<1>11. CASE StopJoin
  BY <1>11 DEF StopJoin, Cancelling
<1> QED
  BY <1>1, <1>2, <1>3, <1>4, <1>5, <1>6, <1>7, <1>8, <1>9, <1>10, <1>11
  DEF Next, WorkerStep, MoverStep, OwnerStep, QuietStep

(* Only Arrive enters "halt"; the destination changes only when there is   *)
(* no mover.                                                               *)
LEMMA DoneStep ==
    ASSUME TypeOK, PreviousMoverJoined, DoneAtDestination, [Next]_vars
    PROVE  DoneAtDestination'
<1> USE DEF DoneAtDestination
<1>1. CASE QuietStep
  BY <1>1, QuietLeavesMover
<1>2. CASE CancelMove \/ WakeMover \/ JoinMover \/ StartMover
  BY <1>2 DEF CancelMove, WakeMover, NotifyMover, JoinMover, StartMover, statusVars
<1>3. CASE MoverStep
  BY <1>3 DEF MoverStep, MoverLoop, Advance, Arrive, Halt, ClearMoveFlag,
     MoverCheck, FallAsleep, MoverTimeout, statusVars
<1>4. CASE StopMove \/ StopWake \/ StopJoin
  BY <1>4 DEF StopMove, StopWake, NotifyMover, StopJoin, statusVars
<1> QED
  BY <1>1, <1>2, <1>3, <1>4 DEF Next, WorkerStep, OwnerStep, QuietStep

(* The worker falls asleep only on an empty deque and a lowered stopFlag,  *)
(* and each of the two changes comes with a notification still to be sent. *)
LEMMA WakeupStep ==
    ASSUME TypeOK, NoLostWakeup, [Next]_vars
    PROVE  NoLostWakeup'
<1> USE DEF NoLostWakeup
<1>1. CASE Take
  <2>1. Head(schedule) \in Numbered
    BY <1>1 DEF Take, TypeOK
  <2> QED
    BY <1>1, <2>1, MessageType DEF Take, Handler
<1>2. CASE Push \/ SetStop
  BY <1>2 DEF Push, SetStop
<1>3. CASE NotifyPush \/ NotifyStop
  BY <1>3 DEF NotifyPush, NotifyStop, NotifyWorker
<1>4. CASE Sleep
  BY <1>4 DEF Sleep, queueVars
<1>5. CASE WorkerExit \/ Rotate \/ Fire
  BY <1>5 DEF WorkerExit, Rotate, MotorOutcomes, Fire
<1>6. CASE CancelMove \/ WakeMover \/ JoinMover \/ StartMover
  BY <1>6 DEF CancelMove, WakeMover, JoinMover, StartMover
<1>7. CASE ChangeMode \/ ReadPosition \/ SendStatus
  BY <1>7 DEF ChangeMode, ReadPosition, SendStatus
<1>8. CASE MoverStep
  BY <1>8 DEF MoverStep, MoverLoop, Advance, Arrive, Halt, ClearMoveFlag,
     MoverCheck, FallAsleep, MoverTimeout, queueVars
<1>9. CASE JoinWorker \/ StopMove \/ StopWake \/ StopJoin
  BY <1>9 DEF JoinWorker, StopMove, StopWake, StopJoin, queueVars
<1>10. CASE UNCHANGED vars
  BY <1>10 DEF vars, queueVars
<1> QED
  BY <1>1, <1>2, <1>3, <1>4, <1>5, <1>6, <1>7, <1>8, <1>9, <1>10
  DEF Next, WorkerStep, OwnerStep

-----------------------------------------------------------------------------
(* The inductive invariant holds in every reachable state. *)
THEOREM Invariance == Spec => []Inv
<1>1. Init => Inv
  <2> SUFFICES ASSUME Init PROVE Inv
    OBVIOUS
  <2>1. TypeOK
    <3>1. current \in Numbered
      <4> DEFINE m == [type |-> "STATUS_REQUEST", arg |-> 0]
      <4>1. m \in LauncherMessage
        BY DEF LauncherMessage
      <4>2. 0 \in 0..MaxCommands
        BY LauncherAssumption
      <4>3. current = [type |-> m.type, arg |-> m.arg, n |-> 0]
        BY DEF Init
      <4> QED
        BY <4>1, <4>2, <4>3 DEF Numbered
    <3>2. schedule \in Seq(Numbered) /\ missiles \subseteq 0..MaxCommands
      BY DEF Init
    <3>3. accepted \in 0..MaxCommands
      BY LauncherAssumption DEF Init
    <3>4. Home \in Int /\ STOP_MODE \in OperationMode
      BY LauncherAssumption DEF OperationMode
    <3>5. /\ report \in [pos : Int, mode : OperationMode \cup ModeBytes]
          /\ dest \in Int /\ pos \in Int /\ seenPos \in Int
          /\ mode \in OperationMode \cup ModeBytes
          /\ angle \in Int
      BY <3>4 DEF Init
    <3>6. /\ worker \in WorkerPlaces
          /\ mover \in MoverPlaces
          /\ owner \in OwnerPlaces
          /\ listener \in {"recv", "notify"}
          /\ stopFlag \in BOOLEAN
          /\ moveFlag \in BOOLEAN
      BY DEF Init, WorkerPlaces, MoverPlaces, OwnerPlaces
    <3> QED
      BY <3>1, <3>2, <3>3, <3>5, <3>6 DEF TypeOK
  <2>2. CommandsInOrder /\ SomeBegun
    BY DEF Init, CommandsInOrder, SomeBegun, Begun, Busy
  <2> QED
    BY <2>1, <2>2 DEF Init, Inv, HandlerMatchesCommand, AlignedToFire,
       DoneAtDestination, PreviousMoverJoined, MoveFlagOwned, MoverLive,
       NoLostWakeup
<1>2. Inv /\ [Next]_vars => Inv'
  BY TypeStep, HandlerStep, AlignedStep, DoneStep, OrderStep, JoinedStep, FlagStep,
     WakeupStep DEF Inv
<1> QED
  BY <1>1, <1>2, PTL DEF Spec

-----------------------------------------------------------------------------
(* The safety properties of the launcher, one theorem each. *)

(* Every variable holds a value of its type. *)
THEOREM TypeCorrect == Spec => []TypeOK
<1>1. Inv => TypeOK
  BY DEF Inv
<1> QED
  BY <1>1, Invariance, PTL

(* Between callBack and workerLoop no command is lost, doubled or          *)
(* overtaken.                                                              *)
THEOREM Order == Spec => []CommandsInOrder
<1>1. Inv => CommandsInOrder
  BY DEF Inv
<1> QED
  BY <1>1, Invariance, PTL

(* moveFlag never belongs to another move than the live one. *)
THEOREM FlagOwned == Spec => []MoveFlagOwned
<1>1. Inv => MoveFlagOwned
  BY DEF Inv
<1> QED
  BY <1>1, Invariance, PTL

(* workerLoop never sleeps through a command or the stop. *)
THEOREM WakeupKept == Spec => []NoLostWakeup
<1>1. Inv => NoLostWakeup
  BY DEF Inv
<1> QED
  BY <1>1, Invariance, PTL

-----------------------------------------------------------------------------
(* The action properties. *)

(* A move of moveRoutine approaches its destination and never passes it:   *)
(* further than Stride away, a step of Stride or Stride + 1 cannot pass it *)
(* on either side of zero.                                                 *)
THEOREM Approach == Spec => NoOvershoot
<1> DEFINE Closer == /\ Distance(pos', dest) < Distance(pos, dest)
                     /\ pos <= dest => pos' <= dest
                     /\ pos >= dest => pos' >= dest
<1>1. Inv /\ [Next]_vars => [pos' # pos => Closer]_vars
  <2> SUFFICES ASSUME TypeOK, Next, pos' # pos PROVE Closer
    BY DEF Inv
  <2>1. pos \in Int /\ dest \in Int /\ Stride \in Int /\ Stride >= 0
    BY LauncherAssumption DEF TypeOK
  <2>2. Advance \/ Arrive
    <3>1. ~QuietStep
      BY QuietLeavesMover
    <3>2. ~CancelMove /\ ~WakeMover /\ ~JoinMover /\ ~StartMover
      BY DEF CancelMove, WakeMover, JoinMover, StartMover, statusVars
    <3>3. ~MoverLoop /\ ~Halt /\ ~ClearMoveFlag /\ ~MoverCheck /\ ~FallAsleep
          /\ ~MoverTimeout
      BY DEF MoverLoop, Halt, ClearMoveFlag, MoverCheck, FallAsleep,
         MoverTimeout, statusVars
    <3>4. ~StopMove /\ ~StopWake /\ ~StopJoin
      BY DEF StopMove, StopWake, StopJoin, statusVars
    <3> QED
      BY <3>1, <3>2, <3>3, <3>4
      DEF Next, WorkerStep, MoverStep, OwnerStep, QuietStep
  <2>3. CASE Advance
    <3>1. pos' = NextPosition(pos, dest) /\ ~Near(pos, dest)
      BY <2>3 DEF Advance
    <3> QED
      BY <2>1, <3>1 DEF NextPosition, Near, Distance
  <2>4. CASE Arrive
    <3>1. pos' = dest
      BY <2>4 DEF Arrive
    <3> QED
      BY <2>1, <3>1 DEF Distance
  <2> QED
    BY <2>2, <2>3, <2>4
<1> QED
  BY <1>1, Invariance, PTL DEF Spec, NoOvershoot

(* A move that ends by itself has arrived: the flag a mover finds lowered  *)
(* was lowered by somebody who is now waiting for it.                      *)
THEOREM Arrival == Spec => MoveEndsAtDestination
<1> DEFINE Ended == MoverLive /\ mover' = "exited"
<1>1. Inv /\ [Next]_vars => [Ended => (pos = dest \/ Cancelling)]_vars
  <2> SUFFICES ASSUME Inv, Next, Ended PROVE pos = dest \/ Cancelling
    OBVIOUS
  <2>1. CASE MoverLoop
    BY <2>1 DEF MoverLoop, Inv, MoveFlagOwned
  <2>2. CASE ClearMoveFlag
    BY <2>2 DEF ClearMoveFlag, Inv, DoneAtDestination
  <2>3. ~QuietStep
    BY QuietLeavesMover DEF Inv, MoverLive
  <2>4. ~CancelMove /\ ~WakeMover /\ ~JoinMover /\ ~StartMover
    BY DEF CancelMove, WakeMover, NotifyMover, JoinMover, StartMover, MoverLive
  <2>5. ~Advance /\ ~Arrive /\ ~Halt /\ ~MoverCheck /\ ~FallAsleep
        /\ ~MoverTimeout
    BY DEF Advance, Arrive, Halt, MoverCheck, FallAsleep, MoverTimeout
  <2>6. ~StopMove /\ ~StopWake /\ ~StopJoin
    BY DEF StopMove, StopWake, NotifyMover, StopJoin, MoverLive
  <2> QED
    BY <2>1, <2>2, <2>3, <2>4, <2>5, <2>6
    DEF Next, WorkerStep, MoverStep, OwnerStep, QuietStep
<1> QED
  BY <1>1, Invariance, PTL DEF Spec, MoveEndsAtDestination

(* Fire sends the missile of the command being executed, with the launcher *)
(* at that command's angle.                                                *)
THEOREM Alignment == Spec => FireOnlyWhenAligned
<1> DEFINE Aligned == /\ current.type = "LAUNCH" /\ angle = current.arg
                      /\ missiles' = missiles \cup {Begun}
<1>1. Inv /\ [Next]_vars => [missiles' # missiles => Aligned]_vars
  <2> SUFFICES ASSUME Inv, Next, missiles' # missiles PROVE Aligned
    OBVIOUS
  <2>1. Fire
    <3>1. ~Push /\ ~NotifyPush
      BY DEF Push, NotifyPush, outVars
    <3>2. ~Take /\ ~Sleep /\ ~WorkerExit /\ ~Rotate
      BY DEF Take, Sleep, WorkerExit, Rotate, MotorOutcomes, outVars
    <3>3. ~CancelMove /\ ~WakeMover /\ ~JoinMover /\ ~StartMover
      BY DEF CancelMove, WakeMover, JoinMover, StartMover, outVars
    <3>4. ~ChangeMode /\ ~ReadPosition /\ ~SendStatus
      BY DEF ChangeMode, ReadPosition, SendStatus, outVars
    <3>5. ~MoverStep
      BY DEF MoverStep, MoverLoop, Advance, Arrive, Halt, ClearMoveFlag,
         MoverCheck, FallAsleep, MoverTimeout, outVars
    <3>6. ~OwnerStep
      BY DEF OwnerStep, SetStop, NotifyStop, JoinWorker, StopMove, StopWake,
         StopJoin, outVars
    <3> QED
      BY <3>1, <3>2, <3>3, <3>4, <3>5, <3>6 DEF Next, WorkerStep
  <2> QED
    BY <2>1 DEF Fire, Inv, HandlerMatchesCommand, AlignedToFire, CommandsInOrder,
       Busy
<1> QED
  BY <1>1, Invariance, PTL DEF Spec, FireOnlyWhenAligned

-----------------------------------------------------------------------------
(* The launcher implements the abstract command service. *)

(* The numbers of a sequence of commands. *)
Numbers(s) == [i \in 1..Len(s) |-> s[i].n]

LEMMA NumbersType ==
    ASSUME NEW s \in Seq(Numbered)
    PROVE  /\ Numbers(s) \in Seq(0..MaxCommands)
           /\ Len(Numbers(s)) = Len(s)
           /\ \A i \in 1..Len(s) : Numbers(s)[i] = s[i].n
<1>1. \A i \in 1..Len(s) : s[i].n \in 0..MaxCommands
  BY MessageType
<1> QED
  BY <1>1 DEF Numbers

LEMMA NumbersOfAppend ==
    ASSUME NEW s \in Seq(Numbered), NEW c \in Numbered
    PROVE  Numbers(Append(s, c)) = Append(Numbers(s), c.n)
<1> DEFINE a == Numbers(Append(s, c))
           b == Append(Numbers(s), c.n)
           T == 0..MaxCommands
<1>1. /\ Append(s, c) \in Seq(Numbered)
      /\ Len(Append(s, c)) = Len(s) + 1
      /\ Len(s) \in Nat
      /\ c.n \in T
  BY MessageType
<1>2. a \in Seq(T) /\ Len(a) = Len(s) + 1
  <2> DEFINE t == Append(s, c)
  <2>1. t \in Seq(Numbered) /\ Len(t) = Len(s) + 1
    BY <1>1
  <2> HIDE DEF t
  <2>2. Numbers(t) \in Seq(T) /\ Len(Numbers(t)) = Len(t)
    BY <2>1, NumbersType
  <2> QED
    BY <2>1, <2>2 DEF t
<1>3. b \in Seq(T) /\ Len(b) = Len(s) + 1
  BY <1>1, NumbersType
<1>4. ASSUME NEW i \in 1..Len(a)
      PROVE  a[i] = b[i]
  <2>1. a[i] = Append(s, c)[i].n
    BY <1>1, <1>2, NumbersType
  <2>2. CASE i \in 1..Len(s)
    BY <2>1, <2>2, NumbersType
  <2>3. CASE i = Len(s) + 1
    BY <2>1, <2>3, NumbersType
  <2>4. i \in 1..Len(s) \/ i = Len(s) + 1
    BY <1>1, <1>2
  <2> QED
    BY <2>2, <2>3, <2>4
<1> HIDE DEF a, b, T
<1>5. a = b
  BY <1>2, <1>3, <1>4, SeqEqual
<1> QED
  BY <1>5 DEF a, b

LEMMA NumbersOfTail ==
    ASSUME NEW s \in Seq(Numbered), s # <<>>
    PROVE  /\ Numbers(s) # <<>>
           /\ Numbers(Tail(s)) = Tail(Numbers(s))
           /\ Head(Numbers(s)) = Head(s).n
<1> DEFINE a == Numbers(Tail(s))
           b == Tail(Numbers(s))
           T == 0..MaxCommands
<1>1. /\ Tail(s) \in Seq(Numbered)
      /\ Len(s) \in Nat \ {0}
      /\ Len(Tail(s)) = Len(s) - 1
  OBVIOUS
<1>2. Numbers(s) \in Seq(T) /\ Len(Numbers(s)) = Len(s) /\ Numbers(s) # <<>>
  BY <1>1, NumbersType
<1>3. a \in Seq(T) /\ Len(a) = Len(s) - 1
  BY <1>1, NumbersType
<1>4. b \in Seq(T) /\ Len(b) = Len(s) - 1
  BY <1>1, <1>2
<1>5. ASSUME NEW i \in 1..Len(a)
      PROVE  a[i] = b[i]
  <2>1. a[i] = Tail(s)[i].n
    BY <1>1, <1>3, NumbersType
  <2>2. Tail(s)[i] = s[i + 1] /\ b[i] = Numbers(s)[i + 1]
    BY <1>1, <1>2, <1>3
  <2>3. Numbers(s)[i + 1] = s[i + 1].n
    BY <1>1, <1>3, NumbersType
  <2> QED
    BY <2>1, <2>2, <2>3
<1>6. Head(Numbers(s)) = Head(s).n
  BY <1>1, <1>2, NumbersType
<1> HIDE DEF a, b, T
<1>7. a = b
  BY <1>3, <1>4, <1>5, SeqEqual
<1> QED
  BY <1>2, <1>6, <1>7 DEF a, b

(* The abstract state as the launcher shows it. *)
Serving == IF Busy THEN current.n ELSE 0
Phase   == CASE worker = "exited" -> "closed"
             [] worker = "killed" -> "dead"
             [] OTHER             -> "open"

(* Steps of a handler that neither begin it nor end it, and every step of  *)
(* a thread other than the worker, leave the abstract state alone.         *)
LEMMA InnerStep ==
    ASSUME TypeOK,
           \/ NotifyPush \/ Sleep \/ CancelMove \/ WakeMover \/ JoinMover
           \/ ReadPosition \/ NotifyStop \/ OtherStep
    PROVE  UNCHANGED <<Numbers(schedule), Serving, accepted, Phase>>
<1> USE DEF Numbers, Serving, Phase, Busy
<1>1. CASE NotifyPush \/ NotifyStop
  BY <1>1 DEF NotifyPush, NotifyStop, NotifyWorker, queueVars
<1>2. CASE Sleep
  BY <1>2 DEF Sleep, queueVars
<1>3. CASE CancelMove \/ WakeMover \/ JoinMover \/ ReadPosition
  BY <1>3 DEF CancelMove, WakeMover, JoinMover, ReadPosition, queueVars
<1>4. CASE OtherStep
  BY <1>4, OthersLeaveWorker
<1> QED
  BY <1>1, <1>2, <1>3, <1>4

(* Every step of the launcher is a step of the service or leaves it alone: *)
(* Push accepts, Take begins, the last step of a handler completes, and    *)
(* WorkerExit closes.                                                      *)
LEMMA ServiceStep ==
    ASSUME Inv, [Next]_vars
    PROVE  [Service!Next]_(Service!vars)
<1> USE DEF Service!vars
<1>0. TypeOK /\ CommandsInOrder /\ SomeBegun
  BY DEF Inv
<1>1. CASE Alive /\ Push
  <2>1. PICK m \in LauncherMessage :
           schedule' = Append(schedule,
                              [type |-> m.type, arg |-> m.arg, n |-> accepted + 1])
    BY <1>1 DEF Push
  <2> DEFINE c == [type |-> m.type, arg |-> m.arg, n |-> accepted + 1]
  <2>2. accepted + 1 \in 0..MaxCommands
    BY <1>0, <1>1, LauncherAssumption DEF Push, TypeOK
  <2>3. c \in Numbered /\ c.n = accepted + 1
    BY <2>2 DEF Numbered
  <2>4. Numbers(schedule') = Append(Numbers(schedule), accepted + 1)
    BY <1>0, <2>1, <2>3, NumbersOfAppend DEF TypeOK
  <2>5. /\ accepted' = accepted + 1
        /\ UNCHANGED <<Serving, Phase>>
        /\ Phase # "dead"
    BY <1>1 DEF Push, Serving, Busy, Phase, Alive
  <2> QED
    BY <2>4, <2>5 DEF Service!Next, Service!Accept, Numbers, Serving, Phase
<1>2. CASE Take
  <2>1. /\ schedule # <<>> /\ schedule \in Seq(Numbered)
        /\ schedule' = Tail(schedule)
        /\ current' = Head(schedule)
        /\ Head(schedule) \in Numbered
        /\ UNCHANGED accepted
    BY <1>0, <1>2 DEF Take, TypeOK
  <2>2. /\ Numbers(schedule) # <<>>
        /\ Numbers(schedule') = Tail(Numbers(schedule))
        /\ Head(Numbers(schedule)) = current'.n
    BY <2>1, NumbersOfTail
  <2>3. /\ Serving = 0 /\ Phase = "open"
        /\ Serving' = current'.n /\ Phase' = "open"
    BY <1>2, <2>1, MessageType DEF Take, Handler, Serving, Busy, Phase
  <2> QED
    BY <2>1, <2>2, <2>3
    DEF Service!Next, Service!Begin, Numbers, Serving, Phase
<1>3. CASE WorkerExit
  <2>1. /\ schedule = <<>> /\ UNCHANGED <<schedule, accepted>>
        /\ Serving = 0 /\ Serving' = 0
        /\ Phase = "open" /\ Phase' = "closed"
    BY <1>3 DEF WorkerExit, queueVars, Serving, Busy, Phase
  <2>2. Numbers(schedule) = <<>>
    BY <2>1 DEF Numbers
  <2> QED
    BY <2>1, <2>2 DEF Service!Next, Service!Close, Numbers, Serving, Phase
<1>4. CASE Rotate \/ Fire \/ StartMover \/ ChangeMode \/ SendStatus
  <2>1. /\ Busy
        /\ UNCHANGED <<schedule, accepted, current>>
        /\ worker' \in {"lock", "fire", "killed"}
        /\ Phase = "open"
        /\ worker' = "killed" => Rotate
    BY <1>4 DEF Rotate, MotorOutcomes, Fire, StartMover, ChangeMode, SendStatus, queueVars,
       Busy, Phase
  <2>2. Numbers(schedule') = Numbers(schedule)
    BY <2>1
  <2>3. Serving # 0
    BY <1>0, <2>1 DEF Serving, CommandsInOrder, SomeBegun, TypeOK
  <2>4. CASE worker' = "fire"
    <3>1. Serving' = Serving /\ Phase' = Phase
      BY <2>1, <2>4 DEF Serving, Busy, Phase
    <3> QED
      BY <2>1, <2>2, <3>1 DEF Numbers, Serving, Phase
  <2>5. CASE worker' = "lock"
    <3>1. Serving' = 0 /\ Phase' = Phase
      BY <2>1, <2>5 DEF Serving, Busy, Phase
    <3> QED
      BY <2>1, <2>2, <2>3, <3>1
      DEF Service!Next, Service!Complete, Numbers, Serving, Phase
  <2>6. CASE worker' = "killed"
    <3>1. Serving' = Serving /\ Phase' = "dead"
      BY <2>1, <2>6 DEF Serving, Busy, Phase
    <3> QED
      BY <2>1, <2>2, <2>3, <3>1
      DEF Service!Next, Service!Die, Numbers, Serving, Phase
  <2> QED
    BY <2>1, <2>4, <2>5, <2>6
<1>5. CASE \/ NotifyPush \/ Sleep \/ CancelMove \/ WakeMover \/ JoinMover
           \/ ReadPosition \/ NotifyStop \/ OtherStep
  BY <1>0, <1>5, InnerStep DEF Numbers, Serving, Phase
<1> QED
  BY <1>1, <1>2, <1>3, <1>4, <1>5 DEF Next, WorkerStep, OtherStep, OwnerStep

(* Every behaviour of the launcher is, seen through the mapping, one of    *)
(* the service: first in first out, one at a time, nothing lost.           *)
THEOREM Implementation == Spec => Service!Spec
<1>1. Init => Service!Init
  <2> SUFFICES ASSUME Init PROVE Service!Init
    OBVIOUS
  <2>1. [i \in 1..Len(schedule) |-> schedule[i].n] = <<>>
    BY DEF Init
  <2> QED
    BY <2>1 DEF Init, Service!Init, Busy
<1>2. Inv /\ [Next]_vars => [Service!Next]_(Service!vars)
  BY ServiceStep
<1> QED
  BY <1>1, <1>2, Invariance, PTL DEF Spec, Service!Spec
=============================================================================
