------------------------------ MODULE Launcher ------------------------------
(***************************************************************************)
(* The launcher process (src/LS).  Three threads share the object:         *)
(*                                                                         *)
(*   listener   LCToLSUDPCommManager::run receives a datagram and calls    *)
(*              LS::callBack, which appends the command to `schedule';     *)
(*   worker     LS::workerLoop takes the commands in order and executes    *)
(*              each one to its end;                                       *)
(*   mover      LSStatusManager::moveRoutine, one thread per MOVE command, *)
(*              advances the position until it arrives or moveFlag falls;  *)
(*                                                                         *)
(* and `owner' is the thread that runs the destructor ~LS.  A step is what *)
(* a thread does under a lock or between two accesses to shared state.     *)
(* Condition variables are explicit: a thread that found its predicate     *)
(* false is asleep until a notify (or, for the mover, the timeout).        *)
(*                                                                         *)
(* The launcher moves along one axis.  A step of moveRoutine is 13.8889    *)
(* units and is cut to an integer towards zero: Stride + fraction for      *)
(* Stride = 13, so that `dist < 13.8889' is Distance <= Stride.            *)
(***************************************************************************)
EXTENDS Integers, Sequences

CONSTANTS Angles,       \* launch angles a command may carry
          Places,       \* coordinates a MOVE command may name
          ModeBytes,    \* bytes a MODE_CHANGE command may carry
          Home,         \* configured start position
          Stride,       \* whole units covered in one second
          MaxCommands   \* bound: commands received in one behaviour

ASSUME LauncherAssumption ==
    /\ Angles \subseteq Int
    /\ Places \subseteq Int
    /\ ModeBytes \subseteq 0..255
    /\ Home \in Int
    /\ Stride \in Nat
    /\ MaxCommands \in Nat

(* OperationMode of LS/info.h. *)
WAR_MODE  == 0
MOVE_MODE == 1
STOP_MODE == 2
OperationMode == {WAR_MODE, MOVE_MODE, STOP_MODE}

(* LauncherMessage: the union keeps the one argument the type uses.  The   *)
(* byte of a mode change is copied into the enum unchecked.                *)
LauncherMessage ==
    [type : {"LAUNCH"}, arg : Angles]
      \cup [type : {"MOVE"}, arg : Places]
      \cup [type : {"MODE_CHANGE"}, arg : ModeBytes]
      \cup [type : {"STATUS_REQUEST"}, arg : {0}]

VARIABLES
    schedule,    \* deque of accepted commands, each with its number `n'
    accepted,    \* how many commands callBack has appended so far
    stopFlag,    \* set by the destructor
    listener,    \* "recv" or "notify": the listener's place in callBack
    worker,      \* the worker's place
    current,     \* the command the worker executes
    owner,       \* the destructor's place
    moveFlag,    \* atomic<bool> moveFlag
    mover,       \* the move thread's place; "none" when it is not joinable
    dest,        \* destX of the current move thread
    pos, mode, angle,   \* LSStatus
    missiles,    \* numbers of the LAUNCH commands sent to the simulator
    seenPos,     \* position serializeStatus has copied so far
    report       \* last status sent to the launch controller

queueVars  == <<schedule, accepted, stopFlag>>
moveVars   == <<moveFlag, mover, dest>>
statusVars == <<pos, mode, angle>>
outVars    == <<missiles, seenPos, report>>
vars == <<queueVars, listener, worker, current, owner, moveVars, statusVars,
          outVars>>

WorkerPlaces == {"lock", "asleep", "rotate", "fire", "cancel", "wake", "join",
                 "restart", "setMode", "readPos", "readMode", "exited",
                 "killed"}
MoverPlaces  == {"none", "loop", "compute", "halt", "clear", "check", "doze",
                 "asleep", "exited"}
OwnerPlaces  == {"run", "notify", "joinWorker", "stopMove", "wakeMove",
                 "joinMove", "joinListener"}

Init ==
    /\ schedule = <<>>
    /\ accepted = 0
    /\ stopFlag = FALSE
    /\ listener = "recv"
    /\ worker = "lock"
    /\ current = [type |-> "STATUS_REQUEST", arg |-> 0, n |-> 0]
    /\ owner = "run"
    /\ moveFlag = FALSE
    /\ mover = "none"
    /\ dest = Home
    /\ pos = Home
    /\ mode = STOP_MODE
    /\ angle = 0
    /\ missiles = {}
    /\ seenPos = Home
    /\ report = [pos |-> Home, mode |-> STOP_MODE]

-----------------------------------------------------------------------------
(* The listener: LS::callBack. *)

(* Mutated Push: push_front. *)
PushFront ==
    /\ listener = "recv"
    /\ accepted < MaxCommands
    /\ \E m \in LauncherMessage :
          schedule' = <<[type |-> m.type, arg |-> m.arg, n |-> accepted + 1]>>
                        \o schedule
    /\ accepted' = accepted + 1
    /\ listener' = "notify"
    /\ UNCHANGED <<stopFlag, worker, current, owner, moveVars, statusVars,
                   outVars>>

(* A known command type is appended under scheduleMutex; any other type    *)
(* returns without a change.  launcher_id is parsed and never compared.  A *)
(* datagram cut short is no exception: the listener hands callBack its     *)
(* whole zero-filled buffer, so it is a command with zero for an argument. *)
Push ==
    /\ listener = "recv"
    /\ accepted < MaxCommands
    /\ \E m \in LauncherMessage :
          schedule' = Append(schedule,
                             [type |-> m.type, arg |-> m.arg, n |-> accepted + 1])
    /\ accepted' = accepted + 1
    /\ listener' = "notify"
    /\ UNCHANGED <<stopFlag, worker, current, owner, moveVars, statusVars,
                   outVars>>

(* Mutated NotifyWorker: the notification is forgotten. *)
NotifyNobody == worker' = worker

(* notify_one / notify_all on scheduleCV: a sleeping worker goes back to   *)
(* its predicate; with no sleeper the notification is lost.                *)
NotifyWorker == worker' = IF worker = "asleep" THEN "lock" ELSE worker

NotifyPush ==
    /\ listener = "notify"
    /\ NotifyWorker
    /\ listener' = "recv"
    /\ UNCHANGED <<queueVars, current, owner, moveVars, statusVars, outVars>>

-----------------------------------------------------------------------------
(* The worker: LS::workerLoop and the handlers it calls. *)

(* The first step of the handler of a command type. *)
Handler(type) ==
    CASE type = "LAUNCH"         -> "rotate"
      [] type = "MOVE"           -> "cancel"
      [] type = "MODE_CHANGE"    -> "setMode"
      [] type = "STATUS_REQUEST" -> "readPos"

(* Mutated Take: front() without pop_front(). *)
TakeKeepsCommand ==
    /\ worker = "lock"
    /\ schedule # <<>>
    /\ current' = Head(schedule)
    /\ worker' = Handler(Head(schedule).type)
    /\ UNCHANGED <<schedule, accepted, stopFlag, listener, owner, moveVars,
                   statusVars, outVars>>

Take ==
    /\ worker = "lock"
    /\ schedule # <<>>
    /\ current' = Head(schedule)
    /\ schedule' = Tail(schedule)
    /\ worker' = Handler(Head(schedule).type)
    /\ UNCHANGED <<accepted, stopFlag, listener, owner, moveVars, statusVars,
                   outVars>>

(* Nothing to do: the predicate of scheduleCV.wait is false. *)
Sleep ==
    /\ worker = "lock"
    /\ schedule = <<>>
    /\ ~stopFlag
    /\ worker' = "asleep"
    /\ UNCHANGED <<queueVars, listener, current, owner, moveVars, statusVars,
                   outVars>>

WorkerExit ==
    /\ worker = "lock"
    /\ schedule = <<>>
    /\ stopFlag
    /\ worker' = "exited"
    /\ UNCHANGED <<queueVars, listener, current, owner, moveVars, statusVars,
                   outVars>>

(* Mutated Rotate: the result of rotateToAngle is ignored. *)
RotateIgnoresFailure ==
    /\ worker = "rotate"
    /\ angle' \in {angle, current.arg}
    /\ worker' \in {"fire", "killed"}
    /\ UNCHANGED <<queueVars, listener, current, owner, moveVars, pos, mode,
                   outVars>>

(* Where a motor command leaves the worker.  rotateToAngle returns false   *)
(* without a motor manager or a socket, or when send() reports an error.   *)
(* A socket that was never connected (connectToServer gives up after five  *)
(* attempts and leaves sock_fd open) or that the server has closed raises  *)
(* SIGPIPE instead: send() has no MSG_NOSIGNAL, nothing handles the        *)
(* signal, and the process is killed with every thread in it.              *)
MotorOutcomes == {"fire", "lock", "killed"}

(* launch: only a motor command that was sent updates the angle and goes   *)
(* on to fire.                                                             *)
Rotate ==
    /\ worker = "rotate"
    /\ worker' \in MotorOutcomes
    /\ angle' = IF worker' = "fire" THEN current.arg ELSE angle
    /\ UNCHANGED <<queueVars, listener, current, owner, moveVars, pos, mode,
                   outVars>>

Fire ==
    /\ worker = "fire"
    /\ missiles' = missiles \cup {current.n}
    /\ worker' = "lock"
    /\ UNCHANGED <<queueVars, listener, current, owner, moveVars, statusVars,
                   seenPos, report>>

(* moveLS: stop the previous move, join its thread, start the new one.     *)
(* moveFlag is cleared and notified WITHOUT moveMutex.                     *)
CancelMove ==
    /\ worker = "cancel"
    /\ moveFlag' = FALSE
    /\ worker' = "wake"
    /\ UNCHANGED <<queueVars, listener, current, owner, mover, dest,
                   statusVars, outVars>>

NotifyMover == mover' = IF mover = "asleep" THEN "loop" ELSE mover

WakeMover ==
    /\ worker = "wake"
    /\ NotifyMover
    /\ worker' = "join"
    /\ UNCHANGED <<queueVars, listener, current, owner, moveFlag, dest,
                   statusVars, outVars>>

JoinMover ==
    /\ worker = "join"
    /\ mover \in {"none", "exited"}
    /\ mover' = "none"
    /\ worker' = "restart"
    /\ UNCHANGED <<queueVars, listener, current, owner, moveFlag, dest,
                   statusVars, outVars>>

(* Mutated StartMover: moveFlag is not raised. *)
StartWithoutFlag ==
    /\ worker = "restart"
    /\ mode' = MOVE_MODE
    /\ mover' = "loop"
    /\ dest' = current.arg
    /\ worker' = "lock"
    /\ UNCHANGED <<queueVars, listener, current, owner, moveFlag, pos, angle,
                   outVars>>

(* Mutated StartMover: the `break' of case MOVE is missing, and the union  *)
(* is read as a mode change.                                               *)
StartFallsThrough ==
    /\ worker = "restart"
    /\ moveFlag' = TRUE
    /\ mode' = current.arg
    /\ mover' = "loop"
    /\ dest' = current.arg
    /\ worker' = "lock"
    /\ UNCHANGED <<queueVars, listener, current, owner, pos, angle, outVars>>

(* Nothing but the worker and the mover touches these, and there is no     *)
(* mover here: the three assignments are one step.                         *)
StartMover ==
    /\ worker = "restart"
    /\ moveFlag' = TRUE
    /\ mode' = MOVE_MODE
    /\ mover' = "loop"
    /\ dest' = current.arg
    /\ worker' = "lock"
    /\ UNCHANGED <<queueVars, listener, current, owner, pos, angle, outVars>>

ChangeMode ==
    /\ worker = "setMode"
    /\ mode' = current.arg
    /\ worker' = "lock"
    /\ UNCHANGED <<queueVars, listener, current, owner, moveVars, pos, angle,
                   outVars>>

(* serializeStatus reads the status without a lock: the position first,    *)
(* the mode last, with the mover free to run in between.                   *)
ReadPosition ==
    /\ worker = "readPos"
    /\ seenPos' = pos
    /\ worker' = "readMode"
    /\ UNCHANGED <<queueVars, listener, current, owner, moveVars, statusVars,
                   missiles, report>>

SendStatus ==
    /\ worker = "readMode"
    /\ report' = [pos |-> seenPos, mode |-> mode]
    /\ worker' = "lock"
    /\ UNCHANGED <<queueVars, listener, current, owner, moveVars, statusVars,
                   missiles, seenPos>>

WorkerStep ==
    \/ Take \/ Sleep \/ WorkerExit
    \/ Rotate \/ Fire
    \/ CancelMove \/ WakeMover \/ JoinMover \/ StartMover
    \/ ChangeMode
    \/ ReadPosition \/ SendStatus

-----------------------------------------------------------------------------
(* The mover: LSStatusManager::moveRoutine. *)

Distance(a, b) == IF a <= b THEN b - a ELSE a - b

(* Mutated Near: arrival only within less than the reach of a step. *)
NearTooStrict(from, to) == Distance(from, to) < Stride

(* dist < speed_m_per_s *)
Near(from, to) == Distance(from, to) <= Stride

(* static_cast<long long>(cur + dir * speed_m_per_s): the sum lies strictly*)
(* between two integers and the cast takes the one nearer to zero.         *)
NextPosition(from, to) ==
    IF from <= to
    THEN IF from + Stride >= 0 THEN from + Stride ELSE from + Stride + 1
    ELSE IF from - Stride > 0 THEN from - Stride - 1 ELSE from - Stride

MoverLoop ==
    /\ mover = "loop"
    /\ mover' = IF moveFlag THEN "compute" ELSE "exited"
    /\ UNCHANGED <<queueVars, listener, worker, current, owner, moveFlag, dest,
                   statusVars, outVars>>

Advance ==
    /\ mover = "compute"
    /\ ~Near(pos, dest)
    /\ pos' = NextPosition(pos, dest)
    /\ mover' = "check"
    /\ UNCHANGED <<queueVars, listener, worker, current, owner, moveFlag, dest,
                   mode, angle, outVars>>

(* Mutated Arrive: the last updatePosition is left out. *)
ArriveShort ==
    /\ mover = "compute"
    /\ Near(pos, dest)
    /\ mover' = "halt"
    /\ UNCHANGED <<queueVars, listener, worker, current, owner, moveFlag, dest,
                   statusVars, outVars>>

Arrive ==
    /\ mover = "compute"
    /\ Near(pos, dest)
    /\ pos' = dest
    /\ mover' = "halt"
    /\ UNCHANGED <<queueVars, listener, worker, current, owner, moveFlag, dest,
                   mode, angle, outVars>>

(* changeMode(STOP_MODE), whatever the mode has become meanwhile. *)
Halt ==
    /\ mover = "halt"
    /\ mode' = STOP_MODE
    /\ mover' = "clear"
    /\ UNCHANGED <<queueVars, listener, worker, current, owner, moveFlag, dest,
                   pos, angle, outVars>>

ClearMoveFlag ==
    /\ mover = "clear"
    /\ moveFlag' = FALSE
    /\ mover' = "exited"
    /\ UNCHANGED <<queueVars, listener, worker, current, owner, dest,
                   statusVars, outVars>>

(* moveCV.wait_for under moveMutex reads the predicate !moveFlag, and only *)
(* then falls asleep.  The flag is cleared and notified without moveMutex, *)
(* so both can happen in between, and that notification wakes nobody.      *)
MoverCheck ==
    /\ mover = "check"
    /\ mover' = IF moveFlag THEN "doze" ELSE "loop"
    /\ UNCHANGED <<queueVars, listener, worker, current, owner, moveFlag, dest,
                   statusVars, outVars>>

FallAsleep ==
    /\ mover = "doze"
    /\ mover' = "asleep"
    /\ UNCHANGED <<queueVars, listener, worker, current, owner, moveFlag, dest,
                   statusVars, outVars>>

(* Mutated MoverTimeout: wait in place of wait_for. *)
NoTimeout == FALSE

(* update_interval_ms has passed. *)
MoverTimeout ==
    /\ mover = "asleep"
    /\ mover' = "loop"
    /\ UNCHANGED <<queueVars, listener, worker, current, owner, moveFlag, dest,
                   statusVars, outVars>>

MoverStep ==
    MoverLoop \/ Advance \/ Arrive \/ Halt \/ ClearMoveFlag \/ MoverCheck
      \/ FallAsleep \/ MoverTimeout

-----------------------------------------------------------------------------
(* The destructor ~LS, then the destructors of its members in reverse      *)
(* order: statManager joins the mover, lcManager joins the listener.  The  *)
(* listener loops for ever, so the last join has no step.                  *)

SetStop ==
    /\ owner = "run"
    /\ stopFlag' = TRUE
    /\ owner' = "notify"
    /\ UNCHANGED <<schedule, accepted, listener, worker, current, moveVars,
                   statusVars, outVars>>

NotifyStop ==
    /\ owner = "notify"
    /\ NotifyWorker
    /\ owner' = "joinWorker"
    /\ UNCHANGED <<queueVars, listener, current, moveVars, statusVars, outVars>>

JoinWorker ==
    /\ owner = "joinWorker"
    /\ worker = "exited"
    /\ owner' = "stopMove"
    /\ UNCHANGED <<queueVars, listener, worker, current, moveVars, statusVars,
                   outVars>>

StopMove ==
    /\ owner = "stopMove"
    /\ moveFlag' = FALSE
    /\ owner' = "wakeMove"
    /\ UNCHANGED <<queueVars, listener, worker, current, mover, dest,
                   statusVars, outVars>>

StopWake ==
    /\ owner = "wakeMove"
    /\ NotifyMover
    /\ owner' = "joinMove"
    /\ UNCHANGED <<queueVars, listener, worker, current, moveFlag, dest,
                   statusVars, outVars>>

StopJoin ==
    /\ owner = "joinMove"
    /\ mover \in {"none", "exited"}
    /\ mover' = "none"
    /\ owner' = "joinListener"
    /\ UNCHANGED <<queueVars, listener, worker, current, moveFlag, dest,
                   statusVars, outVars>>

OwnerStep ==
    SetStop \/ NotifyStop \/ JoinWorker \/ StopMove \/ StopWake \/ StopJoin

-----------------------------------------------------------------------------
(* A killed process runs no thread any more. *)
Alive == worker # "killed"

Next ==
    \/ Alive /\ Push
    \/ Alive /\ NotifyPush
    \/ Alive /\ WorkerStep
    \/ Alive /\ MoverStep
    \/ Alive /\ OwnerStep

Spec == Init /\ [][Next]_vars

(* While the process lives the scheduler runs every thread that can run,   *)
(* and time passes.  Nothing makes a datagram arrive and nothing makes the *)
(* owner stop the launcher.                                                *)
Fairness ==
    /\ WF_vars(Alive /\ NotifyPush)
    /\ WF_vars(Alive /\ WorkerStep)
    /\ WF_vars(Alive /\ MoverStep)
    /\ WF_vars(Alive /\ OwnerStep /\ owner # "run")

FairSpec == Spec /\ Fairness

-----------------------------------------------------------------------------
(* Properties. *)

MoverLive == mover \notin {"none", "exited"}

(* The worker is executing `current', or was when the process was killed. *)
Busy == worker \notin {"lock", "asleep", "exited"}

(* How many of the accepted commands the worker has begun, and finished. *)
Begun    == accepted - Len(schedule)
Finished == IF Busy THEN Begun - 1 ELSE Begun

(* The worker, or the destructor, is between clearing moveFlag and the     *)
(* join: the current move is being cancelled.                              *)
Cancelling == worker \in {"wake", "join"} \/ owner \in {"wakeMove", "joinMove"}

Numbered == {[type |-> m.type, arg |-> m.arg, n |-> k] :
                m \in LauncherMessage, k \in 0..MaxCommands}

(* Every variable holds a value of its type. *)
TypeOK ==
    /\ schedule \in Seq(Numbered)
    /\ accepted \in 0..MaxCommands
    /\ stopFlag \in BOOLEAN
    /\ listener \in {"recv", "notify"}
    /\ worker \in WorkerPlaces
    /\ current \in Numbered
    /\ owner \in OwnerPlaces
    /\ moveFlag \in BOOLEAN
    /\ mover \in MoverPlaces
    /\ dest \in Int /\ pos \in Int /\ seenPos \in Int
    /\ mode \in OperationMode \cup ModeBytes
    /\ angle \in Int
    /\ missiles \subseteq 0..MaxCommands
    /\ report \in [pos : Int, mode : OperationMode \cup ModeBytes]

(* Commands wait in the deque in the order callBack accepted them, none is *)
(* missing, and the one being executed is the one just before the deque:   *)
(* two threads push and pop and no command is lost, doubled or overtaken.  *)
CommandsInOrder ==
    /\ \A i \in 1..Len(schedule) : schedule[i].n = Begun + i
    /\ Busy => current.n = Begun

(* A raised moveFlag belongs to a live mover, and a live mover finds its   *)
(* flag down only while somebody cancels it on purpose: the flag store of  *)
(* a finishing move can never stop the move that follows it.               *)
MoveFlagOwned ==
    /\ moveFlag => MoverLive
    /\ MoverLive /\ ~moveFlag => Cancelling

(* A worker that sleeps has nothing it could do, or a notification for it  *)
(* is on its way: no wake-up of scheduleCV is lost.                        *)
NoLostWakeup ==
    worker = "asleep" =>
        /\ schedule # <<>> => listener = "notify"
        /\ stopFlag => owner = "notify"

(* A move that ends without having been cancelled has reached its          *)
(* destination.                                                            *)
MoveEndsAtDestination ==
    [][(MoverLive /\ mover' = "exited") => (pos = dest \/ Cancelling)]_vars

(* Every step of the mover brings the launcher nearer to the destination   *)
(* and never beyond it, although the cut makes steps of unequal length.    *)
NoOvershoot ==
    [][pos' # pos =>
          /\ Distance(pos', dest) < Distance(pos, dest)
          /\ pos <= dest => pos' <= dest
          /\ pos >= dest => pos' >= dest]_vars

(* A missile leaves only on a LAUNCH whose rotation succeeded, with the    *)
(* launcher recorded at the angle that very command asked for.             *)
FireOnlyWhenAligned ==
    [][missiles' # missiles =>
          /\ current.type = "LAUNCH" /\ angle = current.arg
          /\ missiles' = missiles \cup {Begun}]_vars

(* Whoever waits for a move to end, the worker before the next move or the *)
(* destructor after the worker, does not wait for ever: the notification   *)
(* of the cancelled move may be lost, its timeout may not.                 *)
MoverJoinsEnd ==
    /\ worker = "join" ~> worker # "join"
    /\ owner = "joinMove" ~> owner # "joinMove"

(* Every command accepted before the worker has gone is executed to its    *)
(* end, MOVE commands that must first join a sleeping mover included,      *)
(* unless a rotation over a broken connection kills the process.           *)
EveryCommandExecuted ==
    \A k \in 1..MaxCommands :
        (accepted >= k /\ worker # "exited") ~> (Finished >= k \/ ~Alive)

(* LS.h announces the destructor with "terminate the threads": once begun, *)
(* it must get past every join, the listener's included, unless the        *)
(* process is killed first.                                                *)
DestructorReturns ==
    owner = "notify" ~> (owner \notin OwnerPlaces \ {"run"} \/ ~Alive)

(* The launcher serves its commands as CommandService promises. *)
Service == INSTANCE CommandService WITH
    pending  <- [i \in 1..Len(schedule) |-> schedule[i].n],
    serving  <- IF Busy THEN current.n ELSE 0,
    accepted <- accepted,
    phase    <- CASE worker = "exited" -> "closed"
                  [] worker = "killed" -> "dead"
                  [] OTHER             -> "open"

(* Safety and fairness of the abstract service, step by step. *)
ImplementsCommandService == Service!FairSpec
=============================================================================
