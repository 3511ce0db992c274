# Verification of the launch control simulator

TLA+ models, TLC runs and TLAPS proofs for the C++ programs of this repository:
a launcher, the controller that commands it, the simulator and radar that stand
in for the outside world, the motor that turns the launcher, and the links
between them. `PROJECT.json` maps every definition that models
code to the lines it models; this file explains the whole.

    tlc -config MCLauncher.cfg MCLauncher       # any run listed below
    tlapm LauncherProofs.tla                    # any proof module

## 1. Inventory

The programs run on separate machines or boards and talk over sockets:

    Airsuface_map <--TCP-- newECC <--TCP--> LC ----UDP----> LS ----UDP----> Simulator
      (map viewer)       (console)          |               |                   |
                                           TCP             TCP                 UDP
                                            |               |                   |
                                          NewMFR        Zynq-Moror           NewMFR
                                         (radar)      (motor server)         (radar)
                                                            |
                                                       serial line
                                                            |
                                                    STM32MotorControl

| Component | State | Operations | Hard behaviour |
|---|---|---|---|
| **LS**, launcher (`src/LS`) | deque of commands with mutex, condition variable and stop flag; status (position, mode, angle); move thread with atomic flag, mutex and condition variable | `callBack` (listener thread), `workerLoop` (worker thread) executing launch, move, mode change, status; `moveRoutine` (one thread per move); destructors | producer and consumer; a move cancelled by the next one; the flag and thread handle shared by consecutive moves; notification without the mutex; status without a lock |
| **LC**, launch controller (`src/LC`) | `SystemStatus` under `statusMutex` (radar, launcher, targets, missiles), `locked_target_id`, three senders | console thread (status request, radar mode, launcher mode, fire, move), radar thread (status, detection, position request), launcher thread (status), polling thread | work on copies of a status that changes meanwhile; a detection stored in two critical sections; senders set up one by one while commands already arrive; a radar that is gone |
| **Simulator** (`src/Simulator`) | vector of targets, each with a hit flag; `is_flight_`; missile number | target thread (rounds), receive thread (launch), missile thread (flight, hit, erase) | no lock at all: one thread walks the vector another one erases from |
| **NewMFR**, radar (`src/MFR/NewMFR`) | maps of targets and missiles, mode, goal target | simulator thread (plots), controller thread (mode orders, status), detection thread (scan every 10 ms) | no lock: maps copied while inserted into; a mode order is two writes; a scan writes the goal an order has just written |
| **newECC**, console (`src/newECC`) | target list, launcher and radar status shown | receive thread, request timer, launch button | requests and answers over one TCP stream; a status taken by its first bytes |
| **Zynq-Moror**, motor server | listening socket, client threads, serial line | accept, forward commands, stop on a signal | stopping a thread blocked in `accept`; a `recv` that returns a piece of an order or several; clients sharing one serial line |
| **STM32MotorControl**, firmware of the motor | step counters, line buffer | two interrupt handlers | an order between the edge that turns the shaft and the edge that counts it; cut and unknown lines |
| **Airsuface_map**, map viewer | targets and missiles drawn | receive the buffers the console forwards | its own idea of the status format |
| **RadarSystem, refact** (`src/MFR`) | older and unfinished radars | | superseded |
| **ECC** (`src/ECC`), a second console | received bytes, target list | receive thread: accumulates what it reads, takes messages by the four-byte size behind the type (`ECC_TCP.cpp:83-150`), parses the controller's status | the same TCP stream as newECC, read by the layout the controller writes |
| **Test, build, html, latex, protocol, jhi** | | manual tests, build output, generated pages | no logic of the system |

What makes the components correct, and what the properties below are about:

* LS: commands are executed once, in order, to their end; a move ends at its
  destination unless cancelled; one move at a time; a missile leaves only at the
  angle its command asked for.
* LC: a launch goes out only with the lock on its target and the order to stop on
  it the last one sent to the radar; every fire on a known target ends in a launch;
  the status with a hit is sent whenever its target disappears; the picture is
  never mixed from distant detections.
* Simulator: the list holds exactly the survivors; a target disappears only
  after its hit was announced; one missile at a time; survivors are reported for
  ever.
* NewMFR: an ordered goal stays the goal; an angle report holds exactly what is
  in the beam; the rotation report converges to what was plotted.
* LC and NewMFR together: an order reaches the radar unless it is lost in one of the
  ways the code has; a target the radar is locked on stays listed; the controller's
  list converges to the living targets.
* Motor server: stop overlooks no thread, except in the window in which the server
  thread runs and is not stored yet; the serial line carries whole orders of
  each client in their order.
* Firmware: the pulses left lead to the target; the counted position stays near
  the shaft; garbage on the line costs no order; a stopped motor comes to rest.
* Console (newECC), controller and map viewer: a status that was asked for is
  shown.

## 2. Plan

| Step | Modules | State |
|---|---|---|
| 1 | `Launcher`, abstract `CommandService`, `MCLauncher`, `LauncherProofs` | done |
| 2 | `LaunchController`, `MCLaunchController`, `LaunchControllerProofs` | done |
| 3 | `Simulator`, `SimulatorProofs` | done |
| 4 | `Radar`, `MCRadar`, `RadarProofs`: three threads on the maps, the mode and the goal | done |
| 5 | `Engagement`, `MCEngagement`, `EngagementProofs`: controller and radar over TCP streams whose reads lose packets | done |
| 6 | `MotorLines`, `StepMotor`, `MCStepMotor`, `StepMotorProofs`: the interrupts of the firmware | done |
| 7 | `MotorServer`, `MCMotorServer`, `MotorServerProofs`: threads, clients, stop | done |
| 8 | `StatusLink`, `MCStatusLink`, `StatusLinkProofs`: status, console, map viewer | done |
| 9 | launcher and simulator over UDP that loses and reorders; detection packets with more than 255 entries; the arrival step in two dimensions | left: no handler of these programs retries, acknowledges or numbers a datagram, so nothing is promised that a model could check |

## 3. Modules

### Launcher, CommandService, MCLauncher

One variable per place where a thread may be (`listener`, `worker`, `mover`,
`owner`), one action per step between two accesses to shared state. Condition
variables are explicit: a thread whose predicate is false goes to `"asleep"`, a
notification moves a sleeper back to its predicate and is lost when nobody
sleeps. The mover's test and its falling asleep are two steps, as the flag is
cleared and notified without its mutex; what is lost in between its timeout makes
good. `NotifyWorker` and `NotifyMover` are shared by all who notify.

| Code | Model |
|---|---|
| `LS::callBack` | `Push`, `NotifyPush` |
| `LS::workerLoop` | `Take`, `Sleep`, `WorkerExit`, and per command the actions below |
| `LS::launch` | `Rotate` (may fail, may kill the process), `Fire` |
| `LSStatusManager::moveLS` | `CancelMove`, `WakeMover`, `JoinMover`, `StartMover` |
| `LSStatusManager::moveRoutine` | `MoverLoop`, `Advance`, `Arrive`, `Halt`, `ClearMoveFlag`, `MoverCheck`, `FallAsleep`, `MoverTimeout` |
| `LSStatusManager::serializeStatus` | `ReadPosition`, `SendStatus` |
| `~LS` and the destructors of its members | `SetStop`, `NotifyStop`, `JoinWorker`, `StopMove`, `StopWake`, `StopJoin` |

The plane is reduced to a line. The code's step of 13.8889 units is cut towards
zero after the addition, which makes steps of 14 or 13 units depending on
direction and side of zero: `NextPosition` keeps exactly that, for any stride.
Parsing a packet is reduced to "one of the known commands with some argument": the
listener hands over its whole zero-filled buffer, so a datagram cut short is
executed with zeros for what is missing and is no case of its own; only an unknown
type changes nothing and has no action. The byte of a mode change is stored
unchecked (`ModeBytes`; the run sends one that names no mode, the three that do
come from moves and the start).

A motor command over a connection that was never made (`connectToServer` gives up
after five attempts and leaves the socket open) or that the motor server has closed
raises SIGPIPE, which nothing handles: `Rotate` may leave the worker at `"killed"`,
and then no thread of the process takes a step (`Alive`). Every promise about
progress is one of a process that lives.

`CommandService` is what a client sees: numbered commands accepted, begun and
completed in order, by a service that is open, closed, or dead; it may die while it
serves a command and at no other time. The refinement maps the deque to `pending`,
the busy worker to `serving`, and the worker's end or death to `phase`.

### LaunchController, MCLaunchController

A step is one critical section of `statusMutex` or one message sent. Main creates
the senders in the order of `LCManager::init` (`StartMFR`, `StartLS`) while the
console thread already runs. The radar thread accepts one radar
(`AcceptRadar`), stores detections in two steps (`DetectTargets`,
`DetectMissiles`) and ends with its connection (`LoseRadar`). The console thread
runs `FIRE` as `BeginFire` (copy and selection), `OrderRadar` (lock, order to
stop) and `OrderLaunch`, and `STATUS_REQUEST` as `BeginStatus`, one
`DeleteTarget` for each hit in the copy, and `SendStatus`, which may fail unnoticed
(`unsent`). A send over a TCP connection that the console or the radar has reset
raises SIGPIPE, which nothing handles: `SendStatus`, `OrderRadar` and `SetRadarMode`
may leave the process at `"killed"`. What the
peers send is an arbitrary input within the wire format; what is sent to them is
recorded as the last order SENT to the radar, the launch commands and the hits
reported. Whether the radar gets and obeys an order is not decided here: the order
carries the radar's id, 0 before its first status, and may hide behind another
packet. `Engagement` has that, with the orders lost so.

Left out: the relays of launcher mode and move commands, which change none of the
state the properties speak of; the polling loop, the radar's own status and the
answer to its position request, which `Engagement` has.
The two lists carry the number of the
detection they come from (`targetsFrom`, `missilesFrom`), which the code does not
have; it is only read by properties.

### Simulator

A vector is its memory (`slots`) and its size (`count`): `std::remove_if` moves
elements one at a time (`ShiftTarget`) and `erase` lowers the size
(`ShrinkList`), leaving the old pointers in the memory beyond it. The target
thread takes its end before the walk (`BeginRound`), tests a slot (`VisitTarget`)
and reads it again for the call (`UpdateTarget`). A call on a destroyed target is
undefined behaviour: the model lets it crash the process or use the memory as it
was left. Positions are left out; a missile hits a target or not.

### Radar, MCRadar

The simulator thread stores one plot at a time (`ReceivePlot`, `StorePlot`), the
controller thread executes mode orders (`OrderRotation`, `OrderPriority`, and
`OrderTarget` followed by `SetGoal`, because the code writes mode and goal one
after the other), and the detection thread runs `mfrDetectionAlgo` from copy to
copy:

| Code | Model |
|---|---|
| copy of `mockTargets`, of `mockMissile` | `CopyTargets`, `CopyMissiles` |
| the two tests of `mfrMode` | `ReadMode`, `ReadModeAgain` |
| `ROTATION_MODE` branch | `Rotate` |
| `localTargets.find(goalTargetId)`, the rest of the `ANGLE_MODE` branch | `FindGoal`, `PointBeam` |
| sending, replacing the maps of what was detected | `SendReport`, `StoreDetected` |

No two threads share a lock, so a copy taken while a plot is stored is a data
race. `operator[]` inserts a new entry blank (coordinates 0, 0, not hit: `Blank`)
and assigns to it afterwards, so `Copies` lets a copy hold any mixture of the old
(or blank) and the new plot, or, while the id is new and the tree is rebalanced,
miss any part of the map; it may also end the process. A copy that spans several
writes is left out, and so is the id inside a torn target, which is 0 while the
entry is blank. A rotation scan erases what it does not report from the map of
detected missiles, and every scan replaces that map, with the simulator thread free
to insert into it: `Rotate` and `StoreDetected` may end the process. `PointBeam`
reads the goal again and inserts a blank entry for one that is not seen. What a scan
has copied and computed ends with it.

Bearings are whole units of a circle of any size, and distances are halves of the
unit the code cuts them to: a rotation scan compares the distance of a target as it
is (`InReach`), that of a missile and every distance of an angle scan cut
(`InCutReach`). What is in the beam and in reach is decided as in the code,
trigonometry is not modelled. `lock` records a goal ordered while no rotation scan
was under way and `ordered` the target of the last order that named one; they are
read by properties only. Left out: the status answer, the controller's position
(stored and never read), and two orders taken from the stream in one read;
`Engagement` has them.

### Engagement, MCEngagement

The stream from the controller to the radar and the one back. Neither program
frames its packets: `runReceiver` and `receiveLoop` hand whatever `recv` returned
to a parser that looks at the first packet, so `ReadOrders` and `ReadReports` take
any number of packets from the stream and execute the first. Handlers are single
steps, because their inner interleavings are the matter of `LaunchController` and
`Radar`; only the rotation scan is split (`BeginRotationScan`, `EndRotationScan`),
because an order executed during one is overwritten by it.

| Code | Model |
|---|---|
| `Mfr::mfrDetectionAlgo` | `BeginRotationScan`, `EndRotationScan`, `AngleScan` |
| `MfrLcCommManager::runReceiver`, `Mfr::callBackData` | `ReadOrders`: `SendMfrStatus`, `ChangeMode` |
| `LCManager::run`, the status loop | `Poll` |
| `FIRE`, `SET_RADAR_MODE` | `FireCommand`, `RadarCommand` |
| `TcpMFR::receiveLoop`, `handleMFRCommand` | `ReadReports` |
| plots and hits from the simulator | `Plot`, `Hit` |

An order of a fire carries the radar's id as the controller knows it, 0 before the
first status; an order of the operator carries whatever id the console put in it,
for the controller passes it on. The radar ignores an order with another id than its
own (`addressed`). `void` keeps the orders lost that way or behind another packet;
it is the exception `EveryOrderReaches` makes, and `locked` and `pictureLock` are
read only by `LockedIsListed`. Every plot is in the radar's reach. Left out:
backlogs longer than the 3072 and 1024 bytes of a read, the console's stream (a
command is one the controller reads), modes other than the two.

### MotorLines, StepMotor, MCStepMotor

`MotorLines` is what a stream of bytes orders: the server writes it, the firmware
reads it, and `OrderEnds` and `LineAt` say once more, as a reference apart from
both, where its orders end and what they are. A byte stands for a piece of a word or
of a number, so that a cut inside either can happen. `StepMotor` has the two
interrupt handlers, of one priority and therefore atomic, and the timer's edges:

| Code | Model |
|---|---|
| output of TIM2 rises: the shaft steps in the direction of `DIR_Pin` | `PulseRise` |
| `HAL_TIM_PWM_PulseFinishedCallback` | `CountRotation`, `CountTurn`, `Halt` |
| `HAL_UART_RxCpltCallback` | `StoreByte`, `StartRotation`, `StartTurn`, `IgnoreLine` |

Angles are numbers of half steps, on a motor of any even number of steps: even
ones are multiples of `DEG_PER_STEP`. They stand for angles of the two decimals that
`rotateToAngle` prints; a client that sent finer ones could also have the
quotient rounded up, which is left out, as is an overrun that stops the reception.
The quotients of `StartTurn` are computed in
single precision and may lose one step on a multiple (`Pulses`), and a tie of the
two ways may be rounded to either: computed for all 6400 counts and all angles of
two decimals, the quotient is never too large, at most one step short, and that only
on exact multiples. The quotient in `Halt` was computed for all 6400 multiples and is
exact, so `TargetCount` is. `lag` is how far the shaft is
ahead of the counted position, `obeyed` the orders executed, `heard` the bytes:
none of them exists in the code, and only properties read them.

### MotorServer, MCMotorServer

| Code | Model |
|---|---|
| `main`, `Server::start`, `signalHandler` | `Start` (up to `running = true`), `CreateThread`, `StoreThread`, `Signal` |
| `Server::stop` | `CloseSocket`, `JoinServer`, `JoinClients` |
| `Server::serverLoop` | `TestRunning`, `CallAccept`, `Accept`, `SpawnHandler` |
| `Server::handleClient` | `TestHandler`, `Recv`, `Forward`, `RecvEnds`, `BrokenPipe` |
| `LSMotorManager`, a client | `Connect`, `SendOrder`, `Leave` |

A byte on a stream or on the serial line is known by its origin (`by`, `order`,
`at`: client, order, place in it), `Added` being the end of line that
`sendCommand` adds; `Written` is what the line really carries. The origins exist
only for `torn` and the properties: no guard reads them. `Recv` returns any part of
what has arrived, so an order may be cut or joined with
the next; `torn` keeps which were cut. Closing the listening socket does not wake
an `accept` that is blocked on it: the socket stays in the kernel (`"orphan"`)
until one more client comes. A handler whose device does not open serves its
client and writes nothing. An echo to a client that has gone is answered by a
reset, which loses what was not read, and the echo after that raises SIGPIPE
(`BrokenPipe`), which ends the process.

A signal may run `stop` anywhere on main, the handlers being registered before
`start`. Between the creation of the server thread and its assignment to
`serverThread` (`stored`) `stop` finds nothing to join: it goes on to the client
threads, walks their vector while the server thread may still be adding to it (which
may end the process, in `SpawnHandler`), and `exit` ends the process under the
running thread. `Early` bounds which clients connect before the thread is stored.
Left out: a second signal while the first
is being handled, `restart` (no caller), an echo so long that `send` blocks.

### StatusLink, MCStatusLink

The link to the console of `src/newECC`. The first ten bytes and the length of a
status: the controller's layout
(`Status`), the signature the console's receive thread looks for (`Recognised`),
its parser (`Parsed`) and the map viewer's conditions (`Drawable`). Everything
else of a status decides nothing on the way.

As this console never takes a status, its list of targets stays as it was built
(the one entry "0000", `src/newECC/CLSLaunchDlg.cpp`), and what it sends is
decided by the operator alone. The console of `src/ECC` is another program: it
accumulates what it reads, takes a message by the size at bytes 1 to 4, which is
what the controller writes there, and shows the status; it is not modelled. The
other modules take a console command to be any in the wire format, which covers
both.

## 4. Runs

| Run | Bounds | States | Shows |
|---|---|---|---|
| `launcher` | 3 commands, 2 angles, 2 places, 1 mode byte, stride 2 | 209 761 | order of commands, flag ownership, wake-ups, arrival, alignment; while the process lives every join of a move ends and every command is executed; refinement of `CommandService` with its fairness |
| `launcher_stop` | 2 commands | | violation: the destructor does not return |
| `controller` | 2 targets, 2 commands, 2 detections | 449 900 | skew of the picture, no hit vanishes unsent, lock and order sent before launch; every fire launches, unless the process is killed; every hit is sent |
| `controller_missile` | 1 missile, 1 command, 1 detection | | violation: a hit missile is not deleted |
| `simulator` | 3 targets, 3 launches | 73 357 | survivors listed, announced before destroyed, one missile; survivors reported for ever |
| `simulator_valid` | 2 targets, 1 launch | | violation: a destroyed target is updated |
| `radar` | 2 targets, 1 missile, 2 plots out of 2, 2 orders | 633 530 | an ordered goal is kept outside rotation scans, a beam is complete; the rotation report converges, the goal settles |
| `radar_goal` | 2 targets, 2 plots, 1 order | | violation: a rotation scan overwrites the goal that an order has named |
| `step_motor` | 8 steps, buffer of 5 bytes, 2 or 3 orders or spoiled lines | 136 657 | pulses lead to the target, drift per order, lines obeyed; the motor comes to rest |
| `motor_server` | 2 clients with two orders in all, one device that may fail, one early client | 632 809 | every thread joined (but for one window), orders in order; every order written |
| `engagement` | 2 targets, 2 orders, streams of 2 and 1 | 250 391 | a locked target stays listed; every order reaches, the picture converges |
| `status_link` | lists of 0, 1 and 100, 2 answers waiting | | violation: a status asked for is never shown by newECC |

Why the bounds are enough. Three launcher commands allow a move, the move that
cancels it in any of its places, and one more in the queue; the start at 6 and
destinations at -4 and 1 with a stride of 2 make moves of several steps on both
sides of zero. Two targets with two launcher places make "the nearest" change
between two fires; two detections replace the lists between copy and deletion. Three
targets let one missile erase the first, a middle one or several while the walk is
at any of them. Two plots on a circle of eight units, one in reach just west of
north, one just east of it, hit and half a unit beyond reach (in reach when it is
cut), put two targets in one beam across north, tell the two tests of the distance
apart, or replace a plot while it is copied; two orders change a goal between its
test and its use. A motor of eight steps turns either way, over the zero, half round
and not at all, and an angle between two steps or on one; three orders meet a turn
under way in every place, and a buffer of five bytes overflows. Two clients mix an
order each on the serial line in every way a cut allows, or one of them sends two
that a recv cuts and joins; one may have no device, one may connect before the
server thread is stored, one is accepted after the socket was closed. Two targets,
the beam on the first showing both, let a hit target stay in the beam, and two
orders follow or hide each other; one poll or position is enough to hide an order.
The controller run has no missiles, whose list has no effect on that of the targets
but for the finding; the proofs hold for any. `MaxCommands`, `MaxDetections`,
`MaxLaunches`, `MaxPlots`, `MaxOrders`, `MaxSends` only stop the inputs;
`MaxReports`, `MaxPolls` and `MaxStream` keep a sender from sending when as many
packets wait (a poll also while any report does). `CHECK_DEADLOCK FALSE` is used in
every run but `status_link`, because the programs may wait for ever for an input,
and the bounds end the inputs.

Fairness. `FairSpec` of each module has weak fairness of every thread that can run
while its process lives: threads of one process are all scheduled, and the timeouts
of the mover pass. Nothing is assumed of inputs: no command need come, no rotation
need succeed, no missile need hit, the owner need not stop the launcher. `StepMotor`
has weak fairness of `Pulse`: the timer runs by itself, and its interrupt is served
before the next pulse. `Engagement` needs more, because two periodic threads meet on
a stream: a receiver that returns from `recv` at arbitrary moments finds, time and
again, all that was sent and no more (strong fairness of a read that empties the
stream), and the radar, which scans every 10 ms against the controller's one request
a second, begins and ends scans while nothing waits (strong fairness of both ends of
a rotation scan then). A scan always overlapped by a backlog, with the packet that
matters always behind another, is what this excludes.

## 5. Proofs

`LauncherProofs` (for all angles, places, strides and command bounds):

* `TypeCorrect`, `Order`, `FlagOwned`, `WakeupKept`: the invariants of
  `launcher`; `Approach`, `Arrival`, `Alignment`: its action properties.
* `Implementation`: `Spec => Service!Spec`, each step of the threads is a step of
  `CommandService` or a stutter.

The invariants are not inductive by themselves. `Invariance` proves the
conjunction of the type invariant with the order of the deque, what the places of
worker and owner say about the mover (between clearing the flag and the join the
mover can only come to its end; at `"restart"` there is none), and what a mover
at each of its places knows (at `"halt"` it stands at its destination). `Approach`
rests on the arithmetic lemmas about `NextPosition`: it is nearer to the
destination and not beyond it whenever `Near` is false.

`LaunchControllerProofs` (for all sets of targets, missiles and places):

* `TypeCorrect`, `Skew`, `Reported`: the invariants of `controller`.
* `LockFirst`: `LaunchFollowsLock`. The inductive part says that at `"launch"` the
  lock is on the goal and the order to stop on it is the last one sent to the radar
  unless that is gone; the step `OrderRadar` needs that a goal can only be known
  once a radar has been accepted, because targets come from nowhere else.

`RadarProofs` (for all sets of ids, plots, circles and beams narrower than half a
circle):

* `TypeCorrect`, `Locked`, `WholeBeam`: the invariants of `radar`. `Locked`
  needs that an order half executed has given up the lock and that no rotation
  scan begins while a goal is locked; `WholeBeam` rests on the lemma `Wrap`: the
  difference that `angleDiff` computes is within the beam exactly for the bearings
  a turn of at most the beam reaches, modulo the circle.

`SimulatorProofs` (for any number of targets and launches):

* `TypeCorrect`, `Survivors`, `ErasedAnnounced`, `ReportedLast`, `OnlyOneMissile`:
  the invariants of `simulator` and its action properties. The inductive invariant follows
  `std::remove_if` through an erasure: until the target is met the two iterators
  are together and the vector is whole (`Searching`); from then on they are one
  place apart and that place is the only one without a survivor (`Closing`).
  `Holds` says that a set of places holds exactly a set of targets, each once, and
  `Pending`, `Told` and `Passed` relate what was hit to what is still to be
  announced and erased.

`EngagementProofs` (for all targets, beams, orders and lengths of the streams):

* `TypeCorrect`, `Locked`: the invariants of `engagement`. A radar locked on a
  target points at it and has no rotation scan under way (`Pointed`); each report
  in the stream lists the target it was locked on (`Honest`), so whichever of them
  a read loses, the one it takes is true.
* `EveryOrderAccounted`: each order sent was carried out or overtaken, or is known
  to be lost (it carries another id than the radar's, whoever gave it, or was hidden
  in a read), or waits in the stream with the radar's id, which is what is safety
  in `EveryOrderReaches`. The numbers in the stream increase and are beyond the
  last one carried out (`Queued`), so a read never goes back to an earlier order.

`StepMotorProofs` (for every even number of steps, every input, and every buffer
that holds an order):

* `TypeCorrect`, `Heading`, `Drift`: the invariants of `step_motor` about the
  counters. `HeadsForTarget` is inductive with the ranges and `Booting`; `Drift`
  needs `PinFollows`, once ordered, a rising edge moves the shaft the way it will
  be counted, and `Budget`: what a pulse under way will be counted wrong and the
  pulse after the last one are set aside before they happen.
* `Obedience`: `LinesObeyed`. The inductive invariant `Reading` says that the buffer
  holds the line heard since the last end of line as far as it fits, which decides
  the same order as the whole line: the firmware's reading, byte by byte with a
  buffer, and the reference reading agree. A byte that is no end of line leaves the
  order ends as they were; an end of line adds at most itself, as the last.
* `RestAtTarget`: a stopped timer leaves the position at the target, which is what
  is safety in `RestsAtTarget`.

`MotorServerProofs` (for every set of clients, of orders and of devices):

* `AllJoined`: `JoinedAll`. Once the server thread is stored, whoever runs is among
  the threads to join, and nobody is added to them once the server thread has been
  joined. The statement names the exception: a signal in the window in which that
  thread runs and is not stored.
* `TypeCorrect` and `LinesInOrder`: `TypeOK` and `OrdersInOrder`, from two inductive
  invariants beside that of the threads. `Streams`: each stream carries every order
  of its client, byte after byte, and the chunk of a handler is what comes next in
  it. `Wired`: the serial line carries exactly what the handlers have forwarded,
  that of each client in its order, and on it a byte that does not end its order is
  followed by the next one of the same order or, where a recv has cut, by an added
  end of line (`Continued`). A run of bytes between two ends of line is therefore
  one order from some byte on (`TextRuns`), and as the piece of a word an order
  begins with stands nowhere else in it, only a run from the first byte says
  anything to the motor (`OrderShape`, `OrderRuns`).
* `ReadIsWritten`: an order that its handler is done with and no recv has cut stands
  complete on the line, which is what is safety in `EveryOrderWritten`.

Both modules need the last end of a line before a place to exist, and the motor
server's an induction along a run of bytes. No theorem with an operator for a
parameter can be used, so both are done through the least element: `LeastNatural`
says that a set of naturals has one, and the least place where a claim fails has a
predecessor where it holds.

`StatusLinkProofs` (for lists of at most 255 entries, the most that the one byte
of each can tell):

* `NothingShown`: no status is ever shown by the console of `src/newECC` nor
  drawn, the finding of `status_link` for every size.

The proofs assume only the named assumptions of the modules
(`LauncherAssumption`, `LaunchControllerAssumption`, `SimulatorAssumption`,
`RadarAssumption`, `EngagementAssumption`, `LinesAssumption`, `BoardAssumption`,
`ServerAssumption`), which TLC evaluates on every run, and in `NothingShown` the
size of the lists. `ServerAssumption` says of the orders what `LSMotorManager` and
its peers send: the word for a rotation, or the word for a stop and the digits of
an angle; `BoardAssumption`, that the line buffer (64 bytes in the code) has room
for the longest line that decides something.

Every invariant and action property of the runs is proved. Model-checked only are
the liveness properties (`EveryCommandExecuted`, `MoverJoinsEnd`, `EveryFireLaunches`,
`EveryHitReported`, `SurvivorsReported`, `RotationConverges`, `GoalSettles`,
`RestsAtTarget`, `EveryOrderWritten`, `EveryOrderReaches`, `PictureConverges`) and
the fairness in the refinement of `CommandService`: they need fairness and ENABLED,
which are outside what the prover does.

## 6. Findings

* The destructor of the launcher joins a listener that never ends
  (`launcher_stop`).
* A hit missile is looked up among the targets and stays listed
  (`controller_missile`). The radar of this repository never reports a missile or a
  target as hit (it leaves out what is hit, or sends the flag as not hit), so the case
  needs another radar.
* The simulator's target thread uses targets that were destroyed under it
  (`simulator_valid`). It also sends a target in flight after its hit was announced,
  from copies taken earlier in the round; the model does so too.
* A rotation scan under way when the controller orders a target by its id overwrites
  the ordered goal (`radar_goal`; an order that leaves the choice to the radar does
  not count).
* The console of `src/newECC` looks for a signature the controller does not write:
  no status is ever shown by it (`status_link`). The console of `src/ECC` reads the
  layout the controller writes.
* Two more come out as an exception that a property makes: a signal that meets
  the motor server between the creation of its server thread and the assignment of it
  (`JoinedAll`), and orders the radar ignores or never sees (`void` in
  `EveryOrderReaches`).

## 7. Not modelled

* Byte layouts other than the start of a status, configuration files, and errors of
  sockets other than the ones the models name: input and output.
* Trigonometry of interception and motion, where the models keep what the program
  decides from it.
* The launcher's packets and the UDP links to the simulator: no answer, no retry
  and no number is attached to a datagram, so losing one only repeats a state the
  models already allow (a command that does not come, a plot that is not seen).
* The console of `src/ECC`.
* The console's windows and `ChartCtrl_source`, a vendored chart control; the
  drawing of the map viewer; the vendor code around the firmware's `main.c`. They
  are most of the repository's lines.
* `src/MFR/RadarSystem` and `src/MFR/refact`: superseded by `NewMFR`;
  `RadarSystem/StepMotorController.cpp` holds conflict markers and does not compile.
* `restart` of the motor server, which nothing calls; manual tests, build output
  and generated pages.
