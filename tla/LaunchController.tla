-------------------------- MODULE LaunchController --------------------------
(***************************************************************************)
(* The launch controller process (src/LC).  One SystemStatus, guarded by   *)
(* statusMutex, is shared by                                               *)
(*                                                                         *)
(*   main   LCManager::init and run: senders are created one after the     *)
(*          other, each with its receive thread already running;           *)
(*   ecc    the console's receive thread: handleECCCommand to its end;     *)
(*   mfr    the radar's receive thread: handleMFRCommand to its end;       *)
(*   ls     the launcher's receive thread: onLSStatusReceived.             *)
(*                                                                         *)
(* A step is one critical section of statusMutex or one message sent.      *)
(* Targets and the launcher lie on a line; a target keeps its place, the   *)
(* launcher moves, so that the nearest target changes.                     *)
(* What the peers send is an input; the messages sent to them are kept as  *)
(* the last radar order, the launch commands and the hits reported.        *)
(***************************************************************************)
EXTENDS Integers, Sequences

CONSTANTS TargetIds,      \* target ids; 0 means "the nearest" or "none"
          MissileIds,     \* missile ids, numbered apart from the targets
          Places,         \* coordinates of the launcher
          Track,          \* coordinate of each target
          MaxCommands,    \* bound: console commands that start a handler
          MaxDetections   \* bound: detections received

ASSUME LaunchControllerAssumption ==
    /\ 0 \notin TargetIds
    /\ TargetIds \cap MissileIds = {}
    /\ Places \subseteq Int
    /\ 0 \in Places
    /\ Track \in [TargetIds -> Int]
    /\ MaxCommands \in Nat
    /\ MaxDetections \in Nat

Target  == [id : TargetIds, hit : BOOLEAN]
Missile == [id : MissileIds, hit : BOOLEAN]
Modes   == {"STOP", "ROTATE"}

Ids(S)  == {x.id : x \in S}
Hits(S) == {x.id : x \in {y \in S : y.hit}}

VARIABLES
    boot,        \* how far main has got
    targets, missiles, ls,   \* status.targets, .missiles, .ls.position
    targetsFrom, missilesFrom,   \* number of the detection each list is from
    locked,      \* locked_target_id
    ecc,         \* place of the console thread
    commands,    \* console commands received
    snapshot,    \* its getStatusCopy()
    goal,        \* its selectedTarget
    doomed,      \* ids it has yet to delete
    mfr,         \* place of the radar thread
    detections,  \* detections received
    batch,       \* missiles of the detection it is storing
    radarOrder,  \* last mode order sent to the radar
    fires,       \* launch commands sent to the launcher
    reported,    \* ids of the targets the console was told are hit
    unsent,      \* ids of those whose status could not be sent
    deleted      \* ids deleteTargetById removed from the list

statusVars == <<targets, missiles, ls, targetsFrom, missilesFrom>>
eccVars    == <<ecc, commands, snapshot, goal, doomed>>
mfrVars    == <<mfr, detections, batch>>
outVars    == <<radarOrder, fires, reported, unsent, deleted>>
vars == <<boot, statusVars, locked, eccVars, mfrVars, outVars>>

Status == [targets |-> targets, missiles |-> missiles, ls |-> ls,
           targetsFrom |-> targetsFrom, missilesFrom |-> missilesFrom]

NoTarget == [id |-> 0, hit |-> FALSE]

Init ==
    /\ boot = "ecc"
    /\ targets = {} /\ missiles = {} /\ ls = 0
    /\ targetsFrom = 0 /\ missilesFrom = 0
    /\ locked = 0
    /\ ecc = "recv" /\ commands = 0
    /\ snapshot = Status
    /\ goal = NoTarget
    /\ doomed = {}
    /\ mfr = "accept" /\ detections = 0 /\ batch = {}
    /\ radarOrder = [mode |-> "NONE", target |-> 0]
    /\ fires = <<>>
    /\ reported = {} /\ unsent = {} /\ deleted = {}

-----------------------------------------------------------------------------
(* main: LCManager::init.  The console can connect before mfrSender is     *)
(* set, and the radar before serialLS is.                                  *)

HasMFRSender == boot # "ecc"
HasLSSender  == boot = "ls"

StartMFR ==
    /\ boot = "ecc"
    /\ boot' = "mfr"
    /\ UNCHANGED <<statusVars, locked, eccVars, mfrVars, outVars>>

StartLS ==
    /\ boot = "mfr"
    /\ boot' = "ls"
    /\ UNCHANGED <<statusVars, locked, eccVars, mfrVars, outVars>>

-----------------------------------------------------------------------------
(* The radar thread: TcpMFR accepts one radar, ever.  When the connection  *)
(* breaks the thread ends, the sender and the picture stay.                *)

RadarConnected == mfr \in {"recv", "missiles"}

AcceptRadar ==
    /\ HasMFRSender
    /\ mfr = "accept"
    /\ mfr' = "recv"
    /\ UNCHANGED <<boot, statusVars, locked, eccVars, detections, batch, outVars>>

LoseRadar ==
    /\ mfr = "recv"
    /\ mfr' = "gone"
    /\ UNCHANGED <<boot, statusVars, locked, eccVars, detections, batch, outVars>>

OnePerId(S) == \A x, y \in S : x.id = y.id => x = y

(* updateStatus(targets): the first of the two critical sections of        *)
(* onRadarDetectionReceived.                                               *)
DetectTargets ==
    /\ mfr = "recv"
    /\ detections < MaxDetections
    /\ \E seen \in SUBSET Target, m \in SUBSET Missile :
          /\ OnePerId(seen) /\ OnePerId(m)
          /\ targets' = seen
          /\ batch' = m
    /\ detections' = detections + 1
    /\ targetsFrom' = detections + 1
    /\ mfr' = "missiles"
    /\ UNCHANGED <<boot, missiles, ls, missilesFrom, locked, eccVars, outVars>>

(* Mutated DetectMissiles: an empty list is not stored. *)
DetectMissilesIfAny ==
    /\ mfr = "missiles"
    /\ \/ /\ batch # {}
          /\ missiles' = batch
          /\ missilesFrom' = detections
       \/ /\ batch = {}
          /\ UNCHANGED <<missiles, missilesFrom>>
    /\ mfr' = "recv"
    /\ UNCHANGED <<boot, targets, ls, targetsFrom, locked, eccVars, detections,
                   batch, outVars>>

(* updateStatus(missiles): the second one. *)
DetectMissiles ==
    /\ mfr = "missiles"
    /\ missiles' = batch
    /\ missilesFrom' = detections
    /\ mfr' = "recv"
    /\ UNCHANGED <<boot, targets, ls, targetsFrom, locked, eccVars, detections,
                   batch, outVars>>

-----------------------------------------------------------------------------
(* The launcher thread: onLSStatusReceived. *)
ReportLauncher ==
    /\ HasLSSender
    /\ ls' \in Places
    /\ UNCHANGED <<boot, targets, missiles, targetsFrom, missilesFrom, locked,
                   eccVars, mfrVars, outVars>>

-----------------------------------------------------------------------------
(* The console thread: handleECCCommand. *)

(* Where a send to the radar leaves the console thread.  A radar that has  *)
(* reset its connection, unnoticed by the radar thread so far, makes it    *)
(* raise SIGPIPE (no MSG_NOSIGNAL, no handler): the controller is killed.  *)
SentTo(next) == {next} \cup IF RadarConnected THEN {"killed"} ELSE {}

(* SET_RADAR_MODE: passed on as it came, or lost; locked_target_id stays.  *)
SetRadarMode ==
    /\ ecc = "recv"
    /\ commands < MaxCommands
    /\ commands' = commands + 1
    /\ \E mode \in Modes, id \in TargetIds \cup {0} :
          radarOrder' = IF RadarConnected THEN [mode |-> mode, target |-> id]
                                          ELSE radarOrder
    /\ ecc' \in SentTo("recv")
    /\ UNCHANGED <<boot, statusVars, locked, snapshot, goal, doomed, mfrVars,
                   fires, reported, unsent, deleted>>

Gap(a, b) == IF a <= b THEN b - a ELSE a - b

(* The targets of a status that a fire command may select: the one it      *)
(* names, or with id 0 the nearest to the launcher as last reported.       *)
Selected(s, id) ==
    IF id = 0
    THEN {t \in s.targets :
             \A u \in s.targets : Gap(Track[t.id], s.ls) <= Gap(Track[u.id], s.ls)}
    ELSE {t \in s.targets : t.id = id}

(* Mutated BeginFire: `found' is not looked at. *)
BeginFireUnchecked ==
    /\ ecc = "recv"
    /\ commands < MaxCommands
    /\ commands' = commands + 1
    /\ snapshot' = Status
    /\ \E id \in TargetIds \cup {0} :
          goal' \in IF Selected(Status, id) = {} THEN {NoTarget}
                                                ELSE Selected(Status, id)
    /\ ecc' = "order"
    /\ UNCHANGED <<boot, statusVars, locked, doomed, mfrVars, outVars>>

(* FIRE: snapshot and selection.  The hit flag of the target, the mode of  *)
(* the launcher and earlier launches are not looked at.                    *)
BeginFire ==
    /\ ecc = "recv"
    /\ commands < MaxCommands
    /\ commands' = commands + 1
    /\ snapshot' = Status
    /\ \E id \in TargetIds \cup {0} :
          \/ /\ Selected(Status, id) = {}
             /\ UNCHANGED <<goal, ecc>>
          \/ /\ goal' \in Selected(Status, id)
             /\ ecc' = "order"
    /\ UNCHANGED <<boot, statusVars, locked, doomed, mfrVars, outVars>>

(* Mutated OrderRadar: a radar already stopped is left as it is. *)
OrderRadarOnce ==
    /\ ecc = "order"
    /\ locked' = goal.id
    /\ radarOrder' = IF RadarConnected /\ radarOrder.mode # "STOP"
                     THEN [mode |-> "STOP", target |-> goal.id]
                     ELSE radarOrder
    /\ ecc' = "launch"
    /\ UNCHANGED <<boot, statusVars, commands, snapshot, goal, doomed, mfrVars,
                   fires, reported, unsent, deleted>>

(* setTargetLock, then the order to the radar to stop on the target; that  *)
(* the order could not be sent is not noticed.                             *)
OrderRadar ==
    /\ ecc = "order"
    /\ locked' = goal.id
    /\ radarOrder' = IF RadarConnected THEN [mode |-> "STOP", target |-> goal.id]
                                       ELSE radarOrder
    /\ ecc' \in SentTo("launch")
    /\ UNCHANGED <<boot, statusVars, commands, snapshot, goal, doomed, mfrVars,
                   fires, reported, unsent, deleted>>

(* Mutated OrderLaunch: no launch without a solution. *)
OrderLaunchIfSolved ==
    /\ ecc = "launch"
    /\ \E solved \in BOOLEAN :
          fires' = IF HasLSSender /\ solved
                   THEN Append(fires, [target |-> goal.id, solved |-> solved])
                   ELSE fires
    /\ ecc' = "recv"
    /\ UNCHANGED <<boot, statusVars, locked, commands, snapshot, goal, doomed,
                   mfrVars, radarOrder, reported, unsent, deleted>>

(* The interception is solved from the snapshot; without a solution the    *)
(* launcher is pointed at the target as it is.  Either way it is ordered   *)
(* to launch.                                                              *)
OrderLaunch ==
    /\ ecc = "launch"
    /\ \E solved \in BOOLEAN :
          fires' = IF HasLSSender
                   THEN Append(fires, [target |-> goal.id, solved |-> solved])
                   ELSE fires
    /\ ecc' = "recv"
    /\ UNCHANGED <<boot, statusVars, locked, commands, snapshot, goal, doomed,
                   mfrVars, radarOrder, reported, unsent, deleted>>

(* STATUS_REQUEST, sendStatus: the snapshot that will be sent, and the ids *)
(* to delete: those of its hit targets, and of its hit missiles too.       *)
BeginStatus ==
    /\ ecc = "recv"
    /\ commands < MaxCommands
    /\ commands' = commands + 1
    /\ snapshot' = Status
    /\ doomed' = Hits(missiles) \cup Hits(targets)
    /\ ecc' = "delete"
    /\ UNCHANGED <<boot, statusVars, locked, goal, mfrVars, outVars>>

(* Mutated DeleteTarget: what is hit in the live list is erased. *)
DeleteAllHit ==
    /\ ecc = "delete"
    /\ doomed # {}
    /\ doomed' = {}
    /\ targets' = {t \in targets : ~t.hit}
    /\ deleted' = deleted \cup Hits(targets)
    /\ UNCHANGED <<boot, missiles, ls, targetsFrom, missilesFrom, locked, ecc,
                   commands, snapshot, goal, mfrVars, radarOrder, fires, reported, unsent>>

(* deleteTargetById, a critical section for each id. *)
DeleteTarget ==
    /\ ecc = "delete"
    /\ \E id \in doomed :
          /\ doomed' = doomed \ {id}
          /\ targets' = {t \in targets : t.id # id}
          /\ deleted' = deleted \cup (Ids(targets) \cap {id})
    /\ UNCHANGED <<boot, missiles, ls, targetsFrom, missilesFrom, locked, ecc,
                   commands, snapshot, goal, mfrVars, radarOrder, fires, reported, unsent>>

(* Mutated SendStatus: serialized after the deletions, from the live list. *)
SendLiveStatus ==
    /\ ecc = "delete"
    /\ doomed = {}
    /\ reported' = reported \cup Hits(targets)
    /\ ecc' = "recv"
    /\ UNCHANGED <<boot, statusVars, locked, commands, snapshot, goal, doomed,
                   mfrVars, radarOrder, fires, unsent, deleted>>

(* The status goes out after the deletions, and a send that fails is not   *)
(* noticed: what was deleted stays deleted.  A console that has reset its  *)
(* connection may raise SIGPIPE instead, which kills the controller.       *)
SendStatus ==
    /\ ecc = "delete"
    /\ doomed = {}
    /\ \/ /\ reported' = reported \cup Hits(snapshot.targets)
          /\ ecc' = "recv"
          /\ UNCHANGED unsent
       \/ /\ unsent' = unsent \cup Hits(snapshot.targets)
          /\ ecc' \in {"recv", "killed"}
          /\ UNCHANGED reported
    /\ UNCHANGED <<boot, statusVars, locked, commands, snapshot, goal, doomed,
                   mfrVars, radarOrder, fires, deleted>>

EccStep ==
    \/ SetRadarMode
    \/ BeginFire \/ OrderRadar \/ OrderLaunch
    \/ BeginStatus \/ DeleteTarget \/ SendStatus

-----------------------------------------------------------------------------
(* A killed process runs no thread any more. *)
Alive == ecc # "killed"

RadarStep == AcceptRadar \/ LoseRadar \/ DetectTargets \/ DetectMissiles

Next ==
    \/ Alive /\ StartMFR
    \/ Alive /\ StartLS
    \/ Alive /\ RadarStep
    \/ Alive /\ ReportLauncher
    \/ Alive /\ EccStep

Spec == Init /\ [][Next]_vars

(* While the process lives, main gets through init and a thread in the     *)
(* middle of a handler goes on.                                            *)
Fairness ==
    /\ WF_vars(Alive /\ StartMFR)
    /\ WF_vars(Alive /\ StartLS)
    /\ WF_vars(Alive /\ DetectMissiles)
    /\ WF_vars(Alive /\ ecc # "recv" /\ EccStep)

FairSpec == Spec /\ Fairness

-----------------------------------------------------------------------------
(* Properties. *)

StatusType == [targets : SUBSET Target, missiles : SUBSET Missile, ls : Places,
               targetsFrom : 0..MaxDetections, missilesFrom : 0..MaxDetections]

(* Every variable holds a value of its type. *)
TypeOK ==
    /\ boot \in {"ecc", "mfr", "ls"}
    /\ Status \in StatusType
    /\ locked \in TargetIds \cup {0}
    /\ ecc \in {"recv", "order", "launch", "delete", "killed"}
    /\ commands \in 0..MaxCommands
    /\ snapshot \in StatusType
    /\ goal \in Target \cup {NoTarget}
    /\ doomed \subseteq TargetIds \cup MissileIds
    /\ mfr \in {"accept", "recv", "missiles", "gone"}
    /\ detections \in 0..MaxDetections
    /\ batch \subseteq Missile
    /\ radarOrder \in [mode : Modes \cup {"NONE"}, target : TargetIds \cup {0}]
    /\ fires \in Seq([target : TargetIds, solved : BOOLEAN])
    /\ reported \subseteq TargetIds
    /\ unsent \subseteq TargetIds
    /\ deleted \subseteq TargetIds

(* A launch command leaves only with the lock on its target and, unless    *)
(* the radar is gone, with the order to stop on that very target the last  *)
(* mode order SENT to the radar: mode changes of the operator, fires on    *)
(* "the nearest" and the start of the senders come in any order before it. *)
(* It rests on the order in which init creates the senders: without a      *)
(* radar no target is known.  Whether the order reaches the radar (its id  *)
(* is 0 before the first status, a packet may hide behind another) is the  *)
(* matter of Engagement, and the code does not wait for it.                *)
LaunchFollowsLock ==
    [][fires' # fires =>
          LET target == fires'[Len(fires')].target
          IN  /\ locked = target
              /\ \/ radarOrder = [mode |-> "STOP", target |-> target]
                 \/ mfr = "gone"]_vars

(* The target and missile lists are stored in two critical sections: a     *)
(* status may pair the targets of one detection with the missiles of the   *)
(* one before, but never lists further apart nor newer missiles.           *)
PictureSkew ==
    /\ targetsFrom - missilesFrom = IF mfr = "missiles" THEN 1 ELSE 0
    /\ snapshot.targetsFrom - snapshot.missilesFrom \in {0, 1}

(* A target deleted from the list stood as hit in a status that was sent,  *)
(* or that failed to be sent, or that is about to be: deleting on the live *)
(* list what was seen in an earlier copy loses no hit that a copy did not  *)
(* carry.                                                                  *)
NothingVanishes ==
    deleted \subseteq
        reported \cup unsent
          \cup (IF ecc = "delete" THEN Hits(snapshot.targets) ELSE {})

(* Every fire that found its target ends in a launch command, whether the  *)
(* interception has a solution or not, unless the process is killed.       *)
EveryFireLaunches ==
    \A k \in 0..MaxCommands :
        (ecc = "order" /\ boot = "ls" /\ Len(fires) = k) ~> (Len(fires) > k \/ ~Alive)

(* Every status request ends in a send that carries its hits, however many *)
(* targets are to be deleted while detections keep replacing the list.     *)
EveryHitReported ==
    \A t \in TargetIds :
        (ecc = "delete" /\ t \in Hits(snapshot.targets))
            ~> (t \in reported \/ t \in unsent)

(* sendStatus logs that a hit missile "was destroyed and deleted": unless  *)
(* a newer detection came in, it must be gone from the list by the time    *)
(* the answer is sent.                                                     *)
HitMissileDeleted ==
    [][(ecc = "delete" /\ ecc' = "recv" /\ missilesFrom = snapshot.missilesFrom)
          => Hits(snapshot.missiles) \cap Ids(missiles) = {}]_vars
=============================================================================
