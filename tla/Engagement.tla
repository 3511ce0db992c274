----------------------------- MODULE Engagement -----------------------------
(***************************************************************************)
(* Controller and radar together: the way of an order from the controller  *)
(* to the radar, and of what the radar detects back to the controller's    *)
(* picture.                                                                *)
(*                                                                         *)
(* The two streams are TCP connections.  A packet has no frame: a read     *)
(* returns whatever packets have arrived and only the first is parsed, the *)
(* others are lost.  Packets are shorter than the buffers, so no read cuts *)
(* one; a backlog longer than a buffer is left out.                        *)
(*                                                                         *)
(* Handlers are single steps here; how the threads of each program         *)
(* interleave inside them is the matter of LaunchController and Radar.     *)
(* Only the radar's rotation scan is split, because an order executed      *)
(* during one is overwritten by it.  A console's packet lost behind        *)
(* another changes nothing, so its stream is left out: a command is one    *)
(* the controller reads.                                                   *)
(***************************************************************************)
EXTENDS Integers, Sequences

CONSTANTS Targets,
          NoTarget,      \* id 0: "the nearest", or no target
          Beam,          \* the targets within the beam pointed at a target
          Chosen,        \* bound: the radar orders the operator gives
          MaxOrders,     \* bound: mode orders the controller sends
          MaxReports,    \* bound: packets waiting for the controller when a scan sends
          MaxPolls       \* bound: packets waiting for the radar when a poll is sent,
                         \* none waiting for the controller then

ASSUME EngagementAssumption ==
    /\ NoTarget \notin Targets
    /\ Beam \in [Targets -> SUBSET Targets]
    /\ \A t \in Targets : t \in Beam[t]
    /\ Chosen \subseteq [mode : {"ROTATE", "ANGLE"}, target : Targets \cup {NoTarget}]
    /\ MaxOrders \in Nat /\ MaxReports \in Nat /\ MaxPolls \in Nat

Ids   == Targets \cup {NoTarget}
Modes == {"ROTATE", "ANGLE"}

VARIABLES
    plotted, hit,  \* targets the radar has plots of, those marked hit
    mode, goal,    \* mfrMode, goalTargetId
    scan, seen,    \* place of the detection thread, its copy of the plots
    locked,        \* the target of the last order, if no rotation scan was
                   \* under way when it was carried out
    obeyed,        \* number of the last order carried out
    known,         \* status.mfr.mfrId is set
    picture,       \* ids of status.targets
    pictureLock,   \* what the radar was locked on when it saw them
    sent,          \* number of mode orders the controller has sent
    void,          \* those with another id or lost behind another packet
    orders,        \* stream controller -> radar
    reports        \* stream radar -> controller

simVars   == <<plotted, hit>>
radarVars == <<mode, goal, scan, seen, locked, obeyed>>
lcVars    == <<known, picture, pictureLock, sent>>
vars == <<simVars, radarVars, lcVars, void, orders, reports>>

Init ==
    /\ plotted = {} /\ hit = {}
    /\ mode = "ROTATE" /\ goal \in Ids     \* 101001, a target or none
    /\ scan = "idle" /\ seen = {}
    /\ locked = NoTarget /\ obeyed = 0
    /\ known = FALSE
    /\ picture = {} /\ pictureLock = NoTarget
    /\ sent = 0 /\ void = {}
    /\ orders = <<>>
    /\ reports = <<[type |-> "position"]>>   \* requestLcInitData

Living == plotted \ hit

\* What is left of a stream after a read of its first k packets.
After(stream, k) == SubSeq(stream, k + 1, Len(stream))

-----------------------------------------------------------------------------
(* The simulator, as the radar sees it: a target is plotted, and once      *)
(* missiles fly a last plot may mark it hit.                               *)

Plot ==
    /\ \E t \in Targets \ plotted : plotted' = plotted \cup {t}
    /\ UNCHANGED <<hit, radarVars, lcVars, void, orders, reports>>

(* Mutated Hit: the mark is kept apart from the plots. *)
HitUnplotted ==
    /\ sent > 0
    /\ \E t \in Targets \ hit : hit' = hit \cup {t}
    /\ UNCHANGED <<plotted, radarVars, lcVars, void, orders, reports>>

Hit ==
    /\ sent > 0
    /\ \E t \in Living : hit' = hit \cup {t}
    /\ UNCHANGED <<plotted, radarVars, lcVars, void, orders, reports>>

-----------------------------------------------------------------------------
(* The radar's detection thread, mfrDetectionAlgo.  Every plot is in reach *)
(* of the radar.  Nothing is sent when nothing was detected, but a missile *)
(* in flight alone is sent, with an empty list of targets.                 *)

Detection(targets) ==
    [type |-> "detection", targets |-> targets, lock |-> locked]

BeginRotationScan ==
    /\ scan = "idle" /\ mode = "ROTATE"
    /\ scan' = "rotating"
    /\ seen' = Living
    /\ UNCHANGED <<simVars, mode, goal, locked, obeyed, lcVars, void, orders, reports>>

\* The nearest target becomes the goal; which one that is, is left open.
EndRotationScan ==
    /\ scan = "rotating" /\ Len(reports) < MaxReports
    /\ \/ /\ seen = {}
          /\ UNCHANGED <<goal, reports>>
       \/ /\ seen = {} /\ sent > 0     \* a missile
          /\ reports' = Append(reports, Detection({}))
          /\ UNCHANGED goal
       \/ /\ goal' \in seen
          /\ reports' = Append(reports, Detection(seen))
    /\ scan' = "idle" /\ seen' = {}
    /\ UNCHANGED <<simVars, mode, locked, obeyed, lcVars, void, orders>>

(* Mutated AngleScan: hit targets are left out, as in the rotation scan. *)
AngleScanLiving ==
    /\ scan = "idle" /\ mode = "ANGLE" /\ Len(reports) < MaxReports
    /\ goal \in plotted
    /\ Beam[goal] \cap Living # {}
    /\ reports' = Append(reports, Detection(Beam[goal] \cap Living))
    /\ UNCHANGED <<simVars, radarVars, lcVars, void, orders>>

\* Everything within the beam, hit or not.
AngleScan ==
    /\ scan = "idle" /\ mode = "ANGLE" /\ Len(reports) < MaxReports
    /\ goal \in plotted
    /\ reports' = Append(reports, Detection(Beam[goal] \cap plotted))
    /\ UNCHANGED <<simVars, radarVars, lcVars, void, orders>>

Scan == BeginRotationScan \/ EndRotationScan \/ AngleScan

-----------------------------------------------------------------------------
(* The radar's receiver thread, callBackData. *)

SendMfrStatus ==
    /\ reports' = Append(reports, [type |-> "status"])
    /\ UNCHANGED <<mode, goal, locked, obeyed>>

(* Mutated ChangeMode: a radar already stopped keeps its target. *)
ChangeModeOnce(order) ==
    /\ IF order.addressed /\ (order.mode = "ROTATE" \/ mode = "ROTATE")
       THEN /\ mode' = order.mode
            /\ goal' = IF order.mode = "ANGLE" /\ order.target # NoTarget
                       THEN order.target ELSE goal
            /\ locked' = IF order.mode = "ANGLE" /\ scan = "idle"
                         THEN order.target ELSE NoTarget
            /\ obeyed' = order.number
       ELSE UNCHANGED <<mode, goal, locked, obeyed>>
    /\ UNCHANGED reports

\* parsingModeChangeData: an order for another radar is ignored, one without
\* a target leaves the goal.
ChangeMode(order) ==
    /\ IF order.addressed
       THEN /\ mode' = order.mode
            /\ goal' = IF order.mode = "ANGLE" /\ order.target # NoTarget
                       THEN order.target ELSE goal
            /\ locked' = IF order.mode = "ANGLE" /\ scan = "idle"
                         THEN order.target ELSE NoTarget
            /\ obeyed' = order.number
       ELSE UNCHANGED <<mode, goal, locked, obeyed>>
    /\ UNCHANGED reports

\* Numbers of the orders behind the first packet of a read of k.
Hidden(k) == {orders[i].number : i \in {j \in 2..k : orders[j].type = "mode"}}

ReadOrders ==
    /\ \E k \in 1..Len(orders) :
          /\ orders' = After(orders, k)
          /\ void' = void \cup Hidden(k)
    /\ LET packet == orders[1] IN
       \/ packet.type = "poll" /\ SendMfrStatus
       \/ packet.type = "mode" /\ ChangeMode(packet)
       \/ /\ packet.type = "position"       \* parsingLcInitData
          /\ UNCHANGED <<mode, goal, locked, obeyed, reports>>
    /\ UNCHANGED <<simVars, scan, seen, lcVars>>

-----------------------------------------------------------------------------
(* The controller. *)

\* run, once a second: the request for the radar's status
Poll ==
    /\ Len(orders) < MaxPolls /\ reports = <<>>
    /\ orders' = Append(orders, [type |-> "poll"])
    /\ UNCHANGED <<simVars, radarVars, lcVars, void, reports>>

\* A mode order carries an id of a radar, the radar's own or another.
SendOrder(m, id, addressed) ==
    /\ sent < MaxOrders
    /\ sent' = sent + 1
    /\ void' = IF addressed THEN void ELSE void \cup {sent + 1}
    /\ orders' = Append(orders, [type |-> "mode", number |-> sent + 1, mode |-> m,
                                 target |-> id, addressed |-> addressed])
    /\ UNCHANGED <<simVars, radarVars, known, picture, pictureLock, reports>>

(* Mutated ReadReports: what is detected is added to the list. *)
ReadReportsMerge ==
    /\ \E k \in 1..Len(reports) : reports' = After(reports, k)
    /\ LET packet == reports[1] IN
       \/ /\ packet.type = "status"
          /\ known' = TRUE
          /\ UNCHANGED <<picture, pictureLock, orders>>
       \/ /\ packet.type = "detection"
          /\ picture' = picture \cup packet.targets /\ pictureLock' = packet.lock
          /\ UNCHANGED <<known, orders>>
       \/ /\ packet.type = "position"
          /\ orders' = Append(orders, [type |-> "position"])
          /\ UNCHANGED <<known, picture, pictureLock>>
    /\ UNCHANGED <<simVars, radarVars, sent, void>>

\* TcpMFR::receiveLoop and handleMFRCommand
ReadReports ==
    /\ \E k \in 1..Len(reports) : reports' = After(reports, k)
    /\ LET packet == reports[1] IN
       \/ /\ packet.type = "status"
          /\ known' = TRUE
          /\ UNCHANGED <<picture, pictureLock, orders>>
       \/ /\ packet.type = "detection"
          /\ picture' = packet.targets /\ pictureLock' = packet.lock
          /\ UNCHANGED <<known, orders>>
       \/ /\ packet.type = "position"       \* onLCPositionRequest
          /\ orders' = Append(orders, [type |-> "position"])
          /\ UNCHANGED <<known, picture, pictureLock>>
    /\ UNCHANGED <<simVars, radarVars, sent, void>>

\* FIRE, at a target or at the nearest: the order to stop on it, then the
\* launch; nothing for a target that is not listed.  The order carries the
\* id in the controller's status, 0 until the radar has sent its own.
FireCommand == \E t \in picture : SendOrder("ANGLE", t, known)

\* RADAR: the operator's order is sent on as it is, with whatever id the
\* console has put into it.
RadarCommand ==
    \E order \in Chosen, addressed \in BOOLEAN :
        SendOrder(order.mode, order.target, addressed)

Next ==
    \/ Plot \/ Hit
    \/ Scan \/ ReadOrders
    \/ Poll \/ ReadReports \/ FireCommand \/ RadarCommand

Spec == Init /\ [][Next]_vars

(* The receiver threads run, and time and again a read finds all that was  *)
(* sent.  The controller asks for the status once a second, the radar      *)
(* scans every 10 ms: time and again a rotation scan begins, and one ends, *)
(* with nothing waiting in the stream.                                     *)
Fairness ==
    /\ WF_vars(ReadOrders)
    /\ SF_vars(ReadReports /\ reports' = <<>>)
    /\ SF_vars(reports = <<>> /\ BeginRotationScan)
    /\ SF_vars(reports = <<>> /\ EndRotationScan)

FairSpec == Spec /\ Fairness

-----------------------------------------------------------------------------
Packet ==
    [type : {"poll", "position"}]
    \cup [type : {"mode"}, number : 1..sent, mode : Modes, target : Ids,
          addressed : BOOLEAN]

Report ==
    [type : {"status", "position"}]
    \cup [type : {"detection"}, targets : SUBSET Targets, lock : Ids]

(* Every variable has its type: an order carried out was sent, and nothing *)
(* but targets is ever listed.                                             *)
TypeOK ==
    /\ plotted \subseteq Targets /\ hit \subseteq plotted
    /\ mode \in Modes /\ goal \in Ids
    /\ scan \in {"idle", "rotating"} /\ seen \subseteq Targets
    /\ locked \in Ids /\ obeyed \in 0..sent
    /\ known \in BOOLEAN
    /\ picture \subseteq Targets /\ pictureLock \in Ids
    /\ sent \in 0..MaxOrders /\ void \subseteq 1..sent
    /\ orders \in Seq(Packet)
    /\ reports \in Seq(Report)

(* Once the radar has stopped on an ordered target (no rotation scan being *)
(* under way), what the controller hears of it lists that target, shot     *)
(* down or not, whatever packets are lost on the way: a second fire on it  *)
(* always finds it.                                                        *)
LockedIsListed == pictureLock # NoTarget => pictureLock \in picture

(* Every order sent reaches the radar, or a later one does, unless it does *)
(* not carry the radar's id (a launch before the first status, an order of *)
(* a console that has another id) or lies behind another packet in one     *)
(* read: the requests for the status, the position and the orders of two   *)
(* threads share the stream.                                               *)
EveryOrderReaches ==
    \A n \in 1..MaxOrders : n <= sent ~> n <= obeyed \/ n \in void

(* With the radar rotating and a target left to detect, the controller's   *)
(* list comes to hold exactly the living targets, although no detection    *)
(* ever marks one hit and any number of packets are lost.  Without a       *)
(* living target or a missile nothing is sent: the list stays as it was.   *)
PictureConverges ==
    <>[](mode = "ROTATE" /\ Living # {}) => <>[](picture = Living)
=============================================================================
