------------------------------- MODULE Radar -------------------------------
(***************************************************************************)
(* The radar process (src/MFR/NewMFR).  Three threads share maps, mode and *)
(* goal, each comm manager with a mutex of its own that excludes nobody:   *)
(*                                                                         *)
(*   sim    stores what the simulator plots (parsingSimData);              *)
(*   lc     takes mode orders from the launch controller                   *)
(*          (parsingModeChangeData);                                       *)
(*   scan   copies the maps and reports what it detects, again and again   *)
(*          (mfrDetectionAlgo).                                            *)
(*                                                                         *)
(* A step reads or writes one shared variable or one map, or sends.        *)
(* A bearing is a whole number of units, Circle of them in a full turn; a  *)
(* plot is a bearing, a distance in HALVES of the unit the code cuts a     *)
(* distance to, and the hit flag.                                          *)
(***************************************************************************)
EXTENDS Integers

CONSTANTS TargetIds, MissileIds,
          Plots,       \* plots the simulator may send
          Blank,       \* an entry just inserted: coordinates 0, 0, not hit
          Circle,      \* units in a full turn
          Beam,        \* 15 degrees
          Reach,       \* limitDetectionRange, in whole units
          MaxPlots,    \* bound: plots received
          MaxOrders    \* bound: mode orders received

ASSUME RadarAssumption ==
    /\ TargetIds \cap MissileIds = {}
    /\ 0 \notin TargetIds \cup MissileIds
    /\ Circle \in Nat \ {0} /\ Beam \in Nat /\ 2 * Beam < Circle
    /\ Reach \in Nat
    /\ Plots \subseteq [bearing : 0..Circle - 1, dist : Nat, hit : BOOLEAN]
    /\ Blank \in [bearing : 0..Circle - 1, dist : Nat, hit : BOOLEAN]
    /\ ~Blank.hit /\ Blank.dist \div 2 > Reach
    /\ MaxPlots \in Nat /\ MaxOrders \in Nat

Ids    == TargetIds \cup MissileIds
Absent == [bearing |-> 0, dist |-> -1, hit |-> FALSE]   \* id not in its map
NoPlot == [id |-> 0, plot |-> Absent]

VARIABLES
    plots,      \* mockTargets and mockMissile
    sim,        \* place of the simulator thread
    incoming,   \* the plot it is storing
    received,   \* plots received
    mode, goal, \* mfrMode, goalTargetId; 0 is the id it starts with
    lc,         \* place of the controller thread
    ordered,    \* target the last order named, 0 if it named none
    orders,     \* orders received
    lock,       \* goal ordered while no rotation scan could overwrite it
    scan,       \* place of the detection thread
    seen,       \* localTargets and localMissiles
    aim,        \* bearing the report is aimed at, -1 for all around
    report,     \* ids in the report
    sent        \* ids in the last report sent

simVars  == <<plots, sim, incoming, received>>
lcVars   == <<mode, lc, ordered, orders, lock>>
scanVars == <<scan, seen, aim, report, sent>>
vars == <<simVars, lcVars, goal, scanVars>>

Init ==
    /\ plots = [k \in Ids |-> Absent]
    /\ sim = "recv" /\ incoming = NoPlot /\ received = 0
    /\ mode = "ROTATION" /\ goal = 0
    /\ lc = "recv" /\ ordered = 0 /\ orders = 0 /\ lock = 0
    /\ scan = "targets" /\ seen = [k \in Ids |-> Absent]
    /\ aim = -1 /\ report = {} /\ sent = {}

Running == scan # "crashed"

-----------------------------------------------------------------------------
(* The simulator thread: addMockTarget, addMockMissile. *)

ReceivePlot ==
    /\ sim = "recv"
    /\ received < MaxPlots
    /\ \E k \in Ids, p \in Plots : incoming' = [id |-> k, plot |-> p]
    /\ received' = received + 1
    /\ sim' = "write"
    /\ UNCHANGED <<plots, lcVars, goal, scanVars>>

StorePlot ==
    /\ sim = "write"
    /\ plots' = [plots EXCEPT ![incoming.id] = incoming.plot]
    /\ incoming' = NoPlot
    /\ sim' = "recv"
    /\ UNCHANGED <<received, lcVars, goal, scanVars>>

-----------------------------------------------------------------------------
(* The controller thread: parsingModeChangeData.  An order for another     *)
(* radar changes nothing.                                                  *)

OrderRotation ==
    /\ lc = "recv"
    /\ orders < MaxOrders
    /\ orders' = orders + 1
    /\ mode' = "ROTATION"
    /\ ordered' = 0
    /\ lock' = 0
    /\ UNCHANGED <<simVars, lc, goal, scanVars>>

(* ANGLE_MODE with PRIORITY_TARGET, or cut short: the goal stays. *)
OrderPriority ==
    /\ lc = "recv"
    /\ orders < MaxOrders
    /\ orders' = orders + 1
    /\ mode' = "ANGLE"
    /\ ordered' = 0
    /\ UNCHANGED <<simVars, lc, lock, goal, scanVars>>

(* ANGLE_MODE with CUSTOMIZE_TARGET: the mode is written first ... *)
OrderTarget ==
    /\ lc = "recv"
    /\ orders < MaxOrders
    /\ orders' = orders + 1
    /\ mode' = "ANGLE"
    /\ ordered' \in TargetIds
    /\ lock' = 0
    /\ lc' = "goal"
    /\ UNCHANGED <<simVars, goal, scanVars>>

(* ... and the goal after it. *)
SetGoal ==
    /\ lc = "goal"
    /\ goal' = ordered
    /\ lock' = IF scan = "rotate" THEN 0 ELSE ordered
    /\ lc' = "recv"
    /\ UNCHANGED <<simVars, mode, ordered, orders, scanVars>>

LcStep == OrderRotation \/ OrderPriority \/ OrderTarget \/ SetGoal

-----------------------------------------------------------------------------
(* The detection thread: mfrDetectionAlgo.                                 *)

(* What a struct may be read as while another value is assigned to it. *)
Torn(old, new) ==
    [bearing : {old.bearing, new.bearing}, dist : {old.dist, new.dist},
     hit : {old.hit, new.hit}]

(* What a copy of the map of the ids in S may hold.  A new id is inserted  *)
(* blank and assigned to afterwards; while it is inserted the tree is      *)
(* rebalanced and the copy may miss any part of it, the new id included.   *)
(* A copy meets one write; one that meets several is left out.             *)
Copies(S) ==
    LET id == incoming.id
    IN  IF sim # "write" \/ id \notin S THEN {plots}
        ELSE IF plots[id] # Absent
        THEN {[plots EXCEPT ![id] = p] : p \in Torn(plots[id], incoming.plot)}
        ELSE {[k \in Ids |-> IF k \in lost THEN Absent
                             ELSE IF k = id THEN p ELSE plots[k]] :
                 lost \in SUBSET S, p \in Torn(Blank, incoming.plot)}

(* Such a copy may also bring the process down. *)
Copy(S, next) ==
    \/ /\ \E c \in Copies(S) : seen' = [k \in Ids |-> IF k \in S THEN c[k] ELSE seen[k]]
       /\ scan' = next
    \/ /\ sim = "write" /\ incoming.id \in S /\ plots[incoming.id] = Absent
       /\ scan' = "crashed"
       /\ UNCHANGED seen

CopyTargets ==
    /\ scan = "targets"
    /\ Copy(TargetIds, "missiles")
    /\ UNCHANGED <<simVars, lcVars, goal, aim, report, sent>>

CopyMissiles ==
    /\ scan = "missiles"
    /\ Copy(MissileIds, "mode")
    /\ UNCHANGED <<simVars, lcVars, goal, aim, report, sent>>

(* mfrMode == ROTATION_MODE, and if not, mfrMode == ANGLE_MODE. *)
ReadMode ==
    /\ scan = "mode"
    /\ scan' = IF mode = "ROTATION" THEN "rotate" ELSE "mode2"
    /\ UNCHANGED <<simVars, lcVars, goal, seen, aim, report, sent>>

ReadModeAgain ==
    /\ scan = "mode2"
    /\ scan' = IF mode = "ANGLE" THEN "find" ELSE "send"
    /\ UNCHANGED <<simVars, lcVars, goal, seen, aim, report, sent>>

(* In a rotation scan the distance of a target is compared as it is; that  *)
(* of a missile, and every distance in an angle scan, is cut to a whole    *)
(* number first.                                                           *)
InReach(p)    == p # Absent /\ p.dist <= 2 * Reach
InCutReach(p) == p # Absent /\ p.dist \div 2 <= Reach

(* What a rotation scan of a map reports. *)
Alive(map) ==
    {t \in TargetIds  : InReach(map[t]) /\ ~map[t].hit}
      \cup {m \in MissileIds : InCutReach(map[m]) /\ ~map[m].hit}

Nearest(S) == {k \in S : \A j \in S : seen[k].dist <= seen[j].dist}

(* Mutated Rotate: the hit flag is not looked at. *)
RotateAll ==
    /\ scan = "rotate"
    /\ report' = {t \in TargetIds : InReach(seen[t])}
                   \cup {m \in MissileIds : InCutReach(seen[m])}
    /\ IF report' \cap TargetIds = {} THEN UNCHANGED goal
       ELSE goal' \in Nearest(report' \cap TargetIds)
    /\ scan' = "send"
    /\ UNCHANGED <<simVars, lcVars, seen, aim, sent>>

(* Everything in reach and not hit; the nearest target becomes the goal,   *)
(* whatever the mode has become since it was read.  A missile that is not  *)
(* reported is erased from detectedMissile, while the simulator thread may *)
(* be inserting into it.                                                   *)
Rotate ==
    /\ scan = "rotate"
    /\ report' = Alive(seen)
    /\ IF report' \cap TargetIds = {} THEN UNCHANGED goal
       ELSE goal' \in Nearest(report' \cap TargetIds)
    /\ \/ scan' = "send"
       \/ /\ sim = "write" /\ incoming.id \in MissileIds
          /\ \E m \in MissileIds \ report' : seen[m] # Absent
          /\ scan' = "crashed"
    /\ UNCHANGED <<simVars, lcVars, seen, aim, sent>>

(* Mutated FindGoal: the test is for the map being filled. *)
FindAny ==
    /\ scan = "find"
    /\ scan' = IF \E t \in TargetIds : seen[t] # Absent THEN "beam" ELSE "send"
    /\ UNCHANGED <<simVars, lcVars, goal, seen, aim, report, sent>>

(* localTargets.find(goalTargetId) *)
FindGoal ==
    /\ scan = "find"
    /\ scan' = IF goal \in TargetIds /\ seen[goal] # Absent THEN "beam" ELSE "send"
    /\ UNCHANGED <<simVars, lcVars, goal, seen, aim, report, sent>>

(* Mutated AngleDiff: it does not wrap round. *)
AngleDiffFlat(base, bearing) == bearing - base

(* angleDiff: within half a turn either way. *)
AngleDiff(base, bearing) ==
    LET diff == bearing - base
    IN  IF 2 * diff > Circle THEN diff - Circle
        ELSE IF 2 * diff < -Circle THEN diff + Circle
        ELSE diff

InBeam(base, bearing) == AngleDiff(base, bearing) \in -Beam..Beam

(* What an angle scan of a map reports. *)
Beamed(map, base) ==
    {k \in Ids : InCutReach(map[k]) /\ InBeam(base, map[k].bearing)}

(* Mutated PointBeam: the goal follows what is found in the beam. *)
PointBeamAndFollow ==
    /\ scan = "beam"
    /\ aim' = seen[goal].bearing
    /\ report' = Beamed(seen, aim')
    /\ IF report' \cap TargetIds = {} THEN UNCHANGED goal
       ELSE goal' \in report' \cap TargetIds
    /\ scan' = "send"
    /\ UNCHANGED <<simVars, lcVars, seen, sent>>

(* localTargets[goalTargetId]: the goal is read again, and if an order has *)
(* changed it meanwhile to an id not seen, a blank target is inserted and  *)
(* the beam points to where it is.                                         *)
PointBeam ==
    /\ scan = "beam"
    /\ seen' = IF seen[goal] # Absent THEN seen ELSE [seen EXCEPT ![goal] = Blank]
    /\ aim' = seen'[goal].bearing
    /\ report' = Beamed(seen', aim')
    /\ scan' = "send"
    /\ UNCHANGED <<simVars, lcVars, goal, sent>>

(* Nothing detected, nothing sent. *)
SendReport ==
    /\ scan = "send"
    /\ sent' = IF report = {} THEN sent ELSE report
    /\ scan' = "store"
    /\ UNCHANGED <<simVars, lcVars, goal, seen, aim, report>>

(* detectedMissile is replaced while the simulator thread may be inserting *)
(* into it.  The maps and lists of the scan end with it.                   *)
StoreDetected ==
    /\ scan = "store"
    /\ \/ scan' = "targets"
       \/ /\ sim = "write" /\ incoming.id \in MissileIds
          /\ scan' = "crashed"
    /\ seen' = [k \in Ids |-> Absent]
    /\ aim' = -1 /\ report' = {}
    /\ UNCHANGED <<simVars, lcVars, goal, sent>>

ScanStep ==
    \/ CopyTargets \/ CopyMissiles \/ ReadMode \/ ReadModeAgain
    \/ Rotate \/ FindGoal \/ PointBeam \/ SendReport \/ StoreDetected

-----------------------------------------------------------------------------
Next == Running /\ (ReceivePlot \/ StorePlot \/ LcStep \/ ScanStep)

Spec == Init /\ [][Next]_vars

(* Threads that can run do; no plot and no order need come. *)
FairSpec ==
    /\ Spec
    /\ WF_vars(Running /\ StorePlot)
    /\ WF_vars(Running /\ SetGoal)
    /\ WF_vars(Running /\ ScanStep)

-----------------------------------------------------------------------------
(* Properties. *)

PlotType == [bearing : 0..Circle - 1, dist : Int, hit : BOOLEAN]

(* Every variable holds a value of its type. *)
TypeOK ==
    /\ plots \in [Ids -> PlotType] /\ seen \in [Ids -> PlotType]
    /\ sim \in {"recv", "write"}
    /\ incoming \in [id : Ids \cup {0}, plot : PlotType]
    /\ sim = "write" => incoming.id \in Ids
    /\ received \in 0..MaxPlots /\ orders \in 0..MaxOrders
    /\ mode \in {"ROTATION", "ANGLE"}
    /\ goal \in TargetIds \cup {0} /\ lock \in TargetIds \cup {0}
    /\ lc \in {"recv", "goal"} /\ ordered \in TargetIds \cup {0}
    /\ lc = "goal" => ordered # 0
    /\ scan \in {"targets", "missiles", "mode", "mode2", "rotate", "find",
                 "beam", "send", "store", "crashed"}
    /\ scan = "beam" => goal # 0
    /\ aim \in -1..Circle - 1
    /\ report \subseteq Ids /\ sent \subseteq Ids

(* A goal ordered while no rotation scan was under way stays the goal      *)
(* until the next order: only such a scan can take it away.                *)
LockKept == lock # 0 => goal = lock /\ mode = "ANGLE"

(* An angle report lists whatever is in reach and within the beam, on      *)
(* either side of north.                                                   *)
BeamComplete ==
    scan = "send" /\ aim # -1 =>
        report = {k \in Ids : /\ InCutReach(seen[k])
                              /\ \E d \in -Beam..Beam :
                                    seen[k].bearing = (aim + d) % Circle}

(* Once plots and orders stay away, the controller is left with exactly    *)
(* what is in reach and not hit, although copies were torn and reports of  *)
(* another mode were under way.  An empty sky is never reported.           *)
RotationConverges ==
    <>[](mode = "ROTATION")
      => <>[](Running /\ Alive(plots) # {} => sent = Alive(plots))

(* In ANGLE mode the goal settles: a scan overwrites it once at most. *)
GoalSettles ==
    <>[](mode = "ANGLE" /\ lc = "recv" /\ orders = MaxOrders)
      => \E g \in TargetIds \cup {0} : <>[](goal = g)

(* The radar chooses the goal itself only for PRIORITY_TARGET: once an     *)
(* order has named a target, nothing but the next order changes the goal.  *)
GoalObeyed ==
    [][mode = "ANGLE" /\ lc = "recv" /\ ordered # 0 => goal' = goal]_vars
=============================================================================
