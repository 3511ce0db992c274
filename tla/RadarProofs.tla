---------------------------- MODULE RadarProofs ----------------------------
(***************************************************************************)
(* Proofs about the radar, for all sets of ids, all plots, every beam and  *)
(* circle and all bounds.                                                  *)
(***************************************************************************)
EXTENDS Radar, TLAPS

(* What the proofs need to know besides the properties: an order half      *)
(* executed has written the mode and given up the lock; no rotation scan   *)
(* begins while a goal is locked; only the beam sets a bearing.            *)
HalfOrder == lc = "goal" => mode = "ANGLE" /\ lock = 0

LockedOut == lock # 0 => scan # "rotate"

Unaimed == scan \notin {"send", "store", "crashed"} => aim = -1

(* The inductive invariant. *)
Inv ==
    /\ TypeOK
    /\ HalfOrder
    /\ LockedOut
    /\ LockKept
    /\ Unaimed
    /\ BeamComplete

-----------------------------------------------------------------------------
(* On a circle, what angleDiff leaves within the beam is what a turn of    *)
(* less than the beam reaches.                                             *)
LEMMA Wrap ==
    ASSUME NEW base \in 0..Circle - 1, NEW bearing \in 0..Circle - 1
    PROVE  InBeam(base, bearing)
             <=> \E d \in -Beam..Beam : bearing = (base + d) % Circle
  <1>1. ASSUME NEW d \in -Beam..Beam
        PROVE  (base + d) % Circle
                 = IF base + d < 0 THEN base + d + Circle
                   ELSE IF base + d >= Circle THEN base + d - Circle
                   ELSE base + d
    BY RadarAssumption
  <1>2. AngleDiff(base, bearing) \in Int
    BY RadarAssumption DEF AngleDiff
  <1>3. ASSUME InBeam(base, bearing)
        PROVE  \E d \in -Beam..Beam : bearing = (base + d) % Circle
    <2>. DEFINE d == AngleDiff(base, bearing)
    <2>1. d \in -Beam..Beam
      BY <1>3 DEF InBeam
    <2>2. \/ base + d = bearing
          \/ base + d = bearing - Circle
          \/ base + d = bearing + Circle
      BY RadarAssumption DEF AngleDiff
    <2>3. bearing = (base + d) % Circle
      BY <1>1, <2>1, <2>2, RadarAssumption
    <2>. QED
      BY <2>1, <2>3
  <1>4. ASSUME NEW d \in -Beam..Beam, bearing = (base + d) % Circle
        PROVE  InBeam(base, bearing)
    <2>1. \/ bearing - base = d
          \/ bearing - base = d + Circle
          \/ bearing - base = d - Circle
      BY <1>1, <1>4, RadarAssumption
    <2>2. AngleDiff(base, bearing) = d
      BY <2>1, RadarAssumption DEF AngleDiff
    <2>. QED
      BY <2>2 DEF InBeam
  <1>. QED
    BY <1>3, <1>4

(* A plot and its absence are plots; so is what is read while one replaces *)
(* the other.                                                              *)
LEMMA PlotTypes ==
    /\ Absent \in PlotType /\ Blank \in PlotType
    /\ Plots \subseteq PlotType
    /\ \A old, new \in PlotType : Torn(old, new) \subseteq PlotType
  <1>1. Absent \in PlotType
    BY RadarAssumption DEF Absent, PlotType
  <1>2. Blank \in PlotType
    <2>1. Blank \in [bearing : 0..Circle - 1, dist : Nat, hit : BOOLEAN]
      BY RadarAssumption
    <2>. QED
      BY <2>1 DEF PlotType
  <1>3. Plots \subseteq PlotType
    <2>. SUFFICES ASSUME NEW p \in Plots PROVE p \in PlotType
      OBVIOUS
    <2>1. p \in [bearing : 0..Circle - 1, dist : Nat, hit : BOOLEAN]
      BY RadarAssumption
    <2>. QED
      BY <2>1 DEF PlotType
  <1>4. \A old, new \in PlotType : Torn(old, new) \subseteq PlotType
    BY DEF PlotType, Torn
  <1>. QED
    BY <1>1, <1>2, <1>3, <1>4

(* A copy of a map holds plots, however it was torn. *)
LEMMA CopyTypes ==
    ASSUME TypeOK, NEW S, NEW c \in Copies(S)
    PROVE  c \in [Ids -> PlotType]
  <1>. DEFINE id == incoming.id
  <1>1. CASE sim # "write" \/ id \notin S
    BY <1>1 DEF Copies, TypeOK
  <1>2. CASE ~(sim # "write" \/ id \notin S) /\ plots[id] # Absent
    <2>1. /\ plots \in [Ids -> PlotType]
          /\ plots[id] \in PlotType /\ incoming.plot \in PlotType
      BY <1>2 DEF TypeOK
    <2>2. PICK p \in Torn(plots[id], incoming.plot) : c = [plots EXCEPT ![id] = p]
      BY <1>2 DEF Copies
    <2>3. p \in PlotType
      BY <2>1, <2>2, PlotTypes
    <2>. QED
      BY <2>1, <2>2, <2>3
  <1>3. CASE ~(sim # "write" \/ id \notin S) /\ plots[id] = Absent
    <2>1. PICK lost \in SUBSET S, p \in Torn(Blank, incoming.plot) :
            c = [k \in Ids |-> IF k \in lost THEN Absent
                               ELSE IF k = id THEN p ELSE plots[k]]
      BY <1>3 DEF Copies
    <2>2. plots \in [Ids -> PlotType] /\ incoming.plot \in PlotType /\ p \in PlotType
      BY <2>1, PlotTypes DEF TypeOK
    <2>3. \A k \in Ids : (IF k \in lost THEN Absent
                          ELSE IF k = id THEN p ELSE plots[k]) \in PlotType
      BY <2>2, PlotTypes
    <2>. QED
      BY <2>1, <2>3
  <1>. QED
    BY <1>1, <1>2, <1>3

(* Copying keeps the type of what the scan has seen. *)
LEMMA CopyKeepsType ==
    ASSUME TypeOK, NEW S, NEW next, Copy(S, next)
    PROVE  /\ seen' \in [Ids -> PlotType]
           /\ scan' \in {next, "crashed"}
  <1>1. CASE \E c \in Copies(S) :
                seen' = [k \in Ids |-> IF k \in S THEN c[k] ELSE seen[k]]
    <2>1. PICK c \in Copies(S) :
            seen' = [k \in Ids |-> IF k \in S THEN c[k] ELSE seen[k]]
      BY <1>1
    <2>2. c \in [Ids -> PlotType] /\ seen \in [Ids -> PlotType]
      BY <2>1, CopyTypes DEF TypeOK
    <2>3. scan' \in {next, "crashed"}
      BY DEF Copy
    <2>. QED
      BY <2>1, <2>2, <2>3
  <1>2. CASE UNCHANGED seen
    BY <1>2 DEF Copy, TypeOK
  <1>. QED
    BY <1>1, <1>2 DEF Copy

-----------------------------------------------------------------------------
LEMMA InitInv == Init => Inv
  <1>. SUFFICES ASSUME Init PROVE Inv
    OBVIOUS
  <1>1. TypeOK
    BY PlotTypes, RadarAssumption DEF Init, TypeOK, Ids, NoPlot
  <1>. QED
    BY <1>1 DEF Init, Inv, HalfOrder, LockedOut, LockKept, Unaimed, BeamComplete

(* One step per action.  Only the scan touches what Unaimed and            *)
(* BeamComplete speak of; only orders and a rotation scan touch the lock   *)
(* and the goal.                                                           *)
LEMMA StepInv == Inv /\ [Next]_vars => Inv'
  <1>. SUFFICES ASSUME Inv, [Next]_vars PROVE Inv'
    OBVIOUS
  <1>0. TypeOK /\ HalfOrder /\ LockedOut /\ LockKept /\ Unaimed /\ BeamComplete
    BY DEF Inv
  <1>. USE DEF Inv
  <1>beam. UNCHANGED scanVars => Unaimed' /\ BeamComplete'
    BY <1>0 DEF scanVars, Unaimed, BeamComplete, InCutReach
  <1>1. CASE ReceivePlot
    <2>0. PICK k \in Ids, p \in Plots : incoming' = [id |-> k, plot |-> p]
      BY <1>1 DEF ReceivePlot
    <2>1. TypeOK'
      BY <1>0, <1>1, <2>0, PlotTypes, RadarAssumption
      DEF ReceivePlot, TypeOK, lcVars, scanVars
    <2>2. HalfOrder' /\ LockedOut' /\ LockKept'
      BY <1>0, <1>1 DEF ReceivePlot, lcVars, scanVars, HalfOrder, LockedOut, LockKept
    <2>. QED
      BY <1>1, <1>beam, <2>1, <2>2 DEF ReceivePlot
  <1>2. CASE StorePlot
    <2>1. TypeOK'
      BY <1>0, <1>2, PlotTypes DEF StorePlot, TypeOK, NoPlot, lcVars, scanVars
    <2>2. HalfOrder' /\ LockedOut' /\ LockKept'
      BY <1>0, <1>2 DEF StorePlot, lcVars, scanVars, HalfOrder, LockedOut, LockKept
    <2>. QED
      BY <1>2, <1>beam, <2>1, <2>2 DEF StorePlot
  <1>3. CASE OrderRotation
    <2>1. TypeOK'
      BY <1>0, <1>3, RadarAssumption DEF OrderRotation, TypeOK, simVars, scanVars
    <2>2. HalfOrder' /\ LockedOut' /\ LockKept'
      BY <1>0, <1>3 DEF OrderRotation, scanVars, HalfOrder, LockedOut, LockKept
    <2>. QED
      BY <1>3, <1>beam, <2>1, <2>2 DEF OrderRotation
  <1>4. CASE OrderPriority
    <2>1. TypeOK'
      BY <1>0, <1>4, RadarAssumption DEF OrderPriority, TypeOK, simVars, scanVars
    <2>2. HalfOrder' /\ LockedOut' /\ LockKept'
      BY <1>0, <1>4 DEF OrderPriority, scanVars, HalfOrder, LockedOut, LockKept
    <2>. QED
      BY <1>4, <1>beam, <2>1, <2>2 DEF OrderPriority
  <1>5. CASE OrderTarget
    <2>1. TypeOK'
      BY <1>0, <1>5, RadarAssumption DEF OrderTarget, TypeOK, simVars, scanVars, Ids
    <2>2. HalfOrder' /\ LockedOut' /\ LockKept'
      BY <1>0, <1>5 DEF OrderTarget, scanVars, HalfOrder, LockedOut, LockKept
    <2>. QED
      BY <1>5, <1>beam, <2>1, <2>2 DEF OrderTarget
  <1>6. CASE SetGoal
    <2>1. TypeOK'
      BY <1>0, <1>6 DEF SetGoal, TypeOK, simVars, scanVars
    <2>2. HalfOrder' /\ LockedOut' /\ LockKept'
      BY <1>0, <1>6 DEF SetGoal, scanVars, HalfOrder, LockedOut, LockKept
    <2>. QED
      BY <1>6, <1>beam, <2>1, <2>2 DEF SetGoal
  <1>7. CASE CopyTargets
    <2>1. seen' \in [Ids -> PlotType] /\ scan' \in {"missiles", "crashed"}
      BY <1>0, <1>7, CopyKeepsType DEF CopyTargets
    <2>2. TypeOK'
      BY <1>0, <1>7, <2>1 DEF CopyTargets, TypeOK, simVars, lcVars
    <2>3. HalfOrder' /\ LockedOut' /\ LockKept'
      BY <1>0, <1>7, <2>1 DEF CopyTargets, lcVars, HalfOrder, LockedOut, LockKept
    <2>. QED
      BY <1>0, <1>7, <2>1, <2>2, <2>3 DEF CopyTargets, Unaimed, BeamComplete
  <1>8. CASE CopyMissiles
    <2>1. seen' \in [Ids -> PlotType] /\ scan' \in {"mode", "crashed"}
      BY <1>0, <1>8, CopyKeepsType DEF CopyMissiles
    <2>2. TypeOK'
      BY <1>0, <1>8, <2>1, RadarAssumption DEF CopyMissiles, TypeOK, simVars, lcVars
    <2>3. HalfOrder' /\ LockedOut' /\ LockKept'
      BY <1>0, <1>8, <2>1 DEF CopyMissiles, lcVars, HalfOrder, LockedOut, LockKept
    <2>. QED
      BY <1>0, <1>8, <2>1, <2>2, <2>3 DEF CopyMissiles, Unaimed, BeamComplete
  <1>9. CASE ReadMode
    <2>1. TypeOK'
      BY <1>0, <1>9 DEF ReadMode, TypeOK, simVars, lcVars
    <2>2. HalfOrder' /\ LockedOut' /\ LockKept'
      BY <1>0, <1>9 DEF ReadMode, lcVars, HalfOrder, LockedOut, LockKept
    <2>3. Unaimed' /\ BeamComplete'
      BY <1>0, <1>9 DEF ReadMode, Unaimed, BeamComplete
    <2>. QED
      BY <2>1, <2>2, <2>3
  <1>10. CASE ReadModeAgain
    <2>1. TypeOK'
      BY <1>0, <1>10 DEF ReadModeAgain, TypeOK, simVars, lcVars
    <2>2. HalfOrder' /\ LockedOut' /\ LockKept'
      BY <1>0, <1>10 DEF ReadModeAgain, lcVars, HalfOrder, LockedOut, LockKept
    <2>3. Unaimed' /\ BeamComplete'
      BY <1>0, <1>10 DEF ReadModeAgain, Unaimed, BeamComplete
    <2>. QED
      BY <2>1, <2>2, <2>3
  <1>11. CASE Rotate
    <2>1. goal' = goal \/ goal' \in TargetIds
      BY <1>11 DEF Rotate, Nearest
    <2>2. report' \subseteq Ids /\ scan' \in {"send", "crashed"}
      BY <1>11 DEF Rotate, Alive, Ids
    <2>3. TypeOK'
      BY <1>0, <1>11, <2>1, <2>2, RadarAssumption
      DEF Rotate, TypeOK, simVars, lcVars, Ids
    <2>4. HalfOrder' /\ LockedOut' /\ LockKept'
      BY <1>0, <1>11 DEF Rotate, lcVars, HalfOrder, LockedOut, LockKept
    <2>5. Unaimed' /\ BeamComplete'
      BY <1>0, <1>11 DEF Rotate, Unaimed, BeamComplete
    <2>. QED
      BY <2>3, <2>4, <2>5
  <1>12. CASE FindGoal
    <2>1. TypeOK'
      BY <1>0, <1>12, RadarAssumption DEF FindGoal, TypeOK, simVars, lcVars, Ids
    <2>2. HalfOrder' /\ LockedOut' /\ LockKept'
      BY <1>0, <1>12 DEF FindGoal, lcVars, HalfOrder, LockedOut, LockKept
    <2>3. Unaimed' /\ BeamComplete'
      BY <1>0, <1>12 DEF FindGoal, Unaimed, BeamComplete
    <2>. QED
      BY <2>1, <2>2, <2>3
  <1>13. CASE PointBeam
    <2>1. goal \in Ids
      BY <1>0, <1>13 DEF PointBeam, TypeOK, Ids
    <2>2. seen' \in [Ids -> PlotType]
      BY <1>0, <1>13, PlotTypes DEF PointBeam, TypeOK
    <2>3. \A k \in Ids : seen'[k].bearing \in 0..Circle - 1
      BY <2>2 DEF PlotType
    <2>4. aim' \in 0..Circle - 1
      BY <1>13, <2>1, <2>3 DEF PointBeam
    <2>5. TypeOK'
      BY <1>0, <1>13, <2>2, <2>4, RadarAssumption
      DEF PointBeam, TypeOK, Beamed, simVars, lcVars
    <2>6. HalfOrder' /\ LockedOut' /\ LockKept'
      BY <1>0, <1>13 DEF PointBeam, lcVars, HalfOrder, LockedOut, LockKept
    <2>7. \A k \in Ids : InBeam(aim', seen'[k].bearing)
             <=> \E d \in -Beam..Beam : seen'[k].bearing = (aim' + d) % Circle
      BY <2>3, <2>4, Wrap
    <2>8. report' = {k \in Ids : /\ InCutReach(seen'[k])
                                 /\ \E d \in -Beam..Beam :
                                      seen'[k].bearing = (aim' + d) % Circle}
      <3>1. report' = {k \in Ids : InCutReach(seen'[k]) /\ InBeam(aim', seen'[k].bearing)}
        BY <1>13 DEF PointBeam, Beamed
      <3>. QED
        BY <2>7, <3>1, Zenon
    <2>9. Unaimed' /\ BeamComplete'
      BY <1>13, <2>8 DEF PointBeam, Unaimed, BeamComplete, InCutReach
    <2>. QED
      BY <2>5, <2>6, <2>9
  <1>14. CASE SendReport
    <2>1. TypeOK'
      BY <1>0, <1>14 DEF SendReport, TypeOK, simVars, lcVars
    <2>2. HalfOrder' /\ LockedOut' /\ LockKept'
      BY <1>0, <1>14 DEF SendReport, lcVars, HalfOrder, LockedOut, LockKept
    <2>3. Unaimed' /\ BeamComplete'
      BY <1>14 DEF SendReport, Unaimed, BeamComplete
    <2>. QED
      BY <2>1, <2>2, <2>3
  <1>15. CASE StoreDetected
    <2>1. TypeOK'
      BY <1>0, <1>15, PlotTypes, RadarAssumption
      DEF StoreDetected, TypeOK, simVars, lcVars
    <2>2. HalfOrder' /\ LockedOut' /\ LockKept'
      BY <1>0, <1>15 DEF StoreDetected, lcVars, HalfOrder, LockedOut, LockKept
    <2>3. Unaimed' /\ BeamComplete'
      BY <1>15 DEF StoreDetected, Unaimed, BeamComplete
    <2>. QED
      BY <2>1, <2>2, <2>3
  <1>16. CASE UNCHANGED vars
    <2>1. TypeOK'
      BY <1>0, <1>16 DEF vars, TypeOK, simVars, lcVars, scanVars
    <2>2. HalfOrder' /\ LockedOut' /\ LockKept'
      BY <1>0, <1>16 DEF vars, lcVars, scanVars, HalfOrder, LockedOut, LockKept
    <2>. QED
      BY <1>16, <1>beam, <2>1, <2>2 DEF vars
  <1>. QED
    BY <1>1, <1>2, <1>3, <1>4, <1>5, <1>6, <1>7, <1>8, <1>9, <1>10, <1>11,
       <1>12, <1>13, <1>14, <1>15, <1>16 DEF Next, LcStep, ScanStep

-----------------------------------------------------------------------------
(* The inductive invariant holds in every reachable state. *)
THEOREM Invariance == Spec => []Inv
  BY InitInv, StepInv, PTL DEF Spec

(* Every variable of the radar keeps its type, whatever the threads do to  *)
(* each other's maps.                                                      *)
THEOREM TypeCorrect == Spec => []TypeOK
  <1>1. Inv => TypeOK
    BY DEF Inv
  <1>. QED
    BY Invariance, <1>1, PTL

(* A goal ordered while no rotation scan was under way stays the goal      *)
(* until the next order.                                                   *)
THEOREM Locked == Spec => []LockKept
  <1>1. Inv => LockKept
    BY DEF Inv
  <1>. QED
    BY Invariance, <1>1, PTL

(* An angle report lists whatever is in reach and within the beam, on      *)
(* either side of north, for every beam narrower than half a turn.         *)
THEOREM WholeBeam == Spec => []BeamComplete
  <1>1. Inv => BeamComplete
    BY DEF Inv
  <1>. QED
    BY Invariance, <1>1, PTL
=============================================================================
