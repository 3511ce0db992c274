----------------------- MODULE LaunchControllerProofs -----------------------
(***************************************************************************)
(* Proofs about the launch controller, for all sets of ids and places, all *)
(* tracks and all bounds.                                                  *)
(***************************************************************************)
EXTENDS LaunchController, TLAPS

(* What the proofs need to know besides the properties.  Nothing is in the *)
(* target list before a radar was accepted; a fire in progress has a real  *)
(* target, and past its order the lock is on it, and so is the last order  *)
(* sent to the radar unless that is gone; the targets are those of the     *)
(* last detection; what is to be deleted was hit in the copy of the        *)
(* status.                                                                 *)
TargetsNeedRadar == targets # {} => mfr # "accept"

FireInProgress ==
    /\ ecc \in {"order", "launch"} => mfr # "accept" /\ goal \in Target
    /\ ecc = "launch" =>
          /\ locked = goal.id
          /\ \/ radarOrder = [mode |-> "STOP", target |-> goal.id]
             \/ mfr = "gone"

LastDetection == targetsFrom = detections

DoomedWasHit ==
    ecc = "delete" =>
        doomed \subseteq Hits(snapshot.missiles) \cup Hits(snapshot.targets)

(* The inductive invariant. *)
Inv ==
    /\ TypeOK
    /\ TargetsNeedRadar
    /\ FireInProgress
    /\ LastDetection
    /\ PictureSkew
    /\ DoomedWasHit
    /\ NothingVanishes

-----------------------------------------------------------------------------
(* The ids of a set of targets are target ids, those of missiles are not.  *)
LEMMA IdTypes ==
    /\ \A S \in SUBSET Target : /\ Ids(S) \subseteq TargetIds
                                /\ Hits(S) \subseteq TargetIds
    /\ \A S \in SUBSET Missile : Hits(S) \subseteq MissileIds
  BY DEF Ids, Hits, Target, Missile

(* The status as a record and as variables. *)
LEMMA StatusFields ==
    /\ Status \in StatusType <=>
          /\ targets \in SUBSET Target
          /\ missiles \in SUBSET Missile
          /\ ls \in Places
          /\ targetsFrom \in 0..MaxDetections
          /\ missilesFrom \in 0..MaxDetections
    /\ Status.targets = targets
    /\ Status.missiles = missiles
    /\ Status.targetsFrom = targetsFrom
    /\ Status.missilesFrom = missilesFrom
  BY DEF Status, StatusType

LEMMA SelectedType ==
    ASSUME NEW s \in StatusType, NEW id, NEW t \in Selected(s, id)
    PROVE  t \in s.targets /\ t \in Target
  BY DEF Selected, StatusType

-----------------------------------------------------------------------------
LEMMA TypeStep ==
    ASSUME TypeOK, FireInProgress, [Next]_vars
    PROVE  TypeOK'
<1> USE DEF TypeOK, Status, StatusType
<1>1. CASE StartMFR \/ StartLS
  BY <1>1 DEF StartMFR, StartLS, statusVars, eccVars, mfrVars, outVars
<1>2. CASE AcceptRadar \/ LoseRadar
  BY <1>2 DEF AcceptRadar, LoseRadar, statusVars, eccVars, outVars
<1>13. CASE DetectTargets
  BY <1>13, LaunchControllerAssumption DEF DetectTargets, eccVars, outVars
<1>3. CASE DetectMissiles
  BY <1>3 DEF DetectMissiles, eccVars, outVars
<1>4. CASE ReportLauncher
  BY <1>4 DEF ReportLauncher, eccVars, mfrVars, outVars
<1>5. CASE SetRadarMode
  BY <1>5, LaunchControllerAssumption DEF SetRadarMode, SentTo, statusVars, mfrVars
<1>6. CASE BeginFire
  <2>1. commands' \in 0..MaxCommands
    BY <1>6, LaunchControllerAssumption DEF BeginFire
  <2>2. goal' \in Target \cup {NoTarget} /\ ecc' \in {"recv", "order"}
    BY <1>6, SelectedType DEF BeginFire
  <2> QED
    BY <1>6, <2>1, <2>2 DEF BeginFire, statusVars, mfrVars, outVars
<1>7. CASE OrderRadar
  BY <1>7 DEF OrderRadar, SentTo, FireInProgress, Target, Modes, statusVars, mfrVars
<1>8. CASE OrderLaunch
  <2>1. goal.id \in TargetIds
    BY <1>8 DEF OrderLaunch, FireInProgress, Target
  <2> DEFINE Fire == [target : TargetIds, solved : BOOLEAN]
  <2>2. PICK solved \in BOOLEAN :
            \/ fires' = Append(fires, [target |-> goal.id, solved |-> solved])
            \/ fires' = fires
    BY <1>8 DEF OrderLaunch
  <2>3. [target |-> goal.id, solved |-> solved] \in Fire
    BY <2>1
  <2>4. fires \in Seq(Fire)
    OBVIOUS
  <2>5. fires' \in Seq(Fire)
    <3> HIDE DEF Fire, TypeOK
    <3> QED
      BY <2>2, <2>3, <2>4
  <2> QED
    BY <1>8, <2>5 DEF OrderLaunch, statusVars, mfrVars
<1>9. CASE BeginStatus
  <2>1. commands' \in 0..MaxCommands
    BY <1>9, LaunchControllerAssumption DEF BeginStatus
  <2>2. doomed' \subseteq TargetIds \cup MissileIds
    BY <1>9, IdTypes DEF BeginStatus
  <2> QED
    BY <1>9, <2>1, <2>2 DEF BeginStatus, statusVars, mfrVars, outVars
<1>10. CASE DeleteTarget
  <2>1. deleted' \subseteq TargetIds
    BY <1>10, IdTypes DEF DeleteTarget
  <2> QED
    BY <1>10, <2>1 DEF DeleteTarget, mfrVars
<1>11. CASE SendStatus
  <2>1. reported' \subseteq TargetIds /\ unsent' \subseteq TargetIds
    BY <1>11, IdTypes DEF SendStatus
  <2> QED
    BY <1>11, <2>1 DEF SendStatus, statusVars, mfrVars
<1>12. CASE UNCHANGED vars
  BY <1>12 DEF vars, statusVars, eccVars, mfrVars, outVars
<1> QED
  BY <1>1, <1>2, <1>3, <1>4, <1>5, <1>6, <1>7, <1>8, <1>9, <1>10, <1>11, <1>12,
     <1>13
  DEF Next, RadarStep, EccStep

-----------------------------------------------------------------------------
(* No target is listed before the sender exists, and it is never removed.  *)
LEMMA RadarKept ==
    ASSUME TypeOK, TargetsNeedRadar, [Next]_vars
    PROVE  TargetsNeedRadar' /\ (mfr # "accept" => mfr' # "accept")
<1> USE DEF TargetsNeedRadar
<1>1. CASE StartMFR \/ StartLS \/ AcceptRadar \/ LoseRadar
  BY <1>1 DEF StartMFR, StartLS, AcceptRadar, LoseRadar, statusVars, mfrVars
<1>2. CASE DetectTargets \/ DetectMissiles \/ ReportLauncher
  BY <1>2 DEF DetectTargets, DetectMissiles, ReportLauncher, mfrVars
<1>3. CASE SetRadarMode \/ BeginFire \/ OrderRadar \/ OrderLaunch
  BY <1>3 DEF SetRadarMode, BeginFire, OrderRadar, OrderLaunch, statusVars, mfrVars
<1>4. CASE BeginStatus \/ DeleteTarget \/ SendStatus
  BY <1>4 DEF BeginStatus, DeleteTarget, SendStatus, statusVars, mfrVars
<1>5. CASE UNCHANGED vars
  BY <1>5 DEF vars, statusVars, mfrVars
<1> QED
  BY <1>1, <1>2, <1>3, <1>4, <1>5 DEF Next, RadarStep, EccStep

(* A fire starts from a listed target, hence with a radar; OrderRadar puts *)
(* the lock and the last order sent to the radar on it.                    *)
LEMMA FireStep ==
    ASSUME TypeOK, TargetsNeedRadar, FireInProgress, [Next]_vars
    PROVE  FireInProgress'
<1> USE DEF FireInProgress
<1>0. mfr # "accept" => mfr' # "accept"
  BY RadarKept
<1>1. CASE StartMFR \/ StartLS \/ AcceptRadar \/ LoseRadar
  BY <1>0, <1>1 DEF StartMFR, StartLS, AcceptRadar, LoseRadar, eccVars, mfrVars,
                    outVars
<1>2. CASE DetectTargets \/ DetectMissiles \/ ReportLauncher
  BY <1>0, <1>2 DEF DetectTargets, DetectMissiles, ReportLauncher, eccVars,
                    mfrVars, outVars
<1>3. CASE BeginFire
  <2>1. CASE ecc' = "order" /\ ecc' # ecc
    <3>1. PICK id \in TargetIds \cup {0} : goal' \in Selected(Status, id)
      BY <1>3, <2>1 DEF BeginFire
    <3>2. Status \in StatusType
      BY DEF TypeOK
    <3>3. goal' \in targets /\ goal' \in Target
      BY <3>1, <3>2, SelectedType, StatusFields
    <3> QED
      BY <1>0, <2>1, <3>3 DEF TargetsNeedRadar
  <2>2. CASE ecc' = "recv"
    BY <2>2
  <2> QED
    BY <1>3, <2>1, <2>2 DEF BeginFire
<1>4. CASE OrderRadar
  BY <1>0, <1>4 DEF OrderRadar, SentTo, RadarConnected, TypeOK, mfrVars
<1>5. CASE SetRadarMode \/ OrderLaunch \/ SendStatus
  BY <1>5 DEF SetRadarMode, SentTo, OrderLaunch, SendStatus
<1>6. CASE BeginStatus \/ DeleteTarget
  BY <1>6 DEF BeginStatus, DeleteTarget
<1>7. CASE UNCHANGED vars
  BY <1>0, <1>7 DEF vars, eccVars, mfrVars, outVars
<1> QED
  BY <1>1, <1>2, <1>3, <1>4, <1>5, <1>6, <1>7 DEF Next, RadarStep, EccStep

(* Only the two halves of a detection change the picture; a copy of it     *)
(* inherits its skew.                                                      *)
LEMMA PictureStep ==
    ASSUME TypeOK, LastDetection, PictureSkew, [Next]_vars
    PROVE  LastDetection' /\ PictureSkew'
<1> USE DEF LastDetection, PictureSkew
<1>0. detections \in Int /\ targetsFrom \in Int /\ missilesFrom \in Int
  BY StatusFields DEF TypeOK
<1>1. CASE StartMFR \/ StartLS \/ AcceptRadar \/ LoseRadar
  BY <1>1 DEF StartMFR, StartLS, AcceptRadar, LoseRadar, statusVars, eccVars, mfrVars
<1>2. CASE DetectTargets
  BY <1>0, <1>2 DEF DetectTargets, eccVars
<1>3. CASE DetectMissiles
  BY <1>0, <1>3 DEF DetectMissiles, eccVars
<1>4. CASE ReportLauncher
  BY <1>4 DEF ReportLauncher, eccVars, mfrVars
<1>5. CASE BeginFire \/ BeginStatus
  <2>1. /\ UNCHANGED <<targetsFrom, missilesFrom, mfr, detections>>
        /\ snapshot' = Status
    BY <1>5 DEF BeginFire, BeginStatus, statusVars, mfrVars
  <2> QED
    BY <2>1, StatusFields
<1>6. CASE SetRadarMode \/ OrderRadar \/ OrderLaunch
  BY <1>6 DEF SetRadarMode, OrderRadar, OrderLaunch, statusVars, mfrVars
<1>7. CASE DeleteTarget \/ SendStatus
  BY <1>7 DEF DeleteTarget, SendStatus, statusVars, mfrVars
<1>8. CASE UNCHANGED vars
  BY <1>8 DEF vars, statusVars, eccVars, mfrVars
<1> QED
  BY <1>1, <1>2, <1>3, <1>4, <1>5, <1>6, <1>7, <1>8 DEF Next, RadarStep, EccStep

(* What is still to be deleted was hit in the copy; hence so was what is   *)
(* deleted, and a target deleted is a target of the copy.                  *)
LEMMA DeleteStep ==
    ASSUME TypeOK, DoomedWasHit, NothingVanishes, [Next]_vars
    PROVE  DoomedWasHit' /\ NothingVanishes'
<1> USE DEF DoomedWasHit, NothingVanishes
<1>1. CASE StartMFR \/ StartLS \/ AcceptRadar \/ LoseRadar
  BY <1>1 DEF StartMFR, StartLS, AcceptRadar, LoseRadar, eccVars, outVars
<1>2. CASE DetectTargets \/ DetectMissiles \/ ReportLauncher
  BY <1>2 DEF DetectTargets, DetectMissiles, ReportLauncher, eccVars, outVars
<1>3. CASE BeginFire
  <2>1. ecc' \in {"recv", "order"} /\ UNCHANGED <<deleted, reported, unsent>>
    BY <1>3 DEF BeginFire, outVars
  <2> QED
    BY <1>3, <2>1 DEF BeginFire
<1>4. CASE SetRadarMode \/ OrderRadar \/ OrderLaunch
  BY <1>4 DEF SetRadarMode, OrderRadar, SentTo, OrderLaunch
<1>5. CASE BeginStatus
  <2>1. doomed' = Hits(snapshot'.missiles) \cup Hits(snapshot'.targets)
    BY <1>5, StatusFields DEF BeginStatus
  <2>2. deleted \subseteq reported \cup unsent
    BY <1>5 DEF BeginStatus
  <2> QED
    BY <1>5, <2>1, <2>2 DEF BeginStatus, outVars
<1>6. CASE DeleteTarget
  <2>1. PICK id \in doomed :
            /\ doomed' = doomed \ {id}
            /\ targets' = {t \in targets : t.id # id}
            /\ deleted' = deleted \cup (Ids(targets) \cap {id})
    BY <1>6 DEF DeleteTarget
  <2>2. /\ ecc = "delete"
        /\ UNCHANGED <<ecc, snapshot, reported, unsent>>
    BY <1>6 DEF DeleteTarget
  <2>3. DoomedWasHit'
    BY <2>1, <2>2
  <2>4. Ids(targets) \cap {id} \subseteq Hits(snapshot.targets)
    <3>1. /\ Ids(targets) \subseteq TargetIds
          /\ Hits(snapshot.missiles) \subseteq MissileIds
      BY IdTypes, StatusFields DEF TypeOK, StatusType
    <3> QED
      BY <2>1, <2>2, <3>1, LaunchControllerAssumption
  <2> QED
    BY <2>1, <2>2, <2>3, <2>4
<1>7. CASE SendStatus
  BY <1>7 DEF SendStatus
<1>8. CASE UNCHANGED vars
  BY <1>8 DEF vars, eccVars, outVars
<1> QED
  BY <1>1, <1>2, <1>3, <1>4, <1>5, <1>6, <1>7, <1>8 DEF Next, RadarStep, EccStep

-----------------------------------------------------------------------------
THEOREM Initially == Init => Inv
<1> SUFFICES ASSUME Init PROVE Inv
  OBVIOUS
<1>1. Status \in StatusType
  BY StatusFields, LaunchControllerAssumption DEF Init
<1>2. TypeOK
  BY <1>1, LaunchControllerAssumption DEF Init, TypeOK
<1>3. TargetsNeedRadar /\ FireInProgress /\ LastDetection /\ DoomedWasHit
  BY DEF Init, TargetsNeedRadar, FireInProgress, LastDetection, DoomedWasHit
<1>4. PictureSkew /\ NothingVanishes
  BY StatusFields DEF Init, PictureSkew, NothingVanishes
<1> QED
  BY <1>2, <1>3, <1>4 DEF Inv

(* The invariant holds of every reachable state, whatever the ids, places, *)
(* tracks and bounds.                                                      *)
THEOREM Invariance == Spec => []Inv
<1>1. Init => Inv
  BY Initially
<1>2. Inv /\ [Next]_vars => Inv'
  BY TypeStep, RadarKept, FireStep, PictureStep, DeleteStep DEF Inv
<1> QED
  BY <1>1, <1>2, PTL DEF Spec

(* Every variable keeps its type: a fire never reaches the launcher        *)
(* without a target that was listed.                                       *)
THEOREM TypeCorrect == Spec => []TypeOK
  BY Invariance, PTL DEF Inv

(* The lists of targets and missiles are at most one detection apart, in   *)
(* the shared status and in every copy taken of it.                        *)
THEOREM Skew == Spec => []PictureSkew
  BY Invariance, PTL DEF Inv

(* No target leaves the list through sendStatus that does not stand as hit *)
(* in the very status sendStatus goes on to send.                          *)
THEOREM Reported == Spec => []NothingVanishes
  BY Invariance, PTL DEF Inv

(* A launch command follows the lock on its target and, unless the radar   *)
(* is gone, the sending of the order that stops the radar on it.  That the *)
(* radar obeyed is not claimed.                                            *)
THEOREM LockFirst == Spec => LaunchFollowsLock
<1> DEFINE Followed(target) ==
      /\ locked = target
      /\ \/ radarOrder = [mode |-> "STOP", target |-> target]
         \/ mfr = "gone"
<1>1. Inv /\ [Next]_vars => [fires' # fires => Followed(fires'[Len(fires')].target)]_vars
  <2> SUFFICES ASSUME Inv, [Next]_vars, fires' # fires
               PROVE  Followed(fires'[Len(fires')].target)
    OBVIOUS
  <2>1. OrderLaunch
    BY DEF Next, RadarStep, EccStep, vars, outVars, StartMFR, StartLS, AcceptRadar, LoseRadar,
           DetectTargets, DetectMissiles, ReportLauncher, SetRadarMode, BeginFire,
           OrderRadar, BeginStatus, DeleteTarget, SendStatus
  <2>2. PICK solved \in BOOLEAN :
            fires' = Append(fires, [target |-> goal.id, solved |-> solved])
    BY <2>1 DEF OrderLaunch
  <2>3. fires \in Seq([target : TargetIds, solved : BOOLEAN])
    BY DEF Inv, TypeOK
  <2>4. fires'[Len(fires')] = [target |-> goal.id, solved |-> solved]
    <3> DEFINE F == [target : TargetIds, solved : BOOLEAN]
    <3>1. goal.id \in TargetIds
      BY <2>1 DEF OrderLaunch, Inv, FireInProgress, Target
    <3>2. [target |-> goal.id, solved |-> solved] \in F
      BY <3>1
    <3> QED
      BY <2>2, <2>3, <3>2
  <2>5. Followed(goal.id)
    BY <2>1 DEF OrderLaunch, Inv, FireInProgress
  <2> QED
    BY <2>4, <2>5
<1> QED
  BY <1>1, Invariance, PTL DEF Spec, LaunchFollowsLock
=============================================================================
