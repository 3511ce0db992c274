-------------------------- MODULE EngagementProofs --------------------------
(***************************************************************************)
(* For every set of targets, every shape of the beam, any number of orders *)
(* and streams of any length: no packet names an order that was not sent,  *)
(* and the target the radar was stopped on is in every list the controller *)
(* gets of it.                                                             *)
(***************************************************************************)
EXTENDS Engagement, TLAPS

\* A radar locked on a target points at it and turns no more.
Pointed ==
    locked # NoTarget => mode = "ANGLE" /\ goal = locked /\ scan = "idle"

\* A detection made while locked on a target shows it.
Honest(r) ==
    r.type = "detection" /\ r.lock # NoTarget => r.lock \in r.targets

HonestReports == {r \in Report : Honest(r)}

IInv ==
    /\ TypeOK /\ LockedIsListed
    /\ Pointed
    /\ reports \in Seq(HonestReports)

-----------------------------------------------------------------------------
\* A read leaves packets of the same kind and finds one at the head.
LEMMA AfterRead ==
    ASSUME NEW S, NEW s \in Seq(S), NEW k \in 1..Len(s)
    PROVE  After(s, k) \in Seq(S) /\ s[1] \in S
  BY DEF After

LEMMA Widen ==
    ASSUME NEW S, NEW T, S \subseteq T, NEW s \in Seq(S)
    PROVE  s \in Seq(T)
<1>1. Len(s) \in Nat /\ s \in [1..Len(s) -> S]
  OBVIOUS
<1>2. s \in [1..Len(s) -> T]
  BY <1>1
<1>. QED  BY <1>1, <1>2

\* What was a packet stays one when another order is sent.
LEMMA PacketsStay ==
    ASSUME TypeOK, sent' = sent + 1
    PROVE  Packet \subseteq Packet'
<1>1. 1..sent \subseteq 1..(sent + 1)
  BY DEF TypeOK
<1>. QED  BY <1>1 DEF Packet

\* A packet at the head is a mode order only with the number of one sent.
LEMMA ModePacket ==
    ASSUME NEW p \in Packet, p.type = "mode"
    PROVE  /\ p.number \in 1..sent /\ p.mode \in Modes /\ p.target \in Ids
           /\ p.addressed \in BOOLEAN
  BY DEF Packet

LEMMA HiddenWereSent ==
    ASSUME TypeOK, NEW k \in 1..Len(orders)
    PROVE  Hidden(k) \subseteq 1..sent
<1>1. ASSUME NEW j \in 2..k, orders[j].type = "mode"
      PROVE  orders[j].number \in 1..sent
  <2>1. orders[j] \in Packet
    BY DEF TypeOK
  <2>. QED  BY <1>1, <2>1, ModePacket
<1>. QED  BY <1>1 DEF Hidden

LEMMA SubsetHonest == HonestReports \subseteq Report
  BY DEF HonestReports

\* A report that tells the truth about the lock can be appended.
LEMMA Reported ==
    ASSUME IInv, NEW T \in SUBSET Targets,
           locked # NoTarget => locked \in T,
           reports' = Append(reports, Detection(T))
    PROVE  reports' \in Seq(HonestReports) /\ reports' \in Seq(Report)
<1>1. Detection(T) \in Report
  <2>1. T \in SUBSET Targets /\ locked \in Ids
    BY DEF IInv, TypeOK
  <2>. QED  BY <2>1 DEF Detection, Report
<1>2. Honest(Detection(T))
  BY DEF Honest, Detection
<1>3. Detection(T) \in HonestReports
  BY <1>1, <1>2 DEF HonestReports
<1>4. reports' \in Seq(HonestReports)
  BY <1>3 DEF IInv
<1>. QED  BY <1>4, Widen, SubsetHonest

-----------------------------------------------------------------------------
LEMMA InitIInv == Init => IInv
<1>. SUFFICES ASSUME Init PROVE IInv
  OBVIOUS
<1>1. TypeOK
  <2>1. reports \in Seq(Report)
    BY DEF Init, Report
  <2>2. orders \in Seq(Packet) /\ 0 \in 0..MaxOrders
    BY EngagementAssumption DEF Init
  <2>3. void \subseteq 1..sent
    BY DEF Init
  <2>4. sent \in 0..MaxOrders /\ obeyed \in 0..sent
    BY EngagementAssumption DEF Init
  <2>. QED  BY <2>1, <2>2, <2>3, <2>4 DEF Init, TypeOK, Modes, Ids
<1>2. reports \in Seq(HonestReports)
  <2>1. [type |-> "position"] \in HonestReports
    BY DEF HonestReports, Report, Honest
  <2>. QED  BY <2>1 DEF Init
<1>. QED  BY <1>1, <1>2 DEF Init, IInv, LockedIsListed, Pointed

LEMMA PlotStep == IInv /\ Plot => IInv'
  BY DEF IInv, Plot, TypeOK, LockedIsListed, Pointed, radarVars, lcVars, Report,
         Packet, HonestReports, Honest

LEMMA HitStep == IInv /\ Hit => IInv'
  BY DEF IInv, Hit, Living, TypeOK, LockedIsListed, Pointed, radarVars, lcVars,
         Report, Packet, HonestReports, Honest

LEMMA BeginRotationScanStep == IInv /\ BeginRotationScan => IInv'
<1>. SUFFICES ASSUME IInv, BeginRotationScan PROVE IInv'
  OBVIOUS
<1>1. locked = NoTarget
  BY DEF IInv, Pointed, BeginRotationScan
<1>2. Living \subseteq Targets
  BY DEF IInv, TypeOK, Living
<1>. QED
  BY <1>1, <1>2 DEF IInv, BeginRotationScan, TypeOK, LockedIsListed, Pointed,
     simVars, lcVars, Report, Packet, HonestReports, Honest

LEMMA EndRotationScanStep == IInv /\ EndRotationScan => IInv'
<1>. SUFFICES ASSUME IInv, EndRotationScan PROVE IInv'
  OBVIOUS
<1>1. locked = NoTarget
  BY DEF IInv, Pointed, EndRotationScan
<1>2. goal' \in Ids
  BY DEF IInv, TypeOK, EndRotationScan, Ids
<1>3. reports' \in Seq(HonestReports) /\ reports' \in Seq(Report)
  <2>1. CASE UNCHANGED reports
    BY <2>1 DEF IInv, TypeOK
  <2>2. CASE goal' \in seen /\ reports' = Append(reports, Detection(seen))
    BY <1>1, <2>2, Reported DEF IInv, TypeOK
  <2>3. CASE reports' = Append(reports, Detection({}))
    BY <1>1, <2>3, Reported
  <2>. QED  BY <2>1, <2>2, <2>3 DEF EndRotationScan
<1>. QED
  BY <1>1, <1>2, <1>3 DEF IInv, EndRotationScan, TypeOK, LockedIsListed, Pointed,
     simVars, lcVars, Report, Packet, HonestReports, Honest

LEMMA AngleScanStep == IInv /\ AngleScan => IInv'
<1>. SUFFICES ASSUME IInv, AngleScan PROVE IInv'
  OBVIOUS
<1>1. goal \in Beam[goal] \cap plotted /\ Beam[goal] \cap plotted \subseteq Targets
  BY EngagementAssumption DEF IInv, TypeOK, AngleScan
<1>2. locked # NoTarget => locked \in Beam[goal] \cap plotted
  BY <1>1 DEF IInv, Pointed
<1>3. reports' \in Seq(HonestReports) /\ reports' \in Seq(Report)
  BY <1>1, <1>2, Reported DEF AngleScan
<1>. QED
  BY <1>3 DEF IInv, AngleScan, TypeOK, LockedIsListed, Pointed, simVars, radarVars,
     lcVars, Report, Packet, HonestReports, Honest

LEMMA PollStep == IInv /\ Poll => IInv'
<1>. SUFFICES ASSUME IInv, Poll PROVE IInv'
  OBVIOUS
<1>1. [type |-> "poll"] \in Packet
  BY DEF Packet
<1>2. orders' \in Seq(Packet)
  BY <1>1 DEF IInv, TypeOK, Poll
<1>. QED
  BY <1>2 DEF IInv, Poll, TypeOK, LockedIsListed, Pointed, simVars, radarVars,
     lcVars, Report, Packet, HonestReports, Honest

LEMMA SendOrderStep ==
    ASSUME IInv, NEW m \in Modes, NEW id \in Ids, NEW addressed \in BOOLEAN,
           SendOrder(m, id, addressed)
    PROVE  IInv'
<1>1. sent' = sent + 1 /\ sent' \in 0..MaxOrders
  BY EngagementAssumption DEF IInv, TypeOK, SendOrder
<1>2. Packet \subseteq Packet'
  BY <1>1, PacketsStay DEF IInv
<1>3. orders \in Seq(Packet')
  BY <1>2, Widen DEF IInv, TypeOK
<1>4. [type |-> "mode", number |-> sent + 1, mode |-> m, target |-> id,
       addressed |-> addressed] \in Packet'
  <2>1. sent + 1 \in 1..sent'
    BY <1>1 DEF IInv, TypeOK
  <2>. QED  BY <2>1 DEF Packet, Modes, Ids
<1>5. orders' \in Seq(Packet')
  BY <1>3, <1>4 DEF SendOrder
<1>6. void' \subseteq 1..sent' /\ obeyed \in 0..sent'
  BY <1>1 DEF IInv, TypeOK, SendOrder
<1>. QED
  BY <1>1, <1>5, <1>6 DEF IInv, SendOrder, TypeOK, LockedIsListed, Pointed, simVars,
     radarVars, Report, HonestReports, Honest

LEMMA ReadOrdersStep == IInv /\ ReadOrders => IInv'
<1>. SUFFICES ASSUME IInv, ReadOrders PROVE IInv'
  OBVIOUS
<1>1. PICK k \in 1..Len(orders) :
         orders' = After(orders, k) /\ void' = void \cup Hidden(k)
  BY DEF ReadOrders
<1>2. orders' \in Seq(Packet) /\ orders[1] \in Packet
  BY <1>1, AfterRead DEF IInv, TypeOK
<1>3. void' \subseteq 1..sent
  BY <1>1, HiddenWereSent DEF IInv, TypeOK
<1>4. /\ mode' \in Modes /\ goal' \in Ids /\ locked' \in Ids /\ obeyed' \in 0..sent
      /\ Pointed'
      /\ reports' \in Seq(HonestReports) /\ reports' \in Seq(Report)
  <2>1. CASE orders[1].type = "poll" /\ SendMfrStatus
    <3>1. [type |-> "status"] \in HonestReports
      BY DEF HonestReports, Report, Honest
    <3>2. reports' \in Seq(HonestReports)
      BY <2>1, <3>1 DEF SendMfrStatus, IInv
    <3>3. reports' \in Seq(Report)
      BY <3>2, Widen, SubsetHonest
    <3>. QED
      BY <2>1, <3>2, <3>3 DEF SendMfrStatus, IInv, TypeOK, Pointed, ReadOrders
  <2>2. CASE orders[1].type = "mode" /\ ChangeMode(orders[1])
    <3>1. /\ orders[1].number \in 1..sent /\ orders[1].mode \in Modes
          /\ orders[1].target \in Ids
      BY <1>2, <2>2, ModePacket
    <3>2. scan' = scan /\ NoTarget \in Ids
      BY DEF ReadOrders, Ids
    <3>3. obeyed' \in 0..sent
      BY <2>2, <3>1 DEF ChangeMode, IInv, TypeOK
    <3>4. mode' \in Modes /\ goal' \in Ids /\ locked' \in Ids
      BY <2>2, <3>1, <3>2 DEF ChangeMode, IInv, TypeOK
    <3>5. Pointed'
      BY <2>2, <3>2 DEF ChangeMode, IInv, Pointed
    <3>. QED  BY <2>2, <3>3, <3>4, <3>5 DEF ChangeMode, IInv, TypeOK
  <2>3. CASE UNCHANGED <<mode, goal, locked, obeyed, reports>>
    BY <2>3 DEF IInv, TypeOK, Pointed, ReadOrders
  <2>. QED  BY <2>1, <2>2, <2>3 DEF ReadOrders
<1>5. TypeOK'
  BY <1>2, <1>3, <1>4 DEF IInv, TypeOK, ReadOrders, simVars, lcVars, Report, Packet
<1>6. LockedIsListed'
  BY DEF IInv, LockedIsListed, ReadOrders, lcVars
<1>. QED
  BY <1>4, <1>5, <1>6 DEF IInv, HonestReports, Report, Honest

LEMMA ReadReportsStep == IInv /\ ReadReports => IInv'
<1>. SUFFICES ASSUME IInv, ReadReports PROVE IInv'
  OBVIOUS
<1>1. PICK k \in 1..Len(reports) : reports' = After(reports, k)
  BY DEF ReadReports
<1>2. reports' \in Seq(HonestReports) /\ reports[1] \in HonestReports
  BY <1>1, AfterRead DEF IInv
<1>3. reports' \in Seq(Report) /\ reports[1] \in Report
  BY <1>2, Widen, SubsetHonest
<1>4. /\ known' \in BOOLEAN /\ picture' \subseteq Targets /\ pictureLock' \in Ids
      /\ LockedIsListed' /\ orders' \in Seq(Packet)
  <2>1. CASE reports[1].type = "status" /\ known' = TRUE
             /\ UNCHANGED <<picture, pictureLock, orders>>
    BY <2>1 DEF IInv, TypeOK, LockedIsListed
  <2>2. CASE /\ reports[1].type = "detection"
             /\ picture' = reports[1].targets /\ pictureLock' = reports[1].lock
             /\ UNCHANGED <<known, orders>>
    <3>1. reports[1].targets \subseteq Targets /\ reports[1].lock \in Ids
      BY <1>3, <2>2 DEF Report
    <3>2. Honest(reports[1])
      BY <1>2 DEF HonestReports
    <3>. QED  BY <2>2, <3>1, <3>2 DEF Honest, IInv, TypeOK, LockedIsListed
  <2>3. CASE orders' = Append(orders, [type |-> "position"])
             /\ UNCHANGED <<known, picture, pictureLock>>
    <3>1. [type |-> "position"] \in Packet
      BY DEF Packet
    <3>. QED  BY <2>3, <3>1 DEF IInv, TypeOK, LockedIsListed
  <2>. QED  BY <2>1, <2>2, <2>3 DEF ReadReports
<1>5. TypeOK'
  BY <1>3, <1>4 DEF IInv, TypeOK, ReadReports, simVars, radarVars, Report, Packet
<1>6. Pointed'
  BY DEF IInv, Pointed, ReadReports, radarVars
<1>. QED
  BY <1>2, <1>4, <1>5, <1>6 DEF IInv, HonestReports, Report, Honest

LEMMA NextIInv == IInv /\ [Next]_vars => IInv'
<1>. SUFFICES ASSUME IInv, [Next]_vars PROVE IInv'
  OBVIOUS
<1>1. CASE FireCommand
  BY <1>1, SendOrderStep DEF FireCommand, IInv, TypeOK, Modes, Ids
<1>2. CASE RadarCommand
  BY <1>2, SendOrderStep, EngagementAssumption DEF RadarCommand, Modes, Ids
<1>3. CASE UNCHANGED vars
  BY <1>3 DEF vars, simVars, radarVars, lcVars, IInv, TypeOK, LockedIsListed, Pointed,
     Report, Packet, HonestReports, Honest
<1>. QED
  BY <1>1, <1>2, <1>3, PlotStep, HitStep, BeginRotationScanStep, EndRotationScanStep,
     AngleScanStep, ReadOrdersStep, PollStep, ReadReportsStep DEF Next, Scan

(* The inductive invariant of the engagement. *)
THEOREM Invariance == Spec => []IInv
  BY InitIInv, NextIInv, PTL DEF Spec

(* Every variable keeps its type: an order carried out was sent, and       *)
(* nothing but targets is listed (Mfr::parsingModeChangeData,              *)
(* Mfr::mfrDetectionAlgo).                                                 *)
THEOREM TypeCorrect == Spec => []TypeOK
<1>1. IInv => TypeOK
  BY DEF IInv
<1>. QED  BY <1>1, Invariance, PTL

(* Whatever packets are lost between the radar and the controller, a list  *)
(* seen while the radar was stopped on an ordered target holds that target *)
(* (Mfr::mfrDetectionAlgo, LCManager::onRadarDetectionReceived).           *)
THEOREM Locked == Spec => []LockedIsListed
<1>1. IInv => LockedIsListed
  BY DEF IInv
<1>. QED  BY <1>1, Invariance, PTL

-----------------------------------------------------------------------------
(* The orders on their way to the radar. *)

\* Order n is on its way, with the radar's id.
Waits(n) ==
    \E p \in DOMAIN orders : /\ orders[p].type = "mode"
                             /\ orders[p].number = n /\ orders[p].addressed

\* The orders on their way are later than the last carried out, each later
\* than those before it.
Queued ==
    /\ \A p \in DOMAIN orders : orders[p].type = "mode" => orders[p].number > obeyed
    /\ \A p, q \in DOMAIN orders :
          p < q /\ orders[p].type = "mode" /\ orders[q].type = "mode"
              => orders[p].number < orders[q].number

Accounted == \A n \in 1..sent : n <= obeyed \/ n \in void \/ Waits(n)

\* A packet sent to the radar that is no order leaves what waits.
LEMMA OtherPacket ==
    ASSUME IInv, Queued, Accounted, NEW p, p.type # "mode",
           orders' = Append(orders, p), UNCHANGED <<obeyed, sent, void>>
    PROVE  (Queued /\ Accounted)'
<1>1. /\ Len(orders) \in Nat /\ DOMAIN orders = 1..Len(orders)
      /\ DOMAIN orders' = 1..Len(orders) + 1
      /\ \A i \in DOMAIN orders : orders'[i] = orders[i]
      /\ orders'[Len(orders) + 1] = p
  BY DEF IInv, TypeOK
<1>2. Queued'
  BY <1>1 DEF Queued
<1>3. \A n : Waits(n) => Waits(n)'
  BY <1>1 DEF Waits
<1>. QED  BY <1>2, <1>3 DEF Accounted

LEMMA SendAccounted ==
    ASSUME IInv, Queued, Accounted, NEW m, NEW id, NEW addressed \in BOOLEAN,
           SendOrder(m, id, addressed)
    PROVE  (Queued /\ Accounted)'
<1>. DEFINE p == [type |-> "mode", number |-> sent + 1, mode |-> m,
                  target |-> id, addressed |-> addressed]
            L == Len(orders)
<1>1. /\ sent \in Nat /\ obeyed \in 0..sent
      /\ sent' = sent + 1 /\ obeyed' = obeyed
      /\ void' = IF addressed THEN void ELSE void \cup {sent + 1}
  BY EngagementAssumption DEF IInv, TypeOK, SendOrder, radarVars
<1>2. /\ L \in Nat /\ DOMAIN orders = 1..L /\ DOMAIN orders' = 1..L + 1
      /\ \A i \in DOMAIN orders : orders'[i] = orders[i]
      /\ orders'[L + 1] = p
  BY DEF IInv, TypeOK, SendOrder
<1>3. \A i \in DOMAIN orders : orders[i].type = "mode" => orders[i].number \in 1..sent
  <2>1. \A i \in DOMAIN orders : orders[i] \in Packet
    BY DEF IInv, TypeOK
  <2>. QED  BY <2>1, ModePacket
<1>4. Queued'
  BY <1>1, <1>2, <1>3 DEF Queued
<1>5. \A n : Waits(n) => Waits(n)'
  BY <1>2 DEF Waits
<1>6. ASSUME NEW n \in Nat, n = sent + 1 PROVE n \in void' \/ Waits(n)'
  <2>1. CASE addressed
    <3>1. L + 1 \in DOMAIN orders' /\ orders'[L + 1].type = "mode"
          /\ orders'[L + 1].number = n /\ orders'[L + 1].addressed
      BY <1>2, <1>6, <2>1
    <3>. QED  BY <3>1 DEF Waits
  <2>2. CASE ~addressed
    BY <1>1, <1>6, <2>2
  <2>. QED  BY <2>1, <2>2
<1>7. \A n \in 1..sent' : n \in 1..sent \/ n = sent + 1
  BY <1>1
<1>. QED  BY <1>1, <1>4, <1>5, <1>6, <1>7 DEF Accounted

\* A read carries out the first order or passes over it; those it hides are
\* known, the others wait.
LEMMA ReadAccounted ==
    ASSUME IInv, Queued, Accounted, ReadOrders
    PROVE  (Queued /\ Accounted)'
<1>. DEFINE L == Len(orders)
<1>1. PICK k \in 1..L : orders' = After(orders, k) /\ void' = void \cup Hidden(k)
  BY DEF ReadOrders
<1>2. /\ L \in Nat /\ DOMAIN orders = 1..L
      /\ orders' = SubSeq(orders, k + 1, L)
      /\ DOMAIN orders' = 1..L - k
      /\ \A i \in 1..L - k : orders'[i] = orders[i + k] /\ i + k \in 1..L
  BY <1>1 DEF IInv, TypeOK, After
<1>3. \A i \in DOMAIN orders : orders[i] \in Packet
  BY DEF IInv, TypeOK
<1>4. \/ obeyed' = obeyed /\ ~(orders[1].type = "mode" /\ orders[1].addressed)
      \/ orders[1].type = "mode" /\ orders[1].addressed /\ obeyed' = orders[1].number
  BY DEF ReadOrders, ChangeMode, SendMfrStatus
<1>5. sent' = sent /\ sent \in Nat /\ obeyed \in Nat
  BY EngagementAssumption DEF ReadOrders, lcVars, IInv, TypeOK
<1>6. \A i \in 1..L : orders[i].type = "mode" => orders[i].number \in Nat
  BY <1>2, <1>3, <1>5, ModePacket
<1>7. 1 \in 1..L /\ \A i \in 1..L - k : 1 < i + k
  BY <1>2
<1>8. obeyed <= obeyed' /\ obeyed' \in Nat
  BY <1>2, <1>4, <1>5, <1>6, <1>7 DEF Queued
<1>9. Queued'
  <2>1. ASSUME NEW i \in 1..L - k, orders'[i].type = "mode"
        PROVE  orders'[i].number > obeyed'
    BY <1>2, <1>4, <1>7, <2>1 DEF Queued
  <2>2. ASSUME NEW i \in 1..L - k, NEW j \in 1..L - k, i < j,
               orders'[i].type = "mode", orders'[j].type = "mode"
        PROVE  orders'[i].number < orders'[j].number
    <3>1. i + k \in DOMAIN orders /\ j + k \in DOMAIN orders /\ i + k < j + k
      BY <1>2, <2>2
    <3>. QED  BY <1>2, <2>2, <3>1 DEF Queued
  <2>. QED  BY <1>2, <2>1, <2>2 DEF Queued
<1>10. ASSUME NEW n \in 1..sent, Waits(n)
       PROVE  n <= obeyed' \/ n \in void' \/ Waits(n)'
  <2>1. PICK p \in 1..L : orders[p].type = "mode" /\ orders[p].number = n
                          /\ orders[p].addressed
    BY <1>2, <1>10 DEF Waits
  <2>2. CASE p = 1
    BY <1>4, <1>5, <2>1, <2>2
  <2>3. CASE p \in 2..k
    BY <1>1, <2>1, <2>3 DEF Hidden
  <2>4. CASE p > k
    <3>1. p - k \in 1..L - k /\ orders'[p - k] = orders[p]
      BY <1>2, <2>4
    <3>. QED  BY <1>2, <2>1, <3>1 DEF Waits
  <2>. QED  BY <2>2, <2>3, <2>4
<1>11. ASSUME NEW n \in 1..sent, n <= obeyed PROVE n <= obeyed'
  BY <1>5, <1>8, <1>11
<1>. QED  BY <1>1, <1>5, <1>9, <1>10, <1>11 DEF Accounted

(* Every order the controller has sent is accounted for: it or a later one *)
(* was carried out, or it is known to be lost (sent with an id that is not *)
(* the radar's, by the controller before the radar's first status or by a  *)
(* console that has another; or hidden behind another packet in one read), *)
(* or it waits in the stream with the radar's id. None is lost otherwise,  *)
(* and none overtakes another: the safety half of EveryOrderReaches.       *)
THEOREM EveryOrderAccounted ==
    Spec => [](\A n \in 1..sent : n <= obeyed \/ n \in void \/ Waits(n))
<1>1. Init => Queued /\ Accounted
  BY DEF Init, Queued, Accounted
<1>2. IInv /\ Queued /\ Accounted /\ [Next]_vars => (Queued /\ Accounted)'
  <2>. SUFFICES ASSUME IInv, Queued, Accounted, [Next]_vars
                PROVE  (Queued /\ Accounted)'
    OBVIOUS
  <2>1. CASE UNCHANGED <<orders, obeyed, sent, void>>
    BY <2>1 DEF Queued, Accounted, Waits
  <2>2. CASE UNCHANGED vars \/ Plot \/ Hit \/ Scan
    BY <2>1, <2>2 DEF vars, Plot, Hit, Scan, BeginRotationScan, EndRotationScan,
                      AngleScan, radarVars, lcVars
  <2>3. CASE ReadOrders
    BY <2>3, ReadAccounted
  <2>4. CASE Poll
    <3>1. [type |-> "poll"].type # "mode"
      OBVIOUS
    <3>. QED  BY <2>4, <3>1, OtherPacket DEF Poll, radarVars, lcVars
  <2>5. CASE ReadReports
    <3>1. CASE UNCHANGED orders
      BY <2>1, <2>5, <3>1 DEF ReadReports, radarVars
    <3>2. CASE orders' = Append(orders, [type |-> "position"])
      <4>1. [type |-> "position"].type # "mode"
        OBVIOUS
      <4>. QED  BY <2>5, <3>2, <4>1, OtherPacket DEF ReadReports, radarVars
    <3>. QED  BY <2>5, <3>1, <3>2 DEF ReadReports
  <2>6. CASE FireCommand \/ RadarCommand
    BY <2>6, SendAccounted DEF FireCommand, RadarCommand, IInv, TypeOK
  <2>. QED  BY <2>2, <2>3, <2>4, <2>5, <2>6 DEF Next
<1>3. Spec => []Accounted
  BY <1>1, <1>2, Invariance, PTL DEF Spec
<1>. QED  BY <1>3 DEF Accounted
=============================================================================
