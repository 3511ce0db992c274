-------------------------- MODULE SimulatorProofs --------------------------
(***************************************************************************)
(* For any number of targets and launches: the missile thread's erasures   *)
(* keep the vector of targets intact, though std::remove_if moves its      *)
(* elements while the flight thread walks it, and nothing is destroyed or  *)
(* reported hit before the radar was told.                                 *)
(*                                                                         *)
(* The invariant follows remove_if.  As a target stands in the vector      *)
(* once, the iterators are together until it is met and one place apart    *)
(* from then on, and that place is the only one without a survivor.        *)
(***************************************************************************)
EXTENDS Simulator, TLAPS

\* The places P of the vector hold exactly the targets of S, each once.
Holds(P, S) ==
    /\ \A k \in P : slots[k] \in S
    /\ \A t \in S : \E k \in P : slots[k] = t
    /\ \A j, k \in P : slots[j] = slots[k] => j = k

Listed == missile # "shift" => Holds(1..count, Targets \ freed)

\* The flight thread stays within the end it took.
Walking ==
    /\ cursor <= last + 1
    /\ flight \in {"update", "copy"} => cursor <= last
    /\ flight = "copy" => subject \in Targets

\* The missile thread's places and what it has yet to erase.
Flying ==
    /\ missile # "none" => isFlight
    /\ missile \in {"none", "report", "clear"} => down = <<>>
    /\ missile = "shift" => down # <<>>
    /\ missile = "announce" =>
          aim <= count /\ down # <<>> /\ down[Len(down)] = slots[aim]

\* What is hit is erased or in down, where nothing stands twice.
Pending ==
    /\ \A i, j \in 1..Len(down) : down[i] = down[j] => i = j
    /\ hit = freed \cup {down[i] : i \in 1..Len(down)}
    /\ \A i \in 1..Len(down) : down[i] \in freed => missile = "shift" /\ i = 1

\* The radar was told, but for the hit being announced.
Told ==
    /\ freed \subseteq announced
    /\ \A i \in 1..Len(down) :
          down[i] \in announced \/ (missile = "announce" /\ i = Len(down))

\* What was hit in this pass stands before the index.
Passed ==
    missile \in {"visit", "announce"} =>
        \A i \in 1..Len(down) : \E k \in 1..count :
            /\ slots[k] = down[i]
            /\ k < aim \/ (missile = "announce" /\ k = aim)

\* The target being erased has not been met ...
Searching ==
    /\ read = write /\ read <= count + 1
    /\ down[1] \notin freed
    /\ \A k \in 1..write - 1 : slots[k] # down[1]
    /\ Holds(1..count, Targets \ freed)

\* ... or has, and the place it had travels to the end.
Closing ==
    /\ read = write + 1 /\ read <= count + 1
    /\ \/ slots[write] = down[1] /\ down[1] \notin freed
       \/ slots[write] = Empty /\ down[1] \in freed
    /\ Holds((1..write - 1) \cup (read..count), Targets \ (freed \cup {down[1]}))

Shifting == missile = "shift" => Searching \/ Closing

IInv ==
    /\ TypeOK
    /\ Walking /\ Flying /\ Listed
    /\ Pending /\ Told /\ Passed /\ Shifting

-----------------------------------------------------------------------------
LEMMA InitIInv == Init => IInv
<1>. SUFFICES ASSUME Init PROVE IInv
  OBVIOUS
<1>. USE SimulatorAssumption DEF Init
<1>1. TypeOK
  <2>1. list \in Seq([id : Targets, hit : BOOLEAN]) /\ down \in Seq(Targets)
    OBVIOUS
  <2>2. slots \in [Targets -> Targets \cup {Empty}]
    OBVIOUS
  <2>3. wire \in Datagram
    BY DEF Datagram
  <2>4. /\ count \in 0..NumTargets /\ 1 \in 1..NumTargets + 1
        /\ last \in 0..NumTargets /\ launches \in 0..MaxLaunches
    OBVIOUS
  <2>. QED  BY <2>1, <2>2, <2>3, <2>4 DEF TypeOK
<1>2. Listed
  BY DEF Listed, Holds, Targets
<1>3. Walking /\ Flying /\ Pending /\ Told /\ Passed /\ Shifting
  BY DEF Walking, Flying, Pending, Told, Passed, Shifting
<1>. QED  BY <1>1, <1>2, <1>3 DEF IInv

\* A datagram about a target or the missile is a datagram.
LEMMA Sent ==
    ASSUME TypeOK, NEW d \in Datagram, Send(d)
    PROVE  /\ wire' \in Datagram
           /\ announced' \subseteq Targets /\ announced \subseteq announced'
  BY DEF TypeOK, Send, Datagram, Targets, Empty

\* The flight thread changes nothing the missile thread's invariants read but
\* what the radar was told.
LEMMA FlightKeeps ==
    ASSUME IInv, UNCHANGED <<vectorVars, hit, launchVars, missileVars>>,
           announced \subseteq announced'
    PROVE  /\ Flying' /\ Listed' /\ Pending' /\ Told' /\ Passed' /\ Shifting'
<1>. USE DEF vectorVars, launchVars, missileVars, IInv
<1>1. Flying'
  BY DEF Flying
<1>2. Listed'
  BY DEF Listed, Holds
<1>3. Pending'
  BY DEF Pending
<1>4. Told'
  BY DEF Told
<1>5. Passed'
  BY DEF Passed
<1>6. Shifting'
  BY DEF Shifting, Searching, Closing, Holds
<1>. QED  BY <1>1, <1>2, <1>3, <1>4, <1>5, <1>6

LEMMA HeadAndTail ==
    ASSUME NEW S, NEW s \in Seq(S), s # <<>>
    PROVE  Head(s) \in S /\ Tail(s) \in Seq(S)
  OBVIOUS

LEMMA CopyListed ==
    ASSUME NEW t \in Targets, NEW s \in Seq([id : Targets, hit : BOOLEAN])
    PROVE  Append(s, [id |-> t, hit |-> t \in hit]) \in Seq([id : Targets, hit : BOOLEAN])
<1>1. PICK b \in BOOLEAN : b = (t \in hit)
  <2>1. (t \in hit) \in BOOLEAN
    OBVIOUS
  <2>. QED  BY <2>1, Zenon
<1>2. [id |-> t, hit |-> b] \in [id : Targets, hit : BOOLEAN]
  OBVIOUS
<1>3. Append(s, [id |-> t, hit |-> b]) \in Seq([id : Targets, hit : BOOLEAN])
  BY <1>2
<1>. QED  BY <1>1, <1>3, Zenon

LEMMA FlightTypes ==
    ASSUME IInv, FlightStep
    PROVE  /\ TypeOK' /\ Walking'
           /\ UNCHANGED <<vectorVars, hit, launchVars, missileVars>>
           /\ announced \subseteq announced'
<1>. USE SimulatorAssumption DEF IInv, TypeOK, Walking, vectorVars, launchVars,
                                 missileVars, wireVars, Targets
<1>1. CASE BeginRound
  BY <1>1 DEF BeginRound
<1>2. CASE VisitTarget
  BY <1>2 DEF VisitTarget
<1>3. CASE UpdateTarget
  <2>1. CASE slots[cursor] # Empty /\ subject' = slots[cursor]
    <3>1. cursor \in Targets /\ subject' \in Targets
      BY <1>3, <2>1 DEF UpdateTarget
    <3>2. [id |-> subject', hit |-> TRUE] \in Datagram
      BY <3>1 DEF Datagram
    <3>3. wire' \in Datagram /\ announced' \subseteq Targets
          /\ announced \subseteq announced'
      BY <1>3, <2>1, <3>2, Sent DEF UpdateTarget, Crash
    <3>. QED  BY <1>3, <2>1, <3>1, <3>3 DEF UpdateTarget, Crash
  <2>2. CASE Crash
    BY <2>2 DEF Crash
  <2>. QED  BY <1>3, <2>1, <2>2 DEF UpdateTarget
<1>4. CASE CopyTarget
  <2>1. CASE Crash
    BY <2>1 DEF Crash
  <2>2. CASE ~Crash
    <3>1. subject \in Targets /\ cursor + 1 <= last + 1
      BY <1>4 DEF CopyTarget
    <3>2. list' = Append(list, [id |-> subject, hit |-> subject \in hit])
          /\ cursor' = cursor + 1 /\ flight' = "visit"
          /\ UNCHANGED <<vectorVars, hit, last, subject, launchVars, missileVars,
                         wireVars>>
      BY <1>4, <2>2, Zenon DEF CopyTarget
    <3>3. list' \in Seq([id : Targets, hit : BOOLEAN])
      BY <3>1, <3>2, CopyListed, Zenon
    <3>. QED  BY <3>1, <3>2, <3>3
  <2>. QED  BY <2>1, <2>2
<1>5. CASE EndVisit
  BY <1>5 DEF EndVisit
<1>6. CASE SendTarget
  <2>1. Head(list) \in [id : Targets, hit : BOOLEAN]
        /\ list' \in Seq([id : Targets, hit : BOOLEAN])
    BY <1>6, HeadAndTail DEF SendTarget
  <2>2. Head(list) \in Datagram
    BY <2>1 DEF Datagram
  <2>3. wire' \in Datagram /\ announced' \subseteq Targets
        /\ announced \subseteq announced'
    BY <1>6, <2>2, Sent DEF SendTarget
  <2>. QED  BY <1>6, <2>1, <2>3 DEF SendTarget
<1>7. CASE EndRound
  BY <1>7 DEF EndRound
<1>. QED  BY <1>1, <1>2, <1>3, <1>4, <1>5, <1>6, <1>7 DEF FlightStep

LEMMA FlightIInv == IInv /\ FlightStep => IInv'
  BY FlightTypes, FlightKeeps DEF IInv

-----------------------------------------------------------------------------
(* The launch and the missile thread.  None of its steps but the sending   *)
(* ones disturbs the flight thread's part.                                 *)

LEMMA LaunchIInv == IInv /\ Launch => IInv'
<1>. SUFFICES ASSUME IInv, Launch PROVE IInv'
  OBVIOUS
<1>. USE SimulatorAssumption DEF IInv, vectorVars, flightVars, wireVars, missileVars
<1>1. CASE isFlight
  BY <1>1 DEF Launch, TypeOK, Walking, Flying, Listed, Pending, Told, Passed, Shifting,
     Searching, Closing, Holds
<1>2. CASE ~isFlight
  <2>1. missile = "none" /\ down = <<>> /\ StartMissile
    BY <1>2 DEF Flying, TypeOK, Launch
  <2>2. TypeOK'
    BY <2>1, <1>2 DEF Launch, TypeOK, StartMissile
  <2>3. Walking' /\ Flying' /\ Passed' /\ Shifting'
    BY <2>1, <1>2 DEF Launch, StartMissile, Walking, Flying, Passed, Shifting
  <2>4. Listed'
    BY <2>1, <1>2 DEF Launch, StartMissile, Listed, Holds
  <2>5. Pending' /\ Told'
    BY <2>1, <1>2 DEF Launch, StartMissile, Pending, Told
  <2>. QED  BY <2>2, <2>3, <2>4, <2>5
<1>. QED  BY <1>1, <1>2

LEMMA MissTargetIInv == IInv /\ MissTarget => IInv'
<1>. SUFFICES ASSUME IInv, MissTarget PROVE IInv'
  OBVIOUS
<1>. USE DEF IInv, MissTarget, vectorVars, flightVars, launchVars, wireVars
<1>1. TypeOK' /\ Walking'
  BY SimulatorAssumption DEF TypeOK, Walking
<1>2. Flying' /\ Listed' /\ Shifting'
  BY DEF Flying, Listed, Holds, Shifting
<1>3. Pending' /\ Told'
  BY DEF Pending, Told
<1>4. Passed'
  BY DEF Passed, TypeOK
<1>. QED  BY <1>1, <1>2, <1>3, <1>4

LEMMA HitTargetIInv == IInv /\ HitTarget => IInv'
<1>. SUFFICES ASSUME IInv, HitTarget PROVE IInv'
  OBVIOUS
<1>. USE DEF IInv, HitTarget, vectorVars, flightVars, launchVars, wireVars
<1>. DEFINE t == slots[aim]
<1>1. aim \in 1..count /\ t \in Targets \ freed
  BY DEF Listed, Holds, TypeOK
<1>2. /\ down' = Append(down, t) /\ down \in Seq(Targets)
      /\ Len(down') = Len(down) + 1 /\ down'[Len(down) + 1] = t
      /\ \A i \in 1..Len(down) : down'[i] = down[i]
      /\ Len(down) \in Nat
  BY <1>1 DEF TypeOK
<1>3. \A i \in 1..Len(down) : down[i] # t
  <2>1. ASSUME NEW i \in 1..Len(down), down[i] = t PROVE FALSE
    <3>1. PICK k \in 1..count : slots[k] = t /\ k < aim
      BY <2>1 DEF Passed
    <3>. QED  BY <1>1, <3>1 DEF Listed, Holds
  <2>. QED  BY <2>1
<1>. HIDE DEF t
<1>4. TypeOK' /\ Walking'
  <2>1. down' \in Seq(Targets) /\ hit' \subseteq Targets
    BY <1>1, <1>2 DEF TypeOK, t
  <2>. QED  BY <2>1 DEF TypeOK, Walking
<1>5. Flying'
  <2>1. down'[Len(down')] = slots[aim] /\ down' # <<>>
    BY <1>2 DEF t
  <2>. QED  BY <1>1, <2>1 DEF Flying
<1>6. Listed' /\ Shifting'
  BY DEF Listed, Holds, Shifting
<1>7. Pending'
  <2>1. \A i, j \in 1..Len(down') : down'[i] = down'[j] => i = j
    BY <1>2, <1>3 DEF Pending
  <2>2. {down'[i] : i \in 1..Len(down')} = {down[i] : i \in 1..Len(down)} \cup {t}
    BY <1>2
  <2>3. hit' = freed' \cup {down'[i] : i \in 1..Len(down')}
    BY <2>2 DEF Pending, t
  <2>4. \A i \in 1..Len(down') : down'[i] \notin freed
    BY <1>1, <1>2 DEF Pending
  <2>. QED  BY <2>1, <2>3, <2>4 DEF Pending
<1>8. Told'
  BY <1>2 DEF Told
<1>9. Passed'
  <2>1. ASSUME NEW i \in 1..Len(down')
        PROVE  \E k \in 1..count : slots[k] = down'[i] /\ k <= aim
    <3>1. CASE i \in 1..Len(down)
      BY <1>2, <3>1 DEF Passed, TypeOK
    <3>2. CASE i = Len(down) + 1
      BY <1>1, <1>2, <3>2 DEF t
    <3>. QED  BY <1>2, <3>1, <3>2
  <2>. QED  BY <2>1 DEF Passed, TypeOK
<1>. QED  BY <1>4, <1>5, <1>6, <1>7, <1>8, <1>9

LEMMA AnnounceHitIInv == IInv /\ AnnounceHit => IInv'
<1>. SUFFICES ASSUME IInv, AnnounceHit PROVE IInv'
  OBVIOUS
<1>. USE DEF IInv, AnnounceHit, vectorVars, flightVars, launchVars
<1>1. aim \in 1..count /\ slots[aim] \in Targets /\ down[Len(down)] = slots[aim]
  BY DEF Listed, Holds, TypeOK, Flying
<1>2. [id |-> slots[aim], hit |-> TRUE] \in Datagram
  BY <1>1 DEF Datagram
<1>3. wire' \in Datagram /\ announced' \subseteq Targets /\ announced \subseteq announced'
  BY <1>2, Sent
<1>4. slots[aim] \in announced'
  BY <1>1 DEF Send, Empty, Targets
<1>5. TypeOK' /\ Walking'
  BY <1>1, <1>3, SimulatorAssumption DEF TypeOK, Walking
<1>6. Flying' /\ Listed' /\ Shifting'
  BY DEF Flying, Listed, Holds, Shifting
<1>7. Pending'
  BY DEF Pending
<1>8. Told'
  BY <1>1, <1>3, <1>4 DEF Told
<1>9. Passed'
  BY DEF Passed, TypeOK
<1>. QED  BY <1>5, <1>6, <1>7, <1>8, <1>9

LEMMA EndAimIInv == IInv /\ EndAim => IInv'
<1>. SUFFICES ASSUME IInv, EndAim PROVE IInv'
  OBVIOUS
<1>. USE DEF IInv, EndAim, vectorVars, flightVars, launchVars
<1>1. CASE down = <<>>
  <2>1. [id |-> Empty, hit |-> FALSE] \in Datagram
    BY DEF Datagram
  <2>2. wire' \in Datagram /\ announced' \subseteq Targets
        /\ announced \subseteq announced'
    BY <1>1, <2>1, Sent
  <2>3. TypeOK' /\ Walking'
    BY <1>1, <2>2, SimulatorAssumption DEF TypeOK, Walking
  <2>4. Flying' /\ Listed' /\ Shifting' /\ Passed'
    BY <1>1 DEF Flying, Listed, Holds, Shifting, Passed
  <2>5. Pending' /\ Told'
    BY <1>1, <2>2 DEF Pending, Told
  <2>. QED  BY <2>3, <2>4, <2>5
<1>2. CASE down # <<>>
  <2>. USE DEF wireVars
  <2>1. TypeOK' /\ Walking'
    BY <1>2, SimulatorAssumption DEF TypeOK, Walking
  <2>2. Flying' /\ Listed' /\ Passed'
    BY <1>2 DEF Flying, Listed, Passed
  <2>3. Pending' /\ Told'
    BY <1>2 DEF Pending, Told
  <2>4. Len(down) \in Nat /\ Len(down) >= 1
    BY <1>2 DEF TypeOK
  <2>5. down[1] \notin freed /\ Holds(1..count, Targets \ freed)
    BY <2>4 DEF Pending, Listed
  <2>6. Searching'
    BY <1>2, <2>5 DEF Searching, Holds, TypeOK
  <2>. QED  BY <2>1, <2>2, <2>3, <2>6 DEF Shifting
<1>. QED  BY <1>1, <1>2

LEMMA ReportHitIInv == IInv /\ ReportHit => IInv'
<1>. SUFFICES ASSUME IInv, ReportHit PROVE IInv'
  OBVIOUS
<1>. USE DEF IInv, ReportHit, vectorVars, flightVars, launchVars
<1>1. [id |-> Empty, hit |-> TRUE] \in Datagram
  BY DEF Datagram
<1>2. wire' \in Datagram /\ announced' \subseteq Targets /\ announced \subseteq announced'
  BY <1>1, Sent
<1>3. TypeOK' /\ Walking'
  BY <1>2 DEF TypeOK, Walking
<1>4. Flying' /\ Listed' /\ Shifting' /\ Passed'
  BY DEF Flying, Listed, Holds, Shifting, Passed
<1>5. Pending' /\ Told'
  BY <1>2 DEF Pending, Told
<1>. QED  BY <1>3, <1>4, <1>5

LEMMA ClearFlightIInv == IInv /\ ClearFlight => IInv'
<1>. SUFFICES ASSUME IInv, ClearFlight PROVE IInv'
  OBVIOUS
<1>. USE DEF IInv, ClearFlight, vectorVars, flightVars, wireVars
<1>1. TypeOK' /\ Walking'
  BY DEF TypeOK, Walking
<1>2. Flying' /\ Listed' /\ Shifting' /\ Passed'
  BY DEF Flying, Listed, Holds, Shifting, Passed
<1>3. Pending' /\ Told'
  BY DEF Pending, Told
<1>. QED  BY <1>1, <1>2, <1>3

LEMMA ShiftTargetIInv == IInv /\ ShiftTarget => IInv'
<1>. SUFFICES ASSUME IInv, ShiftTarget PROVE IInv'
  OBVIOUS
<1>. DEFINE x == down[1]
<1>. USE SimulatorAssumption DEF IInv, ShiftTarget, flightVars, launchVars, wireVars
<1>1. /\ down \in Seq(Targets) /\ Len(down) \in Nat /\ Len(down) >= 1
      /\ x \in Targets /\ Head(down) = x /\ x # Empty
  BY DEF Flying, TypeOK, Targets, Empty
<1>2. /\ read \in 1..count /\ write \in 1..count /\ count \in 0..NumTargets
      /\ DOMAIN slots = Targets
  BY DEF Shifting, Searching, Closing, TypeOK
<1>3. CASE slots[read] = x
  <2>1. Searching
    <3>1. ASSUME Closing PROVE FALSE
      <4>1. read \in (1..write - 1) \cup (read..count)
        BY <1>2
      <4>2. slots[read] \in Targets \ (freed \cup {x})
        BY <3>1, <4>1 DEF Closing, Holds
      <4>. QED  BY <1>3, <4>2
    <3>. QED  BY <3>1 DEF Shifting
  <2>2. UNCHANGED <<slots, freed, write, down, count>> /\ read' = read + 1
        /\ missile' = missile
    BY <1>1, <1>3
  <2>3. Closing'
    <3>1. read' = write' + 1 /\ read' <= count' + 1
      BY <1>2, <2>1, <2>2 DEF Searching
    <3>2. slots'[write'] = down'[1] /\ down'[1] \notin freed'
      BY <1>3, <2>1, <2>2 DEF Searching
    <3>3. Holds((1..write - 1) \cup (read + 1..count), Targets \ (freed \cup {x}))
      BY <1>2, <1>3, <2>1 DEF Searching, Holds
    <3>. QED  BY <2>2, <3>1, <3>2, <3>3 DEF Closing, Holds
  <2>4. TypeOK' /\ Walking'
    BY <1>2, <2>2 DEF TypeOK, Walking
  <2>5. Flying' /\ Listed' /\ Passed'
    BY <2>2 DEF Flying, Listed, Passed
  <2>6. Pending' /\ Told'
    BY <2>2 DEF Pending, Told
  <2>. QED  BY <2>3, <2>4, <2>5, <2>6 DEF Shifting
<1>4. CASE slots[read] # x /\ Searching
  <2>1. UNCHANGED <<slots, freed, down, count>> /\ read' = read + 1 /\ write' = write + 1
        /\ missile' = missile
    BY <1>1, <1>4 DEF Searching
  <2>2. Searching'
    BY <1>2, <1>4, <2>1 DEF Searching, Holds
  <2>3. TypeOK' /\ Walking'
    BY <1>2, <2>1 DEF TypeOK, Walking
  <2>4. Flying' /\ Listed' /\ Passed'
    BY <2>1 DEF Flying, Listed, Passed
  <2>5. Pending' /\ Told'
    BY <2>1 DEF Pending, Told
  <2>. QED  BY <2>2, <2>3, <2>4, <2>5 DEF Shifting
<1>5. CASE slots[read] # x /\ Closing
  <2>1. /\ read = write + 1 /\ read' = read + 1 /\ write' = write + 1
        /\ slots' = [slots EXCEPT ![write] = slots[read], ![read] = Empty]
        /\ freed' = freed \cup ({slots[write]} \ {Empty})
        /\ UNCHANGED <<down, count, missile>>
    BY <1>1, <1>2, <1>5 DEF Closing
  <2>2. freed' = freed \cup {x}
    BY <1>1, <1>5, <2>1 DEF Closing
  <2>3. read \in Targets /\ write \in Targets /\ slots[read] \in Targets
    BY <1>2, <1>5, <2>1 DEF Targets, Closing, Holds
  <2>4. /\ slots'[read] = Empty /\ slots'[write] = slots[read]
        /\ \A k \in Targets \ {read, write} : slots'[k] = slots[k]
    BY <1>2, <2>1, <2>3
  <2>5. Closing'
    <3>1. read' = write' + 1 /\ read' <= count' + 1
      BY <1>2, <2>1
    <3>2. slots'[write'] = Empty /\ down'[1] \in freed'
      BY <2>1, <2>2, <2>4
    <3>. DEFINE P == (1..write - 1) \cup (read..count)
                Q == (1..write) \cup (read + 1..count)
                S == Targets \ (freed \cup {x})
    <3>3. Holds(P, S)
      BY <1>5 DEF Closing
    <3>4. P \subseteq Targets /\ Q \subseteq Targets
      BY <1>2 DEF Targets
    <3>5. /\ \A k \in Q : slots'[k] = IF k = write THEN slots[read] ELSE slots[k]
          /\ Q = (P \ {read}) \cup {write} /\ write \notin P /\ read \in P
      BY <1>2, <2>1, <2>4, <3>4
    <3>6. /\ \A k \in Q : slots'[k] \in S
          /\ \A t \in S : \E k \in Q : slots'[k] = t
          /\ \A j, k \in Q : slots'[j] = slots'[k] => j = k
      <4>. HIDE DEF P, Q, S
      <4>1. \A k \in Q : slots'[k] \in S
        BY <3>3, <3>5 DEF Holds
      <4>2. \A t \in S : \E k \in Q : slots'[k] = t
        BY <3>3, <3>5 DEF Holds
      <4>3. \A j, k \in Q : slots'[j] = slots'[k] => j = k
        BY <3>3, <3>5 DEF Holds
      <4>. QED  BY <4>1, <4>2, <4>3
    <3>7. /\ (1..write' - 1) \cup (read'..count') = Q
          /\ Targets \ (freed' \cup {down'[1]}) = S
      BY <1>2, <2>1, <2>2
    <3>8. Holds((1..write - 1) \cup (read..count), Targets \ (freed \cup {x}))'
      <4>. HIDE DEF Q, S
      <4>. QED  BY <3>6, <3>7 DEF Holds
    <3>. QED  BY <3>1, <3>2, <3>8 DEF Closing
  <2>6. TypeOK' /\ Walking'
    <3>1. slots' \in [Targets -> Targets \cup {Empty}] /\ freed' \subseteq Targets
      BY <1>1, <2>1, <2>2, <2>3 DEF TypeOK
    <3>. QED  BY <1>2, <2>1, <3>1 DEF TypeOK, Walking
  <2>7. Flying' /\ Listed' /\ Passed'
    BY <2>1 DEF Flying, Listed, Passed
  <2>8. Pending'
    <3>1. hit = freed' \cup {down[i] : i \in 1..Len(down)}
      BY <1>1, <2>2 DEF Pending
    <3>2. \A i \in 1..Len(down) : down[i] \in freed' => i = 1
      BY <1>1, <2>2 DEF Pending
    <3>. QED  BY <2>1, <3>1, <3>2 DEF Pending
  <2>9. Told'
    BY <1>1, <2>1, <2>2 DEF Told
  <2>. QED  BY <2>5, <2>6, <2>7, <2>8, <2>9 DEF Shifting
<1>. QED  BY <1>3, <1>4, <1>5 DEF Shifting

LEMMA ShrinkListIInv == IInv /\ ShrinkList => IInv'
<1>. SUFFICES ASSUME IInv, ShrinkList PROVE IInv'
  OBVIOUS
<1>. DEFINE x == down[1]
<1>. USE SimulatorAssumption DEF IInv, ShrinkList, flightVars, launchVars, wireVars
<1>1. /\ down \in Seq(Targets) /\ Len(down) \in Nat /\ Len(down) >= 1
      /\ x \in Targets /\ x # Empty
  BY DEF Flying, TypeOK, Targets, Empty
<1>2. count \in 0..NumTargets /\ read \in Nat /\ write \in Nat
  BY DEF TypeOK
<1>3. Closing
  <2>1. ASSUME Searching PROVE FALSE
    <3>1. read = count + 1 /\ write = count + 1
      BY <1>2, <2>1 DEF Searching
    <3>2. PICK k \in 1..count : slots[k] = x
      BY <1>1, <2>1 DEF Searching, Holds
    <3>. QED  BY <1>2, <2>1, <3>1, <3>2 DEF Searching
  <2>. QED  BY <2>1 DEF Shifting
<1>4. read = count + 1 /\ write = count /\ count' = count - 1
  BY <1>2, <1>3 DEF Closing
<1>5. freed' = freed \cup {x}
  <2>1. {slots[k] : k \in write..count} = {slots[write]}
    BY <1>2, <1>4
  <2>2. freed' = freed \cup ({slots[write]} \ {Empty})
    BY <2>1
  <2>. QED  BY <1>1, <1>3, <2>2 DEF Closing
<1>6. /\ down' = Tail(down) /\ down' \in Seq(Targets) /\ Len(down') = Len(down) - 1
      /\ \A i \in 1..Len(down') : down'[i] = down[i + 1]
  BY <1>1
<1>7. Holds(1..count, Targets \ freed)'
  <2>1. (1..write - 1) \cup (read..count) = 1..count'
    BY <1>2, <1>4
  <2>. QED  BY <1>3, <1>5, <2>1 DEF Closing, Holds
<1>8. \A i \in 1..Len(down') : down'[i] \notin freed'
  BY <1>1, <1>5, <1>6 DEF Pending
<1>9. TypeOK' /\ Walking'
  <2>1. freed' \subseteq Targets /\ count' \in 0..NumTargets
    BY <1>1, <1>2, <1>3, <1>4, <1>5 DEF TypeOK, Closing
  <2>2. /\ write' \in 1..NumTargets + 1 /\ read' \in 1..NumTargets + 1
        /\ missile' \in {"report", "shift"}
    OBVIOUS
  <2>3. Walking'
    BY DEF Walking
  <2>. QED  BY <1>6, <2>1, <2>2, <2>3 DEF TypeOK
<1>10. Flying' /\ Listed' /\ Passed'
  BY <1>6, <1>7 DEF Flying, Listed, Passed
<1>11. Pending'
  <2>1. {down[i] : i \in 1..Len(down)} = {x} \cup {down'[i] : i \in 1..Len(down')}
    <3>1. \A i \in 1..Len(down) : i = 1 \/ i - 1 \in 1..Len(down')
      BY <1>1, <1>6
    <3>2. \A i \in 1..Len(down) : i = 1 \/ down[i] = down'[i - 1]
      BY <1>1, <1>6
    <3>3. \A i \in 1..Len(down') : i + 1 \in 1..Len(down)
      BY <1>1, <1>6
    <3>4. \A i \in 1..Len(down') : down'[i] \in {down[j] : j \in 1..Len(down)}
      BY <1>6, <3>3
    <3>5. \A i \in 1..Len(down) : down[i] \in {x} \cup {down'[j] : j \in 1..Len(down')}
      <4>. TAKE i \in 1..Len(down)
      <4>1. CASE i = 1
        BY <4>1
      <4>2. CASE i # 1
        <5>1. i - 1 \in 1..Len(down') /\ down[i] = down'[i - 1]
          BY <3>1, <3>2, <4>2
        <5>. QED  BY <5>1
      <4>. QED  BY <4>1, <4>2
    <3>6. x \in {down[j] : j \in 1..Len(down)}
      BY <1>1
    <3>. QED  BY <3>4, <3>5, <3>6
  <2>2. hit = freed' \cup {down'[i] : i \in 1..Len(down')}
    BY <1>5, <2>1 DEF Pending
  <2>3. \A i, j \in 1..Len(down') : down'[i] = down'[j] => i = j
    BY <1>1, <1>6 DEF Pending
  <2>. QED  BY <1>8, <2>2, <2>3 DEF Pending
<1>12. Told'
  BY <1>1, <1>5, <1>6 DEF Told
<1>13. Shifting'
  <2>1. CASE down' = <<>>
    BY <2>1 DEF Shifting
  <2>2. CASE down' # <<>>
    <3>1. 1 \in 1..Len(down')
      BY <1>1, <1>6, <2>2
    <3>2. down'[1] \notin freed'
      BY <1>8, <3>1
    <3>3. /\ read' = 1 /\ write' = 1 /\ count' + 1 >= 1
      <4>1. write \in 1..NumTargets + 1
        BY DEF TypeOK
      <4>2. read' = 1 /\ write' = 1
        OBVIOUS
      <4>. QED  BY <1>2, <1>4, <4>1, <4>2
    <3>4. \A k \in 1..write' - 1 : slots'[k] # down'[1]
      BY <3>3
    <3>. QED  BY <1>7, <3>2, <3>3, <3>4 DEF Shifting, Searching
  <2>. QED  BY <2>1, <2>2
<1>. QED  BY <1>9, <1>10, <1>11, <1>12, <1>13

LEMMA NextIInv == IInv /\ [Next]_vars => IInv'
<1>. SUFFICES ASSUME IInv, [Next]_vars PROVE IInv'
  OBVIOUS
<1>1. CASE UNCHANGED vars
  <2>1. UNCHANGED <<vectorVars, hit, launchVars, missileVars>> /\ announced' = announced
    BY <1>1 DEF vars, wireVars
  <2>2. Flying' /\ Listed' /\ Pending' /\ Told' /\ Passed' /\ Shifting'
    BY <2>1, FlightKeeps
  <2>3. TypeOK' /\ Walking'
    BY <1>1 DEF IInv, TypeOK, Walking, vars, vectorVars, flightVars, launchVars,
                missileVars, wireVars
  <2>. QED  BY <2>2, <2>3 DEF IInv
<1>2. CASE MissileStep
  BY <1>2, MissTargetIInv, HitTargetIInv, AnnounceHitIInv, EndAimIInv, ShiftTargetIInv,
     ShrinkListIInv, ReportHitIInv, ClearFlightIInv DEF MissileStep
<1>. QED  BY <1>1, <1>2, FlightIInv, LaunchIInv DEF Next

-----------------------------------------------------------------------------
(* The inductive invariant of the simulator. *)
THEOREM Invariance == Spec => []IInv
  BY InitIInv, NextIInv, PTL DEF Spec

(* Every variable keeps its type: no thread indexes past the vector, no    *)
(* null pointer is marked hit (MockTargetManager).                         *)
THEOREM TypeCorrect == Spec => []TypeOK
<1>1. IInv => TypeOK
  BY DEF IInv
<1>. QED  BY <1>1, Invariance, PTL

(* Outside an erasure the vector holds exactly the targets not shot down,  *)
(* each once (MockTargetManager::removeTarget).                            *)
THEOREM Survivors == Spec => []SurvivorsListed
<1>1. IInv => SurvivorsListed
  <2>. SUFFICES ASSUME IInv, missile # "shift"
                PROVE  /\ {slots[k] : k \in 1..count} = Targets \ freed
                       /\ \A j, k \in 1..count : slots[j] = slots[k] => j = k
    BY DEF SurvivorsListed
  <2>. QED  BY DEF IInv, Listed, Holds
<1>. QED  BY <1>1, Invariance, PTL

(* No target is destroyed before the radar was told that it is hit         *)
(* (MockTargetManager::downTargetStatus).                                  *)
THEOREM ErasedAnnounced == Spec => []ErasedWereAnnounced
<1>1. IInv => ErasedWereAnnounced
  BY DEF IInv, Told, ErasedWereAnnounced
<1>. QED  BY <1>1, Invariance, PTL

(* The report of a hit is the last of it: all that was hit is erased, and  *)
(* the radar was told of each (MockMissile::updatePosMissile).             *)
THEOREM ReportedLast == Spec => HitReportedLast
<1>1. IInv /\ [Next]_vars =>
        [wire' = [id |-> Empty, hit |-> TRUE] /\ wire' # wire
            => hit = freed /\ hit \subseteq announced]_vars
  <2>. SUFFICES ASSUME IInv, Next, wire' = [id |-> Empty, hit |-> TRUE], wire' # wire
                PROVE  hit = freed /\ hit \subseteq announced
    OBVIOUS
  <2>1. CASE ReportHit
    BY <2>1 DEF IInv, Flying, Pending, Told, ReportHit
  <2>2. CASE UpdateTarget
    <3>1. /\ cursor \in Targets /\ slots[cursor] \in Targets
          /\ wire' = [id |-> slots[cursor], hit |-> TRUE]
      <4>1. cursor \in Targets
        BY <2>2, SimulatorAssumption DEF UpdateTarget, IInv, TypeOK, Walking, Targets
      <4>2. slots[cursor] # Empty /\ subject' = slots[cursor]
            /\ Send([id |-> subject', hit |-> TRUE])
        BY <2>2 DEF UpdateTarget, Crash, wireVars
      <4>. QED  BY <4>1, <4>2 DEF Send, IInv, TypeOK
    <3>. QED  BY <3>1 DEF Targets, Empty
  <2>3. CASE SendTarget
    <3>1. Head(list) \in [id : Targets, hit : BOOLEAN] /\ wire' = Head(list)
      BY <2>3, HeadAndTail DEF SendTarget, Send, IInv, TypeOK
    <3>. QED  BY <3>1 DEF Targets, Empty
  <2>4. CASE AnnounceHit
    <3>1. slots[aim] \in Targets /\ wire' = [id |-> slots[aim], hit |-> TRUE]
      <4>1. aim \in 1..count
        BY <2>4 DEF AnnounceHit, IInv, Flying, TypeOK
      <4>2. slots[aim] \in Targets
        BY <2>4, <4>1 DEF AnnounceHit, IInv, Listed, Holds
      <4>3. Send([id |-> slots[aim], hit |-> TRUE])
        BY <2>4 DEF AnnounceHit
      <4>. QED  BY <4>2, <4>3 DEF Send
    <3>. QED  BY <3>1 DEF Targets, Empty
  <2>5. CASE EndAim
    BY <2>5 DEF EndAim, Send, wireVars
  <2>. QED
    BY <2>1, <2>2, <2>3, <2>4, <2>5 DEF Next, FlightStep, MissileStep, BeginRound,
       VisitTarget, CopyTarget, Crash, EndVisit, EndRound, Launch, MissTarget, HitTarget,
       ShiftTarget, ShrinkList, ClearFlight, wireVars
<1>. QED  BY <1>1, Invariance, PTL DEF Spec, HitReportedLast

(* A launch received while a missile flies leaves its thread alone         *)
(* (MockMissileManager::flightMissile): the flag that guards it is up from *)
(* before the thread starts until after its last step.                     *)
THEOREM OnlyOneMissile == Spec => OneMissile
<1>1. IInv /\ [Next]_vars =>
        [launches' # launches /\ missile # "none" => UNCHANGED missileVars]_vars
  <2>. SUFFICES ASSUME IInv, Next, launches' # launches, missile # "none"
                PROVE  UNCHANGED missileVars
    OBVIOUS
  <2>1. Launch
    BY DEF Next, FlightStep, MissileStep, BeginRound, VisitTarget, UpdateTarget,
       CopyTarget, Crash, EndVisit, SendTarget, EndRound, MissTarget, HitTarget,
       AnnounceHit, EndAim, ShiftTarget, ShrinkList, ReportHit, ClearFlight,
       launchVars
  <2>2. isFlight
    BY DEF IInv, Flying
  <2>. QED  BY <2>1, <2>2 DEF Launch
<1>. QED  BY <1>1, Invariance, PTL DEF Spec, OneMissile
=============================================================================
