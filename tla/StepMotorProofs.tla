-------------------------- MODULE StepMotorProofs --------------------------
(***************************************************************************)
(* For every even number of steps, every stream of bytes and every way the *)
(* two interrupts fall together: the counters keep their ranges, the       *)
(* pulses left lead to the target, the position strays by no more than     *)
(* three steps for an order, and the orders carried out are those of the   *)
(* lines heard.                                                            *)
(***************************************************************************)
EXTENDS StepMotor, FiniteSetTheorems, TLAPS

\* The direction in which a finished pulse is counted.
Counted == IF rotation THEN 1 ELSE direction

\* Before the first order the motor only finishes its first pulse.
Booting ==
    obeyed = <<>> => ~rotation /\ remaining = 0 /\ count = 0 /\ target = 0

\* Once ordered, a rising edge moves the shaft the way it will be counted.
PinFollows == obeyed # <<>> => pin = Counted

\* What the shaft has strayed, the pulse under way apart, and what it may
\* still stray before the next order: two steps when the pulse under way will
\* be counted the wrong way, one for the pulse after the last.
Misled == IF obeyed # <<>> /\ pulse # 0 /\ pulse # Counted THEN 2 ELSE 0
Beyond == IF ~rotation /\ pwm THEN 1 ELSE 0

Budget ==
    /\ lag - pulse + Misled + Beyond <= 1 + 3 * Len(obeyed)
    /\ pulse - lag + Misled + Beyond <= 1 + 3 * Len(obeyed)
\* A pulse is under way only while the timer runs.
Running == pulse # 0 => pwm

IInv == TypeOK /\ HeadsForTarget /\ Booting /\ PinFollows /\ Running /\ Budget

-----------------------------------------------------------------------------
(* The number a line holds is an angle the board can turn to. *)
LEMMA AngleInRange ==
    ASSUME NEW line \in Seq(Text)
    PROVE  AngleOf(line) \in 0..2 * Steps
<1>1. CASE Len(line) < 3 \/ line[3] \notin Digits
  BY <1>1, BoardAssumption DEF AngleOf
<1>2. CASE ~(Len(line) < 3 \/ line[3] \notin Digits)
           /\ (Len(line) < 4 \/ line[4] \notin Digits)
  <2>1. AngleOf(line) = line[3] /\ line[3] \in Digits
    BY <1>2 DEF AngleOf
  <2>2. line[3] \in Nat /\ line[3] <= 2 * Steps
    BY <2>1, BoardAssumption, LinesAssumption
  <2> QED
    BY <2>1, <2>2, BoardAssumption
<1>3. CASE ~(Len(line) < 3 \/ line[3] \notin Digits)
           /\ ~(Len(line) < 4 \/ line[4] \notin Digits)
  <2>1. AngleOf(line) = line[3] * Base + line[4]
    BY <1>3 DEF AngleOf
  <2>2. line[3] \in Digits /\ line[4] \in Digits
    BY <1>3
  <2>3. line[3] * Base + line[4] <= 2 * Steps
    BY <2>2, BoardAssumption
  <2>4. line[3] \in Nat /\ line[4] \in Nat /\ Base \in Nat
    BY <2>2, LinesAssumption
  <2>5. line[3] * Base + line[4] \in Nat
    BY <2>4
  <2> QED
    BY <2>1, <2>3, <2>5, BoardAssumption
<1> QED
  BY <1>1, <1>2, <1>3

(* The way clockwise: no more than half round, and whole pulses along it   *)
(* end at the target or a step before.                                     *)
LEMMA Clockwise ==
    ASSUME NEW a \in 0..2 * Steps, NEW c \in 0..Steps - 1,
           Turn(a - 2 * c) <= Turn(2 * c - a),
           NEW r \in Pulses(Turn(a - 2 * c))
    PROVE  /\ r \in 0..Steps \div 2
           /\ Wrap(c + r) \in {Wrap(a \div 2), Wrap(Wrap(a \div 2) - 1)}
BY BoardAssumption DEF Turn, Pulses, Wrap

(* The way counter-clockwise. *)
LEMMA CounterClockwise ==
    ASSUME NEW a \in 0..2 * Steps, NEW c \in 0..Steps - 1,
           0 < Turn(a - 2 * c), Turn(a - 2 * c) >= Turn(2 * c - a),
           NEW r \in Pulses(Turn(2 * c - a))
    PROVE  /\ r \in 0..Steps \div 2
           /\ Wrap(c - r) \in {Wrap(a \div 2), Wrap(Wrap(a \div 2) + 1)}
BY BoardAssumption DEF Turn, Pulses, Wrap

(* Correcting the position at the end shifts it by no step, or by one in   *)
(* the direction of the turn.                                              *)
LEMMA LastShift ==
    ASSUME NEW t \in 0..Steps - 1, NEW d \in {-1, 1},
           NEW c \in {t, Wrap(t - d)}
    PROVE  Near(c, t) \in {0, d}
BY BoardAssumption DEF Near, Wrap

-----------------------------------------------------------------------------
(* The lines of a stream. *)

(* A set of naturals has a least element: the order on Nat is well founded. *)
LEMMA LeastNatural ==
    ASSUME NEW S \in SUBSET Nat, S # {}
    PROVE  \E x \in S : \A y \in S : x <= y
<1>1. IsWellFoundedOn(OpToRel(<, Nat), Nat)
  BY NatLessThanWellFounded
<1>2. PICK x \in S : \A y \in S : ~(<<y, x>> \in OpToRel(<, Nat))
  BY <1>1, WFMin
<1>3. \A y \in S : ~(y < x)
  BY <1>2 DEF OpToRel
<1> QED
  BY <1>3

LEMMA MaxOfBounded ==
    ASSUME NEW b \in Nat, NEW S \in SUBSET (0..b), S # {}
    PROVE  Max(S) \in S /\ \A y \in S : y <= Max(S)
<1> DEFINE U == {x \in Nat : x <= b /\ b - x \in S}
<1>1. U \in SUBSET Nat /\ U # {}
  <2>1. PICK y \in S : y \in 0..b
    OBVIOUS
  <2>2. b - y \in U
    BY <2>1
  <2> QED
    BY <2>2
<1>2. PICK u \in U : \A x \in U : u <= x
  BY <1>1, LeastNatural
<1>3. b - u \in S /\ \A y \in S : y <= b - u
  <2>1. \A y \in S : b - y \in U
    OBVIOUS
  <2> QED
    BY <1>2, <2>1
<1>4. \E x \in S : \A y \in S : x >= y
  BY <1>3
<1> QED
  BY <1>4 DEF Max

(* A part of a sequence is what stands in it ... *)
LEMMA SubSeqsAgree ==
    ASSUME NEW s \in Seq(Bytes), NEW t \in Seq(Bytes),
           NEW l \in Nat, NEW h \in Nat, h <= Len(s), h <= Len(t),
           \A m \in 1..h : t[m] = s[m]
    PROVE  SubSeq(t, l + 1, h) = SubSeq(s, l + 1, h)
<1>1. /\ SubSeq(t, l + 1, h) \in Seq(Bytes) /\ SubSeq(s, l + 1, h) \in Seq(Bytes)
      /\ Len(SubSeq(t, l + 1, h)) = Len(SubSeq(s, l + 1, h))
  OBVIOUS
<1>2. \A m \in 1..Len(SubSeq(s, l + 1, h)) :
          SubSeq(t, l + 1, h)[m] = SubSeq(s, l + 1, h)[m]
  OBVIOUS
<1> QED
  BY <1>1, <1>2

(* ... and grows with it. *)
LEMMA SubSeqGrows ==
    ASSUME NEW t \in Seq(Bytes), NEW l \in Nat, NEW h \in Nat, l < h, h <= Len(t)
    PROVE  SubSeq(t, l + 1, h) = Append(SubSeq(t, l + 1, h - 1), t[h])
<1> DEFINE u == SubSeq(t, l + 1, h)
           v == Append(SubSeq(t, l + 1, h - 1), t[h])
<1>1. u \in Seq(Bytes) /\ v \in Seq(Bytes) /\ Len(u) = h - l /\ Len(v) = h - l
  OBVIOUS
<1>2. \A m \in 1..h - l : u[m] = v[m]
  OBVIOUS
<1> HIDE DEF u, v
<1>3. u = v
  BY <1>1, <1>2
<1> QED
  BY <1>3 DEF u, v

(* The last end before n is an end, and none follows it up to n. *)
LEMMA LastEndIsLast ==
    ASSUME NEW s \in Seq(Bytes), NEW n \in 1..Len(s) + 1
    PROVE  /\ LastEnd(s, n) \in 0..n - 1
           /\ LastEnd(s, n) # 0 => s[LastEnd(s, n)] = EOL
           /\ \A k \in LastEnd(s, n) + 1..n - 1 : s[k] # EOL
<1> DEFINE ends == {0} \cup {m \in 1..n - 1 : s[m] = EOL}
<1>1. ends \in SUBSET (0..n - 1) /\ ends # {} /\ n - 1 \in Nat
  OBVIOUS
<1>2. LastEnd(s, n) \in ends /\ \A y \in ends : y <= LastEnd(s, n)
  BY <1>1, MaxOfBounded DEF LastEnd
<1> HIDE DEF ends
<1>3. LastEnd(s, n) \in 0..n - 1
  BY <1>1, <1>2
<1> QED
  BY <1>2, <1>3 DEF ends

(* What follows does not change a line. *)
LEMMA LineStays ==
    ASSUME NEW s \in Seq(Bytes), NEW b \in Bytes, NEW n \in 1..Len(s) + 1
    PROVE  LineAt(Append(s, b), n) = LineAt(s, n)
<1> DEFINE t == Append(s, b)
<1>1. Len(s) \in Nat /\ t \in Seq(Bytes) /\ Len(t) = Len(s) + 1
      /\ \A m \in 1..Len(s) : t[m] = s[m]
  OBVIOUS
<1> HIDE DEF t
<1>2. LastEnd(t, n) = LastEnd(s, n)
  <2>1. {m \in 1..n - 1 : t[m] = EOL} = {m \in 1..n - 1 : s[m] = EOL}
    BY <1>1
  <2> QED
    BY <2>1 DEF LastEnd
<1>3. PICK l \in 0..n - 1 : l = LastEnd(s, n)
  BY LastEndIsLast
<1>4. SubSeq(t, l + 1, n - 1) = SubSeq(s, l + 1, n - 1)
  <2>1. n - 1 \in Nat /\ n - 1 <= Len(s) /\ n - 1 <= Len(t) /\ l \in Nat
        /\ \A m \in 1..n - 1 : t[m] = s[m]
    BY <1>1, <1>3
  <2> QED
    BY <1>1, <2>1, SubSeqsAgree
<1> QED
  BY <1>2, <1>3, <1>4 DEF LineAt, t

(* The line under way is empty after an end, and grows by any other byte. *)
LEMMA LineGrows ==
    ASSUME NEW s \in Seq(Bytes), NEW b \in Bytes
    PROVE  LineAt(Append(s, b), Len(s) + 2)
             = IF b = EOL THEN <<>> ELSE Append(LineAt(s, Len(s) + 1), b)
<1> DEFINE t == Append(s, b)
           N == Len(s) + 1
<1>1. /\ t \in Seq(Bytes) /\ Len(t) = N /\ N \in 1..Len(s) + 1 /\ t[N] = b
      /\ N + 1 \in 1..Len(t) + 1 /\ N + 1 = Len(s) + 2
      /\ \A m \in 1..N - 1 : t[m] = s[m]
  OBVIOUS
<1> HIDE DEF t, N
<1>2. PICK k \in 0..N : /\ k = LastEnd(t, N + 1)
                        /\ k # 0 => t[k] = EOL
                        /\ \A m \in k + 1..N : t[m] # EOL
  <2> DEFINE k == LastEnd(t, N + 1)
  <2>1. (N + 1) - 1 = N
    BY <1>1
  <2>2. /\ k \in 0..(N + 1) - 1
        /\ k # 0 => t[k] = EOL
        /\ \A m \in k + 1..(N + 1) - 1 : t[m] # EOL
    BY <1>1, LastEndIsLast
  <2> HIDE DEF k
  <2>3. /\ k \in 0..N
        /\ k # 0 => t[k] = EOL
        /\ \A m \in k + 1..N : t[m] # EOL
    BY <2>1, <2>2
  <2> QED
    BY <2>3 DEF k
<1>3. PICK l \in 0..N - 1 : /\ l = LastEnd(s, N)
                            /\ l # 0 => s[l] = EOL
                            /\ \A m \in l + 1..N - 1 : s[m] # EOL
  BY <1>1, LastEndIsLast
<1>4. LineAt(t, N + 1) = SubSeq(t, k + 1, N)
  <2>1. (N + 1) - 1 = N
    BY <1>1
  <2>2. LineAt(t, N + 1) = SubSeq(t, LastEnd(t, N + 1) + 1, (N + 1) - 1)
    BY DEF LineAt
  <2> QED
    BY <1>2, <2>1, <2>2
<1>5. CASE b = EOL
  <2>1. k = N
    BY <1>1, <1>2, <1>5
  <2>2. SubSeq(t, N + 1, N) = <<>>
    BY SMTT(30), <1>1
  <2> QED
    BY <1>1, <1>4, <1>5, <2>1, <2>2 DEF t
<1>6. CASE b # EOL
  <2>1. k = l
    BY <1>1, <1>2, <1>3, <1>6
  <2>2. SubSeq(t, l + 1, N) = Append(SubSeq(s, l + 1, N - 1), b)
    <3>1. SubSeq(t, l + 1, N) = Append(SubSeq(t, l + 1, N - 1), t[N])
      <4>1. l \in Nat /\ N \in Nat /\ l < N /\ N <= Len(t)
        BY <1>1, <1>3
      <4> QED
        BY <1>1, <4>1, SubSeqGrows
    <3>2. SubSeq(t, l + 1, N - 1) = SubSeq(s, l + 1, N - 1)
      BY <1>1, <1>3, SubSeqsAgree
    <3> QED
      BY <1>1, <3>1, <3>2
  <2> QED
    BY <1>1, <1>3, <1>4, <1>6, <2>1, <2>2 DEF LineAt, t, N
<1> QED
  BY <1>5, <1>6

LEMMA LineType ==
    ASSUME NEW s \in Seq(Bytes), NEW n \in 1..Len(s) + 1
    PROVE  LineAt(s, n) \in Seq(Text)
<1> DEFINE l == LastEnd(s, n)
<1>1. l \in 0..n - 1 /\ \A k \in l + 1..n - 1 : s[k] # EOL
  BY LastEndIsLast
<1> HIDE DEF l
<1>2. \A k \in l + 1..n - 1 : s[k] \in Text
  BY <1>1 DEF Bytes
<1>3. SubSeq(s, l + 1, n - 1) \in Seq(Text)
  BY <1>1, <1>2
<1> QED
  BY <1>3 DEF LineAt, l

(* A byte more ends an order exactly when it ends a line that is one. *)
LEMMA OrderEndsGrow ==
    ASSUME NEW s \in Seq(Bytes), NEW b \in Bytes
    PROVE  OrderEnds(Append(s, b))
             = OrderEnds(s) \cup
               (IF b = EOL /\ IsOrder(LineAt(s, Len(s) + 1)) THEN {Len(s) + 1}
                                                             ELSE {})
<1> DEFINE t == Append(s, b)
           N == Len(s) + 1
<1>1. /\ Len(s) \in Nat /\ DOMAIN t = 1..N /\ DOMAIN s = 1..N - 1 /\ t[N] = b
      /\ \A n \in 1..N - 1 : t[n] = s[n]
      /\ 1..N = (1..N - 1) \cup {N} /\ N \notin 1..N - 1
  OBVIOUS
<1>2. \A n \in 1..N : LineAt(t, n) = LineAt(s, n)
  BY LineStays
<1> HIDE DEF t, N
<1>3. OrderEnds(t) = {n \in 1..N : t[n] = EOL /\ IsOrder(LineAt(s, n))}
  BY <1>1, <1>2 DEF OrderEnds
<1>4. OrderEnds(s) = {n \in 1..N - 1 : t[n] = EOL /\ IsOrder(LineAt(s, n))}
  BY <1>1 DEF OrderEnds
<1>5. OrderEnds(t) = OrderEnds(s) \cup
          (IF b = EOL /\ IsOrder(LineAt(s, N)) THEN {N} ELSE {})
  BY <1>1, <1>3, <1>4
<1> QED
  BY <1>5 DEF t, N

LEMMA OrderEndsFinite ==
    ASSUME NEW s \in Seq(Bytes), NEW T \in SUBSET OrderEnds(s)
    PROVE  /\ IsFiniteSet(T) /\ Cardinality(T) \in Nat
           /\ Cardinality(T) <= Cardinality(OrderEnds(s))
<1>1. IsFiniteSet(1..Len(s)) /\ OrderEnds(s) \in SUBSET (1..Len(s))
  BY FS_Interval DEF OrderEnds
<1>2. IsFiniteSet(OrderEnds(s))
  BY <1>1, FS_Subset
<1> QED
  BY <1>2, FS_Subset, FS_CardinalityType

-----------------------------------------------------------------------------
LEMMA InitIInv == Init => IInv
<1> SUFFICES ASSUME Init PROVE IInv
  OBVIOUS
<1>1. 0 \in 0..Steps - 1 /\ 0 \in 0..2 * Steps /\ 0 \in 0..Steps \div 2
  BY BoardAssumption
<1>2. TypeOK
  <2>1. rx \in Seq(Text) /\ obeyed \in Seq(-1..2 * Steps) /\ heard \in Seq(Bytes)
    BY DEF Init
  <2>2. rotation \in BOOLEAN /\ pwm \in BOOLEAN
    BY DEF Init
  <2>3. /\ lag \in Int
        /\ direction \in {-1, 1} /\ pin \in {-1, 1} /\ pulse \in {-1, 0, 1}
    BY DEF Init
  <2>4. target \in 0..2 * Steps /\ count \in 0..Steps - 1
        /\ remaining \in 0..Steps \div 2
    BY <1>1 DEF Init
  <2> QED
    BY <2>1, <2>2, <2>3, <2>4 DEF TypeOK
<1>3. HeadsForTarget
  <2>1. 0 \div 2 = 0 /\ Wrap(0) = 0
    BY BoardAssumption DEF Wrap
  <2> QED
    BY <2>1 DEF Init, HeadsForTarget, TargetCount
<1>4. Len(obeyed) = 0
  BY DEF Init
<1>5. Booting /\ PinFollows /\ Running /\ Budget
  BY <1>4 DEF Init, Booting, PinFollows, Running, Budget, Misled, Beyond
<1> QED
  BY <1>2, <1>3, <1>5 DEF IInv

LEMMA PulseRiseKeeps ==
    ASSUME IInv, PulseRise, UNCHANGED heard
    PROVE  IInv'
<1> USE BoardAssumption
<1>1. TypeOK'
  BY DEF IInv, TypeOK, PulseRise
<1>2. HeadsForTarget' /\ Booting' /\ PinFollows' /\ Running'
  BY DEF IInv, HeadsForTarget, TargetCount, Booting, PinFollows, Counted,
     Running, PulseRise
<1>3. Budget'
  BY DEF IInv, TypeOK, Budget, Misled, Beyond, PinFollows, Counted, PulseRise
<1> QED
  BY <1>1, <1>2, <1>3 DEF IInv

LEMMA CountRotationKeeps ==
    ASSUME IInv, CountRotation, UNCHANGED heard
    PROVE  IInv'
<1> USE BoardAssumption
<1>1. TypeOK'
  BY DEF IInv, TypeOK, CountRotation, Wrap
<1>2. HeadsForTarget' /\ Booting' /\ PinFollows' /\ Running'
  BY DEF IInv, HeadsForTarget, Booting, PinFollows, Counted, Running,
     CountRotation
<1>3. Budget'
  BY DEF IInv, TypeOK, Budget, Misled, Beyond, Booting, Counted, CountRotation
<1> QED
  BY <1>1, <1>2, <1>3 DEF IInv

LEMMA CountTurnKeeps ==
    ASSUME IInv, CountTurn, UNCHANGED heard
    PROVE  IInv'
<1> USE BoardAssumption
<1>1. TypeOK'
  BY DEF IInv, TypeOK, CountTurn, Wrap
<1>2. HeadsForTarget'
  BY DEF IInv, TypeOK, HeadsForTarget, TargetCount, CountTurn, Wrap
<1>3. Booting' /\ PinFollows' /\ Running'
  BY DEF IInv, TypeOK, Booting, PinFollows, Counted, Running, CountTurn
<1>4. Budget'
  <2>1. /\ lag \in Int /\ pulse \in {-1, 1} /\ direction \in {-1, 1}
        /\ lag' = lag - direction /\ pulse' = 0 /\ obeyed # <<>>
        /\ UNCHANGED <<rotation, pwm, obeyed>> /\ ~rotation
        /\ Len(obeyed) \in Nat
    BY DEF IInv, TypeOK, Booting, CountTurn
  <2>2. Misled = (IF pulse # direction THEN 2 ELSE 0) /\ Misled' = 0
        /\ Beyond' = Beyond /\ Beyond \in {0, 1}
    BY <2>1 DEF Misled, Beyond, Counted
  <2>3. /\ lag - pulse + Misled + Beyond <= 1 + 3 * Len(obeyed)
        /\ pulse - lag + Misled + Beyond <= 1 + 3 * Len(obeyed)
    BY DEF IInv, Budget
  <2> QED
    BY <2>1, <2>2, <2>3 DEF Budget
<1> QED
  BY <1>1, <1>2, <1>3, <1>4 DEF IInv

LEMMA HaltKeeps ==
    ASSUME IInv, Halt, UNCHANGED heard
    PROVE  IInv'
<1> USE BoardAssumption
<1>1. TargetCount \in 0..Steps - 1
  BY DEF IInv, TypeOK, TargetCount, Wrap
<1>2. Wrap(count) = count
  BY DEF IInv, TypeOK, Wrap
<1>3. count \in {TargetCount, Wrap(TargetCount - direction)}
  BY <1>2 DEF IInv, TypeOK, HeadsForTarget, Halt
<1>4. Near(count, TargetCount) \in {0, direction}
  BY <1>1, <1>3, LastShift DEF IInv, TypeOK
<1>5. TypeOK'
  <2>1. lag' \in Int
    <3>1. lag \in Int /\ direction \in {-1, 1} /\ lag' = lag - Near(count, TargetCount)
      BY DEF IInv, TypeOK, Halt
    <3> QED
      BY <1>4, <3>1
  <2> QED
    BY <1>1, <2>1 DEF IInv, TypeOK, Halt
<1>6. HeadsForTarget'
  <2>1. TargetCount' = TargetCount
    BY DEF Halt, TargetCount
  <2>2. count' = TargetCount /\ remaining' = 0
    BY DEF Halt
  <2>3. Wrap(count') = TargetCount
    BY <1>1, <2>2 DEF Wrap
  <2>4. count' + remaining' = count' /\ count' - remaining' = count'
    BY <1>1, <2>2
  <2> QED
    BY <2>1, <2>3, <2>4 DEF HeadsForTarget
<1>7. Booting' /\ PinFollows' /\ Running'
  BY DEF IInv, TypeOK, Booting, PinFollows, Counted, Running, Halt, TargetCount,
     Wrap
<1>8. Budget'
  <2>1. lag' = lag - Near(count, TargetCount) /\ pulse' = 0 /\ pwm' = FALSE
        /\ obeyed' = obeyed /\ ~rotation /\ ~rotation' /\ pulse # 0
    BY DEF Halt
  <2>2. Misled' = 0 /\ Beyond' = 0 /\ Beyond = 1
    BY <2>1 DEF Misled, Beyond, IInv, Running
  <2>3. CASE obeyed = <<>>
    <3>1. Near(count, TargetCount) = 0
      BY <2>3 DEF IInv, Booting, TargetCount, Wrap, Near
    <3> QED
      BY <2>1, <2>2, <2>3, <3>1 DEF IInv, TypeOK, Budget, Misled
  <2>4. CASE obeyed # <<>>
    <3>1. Misled = IF pulse # direction THEN 2 ELSE 0
      BY <2>1, <2>4 DEF Misled, Counted
    <3>2. /\ lag - pulse + Misled + 1 <= 1 + 3 * Len(obeyed)
          /\ pulse - lag + Misled + 1 <= 1 + 3 * Len(obeyed)
      BY <2>2 DEF IInv, Budget
    <3>3. /\ lag \in Int /\ pulse \in {-1, 1} /\ direction \in {-1, 1}
          /\ Len(obeyed) \in Nat
      BY <2>1 DEF IInv, TypeOK
    <3>4. /\ lag' - 0 + 0 + 0 <= 1 + 3 * Len(obeyed)
          /\ 0 - lag' + 0 + 0 <= 1 + 3 * Len(obeyed)
      <4> DEFINE shift == Near(count, TargetCount)
      <4>1. shift \in {0, direction} /\ lag' = lag - shift
        BY <1>4, <2>1
      <4> HIDE DEF shift
      <4> QED
        BY <3>1, <3>2, <3>3, <4>1
    <3> QED
      BY <2>1, <2>2, <3>4 DEF Budget
  <2> QED
    BY <2>3, <2>4
<1> QED
  BY <1>5, <1>6, <1>7, <1>8 DEF IInv

LEMMA RxCpltKeeps ==
    ASSUME IInv, NEW b \in Bytes, RxCplt(b), heard' = Append(heard, b)
    PROVE  IInv'
<1> USE BoardAssumption
<1>1. CASE StoreByte(b) \/ IgnoreLine(b)
  <2>1. UNCHANGED <<rotation, direction, pin, target, count, remaining, pwm,
                    pulse, lag, obeyed>>
    BY <1>1 DEF StoreByte, IgnoreLine
  <2>2. rx' \in Seq(Text)
    <3>1. rx \in Seq(Text) /\ <<>> \in Seq(Text)
      BY DEF IInv, TypeOK
    <3>2. CASE StoreByte(b)
      <4>1. b \in Text
        BY <3>2 DEF StoreByte, Bytes
      <4>2. Append(rx, b) \in Seq(Text)
        BY <3>1, <4>1
      <4> QED
        BY <3>1, <3>2, <4>2 DEF StoreByte
    <3>3. CASE IgnoreLine(b)
      BY <3>1, <3>3 DEF IgnoreLine
    <3> QED
      BY <1>1, <3>2, <3>3
  <2>3. TypeOK'
    BY <2>1, <2>2 DEF IInv, TypeOK
  <2>4. HeadsForTarget' /\ Booting' /\ PinFollows' /\ Running' /\ Budget'
    BY <2>1 DEF IInv, HeadsForTarget, TargetCount, Booting, PinFollows, Counted,
       Running, Budget, Misled, Beyond
  <2> QED
    BY <2>3, <2>4 DEF IInv
<1>2. CASE StartRotation(b)
  <2>1. obeyed' = Append(obeyed, -1) /\ obeyed \in Seq(-1..2 * Steps)
    BY <1>2 DEF StartRotation, IInv, TypeOK
  <2>2. Len(obeyed') = Len(obeyed) + 1 /\ obeyed' # <<>>
        /\ obeyed' \in Seq(-1..2 * Steps) /\ Len(obeyed) \in Nat
    BY <2>1
  <2>3. TypeOK'
    BY <1>2, <2>2 DEF StartRotation, IInv, TypeOK
  <2>4. HeadsForTarget' /\ Booting' /\ PinFollows' /\ Running'
    BY <1>2, <2>2 DEF StartRotation, HeadsForTarget, Booting, PinFollows,
       Counted, Running
  <2>5. Budget'
    <3>1. Misled' \in {0, 2} /\ Beyond' = 0 /\ lag' = lag /\ pulse' = pulse
      BY <1>2 DEF StartRotation, Misled, Beyond
    <3>2. lag - pulse <= 1 + 3 * Len(obeyed) /\ pulse - lag <= 1 + 3 * Len(obeyed)
      BY SMTT(30) DEF IInv, TypeOK, Budget, Misled, Beyond
    <3>3. lag \in Int /\ pulse \in Int
      BY DEF IInv, TypeOK
    <3>4. 1 + 3 * Len(obeyed') = 4 + 3 * Len(obeyed)
      BY <2>2
    <3>5. /\ lag' - pulse' + Misled' + Beyond' <= 1 + 3 * Len(obeyed')
          /\ pulse' - lag' + Misled' + Beyond' <= 1 + 3 * Len(obeyed')
      BY SMTT(30), <2>2, <3>1, <3>2, <3>3, <3>4
    <3> QED
      BY <3>5 DEF Budget
  <2> QED
    BY <2>3, <2>4, <2>5 DEF IInv
<1>3. CASE StartTurn(b)
  <2> DEFINE angle == AngleOf(rx)
  <2>1. angle \in 0..2 * Steps
    BY AngleInRange DEF IInv, TypeOK
  <2>2. /\ obeyed' = Append(obeyed, angle) /\ target' = angle
        /\ rotation' = FALSE /\ pwm' = TRUE
        /\ count' = count /\ pulse' = pulse /\ lag' = lag /\ rx' = <<>>
    BY <1>3 DEF StartTurn
  <2>3. Len(obeyed') = Len(obeyed) + 1 /\ obeyed' # <<>>
        /\ obeyed' \in Seq(-1..2 * Steps) /\ Len(obeyed) \in Nat
    <3>1. obeyed \in Seq(-1..2 * Steps)
      BY DEF IInv, TypeOK
    <3>2. angle \in -1..2 * Steps /\ obeyed' = Append(obeyed, angle)
      BY <2>1, <2>2, BoardAssumption
    <3> HIDE DEF angle
    <3> QED
      BY <3>1, <3>2
  <2>4. count \in 0..Steps - 1
    BY DEF IInv, TypeOK
  <2>5. /\ direction' \in {-1, 1} /\ pin' = direction'
        /\ remaining' \in 0..Steps \div 2
        /\ Wrap(IF direction' = 1 THEN count + remaining' ELSE count - remaining')
             \in {Wrap(angle \div 2), Wrap(Wrap(angle \div 2) - direction')}
    <3> DEFINE cw  == Turn(angle - 2 * count)
               ccw == Turn(2 * count - angle)
    <3>1. CASE /\ cw <= ccw /\ direction' = 1 /\ pin' = 1
               /\ remaining' \in Pulses(cw)
      BY <2>1, <2>4, <3>1, Clockwise
    <3>2. CASE /\ cw > 0 /\ cw >= ccw /\ direction' = -1 /\ pin' = -1
               /\ remaining' \in Pulses(ccw)
      <4>1. 0 < cw /\ cw >= ccw /\ remaining' \in Pulses(ccw)
        BY <2>1, <2>4, <3>2 DEF Turn
      <4>2. /\ remaining' \in 0..Steps \div 2
            /\ Wrap(count - remaining')
                 \in {Wrap(angle \div 2), Wrap(Wrap(angle \div 2) + 1)}
        BY <2>1, <2>4, <4>1, CounterClockwise
      <4>3. Wrap(angle \div 2) - direction' = Wrap(angle \div 2) + 1
        BY <2>1, <3>2 DEF Wrap
      <4> QED
        BY <3>2, <4>2, <4>3
    <3> QED
      BY <1>3, <3>1, <3>2 DEF StartTurn
  <2>6. TypeOK'
    <3>1. heard' \in Seq(Bytes) /\ rx' \in Seq(Text)
      BY <2>2 DEF IInv, TypeOK
    <3> QED
      BY <2>1, <2>2, <2>3, <2>5, <3>1 DEF IInv, TypeOK
  <2>7. HeadsForTarget'
    BY <2>2, <2>5 DEF HeadsForTarget, TargetCount
  <2>8. Booting' /\ PinFollows' /\ Running'
    BY <2>2, <2>3, <2>5 DEF Booting, PinFollows, Counted, Running
  <2>9. Budget'
    <3>1. Misled' \in {0, 2} /\ Beyond' = 1
      BY <2>2 DEF Misled, Beyond
    <3>2. lag - pulse <= 1 + 3 * Len(obeyed) /\ pulse - lag <= 1 + 3 * Len(obeyed)
      BY SMTT(30) DEF IInv, TypeOK, Budget, Misled, Beyond
    <3>3. lag \in Int /\ pulse \in Int
      BY DEF IInv, TypeOK
    <3>4. 1 + 3 * Len(obeyed') = 4 + 3 * Len(obeyed)
      BY <2>3
    <3>5. lag' = lag /\ pulse' = pulse
      BY <2>2
    <3>6. /\ lag' - pulse' + Misled' + Beyond' <= 1 + 3 * Len(obeyed')
          /\ pulse' - lag' + Misled' + Beyond' <= 1 + 3 * Len(obeyed')
      BY SMTT(30), <2>3, <3>1, <3>2, <3>3, <3>4, <3>5
    <3> QED
      BY <3>6 DEF Budget
  <2> QED
    BY <2>6, <2>7, <2>8, <2>9 DEF IInv
<1> QED
  BY <1>1, <1>2, <1>3 DEF RxCplt

LEMMA NextKeeps == IInv /\ [Next]_vars => IInv'
<1> SUFFICES ASSUME IInv, [Next]_vars PROVE IInv'
  OBVIOUS
<1>1. CASE Pulse
  BY <1>1, PulseRiseKeeps, CountRotationKeeps, CountTurnKeeps, HaltKeeps
     DEF Pulse, PulseFinished
<1>2. CASE Receive
  <2>1. PICK input \in Inputs :
            /\ Len(heard) + 1 <= Len(input)
            /\ RxCplt(input[Len(heard) + 1])
            /\ heard' = Append(heard, input[Len(heard) + 1])
    BY <1>2 DEF Receive
  <2>2. input[Len(heard) + 1] \in Bytes
    BY <2>1, BoardAssumption DEF IInv, TypeOK
  <2> QED
    BY <2>1, <2>2, RxCpltKeeps
<1>3. CASE UNCHANGED vars
  BY <1>3 DEF vars, board, IInv, TypeOK, HeadsForTarget, TargetCount, Booting,
     PinFollows, Counted, Running, Budget, Misled, Beyond
<1> QED
  BY <1>1, <1>2, <1>3 DEF Next

-----------------------------------------------------------------------------
(* A buffer that holds the beginning of a line. *)
Holds(buffer, line) ==
    /\ Len(buffer) = IF Len(line) < RxSize THEN Len(line) ELSE RxSize - 1
    /\ \A k \in 1..Len(buffer) : buffer[k] = line[k]

(* The buffer is long enough to tell what the line orders. *)
LEMMA ReadAlike ==
    ASSUME NEW line \in Seq(Text), NEW buffer \in Seq(Text), Holds(buffer, line)
    PROVE  /\ IsRotation(buffer) <=> IsRotation(line)
           /\ IsStop(buffer) <=> IsStop(line)
           /\ AngleOf(buffer) = AngleOf(line)
<1>1. /\ Len(line) \in Nat /\ Len(buffer) \in Nat
      /\ Len(line) < 5 => Len(buffer) = Len(line)
      /\ Len(line) >= 5 => Len(buffer) >= 4
      /\ \A k \in 1..Len(buffer) : buffer[k] = line[k]
  BY BoardAssumption DEF Holds
<1>2. \A s \in Seq(Text) :
          IsRotation(s) <=> Len(s) = 2 /\ s[1] = ROTATION /\ s[2] = MODE
  BY DEF IsRotation
<1>3. IsRotation(buffer) <=> IsRotation(line)
  BY <1>1, <1>2
<1>4. IsStop(buffer) <=> IsStop(line)
  BY <1>1 DEF IsStop
<1>5. AngleOf(buffer) = AngleOf(line)
  <2>1. Len(buffer) < 3 <=> Len(line) < 3
    BY <1>1
  <2>2. Len(buffer) < 4 <=> Len(line) < 4
    BY <1>1
  <2>3. ~(Len(line) < 3) => buffer[3] = line[3]
    BY <1>1
  <2>4. ~(Len(line) < 4) => buffer[4] = line[4]
    BY <1>1
  <2> QED
    BY <1>1, <2>1, <2>2, <2>3, <2>4 DEF AngleOf
<1> QED
  BY <1>3, <1>4, <1>5

(* What the handler has read of the line under way, and has obeyed before. *)
Reading == Holds(rx, LineAt(heard, Len(heard) + 1)) /\ LinesObeyed

LEMMA InitReading == Init => Reading
<1> SUFFICES ASSUME Init PROVE Reading
  OBVIOUS
<1>1. rx = <<>> /\ heard = <<>> /\ obeyed = <<>> /\ Len(<<>>) = 0
  BY DEF Init
<1>2. OrderEnds(heard) = {}
  BY <1>1 DEF OrderEnds
<1>3. LinesObeyed
  BY <1>1, <1>2, FS_EmptySet DEF LinesObeyed
<1>4. Len(LineAt(<<>>, 1)) = 0
  <2>1. LastEnd(<<>>, 1) = 0
    <3>1. <<>> \in Seq(Bytes) /\ 1 \in 1..Len(<<>>) + 1
      OBVIOUS
    <3>2. LastEnd(<<>>, 1) \in 0..1 - 1
      BY <3>1, LastEndIsLast
    <3> QED
      BY <3>2
  <2>2. LineAt(<<>>, 1) = SubSeq(<<>>, 1, 0)
    BY <2>1 DEF LineAt
  <2> QED
    BY <2>2
<1>5. Holds(rx, LineAt(heard, Len(heard) + 1))
  BY <1>1, <1>4, BoardAssumption DEF Holds
<1> QED
  BY <1>3, <1>5 DEF Reading

(* An order obeyed at its end is the next one. *)
LEMMA OrderObeyed ==
    ASSUME TypeOK, LinesObeyed, heard' = Append(heard, EOL),
           IsOrder(LineAt(heard, Len(heard) + 1)),
           obeyed' = Append(obeyed, Value(LineAt(heard, Len(heard) + 1)))
    PROVE  LinesObeyed'
<1> DEFINE N == Len(heard) + 1
           E == OrderEnds(heard)
           F == OrderEnds(heard')
           v == Value(LineAt(heard, N))
<1>1. heard \in Seq(Bytes) /\ EOL \in Bytes /\ Len(heard) \in Nat /\ N \in 1..Len(heard) + 1
  BY DEF TypeOK, Bytes
<1>2. F = E \cup {N}
  BY <1>1, OrderEndsGrow
<1>3. E \in SUBSET (1..Len(heard)) /\ N \notin E
  BY <1>1 DEF OrderEnds
<1>4. IsFiniteSet(E) /\ Cardinality(E) \in Nat
  BY <1>1, OrderEndsFinite
<1>5. Cardinality(F) = Cardinality(E) + 1
  BY <1>2, <1>3, <1>4, FS_AddElement
<1>6. /\ Len(obeyed) = Cardinality(E) /\ obeyed \in Seq(-1..2 * Steps)
      /\ \A n \in E : obeyed[Cardinality({m \in E : m <= n})] = Value(LineAt(heard, n))
  BY DEF LinesObeyed, TypeOK
<1>7. obeyed' = Append(obeyed, v)
  OBVIOUS
<1>8. \A n \in F : LineAt(heard', n) = LineAt(heard, n)
  BY <1>1, <1>2, <1>3, LineStays
<1> HIDE DEF N, E, F, v
<1>9. Len(obeyed') = Cardinality(F) /\ obeyed'[Cardinality(F)] = v
      /\ \A k \in 1..Cardinality(E) : obeyed'[k] = obeyed[k]
  BY <1>4, <1>5, <1>6, <1>7
<1>10. obeyed'[Cardinality({m \in F : m <= N})] = Value(LineAt(heard', N))
  <2>1. {m \in F : m <= N} = F /\ N \in F
    <3>1. N \in Nat /\ \A m \in E : m <= N
      BY <1>1, <1>3 DEF N
    <3>2. \A m \in F : m <= N
      BY <1>2, <3>1
    <3> QED
      BY <1>2, <3>2
  <2> QED
    BY <1>8, <1>9, <2>1 DEF v
<1>11. ASSUME NEW n \in E
       PROVE  obeyed'[Cardinality({m \in F : m <= n})] = Value(LineAt(heard', n))
  <2> DEFINE U == {m \in E : m <= n}
  <2>1. {m \in F : m <= n} = U
    <3>1. ~(N <= n)
      BY <1>1, <1>3 DEF N
    <3> QED
      BY <1>2, <3>1
  <2>2. IsFiniteSet(U) /\ Cardinality(U) \in Nat /\ Cardinality(U) <= Cardinality(E)
    BY <1>1, OrderEndsFinite DEF E
  <2>3. n \in U
    BY <1>1, <1>3
  <2>4. Cardinality(U) # 0
    BY <2>2, <2>3, FS_EmptySet
  <2>5. Cardinality(U) \in 1..Cardinality(E)
    <3> HIDE DEF U
    <3> QED
      BY <1>4, <2>2, <2>4
  <2> QED
    BY <1>2, <1>6, <1>8, <1>9, <2>1, <2>5
<1> QED
  BY <1>2, <1>9, <1>10, <1>11 DEF LinesObeyed, F

(* A byte that ends no order adds none. *)
LEMMA NoneObeyed ==
    ASSUME TypeOK, LinesObeyed, NEW b \in Bytes, heard' = Append(heard, b),
           ~(b = EOL /\ IsOrder(LineAt(heard, Len(heard) + 1))),
           obeyed' = obeyed
    PROVE  LinesObeyed'
<1>1. heard \in Seq(Bytes)
  BY DEF TypeOK
<1>2. OrderEnds(heard') = OrderEnds(heard)
  BY <1>1, OrderEndsGrow
<1>3. \A n \in OrderEnds(heard) : n \in 1..Len(heard) + 1
  BY <1>1 DEF OrderEnds
<1>4. \A n \in OrderEnds(heard) : LineAt(heard', n) = LineAt(heard, n)
  BY <1>1, <1>3, LineStays
<1> QED
  BY <1>2, <1>4 DEF LinesObeyed

LEMMA RxCpltReads ==
    ASSUME TypeOK, Reading, NEW b \in Bytes, RxCplt(b), heard' = Append(heard, b)
    PROVE  Reading'
<1> DEFINE line == LineAt(heard, Len(heard) + 1)
           next == LineAt(heard', Len(heard') + 1)
<1>1. /\ heard \in Seq(Bytes) /\ Len(heard) \in Nat /\ rx \in Seq(Text)
      /\ Len(heard') + 1 = Len(heard) + 2
  BY DEF TypeOK
<1>2. line \in Seq(Text) /\ Holds(rx, line) /\ LinesObeyed
  BY <1>1, LineType DEF Reading
<1>3. next = IF b = EOL THEN <<>> ELSE Append(line, b)
  BY <1>1, LineGrows
<1>4. /\ IsRotation(rx) <=> IsRotation(line)
      /\ IsStop(rx) <=> IsStop(line)
      /\ AngleOf(rx) = AngleOf(line)
  BY <1>1, <1>2, ReadAlike
<1>5. Reading' <=> Holds(rx', next) /\ LinesObeyed'
  BY DEF Reading
<1> HIDE DEF line, next
<1>6. b = EOL /\ rx' = <<>> => Holds(rx', next)
  <2>1. Len(<<>>) = 0
    OBVIOUS
  <2> QED
    BY <1>3, <2>1, BoardAssumption DEF Holds
<1>7. CASE StoreByte(b)
  <2>1. b # EOL /\ b \in Text /\ obeyed' = obeyed
        /\ rx' = IF Len(rx) < RxSize - 1 THEN Append(rx, b) ELSE rx
    BY <1>7 DEF StoreByte, Bytes
  <2>2. Holds(rx', Append(line, b))
    BY SMTT(30), <1>1, <1>2, <2>1, BoardAssumption DEF Holds
  <2>3. LinesObeyed'
    BY <1>2, <2>1, NoneObeyed
  <2> QED
    BY <1>3, <1>5, <2>1, <2>2, <2>3
<1>8. CASE StartRotation(b)
  <2>1. b = EOL /\ rx' = <<>> /\ IsRotation(line) /\ obeyed' = Append(obeyed, -1)
    BY <1>4, <1>8 DEF StartRotation
  <2>2. IsOrder(line) /\ Value(line) = -1
    BY <2>1 DEF IsOrder, Value
  <2>3. LinesObeyed'
    BY <1>2, <2>1, <2>2, OrderObeyed DEF line
  <2> QED
    BY <1>5, <1>6, <2>1, <2>3
<1>9. CASE StartTurn(b)
  <2>1. b = EOL /\ rx' = <<>> /\ IsStop(line) /\ obeyed' = Append(obeyed, AngleOf(line))
    BY <1>4, <1>9 DEF StartTurn
  <2>2. ~IsRotation(line)
    BY <2>1 DEF IsStop, IsRotation, STOP, ROTATION
  <2>3. IsOrder(line) /\ Value(line) = AngleOf(line)
    BY <2>1, <2>2 DEF IsOrder, Value
  <2>4. LinesObeyed'
    BY <1>2, <2>1, <2>3, OrderObeyed DEF line
  <2> QED
    BY <1>5, <1>6, <2>1, <2>4
<1>10. CASE IgnoreLine(b)
  <2>1. b = EOL /\ rx' = <<>> /\ ~IsOrder(line) /\ obeyed' = obeyed
    BY <1>4, <1>10 DEF IgnoreLine, IsOrder
  <2>2. LinesObeyed'
    BY <1>2, <2>1, NoneObeyed DEF line
  <2> QED
    BY <1>5, <1>6, <2>1, <2>2
<1> QED
  BY <1>7, <1>8, <1>9, <1>10 DEF RxCplt

LEMMA NextReading == TypeOK /\ Reading /\ [Next]_vars => Reading'
<1> SUFFICES ASSUME TypeOK, Reading, [Next]_vars PROVE Reading'
  OBVIOUS
<1>1. CASE Receive
  <2>1. PICK input \in Inputs :
            /\ Len(heard) + 1 <= Len(input)
            /\ RxCplt(input[Len(heard) + 1])
            /\ heard' = Append(heard, input[Len(heard) + 1])
    BY <1>1 DEF Receive
  <2>2. input[Len(heard) + 1] \in Bytes
    BY <2>1, BoardAssumption DEF TypeOK
  <2> QED
    BY <2>1, <2>2, RxCpltReads
<1>2. CASE Pulse \/ UNCHANGED vars
  <2>1. UNCHANGED <<rx, obeyed, heard>>
    BY <1>2 DEF Pulse, PulseRise, PulseFinished, CountRotation, CountTurn, Halt,
       vars, board
  <2> QED
    BY <2>1 DEF Reading, Holds, LinesObeyed
<1> QED
  BY <1>1, <1>2 DEF Next

-----------------------------------------------------------------------------
(* The inductive invariant holds in every reachable state. *)
THEOREM Invariance == Spec => []IInv
BY InitIInv, NextKeeps, PTL DEF Spec

(* Every variable keeps its type: no order, whole or cut, turns the motor  *)
(* by more than half a revolution, and the counter stays on the circle.    *)
THEOREM TypeCorrect == Spec => []TypeOK
<1>1. IInv => TypeOK
  BY DEF IInv
<1> QED
  BY <1>1, Invariance, PTL

(* Whatever the interleaving of the handlers, the pulses left lead to the  *)
(* target or the step before it.                                           *)
THEOREM Heading == Spec => []HeadsForTarget
<1>1. IInv => HeadsForTarget
  BY DEF IInv
<1> QED
  BY <1>1, Invariance, PTL

(* For every sequence of orders, the position counted is off by at most    *)
(* three steps an order, and one for the pulse at power-up.                *)
THEOREM Drift == Spec => []DriftPerOrder
<1>1. IInv => DriftPerOrder
  BY DEF IInv, TypeOK, Budget, Misled, Beyond, DriftPerOrder
<1> QED
  BY <1>1, Invariance, PTL

(* HAL_UART_RxCpltCallback carries out exactly the orders of the lines it  *)
(* was sent, in their order, whatever else stands on the line: what        *)
(* overflows the buffer, or is cut, or unknown, costs no other order.      *)
THEOREM Obedience == Spec => []LinesObeyed
<1>1. Spec => []Reading
  BY InitReading, NextReading, TypeCorrect, PTL DEF Spec
<1>2. Reading => LinesObeyed
  BY DEF Reading
<1> QED
  BY <1>1, <1>2, PTL

(* The safety half of coming to rest: a timer that has stopped leaves the  *)
(* motor at the target of its last order, and one that rotates never stops *)
(* (HAL_TIM_PWM_PulseFinishedCallback).                                    *)
THEOREM RestAtTarget == Spec => [](~pwm => ~rotation /\ count = TargetCount)
<1>. DEFINE Rest == ~pwm => ~rotation /\ count = TargetCount
<1>1. Init => Rest
  BY DEF Init
<1>2. IInv /\ Rest /\ [Next]_vars => Rest'
  <2>. SUFFICES ASSUME IInv, Rest, [Next]_vars PROVE Rest'
    OBVIOUS
  <2>. USE DEF IInv, Running
  <2>1. CASE UNCHANGED vars
    BY <2>1 DEF vars, board, TargetCount, Wrap
  <2>2. CASE Pulse
    <3>1. CASE PulseRise
      BY <3>1 DEF PulseRise
    <3>2. CASE CountRotation
      BY <3>2 DEF CountRotation
    <3>3. CASE CountTurn
      BY <3>3 DEF CountTurn
    <3>4. CASE Halt
      BY <3>4 DEF Halt, TargetCount, Wrap
    <3>. QED  BY <2>2, <3>1, <3>2, <3>3, <3>4 DEF Pulse, PulseFinished
  <2>3. CASE Receive
    <3>1. PICK b : RxCplt(b)
      BY <2>3 DEF Receive
    <3>2. CASE StoreByte(b)
      BY <3>2 DEF StoreByte, TargetCount, Wrap
    <3>3. CASE StartRotation(b)
      BY <3>3 DEF StartRotation
    <3>4. CASE StartTurn(b)
      BY <3>4 DEF StartTurn
    <3>5. CASE IgnoreLine(b)
      BY <3>5 DEF IgnoreLine, TargetCount, Wrap
    <3>. QED  BY <3>1, <3>2, <3>3, <3>4, <3>5 DEF RxCplt
  <2>. QED  BY <2>1, <2>2, <2>3 DEF Next
<1>. QED  BY <1>1, <1>2, Invariance, PTL DEF Spec
=============================================================================
