----------------------------- MODULE MotorLines -----------------------------
(***************************************************************************)
(* What a stream of bytes says to the step motor: the motor server writes  *)
(* such a stream, the firmware reads it.                                   *)
(***************************************************************************)
EXTENDS Integers, Sequences, FiniteSetsExt

CONSTANTS Digits,   \* pieces the text of an angle is made of
          Base      \* weight of the first piece

ASSUME LinesAssumption == Digits \subseteq Nat /\ Base \in Nat

\* Bytes: pieces of a number, pieces of the words ROTATION_MODE and
\* STOP_MODE:, the end of a line.
EOL      == -1
ROTATION == -2
STOP     == -3
MODE     == -4
Text     == Digits \cup {ROTATION, STOP, MODE}
Bytes    == Text \cup {EOL}

\* atof of what follows "STOP_MODE:"; 0 when no number does
AngleOf(line) ==
    IF Len(line) < 3 \/ line[3] \notin Digits THEN 0
    ELSE IF Len(line) < 4 \/ line[4] \notin Digits THEN line[3]
    ELSE line[3] * Base + line[4]

IsRotation(line) == line = <<ROTATION, MODE>>
IsStop(line)     == Len(line) >= 2 /\ line[1] = STOP /\ line[2] = MODE

\* The angle a line orders, -1 for a rotation.
Value(line) == IF IsRotation(line) THEN -1 ELSE AngleOf(line)

-----------------------------------------------------------------------------
(* A reference reading of a stream, apart from any program. *)

\* The last end of a line in s before n, 0 if there is none.
LastEnd(s, n) == Max({0} \cup {m \in 1..n - 1 : s[m] = EOL})

\* The line that ends at n, without its end.
LineAt(s, n) == SubSeq(s, LastEnd(s, n) + 1, n - 1)

IsOrder(line) == IsRotation(line) \/ IsStop(line)

\* Where the orders of s end.
OrderEnds(s) == {n \in DOMAIN s : s[n] = EOL /\ IsOrder(LineAt(s, n))}
=============================================================================
