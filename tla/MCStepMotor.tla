---------------------------- MODULE MCStepMotor ----------------------------
(* Orders on a motor of eight steps, in the streams the motor server may   *)
(* write: whole, cut, empty, unknown and overlong lines.  Angles run from  *)
(* 0 to 15 half steps, so that a turn may go either way, over the zero,    *)
(* just half round, or not at all.                                         *)
EXTENDS StepMotor

Turn2(d, e) == <<STOP, MODE, d, e, EOL>>
Rotate      == <<ROTATION, MODE, EOL>>

MCInputs ==
    {Turn2(d, e) \o Turn2(f, g) : d, e, f, g \in Digits}
    \cup {Turn2(d, e) \o Rotate \o Turn2(f, g) : d, e, f, g \in Digits}
    \cup {<<STOP, EOL, MODE, 1, EOL>> \o Turn2(2, 1),
          <<STOP, MODE, EOL, 3, EOL>> \o Turn2(1, 3) \o <<EOL>>,
          <<STOP, MODE, 2, EOL, 3, EOL>> \o Rotate,
          <<STOP, MODE, 3, 1, 2, 2, EOL>> \o Turn2(0, 1),
          <<ROTATION, MODE, 1, 1, 1, EOL>> \o Turn2(3, 3)}
=============================================================================
