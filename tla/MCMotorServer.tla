--------------------------- MODULE MCMotorServer ---------------------------
(* A launcher and a radar.  An order cut before its angle orders another   *)
(* angle, 0.                                                               *)
EXTENDS MotorServer

CONSTANTS launcher, radar

MCOrdersOf == [c \in {launcher, radar} |->
    IF c = launcher THEN {<<STOP, MODE, 1>>}
                    ELSE {<<ROTATION, MODE>>}]
=============================================================================
