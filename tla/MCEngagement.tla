---------------------------- MODULE MCEngagement ----------------------------
(* Two targets; the beam on t1 shows both, the beam on t2 only t2. *)
EXTENDS Engagement

CONSTANTS t1, t2

MCBeam == [t \in {t1, t2} |-> IF t = t1 THEN {t1, t2} ELSE {t2}]

(* The operator lets the radar rotate again. *)
MCChosen == {[mode |-> "ROTATE", target |-> NoTarget]}
=============================================================================
