------------------------- MODULE MCLaunchController -------------------------
(* Two targets and a missile.  The first target is nearest to one place of *)
(* the launcher, the second to the other.                                  *)
EXTENDS LaunchController

MCTrack == [t \in TargetIds |-> IF t = 1 THEN 1 ELSE 4]
=============================================================================
