----------------------------- MODULE MCLauncher -----------------------------
(* The launcher on small instances.  From the start position, Home = 6     *)
(* with a stride of 2, both destinations take several periods; they lie on *)
(* either side of zero, where the cut of the step changes direction; a     *)
(* move can be cancelled by the next one in any of its places, be sent     *)
(* back, or be restarted towards where it already is.  0 is the angle of a *)
(* LAUNCH that was cut short, and 7 a mode byte that names no mode.        *)
EXTENDS Launcher

MCPlaces == {-4, 1}
=============================================================================
