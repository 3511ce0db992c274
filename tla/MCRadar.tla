------------------------------ MODULE MCRadar ------------------------------
(* Two targets and a missile on a circle of eight, seen in a beam of three *)
(* units.  One plot is just west of north; the other, just east of it and  *)
(* shot down, is half a unit beyond the reach of two units, where only a   *)
(* distance that is cut is in reach.  The coordinates 0, 0 lie north and   *)
(* beyond reach: within the beam of either plot, which lies across north.  *)
EXTENDS Radar

Plot(b, d, h) == [bearing |-> b, dist |-> d, hit |-> h]

MCPlots == {Plot(7, 2, FALSE), Plot(1, 5, TRUE)}

MCBlank == Plot(0, 6, FALSE)
=============================================================================
