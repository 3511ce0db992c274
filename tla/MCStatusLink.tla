---------------------------- MODULE MCStatusLink ----------------------------
(* An empty list, one entry, and as many targets as the viewer allows for. *)
EXTENDS StatusLink

MCCounts == {0, 1, 100}
=============================================================================
