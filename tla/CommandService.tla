--------------------------- MODULE CommandService ---------------------------
(***************************************************************************)
(* What the launcher promises to whoever sends it commands, whatever its   *)
(* threads do: commands are numbered as they are accepted, served one at a *)
(* time in that order, none is dropped or served twice, and the service    *)
(* closes only when everything accepted so far has been served.  It may    *)
(* die while it serves a command; it never dies idle, and nothing is       *)
(* promised of a dead one.                                                 *)
(***************************************************************************)
EXTENDS Naturals, Sequences

VARIABLES
    pending,    \* numbers of the accepted commands not yet begun, in order
    serving,    \* number of the command being served, 0 when idle
    accepted,   \* how many commands were accepted
    phase       \* "open", "closed" or "dead"

vars == <<pending, serving, accepted, phase>>

Init ==
    /\ pending = <<>>
    /\ serving = 0
    /\ accepted = 0
    /\ phase = "open"

Accept ==
    /\ phase # "dead"
    /\ accepted' = accepted + 1
    /\ pending' = Append(pending, accepted + 1)
    /\ UNCHANGED <<serving, phase>>

Begin ==
    /\ phase = "open"
    /\ serving = 0
    /\ pending # <<>>
    /\ serving' = Head(pending)
    /\ pending' = Tail(pending)
    /\ UNCHANGED <<accepted, phase>>

Complete ==
    /\ phase = "open"
    /\ serving # 0
    /\ serving' = 0
    /\ UNCHANGED <<pending, accepted, phase>>

Die ==
    /\ phase = "open"
    /\ serving # 0
    /\ phase' = "dead"
    /\ UNCHANGED <<pending, serving, accepted>>

Close ==
    /\ phase = "open"
    /\ serving = 0
    /\ pending = <<>>
    /\ phase' = "closed"
    /\ UNCHANGED <<pending, serving, accepted>>

Next == Accept \/ Begin \/ Complete \/ Die \/ Close

Spec == Init /\ [][Next]_vars

(* A service that lives keeps serving. *)
FairSpec == Spec /\ WF_vars(Begin) /\ WF_vars(Complete)
=============================================================================
