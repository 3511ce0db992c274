----------------------------- MODULE Simulator -----------------------------
(***************************************************************************)
(* The simulator process (src/Simulator), which stands in for the sky: it  *)
(* flies the mock targets and the missile that the launcher fires, and     *)
(* reports both to the radar.  Three threads and no lock:                  *)
(*                                                                         *)
(*   recv     takes launches from the launcher (MockMissileManager);       *)
(*   flight   moves and reports the targets, round after round             *)
(*            (MockTargetManager::flitghtTarget);                          *)
(*   missile  flies, hits, and erases what it hit from the list the other  *)
(*            thread is walking (MockTargetManager::downTargetStatus).     *)
(*                                                                         *)
(* A step reads or writes one shared object or sends one datagram.         *)
(* Positions are left out: a missile hits a target or not.  The vector of  *)
(* targets is its memory, slots, and its size, count: what lies beyond     *)
(* count is still there for a thread that took the end before.             *)
(***************************************************************************)
EXTENDS Integers, Sequences

CONSTANTS NumTargets,   \* lines of target_list.ini
          MaxLaunches   \* bound: launches received

ASSUME SimulatorAssumption == NumTargets \in Nat \ {0} /\ MaxLaunches \in Nat

Targets == 1..NumTargets
Empty   == 0            \* a null pointer in a slot; as an id, the missile

VARIABLES
    slots, count,   \* the vector `targets': its memory and its size
    hit,            \* targets with is_hit set
    freed,          \* MockTargets destroyed
    flight,         \* place of the flight thread, "crashed" ends the process
    cursor, last,   \* its iterator and the end it began with
    subject,        \* the target it is updating
    list,           \* its target_info_list
    isFlight,       \* is_flight_
    launches,       \* launches received
    missile,        \* place of the missile thread
    aim,            \* its index in the vector
    down,           \* its down_targets
    write, read,    \* iterators of std::remove_if
    wire,           \* last datagram sent to the radar
    announced       \* targets the radar was told are hit

vectorVars  == <<slots, count, freed>>
flightVars  == <<flight, cursor, last, subject, list>>
launchVars  == <<isFlight, launches>>
missileVars == <<missile, aim, down, write, read>>
wireVars    == <<wire, announced>>
vars == <<vectorVars, hit, flightVars, launchVars, missileVars, wireVars>>

Datagram == [id : Targets \cup {Empty}, hit : BOOLEAN]

Init ==
    /\ slots = [k \in Targets |-> k] /\ count = NumTargets
    /\ hit = {} /\ freed = {}
    /\ flight = "round" /\ cursor = 1 /\ last = 0
    /\ subject = Empty /\ list = <<>>
    /\ isFlight = FALSE /\ launches = 0
    /\ missile = "none" /\ aim = 1 /\ down = <<>> /\ write = 1 /\ read = 1
    /\ wire = [id |-> Empty, hit |-> FALSE]
    /\ announced = {}

Send(d) ==
    /\ wire' = d
    /\ announced' = IF d.hit /\ d.id # Empty THEN announced \cup {d.id} ELSE announced

-----------------------------------------------------------------------------
(* The flight thread: flitghtTarget, forever. *)

BeginRound ==
    /\ flight = "round"
    /\ cursor' = 1 /\ last' = count
    /\ list' = <<>>
    /\ flight' = "visit"
    /\ UNCHANGED <<vectorVars, hit, subject, launchVars, missileVars, wireVars>>

(* Mutated VisitTarget: an empty slot is not stepped over. *)
VisitStuck ==
    /\ flight = "visit"
    /\ cursor <= last
    /\ slots[cursor] # Empty
    /\ flight' = "update"
    /\ UNCHANGED <<vectorVars, hit, cursor, last, subject, list, launchVars,
                   missileVars, wireVars>>

(* if (target): the slot is read once for the test ... *)
VisitTarget ==
    /\ flight = "visit"
    /\ cursor <= last
    /\ IF slots[cursor] = Empty
       THEN /\ cursor' = cursor + 1
            /\ UNCHANGED flight
       ELSE /\ flight' = "update"
            /\ UNCHANGED cursor
    /\ UNCHANGED <<vectorVars, hit, last, subject, list, launchVars, missileVars,
                   wireVars>>

Crash ==
    /\ flight' = "crashed"
    /\ UNCHANGED <<vectorVars, hit, cursor, last, subject, list, launchVars,
                   missileVars, wireVars>>

(* ... and again for the call of updatePos.  A target found hit is sent at *)
(* once.  A pointer to a destroyed target may bring the process down, or   *)
(* the freed memory is used as it was left.                                *)
UpdateTarget ==
    /\ flight = "update"
    /\ \/ /\ slots[cursor] # Empty
          /\ subject' = slots[cursor]
          /\ flight' = "copy"
          /\ IF subject' \in hit THEN Send([id |-> subject', hit |-> TRUE])
                                 ELSE UNCHANGED wireVars
          /\ UNCHANGED <<vectorVars, hit, cursor, last, list, launchVars,
                         missileVars>>
       \/ /\ slots[cursor] \in freed \cup {Empty}
          /\ Crash

(* return target_info_: the copy is taken after is_hit was looked at. *)
CopyTarget ==
    /\ flight = "copy"
    /\ \/ /\ list' = Append(list, [id |-> subject, hit |-> subject \in hit])
          /\ cursor' = cursor + 1
          /\ flight' = "visit"
          /\ UNCHANGED <<vectorVars, hit, last, subject, launchVars, missileVars,
                         wireVars>>
       \/ /\ subject \in freed
          /\ Crash

EndVisit ==
    /\ flight = "visit"
    /\ cursor > last
    /\ flight' = "send"
    /\ UNCHANGED <<vectorVars, hit, cursor, last, subject, list, launchVars,
                   missileVars, wireVars>>

(* The copies are sent one by one, after the whole walk. *)
SendTarget ==
    /\ flight = "send"
    /\ list # <<>>
    /\ Send(Head(list))
    /\ list' = Tail(list)
    /\ UNCHANGED <<vectorVars, hit, flight, cursor, last, subject, launchVars,
                   missileVars>>

EndRound ==
    /\ flight = "send"
    /\ list = <<>>
    /\ flight' = "round"
    /\ UNCHANGED <<vectorVars, hit, cursor, last, subject, list, launchVars,
                   missileVars, wireVars>>

FlightStep ==
    \/ BeginRound \/ VisitTarget \/ UpdateTarget \/ CopyTarget \/ EndVisit
    \/ SendTarget \/ EndRound

-----------------------------------------------------------------------------
(* The receive thread: flightMissile. *)

Running == flight # "crashed"

StartMissile ==
    /\ isFlight' = TRUE
    /\ missile' = "visit" /\ aim' = 1 /\ down' = <<>>
    /\ UNCHANGED <<write, read>>

(* Mutated Launch: is_flight_ is not looked at. *)
LaunchUnguarded ==
    /\ Running
    /\ launches < MaxLaunches
    /\ launches' = launches + 1
    /\ StartMissile
    /\ UNCHANGED <<vectorVars, hit, flightVars, wireVars>>

(* A launch during a flight is ignored. *)
Launch ==
    /\ Running
    /\ launches < MaxLaunches
    /\ launches' = launches + 1
    /\ IF isFlight THEN UNCHANGED <<isFlight, missileVars>> ELSE StartMissile
    /\ UNCHANGED <<vectorVars, hit, flightVars, wireVars>>

-----------------------------------------------------------------------------
(* The missile thread: updatePosMissile, calling downTargetStatus at each  *)
(* new position.                                                           *)

MissTarget ==
    /\ Running
    /\ missile = "visit"
    /\ aim <= count
    /\ aim' = aim + 1
    /\ UNCHANGED <<vectorVars, hit, flightVars, launchVars, missile, down, write,
                   read, wireVars>>

HitTarget ==
    /\ Running
    /\ missile = "visit"
    /\ aim <= count
    /\ hit' = hit \cup {slots[aim]}
    /\ down' = Append(down, slots[aim])
    /\ missile' = "announce"
    /\ UNCHANGED <<vectorVars, flightVars, launchVars, aim, write, read, wireVars>>

(* Mutated AnnounceHit: the target's own datagram is left to its rounds. *)
AnnounceLater ==
    /\ Running
    /\ missile = "announce"
    /\ aim' = aim + 1
    /\ missile' = "visit"
    /\ UNCHANGED <<vectorVars, hit, flightVars, launchVars, down, write, read,
                   wireVars>>

(* target->updatePos(), which sends a hit target. *)
AnnounceHit ==
    /\ Running
    /\ missile = "announce"
    /\ Send([id |-> slots[aim], hit |-> TRUE])
    /\ aim' = aim + 1
    /\ missile' = "visit"
    /\ UNCHANGED <<vectorVars, hit, flightVars, launchVars, down, write, read>>

(* Nothing hit: the missile reports itself and flies on; else removeTarget *)
(* begins.                                                                 *)
EndAim ==
    /\ Running
    /\ missile = "visit"
    /\ aim > count
    /\ IF down = <<>>
       THEN /\ Send([id |-> Empty, hit |-> FALSE])
            /\ aim' = 1
            /\ UNCHANGED <<missile, write, read>>
       ELSE /\ missile' = "shift"
            /\ write' = 1 /\ read' = 1
            /\ UNCHANGED <<aim, wireVars>>
    /\ UNCHANGED <<vectorVars, hit, flightVars, launchVars, down>>

(* std::remove_if, an element at a time.  The element moved over is        *)
(* destroyed, the slot moved from is left empty.                           *)
ShiftTarget ==
    /\ Running
    /\ missile = "shift"
    /\ read <= count
    /\ read' = read + 1
    /\ \/ /\ slots[read] = Head(down)
          /\ UNCHANGED <<write, slots, freed>>
       \/ /\ slots[read] # Head(down)
          /\ write' = write + 1
          /\ IF write = read
             THEN UNCHANGED <<slots, freed>>
             ELSE /\ slots' = [slots EXCEPT ![write] = slots[read], ![read] = Empty]
                  /\ freed' = freed \cup ({slots[write]} \ {Empty})
    /\ UNCHANGED <<count, hit, flightVars, launchVars, missile, aim, down, wireVars>>

(* Mutated ShrinkList: erases from the read iterator's side, one too many. *)
ShrinkTwice ==
    /\ Running
    /\ missile = "shift"
    /\ read > count
    /\ freed' = freed \cup ({slots[k] : k \in write..count} \ {Empty})
    /\ count' = IF write = 1 THEN 0 ELSE write - 2
    /\ down' = Tail(down)
    /\ missile' = IF down' = <<>> THEN "report" ELSE "shift"
    /\ write' = 1 /\ read' = 1
    /\ UNCHANGED <<slots, hit, flightVars, launchVars, aim, wireVars>>

(* vector::erase of the tail: its elements are destroyed, their pointers   *)
(* stay in the memory beyond the new size.                                 *)
ShrinkList ==
    /\ Running
    /\ missile = "shift"
    /\ read > count
    /\ freed' = freed \cup ({slots[k] : k \in write..count} \ {Empty})
    /\ count' = write - 1
    /\ down' = Tail(down)
    /\ missile' = IF down' = <<>> THEN "report" ELSE "shift"
    /\ write' = 1 /\ read' = 1
    /\ UNCHANGED <<slots, hit, flightVars, launchVars, aim, wireVars>>

ReportHit ==
    /\ Running
    /\ missile = "report"
    /\ Send([id |-> Empty, hit |-> TRUE])
    /\ missile' = "clear"
    /\ UNCHANGED <<vectorVars, hit, flightVars, launchVars, aim, down, write, read>>

(* setFlightStatus(false), and the thread returns. *)
ClearFlight ==
    /\ Running
    /\ missile = "clear"
    /\ isFlight' = FALSE
    /\ missile' = "none"
    /\ UNCHANGED <<vectorVars, hit, flightVars, launches, aim, down, write, read,
                   wireVars>>

MissileStep ==
    \/ MissTarget \/ HitTarget \/ AnnounceHit \/ EndAim
    \/ ShiftTarget \/ ShrinkList \/ ReportHit \/ ClearFlight

-----------------------------------------------------------------------------
Next == FlightStep \/ Launch \/ MissileStep

Spec == Init /\ [][Next]_vars

(* Each running thread goes on; whether the missile hits is left open. *)
FairSpec == Spec /\ WF_vars(FlightStep) /\ WF_vars(MissileStep)

-----------------------------------------------------------------------------
(* Properties. *)

(* Every variable holds a value of its type. *)
TypeOK ==
    /\ slots \in [Targets -> Targets \cup {Empty}]
    /\ count \in 0..NumTargets
    /\ hit \subseteq Targets /\ freed \subseteq Targets
    /\ flight \in {"round", "visit", "update", "copy", "send", "crashed"}
    /\ cursor \in 1..NumTargets + 1 /\ last \in 0..NumTargets
    /\ subject \in Targets \cup {Empty}
    /\ list \in Seq([id : Targets, hit : BOOLEAN])
    /\ isFlight \in BOOLEAN /\ launches \in 0..MaxLaunches
    /\ missile \in {"none", "visit", "announce", "shift", "report", "clear"}
    /\ aim \in 1..NumTargets + 1
    /\ down \in Seq(Targets)
    /\ write \in 1..NumTargets + 1 /\ read \in 1..NumTargets + 1
    /\ wire \in Datagram
    /\ announced \subseteq Targets

(* The vector has one writer: a launch received while a missile flies,     *)
(* hits, erases or reports does not start another, nor restarts that one.  *)
OneMissile ==
    [][launches' # launches /\ missile # "none" => UNCHANGED missileVars]_vars

(* Between two erasures the vector holds exactly the targets not shot      *)
(* down, each once: the moves of remove_if lose and duplicate nothing.     *)
SurvivorsListed ==
    missile # "shift" =>
        /\ {slots[k] : k \in 1..count} = Targets \ freed
        /\ \A j, k \in 1..count : slots[j] = slots[k] => j = k

(* A target is destroyed only after the radar was told that it is hit: its *)
(* rounds are over then, nobody else would tell.                           *)
ErasedWereAnnounced == freed \subseteq announced

(* When the missile reports a hit, whatever it hit is gone from the list.  *)
HitReportedLast ==
    [][wire' = [id |-> Empty, hit |-> TRUE] /\ wire' # wire
          => hit = freed /\ hit \subseteq announced]_vars

(* A target that is not shot down is reported again and again, although    *)
(* rounds walk a list that shrinks under them.                             *)
SurvivorsReported ==
    \A t \in Targets : []<>(wire.id = t \/ t \in freed \/ flight = "crashed")

(* flitghtTarget says that it updates valid targets only. *)
OnlyValidUpdated ==
    [][flight = "update" /\ flight' = "copy"
          => slots[cursor] \in Targets \ freed]_vars
=============================================================================
