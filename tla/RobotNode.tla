----------------------------- MODULE RobotNode -----------------------------
(***************************************************************************)
(* A robot: class RobotNode of ros2/sidewalk_cosim/src/robot_node.cpp.     *)
(*                                                                         *)
(* It drives to one random waypoint after the other.  Its timer runs on    *)
(* the steady clock, but how far it has come since the last tick it reads  *)
(* off the ROS time, which is the time of day: a tick may be late, and the *)
(* clock may be set.  Only differences of times matter, so the clock is    *)
(* kept as its distance from last_.                                        *)
(*                                                                         *)
(* The square is cut down to one coordinate: between two waypoints the     *)
(* robot moves on a line.  A waypoint that equals the position to the last *)
(* bit is left out.  Every tick publishes the pose, which is the           *)
(* PoseCallback of BridgeNode.  neighbours_seen_ only feeds a log line.    *)
(***************************************************************************)
EXTENDS Integers

CONSTANTS
    Area,        \* area_size
    Speed,       \* speed: what it drives in a unit of time
    MaxLate,     \* bound of the model: the longest time between two ticks
    MaxSetBack,  \* bound of the model: how far the clock is set back
    MaxSetBacks  \* bound of the model: how often

ASSUME RobotNodeAssumption ==
    /\ {Area, Speed, MaxLate} \subseteq Nat \ {0}
    /\ {MaxSetBack, MaxSetBacks} \subseteq Nat

VARIABLES
    x,       \* x_
    wx,      \* wx_
    elapsed, \* the clock - last_
    behind,  \* history: the latest time the clock has shown - the clock
    setBacks \* how often the clock was set back

vars == <<x, wx, elapsed, behind, setBacks>>

Points == 0 .. Area

TypeOK ==
    /\ x \in Int /\ wx \in Points \ {x}
    /\ elapsed \in Int /\ behind \in Nat /\ setBacks \in Nat

(* The constructor: the position and pickWaypoint. *)
Init ==
    /\ x \in Points /\ wx \in Points \ {x}
    /\ elapsed = 0 /\ behind = 0 /\ setBacks = 0

-----------------------------------------------------------------------------
(* The clock goes on; setting it forward is no different. *)
Advance ==
    /\ elapsed < MaxLate
    /\ elapsed' = elapsed + 1
    /\ behind' = IF behind = 0 THEN 0 ELSE behind - 1
    /\ UNCHANGED <<x, wx, setBacks>>

SetBack ==
    /\ setBacks < MaxSetBacks
    /\ \E by \in 1 .. MaxSetBack :
          elapsed' = elapsed - by /\ behind' = behind + by
    /\ setBacks' = setBacks + 1
    /\ UNCHANGED <<x, wx>>

-----------------------------------------------------------------------------
(* Mutated form: the time between two ticks in units of two. *)
CoarseStep == Speed * 2 * (elapsed \div 2)

(* speed_ * dt, negative when the clock was set back. *)
DriveStep == Speed * elapsed

Heading == IF x < wx THEN 1 ELSE -1

Distance == Heading * (wx - x)

(* d <= step: the robot arrives, whatever is left of the step is lost. *)
Arrive == x' = wx /\ wx' \in Points \ {wx}

Drive == x' = x + Heading * DriveStep /\ UNCHANGED wx

(* Mutated form: last_ is never set back. *)
StillBehind == IF elapsed < 0 THEN elapsed ELSE 0

(* last_ = t. *)
SinceNow == 0

Tick ==
    /\ \/ Distance <= DriveStep /\ Arrive
       \/ Distance > DriveStep /\ Drive
    /\ elapsed' = SinceNow
    /\ UNCHANGED <<behind, setBacks>>

Next == Advance \/ SetBack \/ Tick

Spec == Init /\ [][Next]_vars

(* Time goes by, and the executor runs the timer when it is due. *)
FairSpec == Spec /\ WF_vars(Advance) /\ WF_vars(Tick)

-----------------------------------------------------------------------------
Outside == IF x < 0 THEN -x ELSE IF x > Area THEN x - Area ELSE 0

(***************************************************************************)
(* A clock that is set back drives the robot backwards, and perhaps out of *)
(* the area, but never farther than it drives in the time by which last_   *)
(* is behind the latest time the clock has shown: as soon as that time is  *)
(* reached again, and always if the clock is never set back, it is inside. *)
(***************************************************************************)
NeverFarOutside == Outside <= Speed * (behind + elapsed)

(***************************************************************************)
(* However the ticks are spaced, late or at the same time, the robot gets  *)
(* to each of its waypoints once the clock is no longer set back.          *)
(***************************************************************************)
ReachesWaypoint == \A p \in Points : wx = p ~> x = p

=============================================================================
