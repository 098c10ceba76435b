-------------------------- MODULE RobotNodeProofs --------------------------
(***************************************************************************)
(* For every area, speed and behaviour of the clock, the robot is outside  *)
(* the area at most as far as NeverFarOutside says.  That bound, with the  *)
(* types, is inductive: driving forwards the robot approaches a waypoint   *)
(* inside and the bound shrinks by what it drives; backwards both grow by  *)
(* it; the clock alone moves neither the robot nor, downwards, the bound.  *)
(***************************************************************************)
EXTENDS RobotNode, TLAPS

IInv == TypeOK /\ NeverFarOutside

(* The constants are positive. *)
LEMMA Constants ==
    /\ Area \in Nat /\ Area > 0
    /\ Speed \in Nat /\ Speed > 0
    /\ MaxSetBack \in Nat
  BY RobotNodeAssumption DEF RobotNodeAssumption

(* Multiplication by the speed distributes and is monotone. *)
LEMMA SpeedTimes ==
    ASSUME NEW a \in Int, NEW b \in Int
    PROVE  /\ Speed * (a + b) = Speed * a + Speed * b
           /\ a <= b => Speed * a <= Speed * b
           /\ Speed * a \in Int
  BY Constants

(* The initial positions satisfy the invariant. *)
LEMMA InitIInv == Init => IInv
  <1> SUFFICES ASSUME Init PROVE IInv
    OBVIOUS
  <1>1. TypeOK
    BY Constants DEF Init, TypeOK, Points
  <1>2. Outside = 0
    BY Constants DEF Init, Outside, Points
  <1>3. Speed * (behind + elapsed) = 0
    BY Constants DEF Init
  <1> QED
    BY <1>1, <1>2, <1>3 DEF IInv, NeverFarOutside

(* A tick takes the robot no farther out than the bound grows. *)
LEMMA TickIInv ==
    ASSUME IInv, Tick
    PROVE  IInv'
  <1> DEFINE step == Speed * elapsed
             bound == Speed * (behind + elapsed)
  <1>1. /\ Area \in Nat /\ x \in Int /\ wx \in 0 .. Area /\ wx # x
        /\ elapsed \in Int /\ behind \in Nat /\ setBacks \in Nat
    BY Constants DEF IInv, TypeOK, Points
  <1>2. elapsed' = 0 /\ behind' = behind /\ setBacks' = setBacks
    BY DEF Tick, SinceNow
  <1>3. step \in Int /\ bound = Speed * behind + step /\ Speed * behind \in Nat
    BY <1>1, SpeedTimes, Constants
  <1>4. Speed * (behind' + elapsed') = Speed * behind
    BY <1>1, <1>2
  <1>5. Outside <= Speed * behind + step
    BY <1>3 DEF IInv, NeverFarOutside
  <1>6. CASE Distance <= DriveStep /\ Arrive
    <2>1. x' \in 0 .. Area /\ wx' \in Points \ {x'}
      BY <1>1, <1>6 DEF Arrive
    <2>2. TypeOK'
      BY <1>1, <1>2, <2>1 DEF TypeOK, Points
    <2>3. Outside' = 0
      <3>1. x' \in Int /\ ~(x' < 0) /\ ~(x' > Area)
        BY <1>1, <2>1
      <3> QED
        BY <3>1 DEF Outside
    <2> QED
      BY <1>3, <1>4, <2>2, <2>3 DEF IInv, NeverFarOutside
  <1>7. CASE Distance > DriveStep /\ Drive
    <2>1. DriveStep = step
      BY DEF DriveStep
    <2> HIDE DEF step
    <2>2. wx' = wx
      BY <1>7 DEF Drive
    <2>3. CASE x < wx
      <3>1. x' = x + step /\ x' < wx
        BY <1>1, <1>3, <1>7, <2>1, <2>3 DEF Drive, Heading, Distance
      <3>2. Outside' <= Speed * behind
        BY <1>1, <1>3, <1>5, <2>3, <3>1 DEF Outside
      <3> QED
        BY <1>1, <1>2, <1>3, <1>4, <2>2, <3>1, <3>2
           DEF IInv, TypeOK, NeverFarOutside, Points
    <2>4. CASE wx < x
      <3>1. x' = x - step /\ x' > wx
        BY <1>1, <1>3, <1>7, <2>1, <2>4 DEF Drive, Heading, Distance
      <3>2. Outside' <= Speed * behind
        BY <1>1, <1>3, <1>5, <2>4, <3>1 DEF Outside
      <3> QED
        BY <1>1, <1>2, <1>3, <1>4, <2>2, <3>1, <3>2
           DEF IInv, TypeOK, NeverFarOutside, Points
    <2> QED
      BY <1>1, <2>3, <2>4
  <1> QED
    BY <1>6, <1>7 DEF Tick

(* The clock moves the bound up, or not at all. *)
LEMMA ClockIInv ==
    ASSUME IInv, Advance \/ SetBack
    PROVE  IInv'
  <1>1. x \in Int /\ elapsed \in Int /\ behind \in Nat /\ setBacks \in Nat
    BY DEF IInv, TypeOK
  <1>2. /\ x' = x /\ wx' = wx
        /\ elapsed' \in Int /\ behind' \in Nat /\ setBacks' \in Nat
        /\ behind + elapsed <= behind' + elapsed'
    <2>1. CASE Advance
      BY <1>1, <2>1 DEF Advance
    <2>2. CASE SetBack
      <3>1. PICK by \in 1 .. MaxSetBack : elapsed' = elapsed - by /\ behind' = behind + by
        BY <2>2 DEF SetBack
      <3>2. by \in Nat
        BY <3>1, Constants
      <3> QED
        BY <1>1, <2>2, <3>1, <3>2 DEF SetBack
    <2> QED
      BY <2>1, <2>2
  <1>3. TypeOK'
    BY <1>1, <1>2 DEF IInv, TypeOK, Points
  <1>4. Speed * (behind + elapsed) <= Speed * (behind' + elapsed')
    <2>1. behind + elapsed \in Int /\ behind' + elapsed' \in Int
      BY <1>1, <1>2
    <2>2. behind + elapsed <= behind' + elapsed'
      BY <1>2
    <2>3. ASSUME NEW a \in Int, NEW b \in Int, a <= b PROVE Speed * a <= Speed * b
      BY <2>3, SpeedTimes
    <2> QED
      BY <2>1, <2>2, <2>3, Zenon
  <1>5. Outside' = Outside /\ Outside \in Int
    BY <1>1, <1>2, Constants DEF Outside
  <1>6. Speed * (behind + elapsed) \in Int /\ Speed * (behind' + elapsed') \in Int
    BY <1>1, <1>2, Constants
  <1> QED
    BY <1>3, <1>4, <1>5, <1>6 DEF IInv, NeverFarOutside

(***************************************************************************)
(* pickWaypoint and tick keep to their types, and the robot, whatever is   *)
(* done to the clock, strays no farther than the clock was set back.       *)
(***************************************************************************)
THEOREM StaysNear == Spec => [](TypeOK /\ NeverFarOutside)
  <1>1. ASSUME IInv, [Next]_vars PROVE IInv'
    <2>1. CASE Advance \/ SetBack
      BY <1>1, <2>1, ClockIInv
    <2>2. CASE Tick
      BY <1>1, <2>2, TickIInv
    <2>3. CASE UNCHANGED vars
      BY <1>1, <2>3 DEF vars, IInv, TypeOK, NeverFarOutside, Outside, Points
    <2> QED
      BY <1>1, <2>1, <2>2, <2>3 DEF Next
  <1>2. Spec => []IInv
    BY <1>1, InitIInv, PTL DEF Spec
  <1> QED
    BY <1>2, PTL DEF IInv

=============================================================================
