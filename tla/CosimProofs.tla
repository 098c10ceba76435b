----------------------------- MODULE CosimProofs -----------------------------
(***************************************************************************)
(* Proofs about the co-simulation, for every number of robots, every step, *)
(* duration and interleaving of the two threads with ns-3.                 *)
(*                                                                         *)
(* The heart is Turn: it says where the one message between the two        *)
(* programs is, what it says, and which times go with it.  With the types  *)
(* of the bridge's table it is inductive, and shows that the bridge is the *)
(* peer RobotGateway assumes (GatewaySpec), so that the theorems about the *)
(* gateway alone hold here; GP is where they come from.                    *)
(***************************************************************************)
EXTENDS Cosim, TLAPS

(* The facts about sequences of at most one element, which channels are. *)
LEMMA OneElement ==
    ASSUME NEW m
    PROVE  /\ Head(<<m>>) = m /\ Tail(<<m>>) = <<>> /\ <<m>> # <<>>
           /\ Len(<<m>>) = 1 /\ Append(<<>>, m) = <<m>>
  OBVIOUS

(* The constants have their types. *)
LEMMA Constants ==
    /\ N \in Nat /\ N > 0
    /\ TxEnable \in Nat /\ Retention \in Nat /\ MaxTime \in Nat
    /\ Duration \in Nat /\ Warmup \in Nat /\ MaxPose \in Nat
    /\ NsPerUs \in Nat /\ NsPerUs > 0 /\ Step \in Nat /\ Step > 0
    /\ \A n \in PeerRobots : n \in Nat /\ n > 0
  BY CosimAssumption DEF CosimAssumption

-----------------------------------------------------------------------------
(* A row of the bridge's table of robots. *)
RobotType == [pose : B!Poses, sent_pose : B!Poses, fresh : BOOLEAN, have_pose : BOOLEAN]

(* The types of the bridge's own table and clock. *)
Table ==
    /\ n_ \in PeerRobots
    /\ robots \in [B!Ids -> RobotType]
    /\ worker \in {"step", "await", "closing", "done"}
    /\ stop \in BOOLEAN
    /\ sim_ns \in Nat /\ \E k \in Nat : sim_ns = Step * k
    /\ requested \subseteq [robot : B!Ids, time : Nat, pose : B!Poses]

(* An update of the step at sim_ns, and what it says of the robots. *)
IsUpdate(m) ==
    /\ m.time = sim_ns
    /\ m.cmd \in [1 .. n_ -> [pose : B!Poses, send : BOOLEAN]]
    /\ \A i \in B!Ids :
          /\ m.cmd[i + 1].pose = robots[i].sent_pose
          /\ m.cmd[i + 1].send => \E q \in requested : q.robot = i /\ q.time = sim_ns

(* A step of the bridge, in which ns-3 blocks. *)
Stepping ==
    /\ worker = "step" /\ phase = "wait"
    /\ toNs3 = <<>> /\ toBridge = <<>> /\ update.time < sim_ns

(* The bridge waits: its update is on its way, taken, or answered. *)
Underway ==
    /\ worker = "await" /\ phase = "wait"
    /\ toBridge = <<>> /\ (\E m : toNs3 = <<m>> /\ IsUpdate(m))
    /\ update.time < sim_ns

Taken ==
    /\ worker = "await" /\ phase \in {"run", "aborted"}
    /\ toNs3 = <<>> /\ toBridge = <<>> /\ IsUpdate(update)

Answer ==
    /\ worker = "await" /\ phase = "wait"
    /\ toNs3 = <<>> /\ (\E r : toBridge = <<r>>)
    /\ now = sim_ns /\ update.time = sim_ns /\ n_ >= N

(* The run ends, after an abort or in good order. *)
Closing ==
    /\ worker = "closing" /\ phase = "aborted"
    /\ toNs3 = <<>> /\ toBridge = <<>>

Over ==
    /\ worker = "done" /\ toBridge = <<>>
    /\ \/ phase \in {"wait", "aborted"} /\ toNs3 = <<G!Bye>>
       \/ phase = "stopped" /\ toNs3 = <<>>

(* Whose turn it is, and how far the clocks are apart. *)
Turn ==
    /\ Stepping \/ Underway \/ Taken \/ Answer \/ Closing \/ Over
    /\ now \in Nat /\ update.time \in Int /\ update.time <= sim_ns
    /\ now <= sim_ns /\ (phase # "aborted" => sim_ns - now <= Step)

(* Where ns-3 has put the robots: the poses of the last update it has run. *)
Placed ==
    ((Stepping /\ sim_ns > 0) \/ Answer) /\ n_ >= N =>
        \A i \in 0 .. N - 1 : position[i] = robots[i].sent_pose

(* A robot has published what it has sent; so its next pose is a new one. *)
Published == \A i \in B!Ids : robots[i].sent_pose <= robots[i].pose

(* The inductive invariant. *)
Inv == Table /\ FreshIffUnsent /\ Published /\ Turn /\ Placed

-----------------------------------------------------------------------------
(* It holds before the first step. *)
LEMMA InitInv == Init => Inv
  <1> SUFFICES ASSUME Init PROVE Inv
    OBVIOUS
  <1> USE DEF Init, B!Init, G!Init
  <1>1. Table
    <2>1. sim_ns = Step * 0 /\ 0 \in Nat
      BY Constants
    <2>2. B!NoPose \in RobotType
      BY Constants DEF B!NoPose, B!Poses, RobotType
    <2>3. robots \in [B!Ids -> RobotType]
      BY <2>2
    <2> QED
      BY <2>1, <2>3, Constants DEF Table
  <1>2. FreshIffUnsent /\ Published
    BY DEF FreshIffUnsent, B!FreshIffUnsent, B!NoPose, Published
  <1>3. Turn
    BY Constants DEF Turn, Stepping, G!NoUpdate
  <1>4. Placed
    BY DEF Placed, Answer
  <1> QED
    BY <1>1, <1>2, <1>3, <1>4 DEF Inv

(* A callback changes the pose of its robot, and no pose that has been sent. *)
LEMMA CallbackKeepsSentPose ==
    ASSUME Table, NEW i \in B!Ids, B!PoseCallback(i)
    PROVE  /\ robots'[i] = [pose |-> robots[i].pose + 1, sent_pose |-> robots[i].sent_pose,
                            fresh |-> TRUE, have_pose |-> TRUE]
           /\ \A j \in B!Ids \ {i} : robots'[j] = robots[j]
           /\ \A j \in B!Ids : robots'[j].sent_pose = robots[j].sent_pose
  <1>1. robots \in [B!Ids -> [pose : B!Poses, sent_pose : B!Poses,
                              fresh : BOOLEAN, have_pose : BOOLEAN]]
    BY DEF Table, RobotType
  <1>2. /\ robots'[i] = [pose |-> robots[i].pose + 1, sent_pose |-> robots[i].sent_pose,
                         fresh |-> TRUE, have_pose |-> TRUE]
        /\ \A j \in B!Ids \ {i} : robots'[j] = robots[j]
    BY <1>1 DEF B!PoseCallback
  <1>3. ASSUME NEW j \in B!Ids PROVE robots'[j].sent_pose = robots[j].sent_pose
    <2>1. CASE j = i
      BY <1>2, <2>1
    <2>2. CASE j # i
      BY <1>2, <2>2
    <2> QED
      BY <2>1, <2>2
  <1> QED
    BY <1>2, <1>3

(* A callback changes what the next message will say, not the one underway. *)
LEMMA PoseCallbackInv ==
    ASSUME Inv, NEW i \in B!Ids, PoseCallback(i)
    PROVE  Inv'
  <1>0. /\ B!PoseCallback(i)
        /\ UNCHANGED <<n_, worker, stop, sim_ns, requested, phase, now, update,
                       position, toNs3, toBridge>>
    BY DEF PoseCallback, B!PoseCallback, gatewayVars
  <1>1. /\ robots \in [B!Ids -> [pose : B!Poses, sent_pose : B!Poses,
                                 fresh : BOOLEAN, have_pose : BOOLEAN]]
        /\ FreshIffUnsent /\ Published
    BY DEF Inv, Table, RobotType
  <1>2. /\ robots'[i] = [pose |-> robots[i].pose + 1, sent_pose |-> robots[i].sent_pose,
                         fresh |-> TRUE, have_pose |-> TRUE]
        /\ \A j \in B!Ids \ {i} : robots'[j] = robots[j]
        /\ \A j \in B!Ids : robots'[j].sent_pose = robots[j].sent_pose
    BY <1>0, CallbackKeepsSentPose DEF Inv
  <1>3. Table'
    <2>1. robots[i].pose + 1 \in B!Poses
      BY <1>0, <1>1, Constants DEF B!Poses, B!PoseCallback
    <2>2. robots[i].sent_pose \in B!Poses
      BY <1>1
    <2>3. robots'[i] \in RobotType
      BY <1>2, <2>1, <2>2 DEF RobotType
    <2>4. robots \in [B!Ids -> RobotType]
      BY DEF Inv, Table
    <2>5. robots' = [robots EXCEPT ![i] = robots'[i]]
      BY <1>0, <1>1, <1>2 DEF B!PoseCallback
    <2>6. robots' \in [B!Ids -> RobotType]
      BY <2>3, <2>4, <2>5
    <2> QED
      BY <1>0, <2>6 DEF Inv, Table, B!Ids, B!Poses
  <1>4. FreshIffUnsent' /\ Published'
    <2>1. ASSUME NEW j \in B!Ids
          PROVE  /\ robots'[j].fresh <=> robots'[j].pose # robots'[j].sent_pose
                 /\ robots'[j].fresh => robots'[j].have_pose
                 /\ robots'[j].sent_pose <= robots'[j].pose
      <3>1. CASE j = i
        <4>1. robots[i].sent_pose \in Int /\ robots[i].pose \in Int
          BY <1>1 DEF B!Poses
        <4> QED
          BY <1>1, <1>2, <3>1, <4>1 DEF Published
      <3>2. CASE j # i
        BY <1>1, <1>2, <3>2 DEF FreshIffUnsent, B!FreshIffUnsent, Published
      <3> QED
        BY <3>1, <3>2
    <2> QED
      BY <1>0, <2>1 DEF FreshIffUnsent, B!FreshIffUnsent, Published, B!Ids
  <1>5. Turn'
    <2>1. ASSUME NEW m, IsUpdate(m) PROVE IsUpdate(m)'
      <3>1. /\ m.cmd \in [1 .. n_ -> [pose : B!Poses, send : BOOLEAN]]'
            /\ m.time = sim_ns'
        BY <1>0, <2>1 DEF IsUpdate, B!Poses
      <3>2. ASSUME NEW j \in B!Ids'
            PROVE  /\ m.cmd[j + 1].pose = robots'[j].sent_pose
                   /\ m.cmd[j + 1].send =>
                         \E q \in requested' : q.robot = j /\ q.time = sim_ns'
        BY <1>0, <1>2, <2>1 DEF IsUpdate, B!Ids
      <3> QED
        BY <3>1, <3>2 DEF IsUpdate
    <2> QED
      BY <1>0, <2>1 DEF Inv, Turn, Stepping, Underway, Taken, Answer, Closing, Over, G!Bye
  <1>6. Placed'
    <2>1. n_ >= N => \A j \in 0 .. N - 1 : j \in B!Ids
      BY Constants DEF Inv, Table, B!Ids
    <2> QED
      BY <1>0, <1>2, <2>1 DEF Inv, Placed, Stepping, Answer
  <1> QED
    BY <1>3, <1>4, <1>5, <1>6 DEF Inv

(* A row after the loop of a step: the latest pose is sent, the flag is down. *)
LEMMA AfterStepFields ==
    ASSUME NEW r \in RobotType
    PROVE  /\ B!AfterStep(r) \in RobotType
           /\ B!AfterStep(r).pose = r.pose
           /\ r.fresh /\ r.have_pose => B!AfterStep(r).sent_pose = r.pose
           /\ ~(r.fresh /\ r.have_pose) => B!AfterStep(r).sent_pose = r.sent_pose
           /\ ~B!AfterStep(r).fresh
  <1> DEFINE pose == IF r.fresh /\ r.have_pose THEN r.pose ELSE r.sent_pose
             down == FALSE
             q == [r EXCEPT !.sent_pose = pose]
  <1>1. B!AfterStep(r) = [q EXCEPT !.fresh = down]
    BY Zenon DEF B!AfterStep
  <1>2. /\ pose \in B!Poses /\ down \in BOOLEAN /\ ~down
        /\ r.fresh /\ r.have_pose => pose = r.pose
        /\ ~(r.fresh /\ r.have_pose) => pose = r.sent_pose
    BY DEF RobotType
  <1> HIDE DEF pose, down
  <1>3. q = [pose |-> r.pose, sent_pose |-> pose, fresh |-> r.fresh, have_pose |-> r.have_pose]
    BY DEF RobotType
  <1> HIDE DEF q
  <1>4. B!AfterStep(r) = [pose |-> r.pose, sent_pose |-> pose, fresh |-> down,
                          have_pose |-> r.have_pose]
    BY <1>1, <1>3
  <1>5. B!AfterStep(r) \in RobotType
    BY <1>2, <1>4 DEF RobotType
  <1>6. B!AfterStep(r).fresh = down
    BY <1>4
  <1> QED
    BY <1>2, <1>4, <1>5, <1>6

(* After the loop of a step every robot has sent its latest pose. *)
LEMMA BuildStepRobots ==
    ASSUME Table, FreshIffUnsent, B!BuildStep
    PROVE  /\ robots' \in [B!Ids -> RobotType]
           /\ \A i \in B!Ids :
                 /\ robots[i].pose \in B!Poses /\ robots[i].pose \in Nat
                 /\ robots'[i].sent_pose = robots[i].pose /\ robots'[i].pose = robots[i].pose
                 /\ ~robots'[i].fresh
                 /\ i \notin B!Sends => robots[i].sent_pose = robots[i].pose
  <1>1. \A i \in B!Ids : robots[i] \in RobotType
    BY DEF Table
  <1>2. robots' = [i \in B!Ids |-> B!AfterStep(robots[i])]
    BY DEF B!BuildStep
  <1>3. robots' \in [B!Ids -> RobotType]
    BY <1>1, <1>2, AfterStepFields
  <1>4. ASSUME NEW i \in B!Ids
        PROVE  /\ robots[i].pose \in B!Poses /\ robots[i].pose \in Nat
               /\ robots'[i].sent_pose = robots[i].pose /\ robots'[i].pose = robots[i].pose
               /\ ~robots'[i].fresh
               /\ i \notin B!Sends => robots[i].sent_pose = robots[i].pose
    <2>1. robots[i] \in RobotType /\ robots'[i] = B!AfterStep(robots[i])
      BY <1>1, <1>2
    <2>2. ~(robots[i].fresh /\ robots[i].have_pose) => robots[i].sent_pose = robots[i].pose
      BY DEF FreshIffUnsent, B!FreshIffUnsent
    <2>3. robots[i].pose \in B!Poses /\ robots[i].pose \in Nat
      BY <2>1 DEF RobotType, B!Poses
    <2>4. i \notin B!Sends => robots[i].sent_pose = robots[i].pose
      BY <2>2 DEF B!Sends
    <2> QED
      BY <2>1, <2>2, <2>3, <2>4, AfterStepFields
  <1> QED
    BY <1>3, <1>4

(* What a step asks for: a message with the latest pose of every robot that sends. *)
LEMMA BuildStepRequests ==
    ASSUME Table, FreshIffUnsent, B!BuildStep
    PROVE  /\ requested \subseteq requested'
           /\ \A q \in requested' \ requested :
                 q.robot \in B!Sends /\ q.time = sim_ns /\ q.pose = robots[q.robot].pose
           /\ \A i \in B!Sends : [robot |-> i, time |-> sim_ns, pose |-> robots[i].pose]
                                     \in requested'
           /\ requested' \subseteq [robot : B!Ids, time : Nat, pose : B!Poses]
  <1>1. requested' = requested \cup
            {[robot |-> i, time |-> sim_ns, pose |-> robots[i].pose] : i \in B!Sends}
    BY DEF B!BuildStep
  <1>2. B!Sends \subseteq B!Ids
    BY DEF B!Sends
  <1> QED
    BY <1>1, <1>2, BuildStepRobots DEF Table

(* The message of a step: an update of sim_ns with the latest poses. *)
LEMMA BuildStepMessage ==
    ASSUME Table, toNs3 = <<>>, B!BuildStep
    PROVE  \E m : /\ toNs3' = <<m>> /\ m = [time |-> m.time, cmd |-> m.cmd]
                  /\ m.time = sim_ns
                  /\ m.cmd \in [1 .. n_ -> [pose : B!Poses, send : BOOLEAN]]
                  /\ \A i \in B!Ids : /\ m.cmd[i + 1].pose = robots[i].pose
                                      /\ m.cmd[i + 1].send <=> i \in B!Sends
  <1>1. n_ \in Nat
    BY Constants DEF Table
  <1>2. PICK m :
            m = [time |-> sim_ns,
                 cmd |-> [k \in 1 .. n_ |-> [pose |-> robots[k - 1].pose,
                                             send |-> k - 1 \in B!Sends]]]
    OBVIOUS
  <1>3. toNs3' = <<m>>
    BY <1>2, OneElement DEF B!BuildStep
  <1>4. m.cmd \in [1 .. n_ -> [pose : B!Poses, send : BOOLEAN]]
    <2>1. ASSUME NEW k \in 1 .. n_ PROVE robots[k - 1].pose \in B!Poses
      <3>1. k - 1 \in B!Ids
        BY <1>1 DEF B!Ids
      <3> QED
        BY <3>1 DEF Table, RobotType
    <2> QED
      BY <1>2, <2>1
  <1>5. ASSUME NEW i \in B!Ids
        PROVE  m.cmd[i + 1].pose = robots[i].pose /\ (m.cmd[i + 1].send <=> i \in B!Sends)
    <2> DEFINE asked == i \in B!Sends
    <2>1. i + 1 \in 1 .. n_ /\ (i + 1) - 1 = i
      BY <1>1 DEF B!Ids
    <2>2. m.cmd[i + 1] = [pose |-> robots[i].pose, send |-> asked]
      BY <1>2, <2>1
    <2> HIDE DEF asked
    <2>3. m.cmd[i + 1].pose = robots[i].pose /\ m.cmd[i + 1].send = asked
      BY <2>2
    <2> QED
      BY <2>3 DEF asked
  <1>6. m = [time |-> m.time, cmd |-> m.cmd] /\ m.time = sim_ns
    BY <1>2
  <1> QED
    BY <1>3, <1>4, <1>5, <1>6

(* The step sends the latest poses, and ns-3 learns them with the update. *)
LEMMA BuildStepInv ==
    ASSUME Inv, B!BuildStep, UNCHANGED gatewayVars
    PROVE  Inv'
  <1>1. Stepping /\ Table /\ FreshIffUnsent /\ n_ \in Nat
    BY Constants DEF B!BuildStep, Inv, Turn, Stepping, Underway, Taken, Answer, Closing,
                     Over, Table
  <1>2. /\ worker' = "await"
        /\ UNCHANGED <<n_, stop, sim_ns, toBridge, now, phase, update, position>>
        /\ B!Ids' = B!Ids /\ B!Poses' = B!Poses /\ RobotType' = RobotType
    BY DEF B!BuildStep, gatewayVars, B!Ids, B!Poses, RobotType
  <1>3. robots' \in [B!Ids -> RobotType]
    BY <1>1, BuildStepRobots
  <1>4. ASSUME NEW i \in B!Ids
        PROVE  /\ robots[i].pose \in B!Poses /\ robots[i].pose \in Nat
               /\ robots'[i].sent_pose = robots[i].pose /\ robots'[i].pose = robots[i].pose
               /\ ~robots'[i].fresh
    BY <1>1, BuildStepRobots
  <1>5. /\ requested \subseteq requested'
        /\ \A i \in B!Sends : [robot |-> i, time |-> sim_ns, pose |-> robots[i].pose]
                                  \in requested'
        /\ requested' \subseteq [robot : B!Ids, time : Nat, pose : B!Poses]
    BY <1>1, BuildStepRequests
  <1>6. Table'
    BY <1>1, <1>2, <1>3, <1>5 DEF Table
  <1>7. FreshIffUnsent'
    BY <1>2, <1>4 DEF FreshIffUnsent, B!FreshIffUnsent
  <1>8. Published'
    <2> SUFFICES ASSUME NEW i \in B!Ids PROVE robots'[i].sent_pose <= robots'[i].pose
      BY <1>2 DEF Published
    <2> QED
      BY <1>4
  <1>9. PICK m : toNs3' = <<m>> /\ IsUpdate(m)'
    <2>1. PICK m : /\ toNs3' = <<m>> /\ m.time = sim_ns
                   /\ m.cmd \in [1 .. n_ -> [pose : B!Poses, send : BOOLEAN]]
                   /\ \A i \in B!Ids : /\ m.cmd[i + 1].pose = robots[i].pose
                                       /\ m.cmd[i + 1].send => i \in B!Sends
      BY <1>1, BuildStepMessage DEF Stepping
    <2>2. ASSUME NEW i \in B!Ids
          PROVE  /\ m.cmd[i + 1].pose = robots'[i].sent_pose
                 /\ m.cmd[i + 1].send =>
                        \E q \in requested' : q.robot = i /\ q.time = sim_ns'
      BY <1>2, <1>4, <1>5, <2>1
    <2> QED
      BY <1>2, <2>1, <2>2 DEF IsUpdate
  <1>10. Turn'
    <2>1. Underway'
      BY <1>1, <1>2, <1>9 DEF Stepping, Underway
    <2> QED
      BY <1>2, <2>1 DEF Inv, Turn
  <1>11. Placed'
    BY <1>9, OneElement DEF Placed, Stepping, Answer
  <1> QED
    BY <1>6, <1>7, <1>8, <1>10, <1>11 DEF Inv

(* The reply moves the bridge on to the next step. *)
LEMMA HandleReplyInv ==
    ASSUME Inv, B!HandleReply, UNCHANGED gatewayVars
    PROVE  Inv'
  <1> USE DEF B!HandleReply, gatewayVars
  <1>1. Answer /\ Table
    BY DEF Inv, Turn, Stepping, Underway, Taken, Answer, Closing, Over
  <1>2. sim_ns' = sim_ns + Step /\ sim_ns \in Nat /\ sim_ns' \in Nat
    BY <1>1, Constants DEF Table, B!NextTime
  <1>3. Table'
    <2>1. PICK k \in Nat : sim_ns = Step * k
      BY <1>1 DEF Table
    <2>2. sim_ns + Step = Step * (k + 1) /\ k + 1 \in Nat
      BY <2>1, Constants
    <2> QED
      BY <1>1, <1>2, <2>2 DEF Table, B!Ids, B!Poses
  <1>4. FreshIffUnsent' /\ Published'
    BY DEF Inv, FreshIffUnsent, B!FreshIffUnsent, Published, B!Ids
  <1>5. Stepping' /\ toBridge' = <<>>
    <2>1. toBridge' = <<>>
      BY <1>1, OneElement DEF Answer
    <2> QED
      BY <1>1, <1>2, <2>1, Constants DEF Answer, Stepping
  <1>6. Turn'
    BY <1>1, <1>2, <1>5, Constants DEF Inv, Turn, Answer
  <1>7. Placed'
    BY <1>1 DEF Inv, Placed
  <1> QED
    BY <1>3, <1>4, <1>6, <1>7 DEF Inv

(* The end of the run: the connection is given up, and goodbye is said. *)
LEMMA EndInv ==
    ASSUME Inv, UNCHANGED gatewayVars,
           \/ phase \in {"stopped", "aborted"} /\ B!Disconnected
           \/ B!Finish
    PROVE  Inv'
  <1> USE DEF gatewayVars, B!Disconnected, B!Finish
  <1>1. Table' /\ FreshIffUnsent' /\ Published'
    BY DEF Inv, Table, RobotType, FreshIffUnsent, B!FreshIffUnsent, Published,
           B!Ids, B!Poses
  <1>2. CASE phase \in {"stopped", "aborted"} /\ B!Disconnected
    <2>1. Closing'
      BY <1>2 DEF Inv, Turn, Stepping, Underway, Taken, Answer, Closing, Over
    <2> QED
      BY <1>1, <1>2, <2>1 DEF Inv, Turn, Placed, Stepping, Answer
  <1>3. CASE B!Finish
    <2>1. toNs3' = <<G!Bye>>
      BY <1>3, OneElement
         DEF Inv, Turn, Stepping, Underway, Taken, Answer, Closing, Over, G!Bye
    <2>2. Over'
      BY <1>3, <2>1 DEF Inv, Turn, Stepping, Underway, Taken, Answer, Closing, Over, G!Bye
    <2> QED
      BY <1>1, <1>3, <2>2 DEF Inv, Turn, Placed, Stepping, Answer
  <1> QED
    BY <1>2, <1>3

(* ns-3 takes the message: the update it names is the one to run, or a goodbye. *)
LEMMA ReceiveInv ==
    ASSUME Inv, UNCHANGED bridgeVars, G!ReceiveUpdate \/ G!ReceiveBye
    PROVE  Inv'
  <1> USE DEF bridgeVars
  <1>1. Table' /\ FreshIffUnsent' /\ Published' /\ sim_ns \in Nat
    BY DEF Inv, Table, RobotType, FreshIffUnsent, B!FreshIffUnsent, Published,
           B!Ids, B!Poses
  <1>2. CASE Underway
    <2>1. PICK m : toNs3 = <<m>> /\ IsUpdate(m)
      BY <1>2 DEF Underway
    <2>2. Head(toNs3) = m /\ Tail(toNs3) = <<>> /\ ~(m.time < 0) /\ m.time = sim_ns
      BY <1>1, <2>1, OneElement DEF IsUpdate
    <2>3. G!ReceiveUpdate
      BY <2>2 DEF G!ReceiveBye
    <2>4. /\ update' = m /\ toNs3' = <<>> /\ phase' = "run"
          /\ UNCHANGED <<now, position, toBridge>>
      BY <2>2, <2>3 DEF G!ReceiveUpdate
    <2>5. Taken'
      BY <1>2, <2>1, <2>4 DEF Underway, Taken, IsUpdate, B!Ids, B!Poses
    <2> QED
      BY <1>1, <1>2, <2>2, <2>4, <2>5
         DEF Inv, Turn, Placed, Stepping, Answer, Taken, Underway
  <1>3. CASE Over
    <2>1. Head(toNs3) = G!Bye /\ Tail(toNs3) = <<>> /\ phase = "wait"
      BY <1>3, OneElement DEF Over, G!ReceiveUpdate, G!ReceiveBye
    <2>2. G!ReceiveBye
      BY <2>1 DEF G!ReceiveUpdate, G!Bye
    <2>3. Over' /\ UNCHANGED <<now, update>>
      BY <1>3, <2>1, <2>2 DEF Over, G!ReceiveBye
    <2> QED
      BY <1>1, <2>1, <2>3 DEF Inv, Turn, Placed, Stepping, Answer, Over
  <1> QED
    BY <1>2, <1>3
       DEF Inv, Turn, Stepping, Taken, Answer, Closing, G!ReceiveUpdate, G!ReceiveBye

(* Time passes in ns-3, never beyond the step the bridge asked for. *)
LEMMA AdvanceInv ==
    ASSUME Inv, UNCHANGED bridgeVars, G!Advance
    PROVE  Inv'
  <1> USE DEF bridgeVars, G!Advance
  <1>1. Table' /\ FreshIffUnsent' /\ Published' /\ sim_ns \in Nat
    BY DEF Inv, Table, RobotType, FreshIffUnsent, B!FreshIffUnsent, Published,
           B!Ids, B!Poses
  <1>2. Taken /\ now \in Nat /\ update.time = sim_ns
    BY DEF Inv, Turn, Stepping, Underway, Taken, Answer, Closing, Over, IsUpdate
  <1>3. Taken'
    BY <1>2 DEF Taken, IsUpdate, B!Ids, B!Poses
  <1>4. now' \in Nat /\ now < now' /\ now' <= sim_ns
    BY <1>1, <1>2
  <1> QED
    BY <1>1, <1>2, <1>3, <1>4, Constants DEF Inv, Turn, Placed, Stepping, Answer, Taken

(* The update moves the robots to the poses their messages carry. *)
LEMMA DoUpdateInv ==
    ASSUME Inv, UNCHANGED bridgeVars, G!DoUpdate
    PROVE  Inv'
  <1> USE DEF bridgeVars, G!DoUpdate
  <1>1. Table' /\ FreshIffUnsent' /\ Published' /\ sim_ns \in Nat /\ n_ \in Nat
    BY Constants DEF Inv, Table, RobotType, FreshIffUnsent, B!FreshIffUnsent, Published,
           B!Ids, B!Poses
  <1>2. Taken /\ IsUpdate(update)
    BY DEF Inv, Turn, Stepping, Underway, Taken, Answer, Closing, Over
  <1>3. Answer'
    <2>1. toBridge' = <<m_deliveries>>
      BY <1>2, OneElement DEF Taken, G!SendResponse
    <2> QED
      BY <1>1, <1>2, <2>1, Constants DEF Taken, Answer, IsUpdate
  <1>4. Placed'
    <2> SUFFICES ASSUME n_ >= N, NEW i \in 0 .. N - 1
                 PROVE  position'[i] = robots[i].sent_pose
      BY DEF Placed
    <2>1. i \in B!Ids /\ i \in G!Robots
      BY <1>1, Constants DEF B!Ids, G!Robots
    <2> QED
      BY <1>2, <2>1 DEF IsUpdate
  <1> QED
    BY <1>1, <1>2, <1>3, <1>4 DEF Inv, Turn, Taken, Answer

(* ns-3 aborts on an update that says too little. *)
LEMMA AbortUpdateInv ==
    ASSUME Inv, UNCHANGED bridgeVars, G!AbortUpdate
    PROVE  Inv'
  <1> USE DEF bridgeVars, G!AbortUpdate
  <1>1. Table' /\ FreshIffUnsent' /\ Published'
    BY DEF Inv, Table, RobotType, FreshIffUnsent, B!FreshIffUnsent, Published,
           B!Ids, B!Poses
  <1>2. Taken
    BY DEF Inv, Turn, Stepping, Underway, Taken, Answer, Closing, Over
  <1>3. Taken'
    BY <1>2 DEF Taken, IsUpdate, B!Ids, B!Poses
  <1> QED
    BY <1>1, <1>2, <1>3 DEF Inv, Turn, Placed, Stepping, Answer, Taken

(* A reception, and a step of neither program, change nothing of this. *)
LEMMA OtherInv ==
    ASSUME Inv, \/ UNCHANGED bridgeVars /\ \E c \in inflight : G!HandleRx(c)
                \/ Stop
                \/ UNCHANGED vars
    PROVE  Inv'
  <1>1. /\ UNCHANGED <<n_, robots, worker, sim_ns, requested, toNs3, toBridge,
                       now, phase, update, position>>
        /\ stop' \in BOOLEAN
    BY DEF Stop, B!Stop, vars, gatewayVars, bridgeVars, G!HandleRx, Inv, Table
  <1>2. Table' /\ FreshIffUnsent' /\ Published'
    BY <1>1 DEF Inv, Table, RobotType, FreshIffUnsent, B!FreshIffUnsent, Published,
           B!Ids, B!Poses
  <1>3. Turn'
    <2>1. ASSUME NEW m, IsUpdate(m) PROVE IsUpdate(m)'
      BY <1>1, <2>1 DEF IsUpdate, B!Ids, B!Poses
    <2> QED
      BY <1>1, <2>1 DEF Inv, Turn, Stepping, Underway, Taken, Answer, Closing, Over
  <1>4. Placed'
    BY <1>1 DEF Inv, Placed, Stepping, Answer
  <1> QED
    BY <1>2, <1>3, <1>4 DEF Inv

(* One step of the bridge or of ns-3 keeps the invariant. *)
LEMMA NextInv == Inv /\ [Next]_vars => Inv'
  <1> SUFFICES ASSUME Inv, [Next]_vars PROVE Inv'
    OBVIOUS
  <1>1. CASE WorkerStep
    BY <1>1, BuildStepInv, HandleReplyInv, EndInv DEF WorkerStep
  <1>2. ASSUME NEW i \in B!Ids, PoseCallback(i) PROVE Inv'
    BY <1>2, PoseCallbackInv
  <1>3. CASE Ns3Step
    BY <1>3, ReceiveInv, AdvanceInv, DoUpdateInv, AbortUpdateInv, OtherInv
       DEF Ns3Step, G!GatewayStep
  <1>4. CASE Stop \/ UNCHANGED vars
    BY <1>4, OtherInv
  <1> QED
    BY <1>1, <1>2, <1>3, <1>4 DEF Next, Ended

(* The invariant holds in every reachable state. *)
THEOREM TurnInvariant == Spec => []Inv
  BY InitInv, NextInv, PTL DEF Spec

-----------------------------------------------------------------------------
(***************************************************************************)
(* The bridge and ns-3 work in lock-step: while the bridge is at a step,   *)
(* ns-3 blocks on an empty connection; ns-3 runs only towards the time the *)
(* bridge has asked for, and there is never more than one message between  *)
(* the two, however the callbacks, the stop and the end of ns-3 interleave.*)
(***************************************************************************)
THEOREM LockStepHolds == Spec => []LockStep
  <1>1. Inv => LockStep
    <2> SUFFICES ASSUME Inv PROVE LockStep
      OBVIOUS
    <2>1. /\ now <= sim_ns /\ (phase # "aborted" => sim_ns - now <= Step)
          /\ Stepping \/ Underway \/ Taken \/ Answer \/ Closing \/ Over
      BY DEF Inv, Turn
    <2>2. \A m : <<m>> # <<>> /\ Len(<<m>>) = 1
      BY OneElement
    <2>3. Len(toNs3) <= 1 /\ Len(toBridge) <= 1
      <3>1. /\ toNs3 = <<>> \/ \E m : toNs3 = <<m>>
            /\ toBridge = <<>> \/ \E m : toBridge = <<m>>
        BY <2>1 DEF Stepping, Underway, Taken, Answer, Closing, Over
      <3>2. ASSUME NEW c, c = <<>> \/ \E m : c = <<m>>
            PROVE  Len(c) <= 1
        <4>1. CASE c = <<>>
          BY <4>1
        <4>2. CASE \E m : c = <<m>>
          BY <4>2
        <4> QED
          BY <3>2, <4>1, <4>2
      <3> QED
        BY <3>1, <3>2
    <2> QED
      BY <2>1, <2>2, <2>3 DEF LockStep, Stepping, Underway, Taken, Answer, Closing, Over
  <1> QED
    BY <1>1, TurnInvariant, PTL

(***************************************************************************)
(* Under the lock the flag fresh says whether a pose waits to be sent,     *)
(* whichever of the two threads ran last.                                  *)
(***************************************************************************)
THEOREM FreshHolds == Spec => []FreshIffUnsent
  <1>1. Inv => FreshIffUnsent
    BY DEF Inv
  <1> QED
    BY <1>1, TurnInvariant, PTL

(***************************************************************************)
(* From the first answer on, the robots of ns-3 stand between two steps    *)
(* where the last update put them: where their last messages were sent     *)
(* from.  Where the position allocator puts them before does not matter.   *)
(***************************************************************************)
THEOREM RobotsFollowHolds == Spec => []RobotsFollow
  <1>1. Inv => RobotsFollow
    BY DEF Inv, Turn, Placed, RobotsFollow, Stepping, Underway, Taken, Answer, Closing, Over
  <1> QED
    BY <1>1, TurnInvariant, PTL

(***************************************************************************)
(* The bridge keeps the protocol RobotGateway assumes of its peer: every   *)
(* step of the co-simulation is one of the gateway's, a message of its     *)
(* peer, or no step of it at all.                                          *)
(***************************************************************************)
THEOREM BridgeIsThePeer == Spec => GatewaySpec
  <1>1. Init => G!Init
    BY DEF Init
  <1>2. Inv /\ [Next]_vars => [G!Next]_(G!vars)
    <2> SUFFICES ASSUME Inv, [Next]_vars PROVE G!Next \/ UNCHANGED G!vars
      OBVIOUS
    <2>1. CASE B!BuildStep /\ UNCHANGED gatewayVars
      <3>1. Stepping /\ Table
        BY <2>1 DEF B!BuildStep, Inv, Turn, Underway, Taken, Answer, Closing, Over
      <3>2. sim_ns \in 0 .. MaxTime
        BY <2>1, <3>1, Constants DEF B!BuildStep, Table
      <3>3. PICK m : /\ toNs3' = <<m>> /\ m = [time |-> m.time, cmd |-> m.cmd]
                     /\ m.time = sim_ns
                     /\ m.cmd \in [1 .. n_ -> [pose : B!Poses, send : BOOLEAN]]
        BY <2>1, <3>1, BuildStepMessage DEF Stepping
      <3>4. m.cmd \in G!Commands(n_) /\ n_ \in PeerRobots
        BY <3>1, <3>3 DEF G!Commands, G!Command, B!Poses, Table
      <3>5. m \in G!Updates
        BY <3>1, <3>2, <3>3, <3>4 DEF G!Updates, Stepping
      <3>6. G!PeerSend
        BY <2>1, <3>1, <3>3, <3>5
           DEF G!PeerSend, Stepping, B!BuildStep, gatewayVars, G!gatewayVars
      <3> QED
        BY <3>6 DEF G!Next
    <2>2. CASE B!HandleReply /\ UNCHANGED gatewayVars
      BY <2>2 DEF B!HandleReply, G!Next, G!PeerReply, gatewayVars, G!gatewayVars
    <2>3. CASE B!Finish /\ UNCHANGED gatewayVars
      <3>1. /\ toNs3 = <<>> /\ toBridge = <<>> /\ phase \in {"wait", "aborted"}
            /\ toNs3' = <<G!Bye>>
        BY <2>3, OneElement DEF B!Finish, Inv, Turn, Stepping, Underway, Taken, Answer,
                                Closing, Over, G!Bye
      <3> QED
        BY <2>3, <3>1 DEF B!Finish, G!Next, G!PeerSend, gatewayVars, G!gatewayVars
    <2>4. CASE Ns3Step
      BY <2>4 DEF Ns3Step, G!Next
    <2>5. CASE UNCHANGED <<gatewayVars, toNs3, toBridge>>
      BY <2>5 DEF gatewayVars, G!vars, G!gatewayVars
    <2> QED
      BY <2>1, <2>2, <2>3, <2>4, <2>5
         DEF Next, WorkerStep, PoseCallback, Stop, Ended, B!Disconnected, B!PoseCallback,
             B!Stop, vars
  <1> QED
    BY <1>1, <1>2, TurnInvariant, PTL DEF Spec, GatewaySpec, G!Spec

=============================================================================
