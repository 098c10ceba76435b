------------------------------- MODULE Cosim -------------------------------
(***************************************************************************)
(* The co-simulation: BridgeNode and RobotGateway at the two ends of one   *)
(* TCP connection.  The channels toNs3 and toBridge carry whole lines      *)
(* (LineReader shows why that is sound) in order and without loss.         *)
(*                                                                         *)
(* The connection lives from Attach/Connect to the bridge's close; what    *)
(* happens when a process dies is the subject of CosimLifecycle.           *)
(***************************************************************************)
EXTENDS Integers, Sequences, FiniteSets

CONSTANTS N, TxEnable, Retention, NsPerUs, PeerRobots, MaxTime,
          Step, Duration, Warmup, MaxPose

ASSUME CosimAssumption ==
    /\ N \in Nat \ {0}
    /\ {TxEnable, Retention, MaxTime, Duration, Warmup, MaxPose} \subseteq Nat
    /\ {NsPerUs, Step} \subseteq Nat \ {0}
    /\ PeerRobots \subseteq Nat \ {0}

VARIABLES now, phase, update, position, m_tx, m_deliveries, inflight, nextUid,
          sent, reported, dropped,
          n_, robots, worker, stop, sim_ns, sent_, latencies, csv, requested,
          toNs3, toBridge

B == INSTANCE BridgeNode

G == INSTANCE RobotGateway WITH Poses <- 0 .. MaxPose

gatewayVars == <<now, phase, update, position, m_tx, m_deliveries,
                 inflight, nextUid, sent, reported, dropped>>
bridgeVars == <<n_, robots, worker, stop, sim_ns, sent_, latencies, csv, requested>>
vars == <<gatewayVars, bridgeVars, toNs3, toBridge>>

Init == G!Init /\ B!Init

(* Steps of the worker thread of the bridge; the end of ns-3 ends a wait. *)
WorkerStep ==
    /\ \/ B!BuildStep
       \/ B!HandleReply
       \/ phase \in {"stopped", "aborted"} /\ B!Disconnected
       \/ B!Finish
    /\ UNCHANGED gatewayVars

(* The executor thread of the bridge, and the user. *)
PoseCallback(i) == B!PoseCallback(i) /\ UNCHANGED gatewayVars

Stop == B!Stop /\ UNCHANGED gatewayVars

(* ns-3. *)
Ns3Step == G!GatewayStep /\ UNCHANGED bridgeVars

(* Both programs have ended. *)
Ended ==
    /\ worker = "done"
    /\ phase \in {"stopped", "aborted"}
    /\ UNCHANGED vars

Next == WorkerStep \/ (\E i \in B!Ids : PoseCallback(i)) \/ Stop \/ Ns3Step \/ Ended

Spec == Init /\ [][Next]_vars

(* The worker and ns-3 are threads the operating system keeps running. *)
FairSpec == Spec /\ WF_vars(WorkerStep) /\ WF_vars(Ns3Step)

-----------------------------------------------------------------------------
(* Every variable has its type. *)
TypeOK == B!TypeOK /\ G!TypeOK

(* The bridge's table of robots is consistent whichever thread ran last. *)
FreshIffUnsent == B!FreshIffUnsent

(***************************************************************************)
(* The lock-step: of the two programs exactly one has the turn.  While the *)
(* bridge waits, its update is on the way, being simulated, answered, or   *)
(* the other side has given up on it; while the bridge works, nothing is   *)
(* on the way and ns-3 blocks.  So ns-3 never runs ahead of the bridge.    *)
(***************************************************************************)
LockStep ==
    /\ worker = "await" =>
          \/ toNs3 # <<>> /\ toBridge = <<>> /\ phase = "wait"
          \/ toNs3 = <<>> /\ toBridge = <<>> /\ phase \in {"run", "aborted"}
          \/ toNs3 = <<>> /\ toBridge # <<>> /\ phase = "wait" /\ now = sim_ns
    /\ worker = "step" => toNs3 = <<>> /\ toBridge = <<>> /\ phase = "wait"
    /\ Len(toNs3) <= 1 /\ Len(toBridge) <= 1
    /\ now <= sim_ns
    /\ phase # "aborted" => sim_ns - now <= Step

(* The transmission a line of the CSV is about. *)
TransmissionOf(row) == CHOOSE s \in sent : s.uid = row.uid

(***************************************************************************)
(* The PRR of report() is a ratio of two independent counts.  Its          *)
(* numerator counts the receptions of messages sent from Warmup on, each   *)
(* once, its denominator those messages, so that it never exceeds one.     *)
(* bridge_node.cpp:45 says so of every warmup_s.                           *)
(***************************************************************************)
PrrCountsFromWarmup ==
    /\ sent_ = Cardinality({q \in requested : q.time >= Warmup})
    /\ latencies = Cardinality({r \in csv : TransmissionOf(r).time >= Warmup})
    /\ latencies <= sent_ * (n_ - 1)

(***************************************************************************)
(* The gateway ignores what it is told to send before TxEnable, and says   *)
(* nothing of it; the bridge counts from Warmup, a number of its own       *)
(* (bridge_node.cpp:44).  Between two steps every message in the           *)
(* denominator of the PRR has been transmitted, and every transmission     *)
(* from Warmup on is in it, if both programs have as many robots and, as   *)
(* by default, Warmup is not before TxEnable.                              *)
(***************************************************************************)
CountedWasTransmitted ==
    worker = "step" /\ n_ = N =>
        sent_ = Cardinality({s \in sent : s.time >= Warmup})

(***************************************************************************)
(* What a neighbour is told of a robot is a pose that robot really sent,   *)
(* in a message at least as recent as the one that was delivered, and not  *)
(* later than the report: never a pose the radio has not carried.          *)
(***************************************************************************)
PoseWasTransmitted ==
    \A r \in csv : \E q \in requested :
        /\ q.robot = r.src /\ q.pose = r.pose
        /\ TransmissionOf(r).time <= q.time /\ q.time <= r.time

(***************************************************************************)
(* bridge_node.cpp:13: every delivery is republished as the sender's pose  *)
(* "as of its transmission", the one the delivered message carried.        *)
(***************************************************************************)
PoseAsOfTransmission ==
    \A r \in csv : \E q \in requested :
        /\ q.robot = r.src /\ q.pose = r.pose /\ q.time = TransmissionOf(r).time

(***************************************************************************)
(* The bridge moves the robots of ns-3: from the first answer on, a robot  *)
(* stands between two steps where its last published pose was when the     *)
(* last update was built, which is where its last message was sent from,   *)
(* or at Pose() if it has published none.  Before that the robots stand    *)
(* where the position allocator has put them.                              *)
(***************************************************************************)
RobotsFollow ==
    worker = "step" /\ sim_ns > 0 /\ n_ >= N =>
        \A i \in 0 .. N - 1 : position[i] = robots[i].sent_pose

(***************************************************************************)
(* A run that ends well has told everything: when ns-3 has taken leave, no *)
(* reception waits in m_deliveries, and those it reported are in the CSV.  *)
(***************************************************************************)
NothingLostAtEnd ==
    phase = "stopped" =>
        /\ \A d \in 0 .. N - 1 : m_deliveries[d] = {}
        /\ reported = {<<r.uid, r.dst>> : r \in csv}

(***************************************************************************)
(* The bridge is the peer RobotGateway assumes, so what is proved of the   *)
(* gateway alone holds in the co-simulation.                               *)
(***************************************************************************)
GatewaySpec == G!Spec

(* The log is the CSV, with the send time the reader can compute from it. *)
Log == INSTANCE ReceptionLog WITH
    Active <- TxEnable,
    time   <- sim_ns,
    asked  <- worker \in {"await", "closing"} \/ (worker = "done" /\ phase = "aborted"),
    msgs   <- {[robot |-> q.robot, time |-> q.time] :
                 q \in {q \in requested : q.time >= TxEnable}},
    log    <- {[src |-> r.src, dst |-> r.dst, time |-> r.time, lat |-> r.lat,
                sent |-> TransmissionOf(r).time] : r \in csv}

(* The co-simulation implements the promise of ReceptionLog. *)
LogSpec == Log!Spec

(* A run with a duration ends: both programs stop. *)
RunEnds == Duration > 0 => <>(worker = "done" /\ phase \in {"stopped", "aborted"})

=============================================================================
