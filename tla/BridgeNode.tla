----------------------------- MODULE BridgeNode -----------------------------
(***************************************************************************)
(* The ROS 2 end of the co-simulation: class BridgeNode of                 *)
(* ros2/sidewalk_cosim/src/bridge_node.cpp.                                *)
(*                                                                         *)
(* Two threads share the table of robots under mu_: the executor runs the  *)
(* pose callbacks, and a worker owns the socket and simulated time.  The   *)
(* worker names a time, waits until ns-3 has simulated up to it, publishes *)
(* and logs the deliveries of the reply, and moves on by one step.         *)
(*                                                                         *)
(* The poses of a robot are numbered in the order it publishes them, 0     *)
(* being the value of a pose never received.  A line of the CSV is a       *)
(* record; its fields pose (what was put into the neighbours message of    *)
(* that delivery) and uid are history, and so is the variable requested.   *)
(***************************************************************************)
EXTENDS Integers, Sequences, FiniteSets

CONSTANTS
    Step,       \* step_ms
    Duration,   \* duration_s; 0 = until shutdown
    Warmup,     \* warmup_s
    NsPerUs,    \* ticks per microsecond
    PeerRobots, \* the values num_robots may have
    MaxPose,    \* bound of the model: poses each robot publishes
    MaxTime     \* bound of the model: no step is later than this

VARIABLES
    n_,         \* num_robots
    robots,     \* the Robot table: pose, sent_pose, fresh, have_pose
    worker,     \* where run() is: "step", "await", "closing", "done"
    stop,       \* stop_ is set or rclcpp is no longer ok
    sim_ns,     \* the time the worker has reached
    sent_,      \* messages sent from Warmup on
    latencies,  \* latencies_us_.size()
    csv,        \* the lines of the CSV
    requested,  \* history: the messages asked for, with the pose they carry
    toNs3, toBridge

bridgeVars == <<n_, robots, worker, stop, sim_ns, sent_, latencies, csv, requested>>

Ids == 0 .. n_ - 1

Poses == 0 .. MaxPose

NoPose == [pose |-> 0, sent_pose |-> 0, fresh |-> FALSE, have_pose |-> FALSE]

Init ==
    /\ n_ \in PeerRobots
    /\ robots = [i \in Ids |-> NoPose]
    /\ worker = "step"
    /\ stop = FALSE
    /\ sim_ns = 0
    /\ sent_ = 0
    /\ latencies = 0
    /\ csv = {}
    /\ requested = {}

-----------------------------------------------------------------------------
(***************************************************************************)
(* The executor thread: the subscription of robot i hands over a pose.     *)
(***************************************************************************)
PoseCallback(i) ==
    /\ ~stop /\ worker # "done"
    /\ robots[i].pose < MaxPose
    /\ robots' = [robots EXCEPT ![i].pose = @ + 1,
                                ![i].fresh = TRUE,
                                ![i].have_pose = TRUE]
    /\ UNCHANGED <<n_, worker, stop, sim_ns, sent_, latencies, csv, requested,
                   toNs3, toBridge>>

(* Ctrl-C or the destructor; the worker looks at it between two steps. *)
Stop ==
    /\ ~stop /\ worker # "done"
    /\ stop' = TRUE
    /\ UNCHANGED <<n_, robots, worker, sim_ns, sent_, latencies, csv, requested,
                   toNs3, toBridge>>

-----------------------------------------------------------------------------
(* The condition of the while loop of run(). *)
Continue == ~stop /\ (Duration = 0 \/ sim_ns < Duration)

(* The robots whose state message goes out with this step. *)
Sends == {i \in Ids : robots[i].fresh /\ robots[i].have_pose}

(* Mutated forms: the flag stays up; the pose of the message is not kept. *)
AfterStepKeepFresh(r) == [r EXCEPT !.sent_pose = r.pose]
AfterStepKeepPose(r) == [r EXCEPT !.fresh = FALSE]

(* A robot after the loop of the step: its flag is down, its pose sent. *)
AfterStep(r) == [r EXCEPT !.sent_pose = IF r.fresh /\ r.have_pose THEN r.pose ELSE @,
                          !.fresh = FALSE]

(* Mutated form: messages of the warm-up are counted as well. *)
CountedAlways == Cardinality(Sends)

(* What the step adds to sent_. *)
Counted == IF sim_ns >= Warmup THEN Cardinality(Sends) ELSE 0

(* The lock-protected loop that builds the message, and the send. *)
BuildStep ==
    /\ worker = "step"
    /\ Continue
    /\ sim_ns <= MaxTime
    /\ robots' = [i \in Ids |-> AfterStep(robots[i])]
    /\ sent_' = sent_ + Counted
    /\ requested' = requested \cup
          {[robot |-> i, time |-> sim_ns, pose |-> robots[i].pose] : i \in Sends}
    /\ toNs3' = Append(toNs3,
          [time |-> sim_ns,
           cmd |-> [k \in 1 .. n_ |-> [pose |-> robots[k - 1].pose,
                                       send |-> k - 1 \in Sends]]])
    /\ worker' = "await"
    /\ UNCHANGED <<n_, stop, sim_ns, latencies, csv, toBridge>>

(* A source that is none of the robots is logged, but has no pose to publish. *)
NoPublication == -1

(* Mutated form: the neighbours message carries the pose just received. *)
PublishedLatest(src) == IF src \in Ids THEN robots[src].pose ELSE NoPublication

(* The pose that goes into the neighbours message for a delivery of src. *)
Published(src) == IF src \in Ids THEN robots[src].sent_pose ELSE NoPublication

(* Mutated form: the first field of a reply is skipped. *)
ListenersFromOne(reply) == (Ids \ {0}) \cap DOMAIN reply

(* The robots a reply has a field for. *)
Listeners(reply) == Ids \cap DOMAIN reply

(* The lines and publications a reply stands for. *)
Rows(reply) ==
    UNION {{[time |-> sim_ns, src |-> e.src, dst |-> j, lat |-> e.lat,
             pose |-> Published(e.src), uid |-> e.uid] : e \in reply[j]} :
             j \in Listeners(reply)}

(* Whether a line counts for the PRR: its message was sent after the warm-up. *)
FromWarmup(row) == row.time - row.lat * NsPerUs >= Warmup

(* Mutated form: the worker asks for the same time again. *)
SameTime == sim_ns

(* sim_ns += step_ms_ * 1000000 *)
NextTime == sim_ns + Step

(* handleReply, the end of the loop body and the sleep that paces it. *)
HandleReply ==
    /\ worker = "await"
    /\ toBridge # <<>>
    /\ LET rows == Rows(Head(toBridge)) IN
          /\ csv' = csv \cup rows
          /\ latencies' = latencies + Cardinality({r \in rows : FromWarmup(r)})
    /\ toBridge' = Tail(toBridge)
    /\ sim_ns' = NextTime
    /\ worker' = "step"
    /\ UNCHANGED <<n_, robots, stop, sent_, requested, toNs3>>

(* recvLine returns false: the peer is gone and all it sent has been read. *)
Disconnected ==
    /\ worker = "await"
    /\ toBridge = <<>>
    /\ worker' = "closing"
    /\ UNCHANGED <<n_, robots, stop, sim_ns, sent_, latencies, csv, requested,
                   toNs3, toBridge>>

(* After the loop: goodbye to ns-3, the CSV is closed, rclcpp shut down. *)
Finish ==
    /\ worker = "closing" \/ (worker = "step" /\ ~Continue)
    /\ toNs3' = Append(toNs3, [time |-> -1, cmd |-> <<>>])
    /\ worker' = "done"
    /\ UNCHANGED <<n_, robots, stop, sim_ns, sent_, latencies, csv, requested,
                   toBridge>>

-----------------------------------------------------------------------------
(* Every variable of the bridge has its type. *)
TypeOK ==
    /\ n_ \in PeerRobots
    /\ robots \in [Ids -> [pose : Poses, sent_pose : Poses,
                           fresh : BOOLEAN, have_pose : BOOLEAN]]
    /\ worker \in {"step", "await", "closing", "done"}
    /\ stop \in BOOLEAN
    /\ sim_ns \in Nat /\ sim_ns % Step = 0
    /\ sent_ \in Nat
    /\ latencies \in Nat
    /\ csv \subseteq [time : Nat, src : Ids, dst : Ids, lat : Nat, pose : Poses, uid : Nat]
    /\ requested \subseteq [robot : Ids, time : Nat, pose : Poses]

(***************************************************************************)
(* The fresh flag is the truth: under mu_ it is up exactly when the robot  *)
(* has published a pose that no message has carried yet.  No pose is       *)
(* forgotten by a step that runs between two callbacks, none is sent twice.*)
(***************************************************************************)
FreshIffUnsent ==
    \A i \in Ids : /\ robots[i].fresh <=> robots[i].pose # robots[i].sent_pose
                   /\ robots[i].fresh => robots[i].have_pose

=============================================================================
