--------------------------- MODULE CosimLifecycle ---------------------------
(***************************************************************************)
(* A co-simulation run from start to end: scripts/cosim.sh launches the    *)
(* ROS 2 side in the background, sleeps, runs ns-3 in the foreground and   *)
(* waits for the launch to end (ros2/.../cosim.launch.py ends when the     *)
(* bridge does).  The bridge is two threads, main() and the worker run().  *)
(*                                                                         *)
(* What crosses the connection is abstracted to whose turn it is: Cosim    *)
(* has the contents.  What is added is everything that can end: the        *)
(* listening socket, the connection, the two threads and the processes.    *)
(*                                                                         *)
(* conn is the bridge's view of the connection: "fin" when ns-3 has closed *)
(* its end, "reset" when the kernel has answered a line written after that.*)
(* ::send on a reset connection raises SIGPIPE, which nothing in the       *)
(* bridge handles, so it kills the process and what the CSV's stream       *)
(* buffer holds is lost.                                                   *)
(***************************************************************************)
EXTENDS Integers

CONSTANTS
    Duration,  \* steps until duration_s is reached
    Faults     \* what may go wrong

(***************************************************************************)
(* "bind"  another program has the port, at least when the bridge binds it *)
(* "slow"  the bridge does not listen within the sleep of cosim.sh         *)
(* "setup" ns-3 ends before it connects (NS_ABORT, bad option, not built)  *)
(* "turn"  ns-3 dies while it simulates a step (NS_ABORT, crash)           *)
(* "idle"  ns-3 dies while it waits for the bridge (killed)                *)
(***************************************************************************)
AllFaults == {"bind", "slow", "setup", "turn", "idle"}

ASSUME LifecycleAssumption ==
    /\ Duration \in Nat \ {0}
    /\ Faults \subseteq AllFaults

VARIABLES
    script,   \* cosim.sh: "start", "sleep", "ns3", "wait", "done"
    launch,   \* ros2 launch: "off", "up", "down"
    bridge,   \* the process and its main thread: "off", "spin", "join", "exited", "killed"
    worker,   \* the thread run(): "none", "bind", "accept", "step", "await", "bye",
              \* "close", "returned", "killed"
    stop,     \* stop_ is set or rclcpp is shut down
    srv,      \* the listening socket: "closed", "open"
    faults,   \* the faults this run is exposed to; constant in a behaviour
    ns3,      \* "off", "setup", "idle" (waits for the bridge), "busy", "gone",
              \* "stray" (waits for the other program that has the port)
    conn,     \* "none", "pending", "open", "fin", "reset", "closed"
    toNs3,    \* "", "step", "bye"
    toBridge, \* "", "reply"
    steps,    \* steps completed
    rows,     \* deliveries published and written to csv_
    disk      \* those of them that are in the file

vars == <<script, launch, bridge, worker, stop, srv, faults, ns3, conn,
          toNs3, toBridge, steps, rows, disk>>

scriptVars == <<script, launch>>
linkVars == <<conn, toNs3, toBridge>>

Init ==
    /\ script = "start" /\ launch = "off"
    /\ bridge = "off" /\ worker = "none"
    /\ stop = FALSE
    /\ srv = "closed"
    /\ faults \in SUBSET Faults
    /\ ns3 = "off"
    /\ conn = "none" /\ toNs3 = "" /\ toBridge = ""
    /\ steps = 0 /\ rows = 0 /\ disk = 0

-----------------------------------------------------------------------------
(* ros2 launch ... & *)
StartLaunch ==
    /\ script = "start"
    /\ script' = "sleep" /\ launch' = "up"
    /\ UNCHANGED <<bridge, worker, stop, srv, faults, ns3, linkVars, steps, rows, disk>>

(* sleep 4, then ns-3; normally the bridge has reached listen by then. *)
StartNs3 ==
    /\ script = "sleep"
    /\ worker \in {"none", "bind"} => "slow" \in faults
    /\ script' = "ns3" /\ ns3' = "setup"
    /\ UNCHANGED <<launch, bridge, worker, stop, srv, faults, linkVars, steps, rows, disk>>

(* ns-3 has exited; whatever its status, the script goes on to wait. *)
Ns3Exited ==
    /\ script = "ns3" /\ ns3 = "gone"
    /\ script' = "wait"
    /\ UNCHANGED <<launch, bridge, worker, stop, srv, faults, ns3, linkVars, steps, rows, disk>>

LaunchExited ==
    /\ script = "wait" /\ launch = "down"
    /\ script' = "done"
    /\ UNCHANGED <<launch, bridge, worker, stop, srv, faults, ns3, linkVars, steps, rows, disk>>

(* OnProcessExit(bridge): Shutdown, which takes the robots down too. *)
ShutdownLaunch ==
    /\ launch = "up" /\ bridge \in {"exited", "killed"}
    /\ launch' = "down"
    /\ UNCHANGED <<script, bridge, worker, stop, srv, faults, ns3, linkVars, steps, rows, disk>>

ScriptStep == StartLaunch \/ StartNs3 \/ Ns3Exited \/ LaunchExited \/ ShutdownLaunch

-----------------------------------------------------------------------------
(* main(): the constructor starts the worker, spin runs the callbacks. *)
StartBridge ==
    /\ launch = "up" /\ bridge = "off"
    /\ bridge' = "spin" /\ worker' = "bind"
    /\ UNCHANGED <<scriptVars, stop, srv, faults, ns3, linkVars, steps, rows, disk>>

(* spin returns once rclcpp is shut down; the destructor sets stop_. *)
SpinReturns ==
    /\ bridge = "spin" /\ stop
    /\ bridge' = "join"
    /\ UNCHANGED <<scriptVars, worker, stop, srv, faults, ns3, linkVars, steps, rows, disk>>

(* Mutated form: the destructor lets the worker go. *)
Detached == TRUE

Joinable == worker = "returned"

(* worker_.join(), then the members are destroyed, which closes csv_. *)
JoinWorker ==
    /\ bridge = "join" /\ Joinable
    /\ bridge' = "exited" /\ disk' = rows
    /\ UNCHANGED <<scriptVars, worker, stop, srv, faults, ns3, linkVars, steps, rows>>

MainStep == StartBridge \/ SpinReturns \/ JoinWorker

(* The user: Ctrl-C shuts rclcpp down. *)
Interrupt ==
    /\ bridge = "spin" /\ ~stop
    /\ stop' = TRUE
    /\ UNCHANGED <<scriptVars, bridge, worker, srv, faults, ns3, linkVars, steps, rows, disk>>

-----------------------------------------------------------------------------
(* acceptClient: bind and listen, or return from run() altogether. *)
Bind ==
    /\ worker = "bind"
    /\ IF "bind" \in faults THEN worker' = "returned" /\ UNCHANGED srv
                           ELSE worker' = "accept" /\ srv' = "open"
    /\ UNCHANGED <<scriptVars, bridge, stop, faults, ns3, linkVars, steps, rows, disk>>

Accept ==
    /\ worker = "accept" /\ conn \in {"pending", "fin"}
    /\ worker' = "step" /\ srv' = "closed"
    /\ conn' = IF conn = "pending" THEN "open" ELSE conn
    /\ UNCHANGED <<scriptVars, bridge, stop, faults, ns3, toNs3, toBridge, steps, rows, disk>>

(* Mutated form: the poll of accept does not look at stop_. *)
NeverGivesUp == FALSE

GivesUp == stop

(* The poll ends without a client; a connection in the backlog is reset. *)
GiveUp ==
    /\ worker = "accept" /\ GivesUp
    /\ worker' = "returned" /\ srv' = "closed"
    /\ conn' = IF conn = "pending" THEN "closed" ELSE conn
    /\ UNCHANGED <<scriptVars, bridge, stop, faults, ns3, toNs3, toBridge, steps, rows, disk>>

(***************************************************************************)
(* ::send of a line, after which the worker is at next.  ns-3 reads it, or *)
(* it is answered by a reset, or SIGPIPE ends the process.                 *)
(***************************************************************************)
Send(line, next) ==
    \/ /\ conn = "open" /\ toNs3' = line /\ worker' = next
       /\ UNCHANGED <<bridge, stop, conn>>
    \/ /\ conn = "fin" /\ conn' \in {"fin", "reset"} /\ worker' = next
       /\ UNCHANGED <<bridge, stop, toNs3>>
    \/ /\ conn = "reset" /\ conn' = "closed"
       /\ bridge' = "killed" /\ worker' = "killed"
       /\ UNCHANGED <<stop, toNs3>>

(* Mutated form: one step too many. *)
ContinueTooLong == ~stop /\ steps <= Duration

(* The condition of the while loop of run(). *)
Continue == ~stop /\ steps < Duration

SendStep ==
    /\ worker = "step" /\ Continue
    /\ Send("step", "await")
    /\ UNCHANGED <<scriptVars, srv, faults, ns3, toBridge, steps, rows, disk>>

(* handleReply writes lines; the stream flushes as many as it likes. *)
ReceiveReply ==
    /\ worker = "await" /\ toBridge = "reply"
    /\ toBridge' = ""
    /\ \E k \in 0 .. 1 : rows' = rows + k
    /\ \E k \in disk .. rows' : disk' = k
    /\ steps' = steps + 1
    /\ worker' = "step"
    /\ UNCHANGED <<scriptVars, bridge, stop, srv, faults, ns3, conn, toNs3>>

(* Mutated form: the loop goes on after "ns-3 disconnected". *)
TryAgain == "step"

AfterDisconnect == "bye"

(* recv returns 0 or -1: break. *)
LosePeer ==
    /\ worker = "await" /\ toBridge = "" /\ conn \in {"fin", "reset"}
    /\ worker' = AfterDisconnect
    /\ UNCHANGED <<scriptVars, bridge, stop, srv, faults, ns3, linkVars, steps, rows, disk>>

LeaveLoop ==
    /\ worker = "step" /\ ~Continue
    /\ worker' = "bye"
    /\ UNCHANGED <<scriptVars, bridge, stop, srv, faults, ns3, linkVars, steps, rows, disk>>

SendBye ==
    /\ worker = "bye"
    /\ Send("bye", "close")
    /\ UNCHANGED <<scriptVars, srv, faults, ns3, toBridge, steps, rows, disk>>

(* Mutated form: the worker returns without shutting rclcpp down. *)
KeepSpinning == UNCHANGED stop

Shutdown == stop' = TRUE

(* close(fd), report, csv_.close(), rclcpp::shutdown(). *)
CloseAll ==
    /\ worker = "close"
    /\ conn' = "closed"
    /\ disk' = rows
    /\ Shutdown
    /\ worker' = "returned"
    /\ UNCHANGED <<scriptVars, bridge, srv, faults, ns3, toNs3, toBridge, steps, rows>>

WorkerStep ==
    Bind \/ Accept \/ GiveUp \/ SendStep \/ ReceiveReply \/ LosePeer \/ LeaveLoop
    \/ SendBye \/ CloseAll

-----------------------------------------------------------------------------
(***************************************************************************)
(* ns-3: gateway->Connect succeeds if someone listens, else ns-3 aborts.   *)
(* The bridge cannot be the one that does while another program has the    *)
(* port; that one may still listen, or have left since.                    *)
(***************************************************************************)
Connect ==
    /\ ns3 = "setup"
    /\ \/ srv = "open" /\ ns3' = "idle" /\ conn' = "pending"
       \/ srv = "closed" /\ ns3' = "gone" /\ UNCHANGED conn
       \/ "bind" \in faults /\ ns3' = "stray" /\ UNCHANGED conn
    /\ UNCHANGED <<scriptVars, bridge, worker, stop, srv, faults, toNs3, toBridge,
                   steps, rows, disk>>

TakeStep ==
    /\ ns3 = "idle" /\ toNs3 = "step"
    /\ toNs3' = "" /\ ns3' = "busy"
    /\ UNCHANGED <<scriptVars, bridge, worker, stop, srv, faults, conn, toBridge,
                   steps, rows, disk>>

Reply ==
    /\ ns3 = "busy"
    /\ toBridge' = "reply" /\ ns3' = "idle"
    /\ UNCHANGED <<scriptVars, bridge, worker, stop, srv, faults, conn, toNs3,
                   steps, rows, disk>>

(* A goodbye or the end of the connection: Simulator::Run returns, ns-3 exits. *)
TakeLeave ==
    /\ ns3 = "idle" /\ (toNs3 = "bye" \/ (toNs3 = "" /\ conn = "closed"))
    /\ ns3' = "gone" /\ toNs3' = ""
    /\ UNCHANGED <<scriptVars, bridge, worker, stop, srv, faults, conn, toBridge,
                   steps, rows, disk>>

Ns3Step == Connect \/ TakeStep \/ Reply \/ TakeLeave

(* ns-3 ends where it should not; unread input turns its close into a reset. *)
Ns3Dies ==
    /\ \/ "setup" \in faults /\ ns3 = "setup"
       \/ "turn" \in faults /\ ns3 = "busy"
       \/ "idle" \in faults /\ ns3 = "idle"
    /\ ns3' = "gone"
    /\ conn' = IF conn \notin {"pending", "open"} THEN conn
               ELSE IF toNs3 # "" THEN "reset" ELSE "fin"
    /\ toNs3' = ""
    /\ UNCHANGED <<scriptVars, bridge, worker, stop, srv, faults, toBridge,
                   steps, rows, disk>>

(* The other program closes the connection, or writes what ns-3 aborts on. *)
StrangerLeaves ==
    /\ ns3 = "stray"
    /\ ns3' = "gone"
    /\ UNCHANGED <<scriptVars, bridge, worker, stop, srv, faults, linkVars,
                   steps, rows, disk>>

-----------------------------------------------------------------------------
Ended == script = "done" /\ UNCHANGED vars

(* The bridge waits for an ns-3 that will not come, the script for the bridge. *)
NobodyComes ==
    /\ script = "wait" /\ bridge = "spin" /\ ~stop
    /\ \/ worker = "accept" /\ conn = "none"
       \/ worker = "returned" /\ "bind" \in faults

Hung == NobodyComes /\ UNCHANGED vars

Next == ScriptStep \/ MainStep \/ Interrupt \/ WorkerStep \/ Ns3Step \/ Ns3Dies
        \/ StrangerLeaves \/ Ended \/ Hung

Spec == Init /\ [][Next]_vars

(***************************************************************************)
(* Threads and processes run; faults and the user's interrupt need not     *)
(* come, and the other program need not leave.                             *)
(***************************************************************************)
FairSpec == Spec /\ WF_vars(ScriptStep) /\ WF_vars(MainStep) /\ WF_vars(WorkerStep)
                 /\ WF_vars(Ns3Step)

-----------------------------------------------------------------------------
(* Every variable has its type; nothing is on disk that was not written. *)
TypeOK ==
    /\ script \in {"start", "sleep", "ns3", "wait", "done"}
    /\ launch \in {"off", "up", "down"}
    /\ bridge \in {"off", "spin", "join", "exited", "killed"}
    /\ worker \in {"none", "bind", "accept", "step", "await", "bye", "close",
                   "returned", "killed"}
    /\ stop \in BOOLEAN /\ faults \subseteq Faults
    /\ srv \in {"closed", "open"}
    /\ ns3 \in {"off", "setup", "idle", "busy", "gone", "stray"}
    /\ conn \in {"none", "pending", "open", "fin", "reset", "closed"}
    /\ toNs3 \in {"", "step", "bye"}
    /\ toBridge \in {"", "reply"}
    /\ steps \in 0 .. Duration
    /\ rows \in 0 .. Duration /\ disk \in 0 .. rows

(***************************************************************************)
(* bridge_node.cpp:14: every delivery is "appended to a CSV": when the     *)
(* bridge is gone, the file has all it published, however the run ended.   *)
(***************************************************************************)
CsvComplete == bridge \in {"exited", "killed"} => disk = rows

(***************************************************************************)
(* The CSV is complete unless ns-3 was killed while it waited: neither a   *)
(* NS_ABORT in a step, nor Ctrl-C at any point, nor a failed start costs a *)
(* row, although SIGPIPE is never far.                                     *)
(***************************************************************************)
CsvSurvives == "idle" \notin faults => CsvComplete

(***************************************************************************)
(* When cosim.sh reports, nothing of the run is left behind: neither a     *)
(* process, nor the port, nor a delivery on its way.                       *)
(***************************************************************************)
NothingLeftBehind ==
    script = "done" =>
        /\ bridge \in {"exited", "killed"} /\ ns3 = "gone" /\ launch = "down"
        /\ srv = "closed" /\ toBridge = ""

(* What each program needs in order to go on, without a fault or a user. *)
ScriptReady ==
    \/ script = "start"
    \/ script = "sleep" /\ worker \notin {"none", "bind"}
    \/ script = "ns3" /\ ns3 = "gone"
    \/ script = "wait" /\ launch = "down"

LaunchReady == launch = "up" /\ bridge \in {"off", "exited", "killed"}

MainReady ==
    \/ bridge = "spin" /\ stop
    \/ bridge = "join" /\ worker = "returned"

WorkerReady ==
    \/ worker \in {"bind", "close"}
    \/ worker = "accept" /\ (stop \/ conn \in {"pending", "fin"})
    \/ worker \in {"step", "bye"} /\ conn \in {"open", "fin", "reset"}
    \/ worker = "await" /\ (toBridge = "reply" \/ conn \in {"fin", "reset"})

Ns3Ready ==
    \/ ns3 \in {"setup", "busy"}
    \/ ns3 = "idle" /\ (toNs3 # "" \/ conn = "closed")

(* ns-3 is gone or elsewhere, and was never connected: the start has failed. *)
NeverMet ==
    /\ conn = "none" /\ ns3 \in {"gone", "stray"}
    /\ faults \cap {"bind", "slow", "setup"} # {}

(***************************************************************************)
(* The script, the launch, the two threads of the bridge and ns-3 all wait *)
(* for one another, and yet none of them waits in a circle: as long as the *)
(* run is not over one of them can go on, whoever dies and whenever the    *)
(* user interrupts, unless a fault at its start has kept ns-3 and the      *)
(* bridge from meeting.  Those runs may hang (BridgeEndsRun).              *)
(***************************************************************************)
SomeoneMoves ==
    \/ script = "done" \/ NeverMet
    \/ ScriptReady \/ LaunchReady \/ MainReady \/ WorkerReady \/ Ns3Ready

(***************************************************************************)
(* Ctrl-C ends the bridge wherever its worker is, though the destructor    *)
(* joins a thread that may be blocked in accept or recv.                   *)
(***************************************************************************)
InterruptEnds == stop ~> bridge \in {"exited", "killed"}

(***************************************************************************)
(* A run in which ns-3 once connected ends, also when ns-3 dies in it.     *)
(***************************************************************************)
ConnectedRunEnds == (conn # "none") ~> (script = "done")

(***************************************************************************)
(* cosim.launch.py:31: "the bridge ends the run (duration_s reached or     *)
(* ns-3 gone)".                                                            *)
(***************************************************************************)
BridgeEndsRun == (ns3 = "gone") ~> (bridge \in {"exited", "killed"})

=============================================================================
