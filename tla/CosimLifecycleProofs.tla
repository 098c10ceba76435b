------------------------ MODULE CosimLifecycleProofs ------------------------
(***************************************************************************)
(* For every duration and every set of faults: a run that cosim.sh reports *)
(* has left nothing behind, and the CSV is complete unless ns-3 was killed *)
(* while it waited.                                                        *)
(*                                                                         *)
(* Neither is inductive.  That the bridge is gone with no reply under way  *)
(* needs that a reply is only ever on its way to a worker that awaits it,  *)
(* hence whose turn it is on the connection (Conversation).  That SIGPIPE  *)
(* costs no row needs that a reset connection is never written to again,   *)
(* hence in which states of the worker ns-3 can have died (Survival): one  *)
(* that dies in a step is missed by the recv that follows, and there is a  *)
(* single line, the goodbye, between that recv and the close.              *)
(***************************************************************************)
EXTENDS CosimLifecycle, TLAPS

(* What TypeOK says of the processes and the connection. *)
Programs ==
    /\ script \in {"start", "sleep", "ns3", "wait", "done"}
    /\ launch \in {"off", "up", "down"}
    /\ bridge \in {"off", "spin", "join", "exited", "killed"}
    /\ worker \in {"none", "bind", "accept", "step", "await", "bye", "close",
                   "returned", "killed"}

Link ==
    /\ srv \in {"closed", "open"}
    /\ ns3 \in {"off", "setup", "idle", "busy", "gone", "stray"}
    /\ conn \in {"none", "pending", "open", "fin", "reset", "closed"}
    /\ toNs3 \in {"", "step", "bye"} /\ toBridge \in {"", "reply"}

Conditions == stop \in BOOLEAN /\ faults \subseteq Faults

(* Which process or thread is there when another one is. *)
Processes ==
    /\ script \in {"start", "sleep"} => ns3 = "off"
    /\ script \in {"wait", "done"} => ns3 = "gone"
    /\ script = "done" => launch = "down"
    /\ launch = "down" => bridge \in {"exited", "killed"}
    /\ bridge = "off" <=> worker = "none"
    /\ bridge = "exited" => worker = "returned"
    /\ bridge = "killed" <=> worker = "killed"
    /\ srv = "open" <=> worker = "accept"

(* Whose turn it is on the connection, and at which end it is closed. *)
Conversation ==
    /\ ns3 \in {"off", "setup", "stray"} => conn = "none"
    /\ conn = "pending" => worker = "accept" /\ ns3 = "idle"
    /\ worker \in {"step", "await", "bye", "close"} => conn \in {"open", "fin", "reset"}
    /\ conn = "open" /\ worker \in {"step", "bye"} => ns3 = "idle"
    /\ conn \in {"fin", "reset"} => ns3 = "gone" /\ toNs3 = ""
    /\ toNs3 = "step" =>
          worker = "await" /\ conn = "open" /\ ns3 = "idle" /\ toBridge = ""
    /\ toNs3 = "bye" => worker \in {"close", "returned"}
    /\ ns3 = "busy" => worker = "await" /\ conn = "open" /\ toNs3 = "" /\ toBridge = ""
    /\ toBridge = "reply" =>
          worker = "await" /\ toNs3 = "" /\ (conn = "open" => ns3 = "idle")

(* A step adds at most a row, and a bridge that has exited has closed csv_. *)
Counts ==
    /\ steps \in 0 .. Duration /\ rows \in 0 .. steps /\ disk \in 0 .. rows
    /\ worker = "await" => steps < Duration
    /\ bridge = "exited" => disk = rows

(* Where the worker is when the connection fails, if ns-3 dies in a step only. *)
Survival ==
    "idle" \notin faults =>
        /\ conn = "reset" => worker \in {"close", "returned"}
        /\ conn = "fin" =>
              worker \in {"await", "bye", "close", "returned"} /\ toBridge = ""
        /\ bridge # "killed"

(* What the one that waits can count on the others for. *)
Waits ==
    /\ launch = "off" => script = "start"
    /\ ns3 = "off" => script \in {"start", "sleep"}
    /\ bridge = "join" => stop
    /\ worker = "returned" => stop \/ "bind" \in faults
    /\ worker \in {"none", "bind"} =>
          conn = "none" /\ (ns3 # "off" => "slow" \in faults)
    /\ worker = "killed" => conn = "closed"
    /\ "bind" \in faults => worker \in {"none", "bind", "returned"} /\ conn = "none"
    /\ ns3 = "stray" => "bind" \in faults
    /\ conn = "none" /\ ns3 = "gone" => stop \/ faults \cap {"bind", "slow", "setup"} # {}
    /\ worker = "accept" => conn \in {"none", "pending", "fin"}
    /\ ns3 = "idle" => conn \in {"pending", "open", "closed"}
    /\ conn = "open" => worker \in {"step", "await", "bye", "close"}
    /\ conn = "open" /\ worker = "await" =>
          toNs3 = "step" \/ ns3 = "busy" \/ toBridge = "reply"

Inv == Conditions /\ Programs /\ Link /\ Processes /\ Conversation /\ Counts /\ Survival

-----------------------------------------------------------------------------
(* Before anything is launched. *)
LEMMA InitInv == Init => Inv
  <1> SUFFICES ASSUME Init PROVE Inv
    OBVIOUS
  <1>1. Conditions
    BY DEF Init, Conditions
  <1>2. Programs /\ Link
    BY DEF Init, Programs, Link
  <1>3. Processes /\ Conversation
    BY DEF Init, Processes, Conversation
  <1>4. Counts
    <2>1. Duration \in Nat /\ steps = 0 /\ rows = 0 /\ disk = 0
      BY LifecycleAssumption DEF LifecycleAssumption, Init
    <2>2. worker = "none" /\ bridge = "off"
      BY DEF Init
    <2> QED
      BY <2>1, <2>2 DEF Counts
  <1>5. Survival
    BY DEF Init, Survival
  <1> QED
    BY <1>1, <1>2, <1>3, <1>4, <1>5 DEF Inv

(* The scripts start and wait. *)
LEMMA ScriptInv ==
    ASSUME Inv, ScriptStep
    PROVE  Inv'
  <1>1. Conditions /\ Programs /\ Link /\ Processes /\ Conversation /\ Counts /\ Survival
    BY DEF Inv
  <1>2. CASE StartLaunch
    <2>1. Programs'
      BY <1>1, <1>2 DEF StartLaunch, linkVars, Programs
    <2>2. Link'
      BY <1>1, <1>2 DEF StartLaunch, linkVars, Link
    <2>3. Processes' /\ Conversation'
      BY <1>1, <1>2 DEF StartLaunch, linkVars, Programs, Link, Processes,
                        Conversation
    <2>4. Conditions' /\ Counts' /\ Survival'
      BY <1>1, <1>2 DEF StartLaunch, linkVars, Conditions, Processes, Conversation,
                        Counts, Survival
    <2> QED
      BY <2>1, <2>2, <2>3, <2>4 DEF Inv
  <1>3. CASE StartNs3
    <2>1. Programs'
      BY <1>1, <1>3 DEF StartNs3, linkVars, Programs
    <2>2. Link'
      BY <1>1, <1>3 DEF StartNs3, linkVars, Link
    <2>3. Processes' /\ Conversation'
      BY <1>1, <1>3 DEF StartNs3, linkVars, Programs, Link, Processes, Conversation
    <2>4. Conditions' /\ Counts' /\ Survival'
      BY <1>1, <1>3 DEF StartNs3, linkVars, Conditions, Processes, Conversation,
                        Counts, Survival
    <2> QED
      BY <2>1, <2>2, <2>3, <2>4 DEF Inv
  <1>4. CASE Ns3Exited
    <2>1. Programs'
      BY <1>1, <1>4 DEF Ns3Exited, linkVars, Programs
    <2>2. Link'
      BY <1>1, <1>4 DEF Ns3Exited, linkVars, Link
    <2>3. Processes' /\ Conversation'
      BY <1>1, <1>4 DEF Ns3Exited, linkVars, Programs, Link, Processes, Conversation
    <2>4. Conditions' /\ Counts' /\ Survival'
      BY <1>1, <1>4 DEF Ns3Exited, linkVars, Conditions, Processes, Conversation,
                        Counts, Survival
    <2> QED
      BY <2>1, <2>2, <2>3, <2>4 DEF Inv
  <1>5. CASE LaunchExited
    <2>1. Programs'
      BY <1>1, <1>5 DEF LaunchExited, linkVars, Programs
    <2>2. Link'
      BY <1>1, <1>5 DEF LaunchExited, linkVars, Link
    <2>3. Processes' /\ Conversation'
      BY <1>1, <1>5 DEF LaunchExited, linkVars, Programs, Link, Processes,
                        Conversation
    <2>4. Conditions' /\ Counts' /\ Survival'
      BY <1>1, <1>5 DEF LaunchExited, linkVars, Conditions, Processes, Conversation,
                        Counts, Survival
    <2> QED
      BY <2>1, <2>2, <2>3, <2>4 DEF Inv
  <1>6. CASE ShutdownLaunch
    <2>1. Programs'
      BY <1>1, <1>6 DEF ShutdownLaunch, linkVars, Programs
    <2>2. Link'
      BY <1>1, <1>6 DEF ShutdownLaunch, linkVars, Link
    <2>3. Processes' /\ Conversation'
      <3>1. Processes'
        BY <1>1, <1>6 DEF ShutdownLaunch, Processes
      <3>2. Conversation'
        BY <1>1, <1>6 DEF ShutdownLaunch, linkVars, Conversation
      <3> QED
        BY <3>1, <3>2
    <2>4. Conditions' /\ Counts' /\ Survival'
      BY <1>1, <1>6 DEF ShutdownLaunch, linkVars, Conditions, Processes,
                        Conversation, Counts, Survival
    <2> QED
      BY <2>1, <2>2, <2>3, <2>4 DEF Inv
  <1> QED
    BY <1>2, <1>3, <1>4, <1>5, <1>6 DEF ScriptStep

(* The main thread starts the worker, spins and joins it. *)
LEMMA MainInv ==
    ASSUME Inv, MainStep \/ Interrupt
    PROVE  Inv'
  <1>1. Conditions /\ Programs /\ Link /\ Processes /\ Conversation /\ Counts /\ Survival
    BY DEF Inv
  <1>2. CASE StartBridge
    <2>1. Programs'
      BY <1>1, <1>2 DEF StartBridge, scriptVars, linkVars, Programs
    <2>2. Link'
      BY <1>1, <1>2 DEF StartBridge, scriptVars, linkVars, Link
    <2>3. Processes' /\ Conversation'
      BY <1>1, <1>2 DEF StartBridge, scriptVars, linkVars, Programs, Link,
                        Processes, Conversation
    <2>4. Conditions' /\ Counts' /\ Survival'
      BY <1>1, <1>2 DEF StartBridge, scriptVars, linkVars, Conditions, Processes,
                        Conversation, Counts, Survival
    <2> QED
      BY <2>1, <2>2, <2>3, <2>4 DEF Inv
  <1>3. CASE SpinReturns
    <2>1. Programs'
      BY <1>1, <1>3 DEF SpinReturns, scriptVars, linkVars, Programs
    <2>2. Link'
      BY <1>1, <1>3 DEF SpinReturns, scriptVars, linkVars, Link
    <2>3. Processes' /\ Conversation'
      BY <1>1, <1>3 DEF SpinReturns, scriptVars, linkVars, Programs, Link,
                        Processes, Conversation
    <2>4. Conditions' /\ Counts' /\ Survival'
      BY <1>1, <1>3 DEF SpinReturns, scriptVars, linkVars, Conditions, Processes,
                        Conversation, Counts, Survival
    <2> QED
      BY <2>1, <2>2, <2>3, <2>4 DEF Inv
  <1>4. CASE JoinWorker
    <2>1. Programs'
      BY <1>1, <1>4 DEF JoinWorker, Joinable, scriptVars, linkVars, Programs
    <2>2. Link'
      BY <1>1, <1>4 DEF JoinWorker, Joinable, scriptVars, linkVars, Link
    <2>3. Processes' /\ Conversation'
      BY <1>1, <1>4 DEF JoinWorker, Joinable, scriptVars, linkVars, Programs, Link,
                        Processes, Conversation
    <2>4. Conditions' /\ Survival'
      BY <1>1, <1>4 DEF JoinWorker, Joinable, scriptVars, linkVars, Conditions,
                        Processes, Conversation, Survival
    <2>5. Counts'
      BY <1>1, <1>4 DEF JoinWorker, Joinable, scriptVars, linkVars, Processes,
                        Counts
    <2> QED
      BY <2>1, <2>2, <2>3, <2>4, <2>5 DEF Inv
  <1>5. CASE Interrupt
    <2>1. Programs'
      BY <1>1, <1>5 DEF Interrupt, scriptVars, linkVars, Programs
    <2>2. Link'
      BY <1>1, <1>5 DEF Interrupt, scriptVars, linkVars, Link
    <2>3. Processes' /\ Conversation'
      BY <1>1, <1>5 DEF Interrupt, scriptVars, linkVars, Programs, Link, Processes,
                        Conversation
    <2>4. Conditions' /\ Counts' /\ Survival'
      BY <1>1, <1>5 DEF Interrupt, scriptVars, linkVars, Conditions, Processes,
                        Conversation, Counts, Survival
    <2> QED
      BY <2>1, <2>2, <2>3, <2>4 DEF Inv
  <1> QED
    BY <1>2, <1>3, <1>4, <1>5 DEF MainStep

(* The worker's system calls, up to the first line it sends. *)
LEMMA AcceptInv ==
    ASSUME Inv, Bind \/ Accept \/ GiveUp
    PROVE  Inv'
  <1>1. Conditions /\ Programs /\ Link /\ Processes /\ Conversation /\ Counts /\ Survival
    BY DEF Inv
  <1>2. CASE Bind
    <2>1. Programs'
      BY <1>1, <1>2 DEF Bind, scriptVars, linkVars, Programs
    <2>2. Link'
      BY <1>1, <1>2 DEF Bind, scriptVars, linkVars, Link
    <2>3. Processes' /\ Conversation'
      BY <1>1, <1>2 DEF Bind, scriptVars, linkVars, Programs, Link, Processes,
                        Conversation
    <2>4. Conditions' /\ Counts' /\ Survival'
      BY <1>1, <1>2 DEF Bind, scriptVars, linkVars, Conditions, Processes,
                        Conversation, Counts, Survival
    <2> QED
      BY <2>1, <2>2, <2>3, <2>4 DEF Inv
  <1>3. CASE Accept
    <2>1. Programs'
      BY <1>1, <1>3 DEF Accept, scriptVars, Programs
    <2>2. Link'
      BY <1>1, <1>3 DEF Accept, scriptVars, Link
    <2>3. Processes' /\ Conversation'
      BY <1>1, <1>3 DEF Accept, scriptVars, Programs, Link, Processes, Conversation
    <2>4. Conditions' /\ Counts' /\ Survival'
      BY <1>1, <1>3 DEF Accept, scriptVars, Conditions, Processes, Conversation,
                        Counts, Survival
    <2> QED
      BY <2>1, <2>2, <2>3, <2>4 DEF Inv
  <1>4. CASE GiveUp
    <2>1. Programs'
      BY <1>1, <1>4 DEF GiveUp, scriptVars, Programs
    <2>2. Link'
      BY <1>1, <1>4 DEF GiveUp, scriptVars, Link
    <2>3. Processes' /\ Conversation'
      BY <1>1, <1>4 DEF GiveUp, scriptVars, Programs, Link, Processes, Conversation
    <2>4. Conditions' /\ Counts' /\ Survival'
      BY <1>1, <1>4 DEF GiveUp, scriptVars, Conditions, Processes, Conversation,
                        Counts, Survival
    <2> QED
      BY <2>1, <2>2, <2>3, <2>4 DEF Inv
  <1> QED
    BY <1>2, <1>3, <1>4

(* The worker sends a line; on a reset connection only if ns-3 was killed. *)
LEMMA SendInv ==
    ASSUME Inv, SendStep \/ SendBye
    PROVE  Inv'
  <1>1. Conditions /\ Programs /\ Link /\ Processes /\ Conversation /\ Counts /\ Survival
    BY DEF Inv
  <1>2. CASE SendStep
    <2>1. Programs'
      BY <1>1, <1>2 DEF SendStep, Send, Continue, scriptVars, Programs
    <2>2. Link'
      BY <1>1, <1>2 DEF SendStep, Send, Continue, scriptVars, Link
    <2>3. Processes' /\ Conversation'
      BY <1>1, <1>2 DEF SendStep, Send, Continue, scriptVars, Programs, Link,
                        Processes, Conversation
    <2>4. Conditions' /\ Counts' /\ Survival'
      BY <1>1, <1>2 DEF SendStep, Send, Continue, scriptVars, Conditions, Processes,
                        Conversation, Counts, Survival
    <2> QED
      BY <2>1, <2>2, <2>3, <2>4 DEF Inv
  <1>3. CASE SendBye
    <2>1. Programs'
      BY <1>1, <1>3 DEF SendBye, Send, scriptVars, Programs
    <2>2. Link'
      BY <1>1, <1>3 DEF SendBye, Send, scriptVars, Link
    <2>3. Processes' /\ Conversation'
      BY <1>1, <1>3 DEF SendBye, Send, scriptVars, Programs, Link, Processes,
                        Conversation
    <2>4. Conditions' /\ Counts' /\ Survival'
      BY <1>1, <1>3 DEF SendBye, Send, scriptVars, Conditions, Processes,
                        Conversation, Counts, Survival
    <2> QED
      BY <2>1, <2>2, <2>3, <2>4 DEF Inv
  <1> QED
    BY <1>2, <1>3

(* The worker receives a line or the end, leaves the loop and closes. *)
LEMMA ReceiveInv ==
    ASSUME Inv, ReceiveReply \/ LosePeer \/ LeaveLoop \/ CloseAll
    PROVE  Inv'
  <1>1. Conditions /\ Programs /\ Link /\ Processes /\ Conversation /\ Counts /\ Survival
    BY DEF Inv
  <1>2. CASE ReceiveReply
    <2>1. Programs'
      BY <1>1, <1>2 DEF ReceiveReply, scriptVars, Programs
    <2>2. Link'
      BY <1>1, <1>2 DEF ReceiveReply, scriptVars, Link
    <2>3. Processes' /\ Conversation'
      BY <1>1, <1>2 DEF ReceiveReply, scriptVars, Programs, Link, Processes,
                        Conversation
    <2>4. Conditions' /\ Survival'
      BY <1>1, <1>2 DEF ReceiveReply, scriptVars, Conditions, Processes,
                        Conversation, Survival
    <2>5. Counts'
      <3>1. PICK k \in 0 .. 1 : rows' = rows + k
        BY <1>2 DEF ReceiveReply
      <3>2. disk' \in disk .. rows' /\ steps' = steps + 1 /\ worker' = "step"
        BY <1>2 DEF ReceiveReply
      <3>3. bridge' # "exited"
        BY <1>1, <1>2 DEF ReceiveReply, Processes
      <3>4. Duration \in Nat /\ steps < Duration
        BY <1>1, <1>2, LifecycleAssumption DEF ReceiveReply, Counts,
                                               LifecycleAssumption
      <3> QED
        BY <1>1, <3>1, <3>2, <3>3, <3>4 DEF Counts
    <2> QED
      BY <2>1, <2>2, <2>3, <2>4, <2>5 DEF Inv
  <1>3. CASE LosePeer
    <2>1. Programs'
      BY <1>1, <1>3 DEF LosePeer, AfterDisconnect, scriptVars, linkVars, Programs
    <2>2. Link'
      BY <1>1, <1>3 DEF LosePeer, AfterDisconnect, scriptVars, linkVars, Link
    <2>3. Processes' /\ Conversation'
      BY <1>1, <1>3 DEF LosePeer, AfterDisconnect, scriptVars, linkVars, Programs,
                        Link, Processes, Conversation
    <2>4. Conditions' /\ Counts' /\ Survival'
      BY <1>1, <1>3 DEF LosePeer, AfterDisconnect, scriptVars, linkVars, Conditions,
                        Processes, Conversation, Counts, Survival
    <2> QED
      BY <2>1, <2>2, <2>3, <2>4 DEF Inv
  <1>4. CASE LeaveLoop
    <2>1. Programs'
      BY <1>1, <1>4 DEF LeaveLoop, scriptVars, linkVars, Programs
    <2>2. Link'
      BY <1>1, <1>4 DEF LeaveLoop, scriptVars, linkVars, Link
    <2>3. Processes' /\ Conversation'
      BY <1>1, <1>4 DEF LeaveLoop, scriptVars, linkVars, Programs, Link, Processes,
                        Conversation
    <2>4. Conditions' /\ Counts' /\ Survival'
      BY <1>1, <1>4 DEF LeaveLoop, scriptVars, linkVars, Conditions, Processes,
                        Conversation, Counts, Survival
    <2> QED
      BY <2>1, <2>2, <2>3, <2>4 DEF Inv
  <1>5. CASE CloseAll
    <2>1. Programs'
      BY <1>1, <1>5 DEF CloseAll, Shutdown, scriptVars, Programs
    <2>2. Link'
      BY <1>1, <1>5 DEF CloseAll, Shutdown, scriptVars, Link
    <2>3. Processes' /\ Conversation'
      BY <1>1, <1>5 DEF CloseAll, Shutdown, scriptVars, Programs, Link, Processes,
                        Conversation
    <2>4. Conditions' /\ Survival'
      BY <1>1, <1>5 DEF CloseAll, Shutdown, scriptVars, Conditions, Processes,
                        Conversation, Survival
    <2>5. Counts'
      BY <1>1, <1>5 DEF CloseAll, Shutdown, scriptVars, Processes, Counts
    <2> QED
      BY <2>1, <2>2, <2>3, <2>4, <2>5 DEF Inv
  <1> QED
    BY <1>2, <1>3, <1>4, <1>5

(* ns-3 connects, replies and leaves, or dies. *)
LEMMA Ns3Inv ==
    ASSUME Inv, Ns3Step \/ Ns3Dies \/ StrangerLeaves
    PROVE  Inv'
  <1>1. Conditions /\ Programs /\ Link /\ Processes /\ Conversation /\ Counts /\ Survival
    BY DEF Inv
  <1>2. CASE Connect
    <2>1. Programs'
      BY <1>1, <1>2 DEF Connect, scriptVars, Programs
    <2>2. Link'
      BY <1>1, <1>2 DEF Connect, scriptVars, Link
    <2>3. Processes' /\ Conversation'
      BY <1>1, <1>2 DEF Connect, scriptVars, Programs, Link, Processes, Conversation
    <2>4. Conditions' /\ Counts' /\ Survival'
      BY <1>1, <1>2 DEF Connect, scriptVars, Conditions, Processes, Conversation,
                        Counts, Survival
    <2> QED
      BY <2>1, <2>2, <2>3, <2>4 DEF Inv
  <1>3. CASE TakeStep
    <2>1. Programs'
      BY <1>1, <1>3 DEF TakeStep, scriptVars, Programs
    <2>2. Link'
      BY <1>1, <1>3 DEF TakeStep, scriptVars, Link
    <2>3. Processes' /\ Conversation'
      BY <1>1, <1>3 DEF TakeStep, scriptVars, Programs, Link, Processes,
                        Conversation
    <2>4. Conditions' /\ Counts' /\ Survival'
      BY <1>1, <1>3 DEF TakeStep, scriptVars, Conditions, Processes, Conversation,
                        Counts, Survival
    <2> QED
      BY <2>1, <2>2, <2>3, <2>4 DEF Inv
  <1>4. CASE Reply
    <2>1. Programs'
      BY <1>1, <1>4 DEF Reply, scriptVars, Programs
    <2>2. Link'
      BY <1>1, <1>4 DEF Reply, scriptVars, Link
    <2>3. Processes' /\ Conversation'
      BY <1>1, <1>4 DEF Reply, scriptVars, Programs, Link, Processes, Conversation
    <2>4. Conditions' /\ Counts' /\ Survival'
      BY <1>1, <1>4 DEF Reply, scriptVars, Conditions, Processes, Conversation,
                        Counts, Survival
    <2> QED
      BY <2>1, <2>2, <2>3, <2>4 DEF Inv
  <1>5. CASE TakeLeave
    <2>1. Programs'
      BY <1>1, <1>5 DEF TakeLeave, scriptVars, Programs
    <2>2. Link'
      BY <1>1, <1>5 DEF TakeLeave, scriptVars, Link
    <2>3. Processes' /\ Conversation'
      BY <1>1, <1>5 DEF TakeLeave, scriptVars, Programs, Link, Processes,
                        Conversation
    <2>4. Conditions' /\ Counts' /\ Survival'
      BY <1>1, <1>5 DEF TakeLeave, scriptVars, Conditions, Processes, Conversation,
                        Counts, Survival
    <2> QED
      BY <2>1, <2>2, <2>3, <2>4 DEF Inv
  <1>6. CASE Ns3Dies
    <2>1. Programs'
      BY <1>1, <1>6 DEF Ns3Dies, scriptVars, Programs
    <2>2. Link'
      BY <1>1, <1>6 DEF Ns3Dies, scriptVars, Link
    <2>3. Processes' /\ Conversation'
      BY <1>1, <1>6 DEF Ns3Dies, scriptVars, Programs, Link, Processes, Conversation
    <2>4. Conditions' /\ Counts' /\ Survival'
      BY <1>1, <1>6 DEF Ns3Dies, scriptVars, Conditions, Processes, Conversation,
                        Counts, Survival
    <2> QED
      BY <2>1, <2>2, <2>3, <2>4 DEF Inv
  <1>7. CASE StrangerLeaves
    <2>1. Programs'
      BY <1>1, <1>7 DEF StrangerLeaves, scriptVars, linkVars, Programs
    <2>2. Link'
      BY <1>1, <1>7 DEF StrangerLeaves, scriptVars, linkVars, Link
    <2>3. Processes' /\ Conversation'
      BY <1>1, <1>7 DEF StrangerLeaves, scriptVars, linkVars, Programs, Link, Processes,
                        Conversation
    <2>4. Conditions' /\ Counts' /\ Survival'
      BY <1>1, <1>7 DEF StrangerLeaves, scriptVars, linkVars, Conditions, Processes,
                        Conversation, Counts, Survival
    <2> QED
      BY <2>1, <2>2, <2>3, <2>4 DEF Inv
  <1> QED
    BY <1>2, <1>3, <1>4, <1>5, <1>6, <1>7 DEF Ns3Step

-----------------------------------------------------------------------------
(***************************************************************************)
(* Whose turn it is, which process is there and how far the run has got    *)
(* agree in every state of every run, whichever faults it is exposed to.   *)
(***************************************************************************)
THEOREM LifecycleInvariant == Spec => []Inv
  <1>1. ASSUME Inv, [Next]_vars PROVE Inv'
    <2>1. CASE ScriptStep
      BY <1>1, <2>1, ScriptInv
    <2>2. CASE MainStep \/ Interrupt
      BY <1>1, <2>2, MainInv
    <2>3. CASE WorkerStep
      BY <1>1, <2>3, AcceptInv, SendInv, ReceiveInv DEF WorkerStep
    <2>4. CASE Ns3Step \/ Ns3Dies \/ StrangerLeaves
      BY <1>1, <2>4, Ns3Inv
    <2>5. CASE UNCHANGED vars
      <3>1. Conditions' /\ Processes' /\ Conversation'
        BY <1>1, <2>5 DEF vars, Inv, Conditions, Processes, Conversation
      <3>2. Programs'
        BY <1>1, <2>5 DEF vars, Inv, Programs
      <3>3. Link'
        BY <1>1, <2>5 DEF vars, Inv, Link
      <3>4. Counts' /\ Survival'
        BY <1>1, <2>5 DEF vars, Inv, Counts, Survival
      <3> QED
        BY <3>1, <3>2, <3>3, <3>4 DEF Inv
    <2> QED
      BY <1>1, <2>1, <2>2, <2>3, <2>4, <2>5 DEF Next, Ended, Hung
  <1> QED
    BY <1>1, InitInv, PTL DEF Spec

(* Every variable has its type: no step or row beyond the run's duration. *)
THEOREM LifecycleTypes == Spec => []TypeOK
  <1>1. ASSUME Inv PROVE TypeOK
    <2>1. Duration \in Nat
      BY LifecycleAssumption DEF LifecycleAssumption
    <2>2. steps \in 0 .. Duration /\ rows \in 0 .. Duration /\ disk \in 0 .. rows
      BY <1>1, <2>1 DEF Inv, Counts
    <2> QED
      BY <1>1, <2>2 DEF Inv, Conditions, Programs, Link, TypeOK
  <1> QED
    BY <1>1, LifecycleInvariant, PTL

(***************************************************************************)
(* No run in which ns-3 is not killed while it waits loses a row that was  *)
(* published: the bridge reaches csv_.close(), or had nothing to write.    *)
(***************************************************************************)
THEOREM CsvSurvivesHolds == Spec => []CsvSurvives
  <1>1. Inv => CsvSurvives
    BY DEF Inv, Counts, Survival, CsvSurvives, CsvComplete
  <1> QED
    BY <1>1, LifecycleInvariant, PTL

(***************************************************************************)
(* When cosim.sh reports, the two programs, the launch and the port are    *)
(* gone, and no reply was left unread in the connection.                   *)
(***************************************************************************)
THEOREM NothingLeft == Spec => []NothingLeftBehind
  <1>1. Inv => NothingLeftBehind
    BY DEF Inv, Programs, Link, Processes, Conversation, NothingLeftBehind
  <1> QED
    BY <1>1, LifecycleInvariant, PTL

-----------------------------------------------------------------------------
(* The scripts start what others wait for, and wait. *)
LEMMA ScriptWaits ==
    ASSUME Inv, Waits, ScriptStep
    PROVE  Waits'
  <1>1. Programs /\ Link /\ Processes /\ Conversation
    BY DEF Inv
  <1>2. CASE StartLaunch
    BY <1>1, <1>2 DEF StartLaunch, linkVars, Programs, Link, Processes,
                       Conversation, Waits
  <1>3. CASE StartNs3
    BY <1>1, <1>3 DEF StartNs3, linkVars, Programs, Link, Processes,
                       Conversation, Waits
  <1>4. CASE Ns3Exited
    BY <1>1, <1>4 DEF Ns3Exited, linkVars, Programs, Link, Processes,
                       Conversation, Waits
  <1>5. CASE LaunchExited
    BY <1>1, <1>5 DEF LaunchExited, linkVars, Programs, Link, Processes,
                       Conversation, Waits
  <1>6. CASE ShutdownLaunch
    BY <1>1, <1>6 DEF ShutdownLaunch, linkVars, Programs, Link, Processes,
                       Conversation, Waits
  <1> QED
    BY <1>2, <1>3, <1>4, <1>5, <1>6 DEF ScriptStep

(* The main thread joins the worker only after it was told to stop. *)
LEMMA MainWaits ==
    ASSUME Inv, Waits, MainStep \/ Interrupt
    PROVE  Waits'
  <1>1. Programs /\ Link /\ Processes /\ Conversation
    BY DEF Inv
  <1>2. CASE StartBridge
    BY <1>1, <1>2 DEF StartBridge, scriptVars, linkVars, Programs, Link, Processes,
                       Conversation, Waits
  <1>3. CASE SpinReturns
    BY <1>1, <1>3 DEF SpinReturns, scriptVars, linkVars, Programs, Link, Processes,
                       Conversation, Waits
  <1>4. CASE JoinWorker
    BY <1>1, <1>4 DEF JoinWorker, Joinable, scriptVars, linkVars, Programs, Link, Processes,
                       Conversation, Waits
  <1>5. CASE Interrupt
    BY <1>1, <1>5 DEF Interrupt, scriptVars, linkVars, Programs, Link, Processes,
                       Conversation, Waits
  <1> QED
    BY <1>2, <1>3, <1>4, <1>5 DEF MainStep

(* The worker awaits a line only after it has sent one. *)
LEMMA WorkerWaits ==
    ASSUME Inv, Waits, WorkerStep
    PROVE  Waits'
  <1>1. Programs /\ Link /\ Processes /\ Conversation
    BY DEF Inv
  <1>2. CASE Bind
    BY <1>1, <1>2 DEF Bind, scriptVars, linkVars, Programs, Link, Processes,
                       Conversation, Waits
  <1>3. CASE Accept
    BY <1>1, <1>3 DEF Accept, scriptVars, linkVars, Programs, Link, Processes,
                       Conversation, Waits
  <1>4. CASE GiveUp
    BY <1>1, <1>4 DEF GiveUp, GivesUp, scriptVars, linkVars, Programs, Link, Processes,
                       Conversation, Waits
  <1>5. CASE SendStep
    BY <1>1, <1>5 DEF SendStep, Send, Continue, scriptVars, linkVars, Programs, Link, Processes,
                       Conversation, Waits
  <1>6. CASE ReceiveReply
    BY <1>1, <1>6 DEF ReceiveReply, scriptVars, linkVars, Programs, Link, Processes,
                       Conversation, Waits
  <1>7. CASE LosePeer
    BY <1>1, <1>7 DEF LosePeer, AfterDisconnect, scriptVars, linkVars, Programs, Link, Processes,
                       Conversation, Waits
  <1>8. CASE LeaveLoop
    BY <1>1, <1>8 DEF LeaveLoop, Continue, scriptVars, linkVars, Programs, Link, Processes,
                       Conversation, Waits
  <1>9. CASE SendBye
    BY <1>1, <1>9 DEF SendBye, Send, scriptVars, linkVars, Programs, Link, Processes,
                       Conversation, Waits
  <1>10. CASE CloseAll
    BY <1>1, <1>10 DEF CloseAll, Shutdown, scriptVars, linkVars, Programs, Link, Processes,
                       Conversation, Waits
  <1> QED
    BY <1>2, <1>3, <1>4, <1>5, <1>6, <1>7, <1>8, <1>9, <1>10 DEF WorkerStep

(* ns-3 answers the line it has read, or closes its end. *)
LEMMA Ns3Waits ==
    ASSUME Inv, Waits, Ns3Step \/ Ns3Dies \/ StrangerLeaves
    PROVE  Waits'
  <1>1. Programs /\ Link /\ Processes /\ Conversation
    BY DEF Inv
  <1>2. CASE Connect
    BY <1>1, <1>2 DEF Connect, scriptVars, linkVars, Programs, Link, Processes,
                       Conversation, Waits
  <1>3. CASE TakeStep
    BY <1>1, <1>3 DEF TakeStep, scriptVars, linkVars, Programs, Link, Processes,
                       Conversation, Waits
  <1>4. CASE Reply
    BY <1>1, <1>4 DEF Reply, scriptVars, linkVars, Programs, Link, Processes,
                       Conversation, Waits
  <1>5. CASE TakeLeave
    BY <1>1, <1>5 DEF TakeLeave, scriptVars, linkVars, Programs, Link, Processes,
                       Conversation, Waits
  <1>6. CASE Ns3Dies
    BY <1>1, <1>6 DEF Ns3Dies, scriptVars, linkVars, Programs, Link, Processes,
                       Conversation, Waits
  <1>7. CASE StrangerLeaves
    BY <1>1, <1>7 DEF StrangerLeaves, scriptVars, linkVars, Waits
  <1> QED
    BY <1>2, <1>3, <1>4, <1>5, <1>6, <1>7 DEF Ns3Step

(***************************************************************************)
(* No run is stuck, wherever ns-3 dies and the user interrupts, unless a   *)
(* fault at its start has kept ns-3 from the bridge: where one program     *)
(* waits for another, that one, or one that it waits for, can go on.       *)
(***************************************************************************)
THEOREM SomeoneCanMove == Spec => []SomeoneMoves
  <1>1. Init => Waits
    BY DEF Init, Waits
  <1>2. ASSUME Inv, Waits, [Next]_vars PROVE Waits'
    <2>1. CASE UNCHANGED vars
      BY <1>2, <2>1 DEF vars, Waits
    <2> QED
      BY <1>2, <2>1, ScriptWaits, MainWaits, WorkerWaits, Ns3Waits
         DEF Next, Ended, Hung
  <1>3. ASSUME Inv, Waits PROVE SomeoneMoves
    <2> SUFFICES ASSUME script # "done", ~NeverMet, ~ScriptReady, ~LaunchReady,
                        ~MainReady, ~WorkerReady, ~Ns3Ready
                 PROVE  FALSE
      BY DEF SomeoneMoves
    <2>1. Programs /\ Link /\ Processes /\ Conversation
      BY <1>3 DEF Inv
    <2>2. ns3 # "stray"
      BY <1>3, <2>1 DEF Waits, Conversation, NeverMet
    <2>3. bridge \in {"spin", "join"}
      <3>1. CASE launch = "down"
        <4>1. worker \in {"returned", "killed"}
          BY <2>1, <3>1 DEF Processes
        <4>2. ns3 = "gone" \/ script = "sleep"
          BY <1>3, <2>1, <2>2, <4>1 DEF Waits, Link, Conversation, ScriptReady, Ns3Ready
        <4> QED
          BY <2>1, <3>1, <4>1, <4>2 DEF Programs, Processes, ScriptReady
      <3>2. CASE launch # "down"
        BY <1>3, <2>1, <3>2 DEF Waits, Programs, ScriptReady, LaunchReady
      <3> QED
        BY <3>1, <3>2
    <2>4. worker \in {"accept", "await", "returned"}
      BY <2>1, <2>3 DEF Programs, Processes, Conversation, WorkerReady
    <2>5. CASE worker = "accept"
      BY <1>3, <2>1, <2>2, <2>3, <2>5 DEF Waits, Programs, Link, Processes, NeverMet,
                                   ScriptReady, MainReady, WorkerReady, Ns3Ready
    <2>6. CASE worker = "await"
      BY <1>3, <2>1, <2>6 DEF Waits, Link, Conversation, WorkerReady, Ns3Ready
    <2>7. CASE worker = "returned"
      BY <1>3, <2>1, <2>2, <2>3, <2>7 DEF Waits, Programs, Link, Processes, Conversation,
                                   NeverMet, ScriptReady, MainReady, Ns3Ready
    <2> QED
      BY <2>4, <2>5, <2>6, <2>7
  <1> QED
    BY <1>1, <1>2, <1>3, LifecycleInvariant, PTL DEF Spec

=============================================================================
