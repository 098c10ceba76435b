---------------------------- MODULE RobotGateway ----------------------------
(***************************************************************************)
(* The ns-3 end of the co-simulation: class RobotGateway                   *)
(* (model/robot-gateway.{h,cc}) over the ns3::Gateway it derives from.     *)
(*                                                                         *)
(* ns-3 is one thread.  It blocks until the bridge has sent an update,     *)
(* runs its event queue up to the time the update names, and then runs     *)
(* DoUpdate, which moves the robots, triggers their transmissions, answers *)
(* with the deliveries of the step and prunes m_tx.  Between two updates   *)
(* the PacketSinks call HandleRx.                                          *)
(*                                                                         *)
(* Time is counted in ticks of ns-3's resolution, NsPerUs of them to a     *)
(* microsecond.  A packet uid is a number; ns-3 gives away many more uids  *)
(* than the application packets use, so every update owns a block of N of  *)
(* them and robot i takes the i-th.  A pose is an opaque value: the        *)
(* gateway only copies it.  The order of the items within one field of a   *)
(* response carries no meaning, so a field is a set of deliveries.         *)
(***************************************************************************)
EXTENDS Integers, Sequences

CONSTANTS
    N,          \* number of robots (--numRobots)
    TxEnable,   \* m_txEnable: sends requested earlier are ignored
    Retention,  \* Seconds(1): how long a transmission stays in m_tx
    NsPerUs,    \* ticks per microsecond
    Poses,      \* the poses a robot can have
    PeerRobots, \* robot counts the peer may have been started with
    MaxTime     \* bound of the model: no update is later than this

ASSUME GatewayAssumption ==
    /\ N \in Nat \ {0}
    /\ TxEnable \in Nat
    /\ Retention \in Nat
    /\ NsPerUs \in Nat \ {0}
    /\ Poses # {}
    /\ PeerRobots \subseteq Nat
    /\ MaxTime \in Nat

Robots == 0 .. N - 1

VARIABLES
    now,          \* Simulator::Now()
    phase,        \* "wait" for an update, "run" towards it, "stopped", "aborted"
    update,       \* the last update received: [time, cmd]
    position,     \* the ExternalMobilityModel of every robot
    m_tx,         \* packet uid -> transmitter and time, as a set of records
    m_deliveries, \* per robot, what it received since the last response
    toNs3,        \* bridge -> ns-3, sequence of updates
    toBridge,     \* ns-3 -> bridge, sequence of responses
    inflight,     \* the radio: copies of packets not yet received
    nextUid,      \* first uid of the next block
    sent,         \* history: every transmission
    reported,     \* history: the receptions that left in a response
    dropped       \* history: the receptions HandleRx discarded

gatewayVars == <<now, phase, update, position, m_tx, m_deliveries,
                 inflight, nextUid, sent, reported, dropped>>
vars == <<gatewayVars, toNs3, toBridge>>

NoUpdate == [time |-> -1, cmd |-> <<>>]

(* The position allocator puts the robots at random positions. *)
Init ==
    /\ now = 0
    /\ phase = "wait"
    /\ update = NoUpdate
    /\ position \in [Robots -> Poses]
    /\ m_tx = {}
    /\ m_deliveries = [i \in Robots |-> {}]
    /\ toNs3 = <<>>
    /\ toBridge = <<>>
    /\ inflight = {}
    /\ nextUid = 0
    /\ sent = {}
    /\ reported = {}
    /\ dropped = {}

-----------------------------------------------------------------------------
(***************************************************************************)
(* ns3::Gateway: the thread that owns the simulator takes the next message *)
(* off the socket.  A time of -1 ends the simulation.                      *)
(***************************************************************************)
ReceiveUpdate ==
    /\ phase = "wait"
    /\ toNs3 # <<>>
    /\ Head(toNs3).time >= 0
    /\ update' = Head(toNs3)
    /\ toNs3' = Tail(toNs3)
    /\ phase' = "run"
    /\ UNCHANGED <<now, position, m_tx, m_deliveries, toBridge, inflight,
                   nextUid, sent, reported, dropped>>

ReceiveBye ==
    /\ phase = "wait"
    /\ toNs3 # <<>>
    /\ Head(toNs3).time < 0
    /\ toNs3' = Tail(toNs3)
    /\ phase' = "stopped"
    /\ UNCHANGED <<now, update, position, m_tx, m_deliveries, toBridge,
                   inflight, nextUid, sent, reported, dropped>>

(***************************************************************************)
(* Simulator::Run: the clock moves to the next event, never past the       *)
(* update, whose event was scheduled when it was received.                 *)
(***************************************************************************)
Advance ==
    /\ phase = "run"
    /\ \E t \in (now + 1) .. update.time : now' = t
    /\ UNCHANGED <<phase, update, position, m_tx, m_deliveries, toNs3,
                   toBridge, inflight, nextUid, sent, reported, dropped>>

-----------------------------------------------------------------------------
(* Mutated form: an update at the very time is still ignored. *)
SendersAfterEnable == {i \in Robots : update.cmd[i + 1].send /\ now > TxEnable}

(* The robots this update makes transmit. *)
Senders == {i \in Robots : update.cmd[i + 1].send /\ now >= TxEnable}

(* What HandleTx records while DoUpdate runs: the Tx trace of their packets. *)
HandleTx == {[uid |-> nextUid + i, robot |-> i, time |-> now] : i \in Senders}

(* Mutated forms: the age test is off by one; the loop never erases. *)
RetainedStrictly(tx) == {r \in tx : ~(now - r.time >= Retention)}
RetainedForEver(tx) == tx

(* What the pruning loop of DoUpdate leaves of a transmission table. *)
Retained(tx) == {r \in tx : ~(now - r.time > Retention)}

(* The radio: one copy of every packet for every other robot. *)
Copies == {[uid |-> nextUid + p[1], dst |-> p[2], since |-> now] :
              p \in {q \in Senders \X Robots : q[1] # q[2]}}

(* The receptions that are waiting in deliv, as <<uid, receiver>> pairs. *)
Receptions(deliv) == UNION {{<<e.uid, d>> : e \in deliv[d]} : d \in Robots}

(* Mutated form: a response is sent only when there is something to tell. *)
SendResponseIfAny == IF Receptions(m_deliveries) = {} THEN toBridge
                     ELSE Append(toBridge, m_deliveries)

SendResponse == Append(toBridge, m_deliveries)

DoUpdate ==
    /\ phase = "run"
    /\ now = update.time
    /\ Len(update.cmd) >= N
    /\ position' = [i \in Robots |-> update.cmd[i + 1].pose]
    /\ toBridge' = SendResponse
    /\ m_deliveries' = [i \in Robots |-> {}]
    /\ m_tx' = Retained(m_tx \cup HandleTx)
    /\ phase' = "wait"
    /\ inflight' = inflight \cup Copies
    /\ nextUid' = nextUid + N
    /\ sent' = sent \cup HandleTx
    /\ reported' = reported \cup Receptions(m_deliveries)
    /\ UNCHANGED <<now, update, toNs3, dropped>>

(* NS_ABORT_MSG_IF: the peer drives fewer robots than the simulation has. *)
AbortUpdate ==
    /\ phase = "run"
    /\ now = update.time
    /\ Len(update.cmd) < N
    /\ phase' = "aborted"
    /\ UNCHANGED <<now, update, position, m_tx, m_deliveries, toNs3, toBridge,
                   inflight, nextUid, sent, reported, dropped>>

(* Mutated forms: m_tx is searched by the sender; items replace each other. *)
MatchesSender(c) == {r \in m_tx : r.uid % N = c.uid % N}
LastItem(field, items) == IF items = {} THEN field ELSE items

(* m_tx.find: the transmission of the packet a copy belongs to, if still known. *)
Matches(c) == {r \in m_tx : r.uid = c.uid}

(* Mutated form: robots are counted from one. *)
DeliveryFromOne(c, r) == [src |-> r.robot + 1, lat |-> (now - r.time) \div NsPerUs,
                          uid |-> c.uid, at |-> now]

(***************************************************************************)
(* An item of m_deliveries is "src:latency_us".  The fields uid and at     *)
(* (the reception time) are history: no action reads them.                 *)
(***************************************************************************)
Delivery(c, r) == [src |-> r.robot, lat |-> (now - r.time) \div NsPerUs,
                   uid |-> c.uid, at |-> now]

(* d += ';' and the item. *)
Joined(field, items) == field \cup items

(***************************************************************************)
(* A copy of a packet reaches the PacketSink of a robot.  It may do so any *)
(* time after it was sent: the packet first waits for its sidelink grant   *)
(* in a practically unbounded RLC buffer.  A copy that the channel loses   *)
(* stays in flight for ever.                                               *)
(***************************************************************************)
HandleRx(c) ==
    /\ phase = "run"
    /\ c.since < now
    /\ inflight' = inflight \ {c}
    /\ m_deliveries' = [m_deliveries EXCEPT
                           ![c.dst] = Joined(@, {Delivery(c, r) : r \in Matches(c)})]
    /\ dropped' = IF Matches(c) = {} THEN dropped \cup {<<c.uid, c.dst>>} ELSE dropped
    /\ UNCHANGED <<now, phase, update, position, m_tx, toNs3, toBridge,
                   nextUid, sent, reported>>

GatewayStep ==
    \/ ReceiveUpdate
    \/ ReceiveBye
    \/ Advance
    \/ DoUpdate
    \/ AbortUpdate
    \/ \E c \in inflight : HandleRx(c)

-----------------------------------------------------------------------------
(***************************************************************************)
(* The other end of the socket, at its most general: a peer that takes the *)
(* response to an update before it sends the next one, whose time always   *)
(* moves forward, and that may say goodbye instead.                        *)
(***************************************************************************)
Command == [pose : Poses, send : BOOLEAN]

Commands(n) == [1 .. n -> Command]

Updates == UNION {[time : {t \in 0 .. MaxTime : t > update.time}, cmd : Commands(n)] :
                     n \in PeerRobots}

Bye == [time |-> -1, cmd |-> <<>>]

PeerReply ==
    /\ toBridge # <<>>
    /\ toBridge' = Tail(toBridge)
    /\ UNCHANGED <<gatewayVars, toNs3>>

(* A goodbye may also be written to an ns-3 that has aborted and reads no more. *)
PeerSend ==
    /\ toNs3 = <<>>
    /\ toBridge = <<>>
    /\ \/ phase = "wait" /\ \E m \in Updates \cup {Bye} : toNs3' = <<m>>
       \/ phase = "aborted" /\ toNs3' = <<Bye>>
    /\ UNCHANGED <<gatewayVars, toBridge>>

(* ns-3 has exited: nothing happens any more. *)
Ended ==
    /\ phase \in {"stopped", "aborted"}
    /\ UNCHANGED vars

Next == GatewayStep \/ PeerReply \/ PeerSend \/ Ended

Spec == Init /\ [][Next]_vars

(* ns-3 keeps running its events; nothing is asked of the peer. *)
FairSpec == Spec /\ WF_vars(GatewayStep)

-----------------------------------------------------------------------------
Messages == [time : Nat \cup {-1}, cmd : Seq(Command)]

TxRecords == [uid : Nat, robot : Robots, time : Nat]

Responses == [Robots -> SUBSET [src : Robots, lat : Nat, uid : Nat, at : Nat]]

(* Every variable has its type. *)
TypeOK ==
    /\ now \in Nat
    /\ phase \in {"wait", "run", "stopped", "aborted"}
    /\ update \in Messages
    /\ position \in [Robots -> Poses]
    /\ m_tx \subseteq TxRecords
    /\ m_deliveries \in Responses
    /\ toNs3 \in Seq(Messages)
    /\ toBridge \in Seq(Responses)
    /\ inflight \subseteq [uid : Nat, dst : Robots, since : Nat]
    /\ nextUid \in Nat
    /\ sent \subseteq TxRecords
    /\ reported \subseteq Nat \X Robots
    /\ dropped \subseteq Nat \X Robots

(* The copies the radio still holds, as <<uid, receiver>> pairs. *)
OnAir == {<<c.uid, c.dst>> : c \in inflight}

(***************************************************************************)
(* No reception is lost or told twice.  Each copy of each transmission is  *)
(* in exactly one place: still on the air, waiting in m_deliveries for the *)
(* next response, already in a response, or discarded by HandleRx because  *)
(* its transmission had been pruned; and nothing else is in those places.  *)
(***************************************************************************)
ExactlyOnce ==
    /\ OnAir \cup Receptions(m_deliveries) \cup reported \cup dropped
          = {<<p[1].uid, p[2]>> : p \in {q \in sent \X Robots : q[1].robot # q[2]}}
    /\ OnAir \cap (Receptions(m_deliveries) \cup reported \cup dropped) = {}
    /\ Receptions(m_deliveries) \cap (reported \cup dropped) = {}
    /\ reported \cap dropped = {}

(***************************************************************************)
(* A delivery names the robot that sent the packet and the time the packet *)
(* took, whatever else was sent, received or pruned in between: uids match *)
(* a reception to its own transmission.                                    *)
(***************************************************************************)
Accurate ==
    \A d \in Robots : \A e \in m_deliveries[d] : \E s \in sent :
        /\ s.uid = e.uid
        /\ s.robot = e.src
        /\ e.src # d
        /\ s.time < e.at /\ e.at <= now
        /\ e.lat = (e.at - s.time) \div NsPerUs

(***************************************************************************)
(* The pruning loop forgets no transmission that is still young enough:    *)
(* whatever reaches a robot within Retention of its transmission is        *)
(* matched, so a discarded reception is always an old one.                 *)
(***************************************************************************)
RememberedForASecond == \A s \in sent : now - s.time <= Retention => s \in m_tx

(***************************************************************************)
(* Nothing survives a response: when ns-3 waits for the bridge, every      *)
(* delivery has been told and m_tx holds no transmission past its time,    *)
(* which is what keeps both from growing with the length of the run.       *)
(***************************************************************************)
NothingLingers ==
    phase = "wait" =>
        /\ \A d \in Robots : m_deliveries[d] = {}
        /\ \A r \in m_tx : now - r.time <= Retention

(* ns-3 answers every update it is sent, or has aborted on it. *)
Answered == (toNs3 # <<>>) ~> (toBridge # <<>> \/ phase \in {"stopped", "aborted"})

=============================================================================
