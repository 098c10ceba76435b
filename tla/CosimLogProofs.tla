--------------------------- MODULE CosimLogProofs ---------------------------
(***************************************************************************)
(* Proofs about what the co-simulation writes down: the lines of the CSV   *)
(* against the transmissions of ns-3 and the messages the bridge asked for.*)
(*                                                                         *)
(* The proof puts the two ends together.  GP brings the invariants proved  *)
(* of the gateway alone, which hold here because the bridge is the peer    *)
(* they assume; TurnInvariant says where the one message between the ends  *)
(* is; and LogInv follows a reception from m_deliveries through the reply  *)
(* into a line of the CSV.                                                 *)
(***************************************************************************)
EXTENDS CosimProofs, FunctionTheorems, FiniteSetTheorems

GP == INSTANCE RobotGatewayProofs WITH Poses <- 0 .. MaxPose

-----------------------------------------------------------------------------
(* The constants of the co-simulation are constants of a gateway. *)
LEMMA GatewayConstants == GP!GatewayAssumption
  BY CosimAssumption DEF CosimAssumption, GP!GatewayAssumption

(* What is proved of the gateway is proved of the gateway of this module. *)
LEMMA SameGateway == Spec => GP!Spec
  <1>1. G!Init => GP!Init
    BY DEF G!Init, GP!Init, G!NoUpdate, GP!NoUpdate, G!Robots, GP!Robots
  <1>2. [G!Next]_(G!vars) => [GP!Next]_(GP!vars)
    <2>1. UNCHANGED G!vars => UNCHANGED GP!vars
      BY DEF G!vars, GP!vars, G!gatewayVars, GP!gatewayVars
    <2>2. G!ReceiveUpdate => GP!ReceiveUpdate
      BY DEF G!ReceiveUpdate, GP!ReceiveUpdate
    <2>3. G!ReceiveBye => GP!ReceiveBye
      BY DEF G!ReceiveBye, GP!ReceiveBye
    <2>4. G!Advance => GP!Advance
      BY DEF G!Advance, GP!Advance
    <2>5. G!DoUpdate => GP!DoUpdate
      BY DEF G!DoUpdate, GP!DoUpdate, G!SendResponse, GP!SendResponse, G!Retained, GP!Retained,
             G!HandleTx, GP!HandleTx, G!Senders, GP!Senders, G!Robots, GP!Robots,
             G!Copies, GP!Copies, G!Receptions, GP!Receptions
    <2>6. G!AbortUpdate => GP!AbortUpdate
      BY DEF G!AbortUpdate, GP!AbortUpdate
    <2>7. ASSUME NEW c, G!HandleRx(c) PROVE GP!HandleRx(c)
      BY <2>7 DEF G!HandleRx, GP!HandleRx, G!Joined, GP!Joined, G!Delivery, GP!Delivery,
                  G!Matches, GP!Matches
    <2>8. G!PeerReply => GP!PeerReply
      BY DEF G!PeerReply, GP!PeerReply, G!gatewayVars, GP!gatewayVars
    <2>9. G!PeerSend => GP!PeerSend
      BY DEF G!PeerSend, GP!PeerSend, G!gatewayVars, GP!gatewayVars, G!Updates, GP!Updates,
             G!Bye, GP!Bye, G!Commands, GP!Commands, G!Command, GP!Command
    <2>10. G!Ended => GP!Ended
      BY <2>1 DEF G!Ended, GP!Ended
    <2> QED
      BY <2>1, <2>2, <2>3, <2>4, <2>5, <2>6, <2>7, <2>8, <2>9, <2>10
         DEF G!Next, GP!Next, G!GatewayStep, GP!GatewayStep
  <1> QED
    BY <1>1, <1>2, BridgeIsThePeer, PTL DEF GatewaySpec, G!Spec, GP!Spec

(* The invariants of the gateway, in the words of this module. *)
Gateway ==
    /\ G!TypeOK /\ G!ExactlyOnce /\ G!Accurate /\ G!NothingLingers
    /\ m_tx \subseteq sent
    /\ \A s \in sent : s.time <= now /\ s.uid < nextUid
    /\ \A s, t \in sent : s.uid = t.uid => s = t

LEMMA GatewayHolds == Spec => []Gateway
  <1>1. GP!Core /\ GP!ExactlyOnce /\ GP!Accurate /\ GP!NothingLingers => Gateway
    <2> SUFFICES ASSUME GP!Core, GP!ExactlyOnce, GP!Accurate, GP!NothingLingers
                 PROVE  Gateway
      OBVIOUS
    <2>1. G!TypeOK
      BY DEF GP!Core, GP!TypeOK, G!TypeOK, GP!Messages, G!Messages, GP!Command, G!Command,
             GP!TxRecords, G!TxRecords, GP!Responses, G!Responses, GP!Robots, G!Robots
    <2>2. G!ExactlyOnce
      BY DEF GP!ExactlyOnce, G!ExactlyOnce, GP!OnAir, G!OnAir, GP!Receptions, G!Receptions,
             GP!Robots, G!Robots
    <2>3. G!Accurate /\ G!NothingLingers
      BY DEF GP!Accurate, G!Accurate, GP!NothingLingers, G!NothingLingers, GP!Robots, G!Robots
    <2> QED
      BY <2>1, <2>2, <2>3
         DEF Gateway, GP!Core, GP!TxIsSent, GP!Past, GP!BelowNextUid, GP!UniqueUid
  <1>2. GP!Spec => []GP!Core /\ []GP!ExactlyOnce /\ []GP!Accurate /\ []GP!NothingLingers
    BY GatewayConstants, GP!CoreInvariant, GP!ToldExactlyOnce, GP!DeliveriesAccurate,
       GP!Bounded, PTL
  <1> QED
    BY <1>1, <1>2, SameGateway, PTL

-----------------------------------------------------------------------------
(* A transmission was asked for, once, and not before the radio was active. *)
Asked == \A s \in sent : /\ s.time >= TxEnable
                         /\ \E q \in requested : q.robot = s.robot /\ q.time = s.time

OneASend == \A s, t \in sent : s.robot = t.robot /\ s.time = t.time => s = t

(* The transmissions of this step are the work of its update. *)
SentBefore ==
    worker \in {"step", "await"} /\ toBridge = <<>> => \A s \in sent : s.time < sim_ns

(* So are the messages asked for, and the last of a robot carries sent_pose. *)
RequestsPast ==
    \A q \in requested : q.time <= sim_ns /\ (worker = "step" => q.time < sim_ns)

LatestPose ==
    \A q \in requested : \E p \in requested :
        p.robot = q.robot /\ p.pose = robots[q.robot].sent_pose /\ q.time <= p.time

(* A reception of s by dst at the time at, told in the step that ends at t. *)
IsReception(s, src, dst, lat, at, t) ==
    /\ s.robot = src /\ src # dst
    /\ s.time < at /\ t - Step <= at /\ at <= t
    /\ lat = (at - s.time) \div NsPerUs

(* The deliveries that wait are those of this step, one of each packet. *)
Recent == \A d \in G!Robots : \A e \in m_deliveries[d] : sim_ns - Step <= e.at

Once(deliv) == \A d \in G!Robots : \A e, f \in deliv[d] : e.uid = f.uid => e = f

Emptied == phase \in {"wait", "stopped"} => \A d \in G!Robots : m_deliveries[d] = {}

(* What ns-3 has reported is in the CSV or in the reply on its way to it. *)
Told == {<<r.uid, r.dst>> : r \in csv}

ToldOrOnItsWay ==
    IF toBridge = <<>> THEN reported = Told
    ELSE LET reply == Head(toBridge) IN
         /\ reported = Told \cup G!Receptions(reply)
         /\ Told \cap G!Receptions(reply) = {}

ReplyTrue ==
    toBridge # <<>> =>
       LET reply == Head(toBridge) IN
       /\ Once(reply)
       /\ \A d \in G!Robots : \A e \in reply[d] : \E s \in sent :
             s.uid = e.uid /\ IsReception(s, e.src, d, e.lat, e.at, sim_ns)

(* A line of the CSV is a reception, with a pose its sender has transmitted. *)
RowTrue(r) ==
    /\ r.time < sim_ns
    /\ \E s \in sent :
          /\ s.uid = r.uid
          /\ \E at \in 0 .. r.time : IsReception(s, r.src, r.dst, r.lat, at, r.time)
          /\ \E q \in requested : /\ q.robot = r.src /\ q.pose = r.pose
                                  /\ s.time <= q.time /\ q.time <= r.time

RowType == [time : Nat, src : B!Ids, dst : B!Ids, lat : Nat, pose : B!Poses, uid : Nat]

Rows == csv \subseteq RowType /\ \A r \in csv : RowTrue(r)

RowsOnce == \A r, t \in csv : r.uid = t.uid /\ r.dst = t.dst => r = t

(* The inductive invariant, given those of the ends. *)
LogInv ==
    /\ Asked /\ OneASend /\ SentBefore /\ RequestsPast /\ LatestPose
    /\ Recent /\ Once(m_deliveries) /\ Emptied
    /\ ToldOrOnItsWay /\ ReplyTrue /\ Rows /\ RowsOnce

-----------------------------------------------------------------------------
(* It holds before the first step. *)
LEMMA InitLog == Init => LogInv
  <1> SUFFICES ASSUME Init PROVE LogInv
    OBVIOUS
  <1> USE DEF Init, B!Init, G!Init
  <1>1. Asked /\ OneASend /\ SentBefore /\ RequestsPast /\ LatestPose
    BY DEF Asked, OneASend, SentBefore, RequestsPast, LatestPose
  <1>2. Recent /\ Once(m_deliveries) /\ Emptied
    BY DEF Recent, Once, Emptied
  <1>3. ToldOrOnItsWay /\ ReplyTrue /\ Rows /\ RowsOnce
    BY DEF ToldOrOnItsWay, ReplyTrue, Rows, RowsOnce, Told
  <1> QED
    BY <1>1, <1>2, <1>3 DEF LogInv

(* A line stays true as the run goes on. *)
LEMMA RowsStay ==
    ASSUME Rows, RowsOnce, sent \subseteq sent', requested \subseteq requested',
           UNCHANGED <<n_, csv>>, sim_ns \in Nat, sim_ns' \in Nat, sim_ns <= sim_ns'
    PROVE  Rows' /\ RowsOnce' /\ Told' = Told
  <1>1. RowType' = RowType
    BY DEF RowType, B!Ids, B!Poses
  <1>2. ASSUME NEW r \in csv PROVE RowTrue(r)'
    <2>1. r.time \in Nat
      BY DEF Rows, RowType
    <2>2. RowTrue(r)
      BY DEF Rows
    <2> QED
      BY <2>1, <2>2 DEF RowTrue, IsReception
  <1> QED
    BY <1>1, <1>2 DEF Rows, RowsOnce, Told

(* A step asks for messages that carry the poses sent_pose now holds. *)
LEMMA BuildStepLog ==
    ASSUME Inv, LogInv, B!BuildStep, UNCHANGED gatewayVars
    PROVE  LogInv'
  <1> USE DEF LogInv
  <1>1. Stepping /\ Table /\ FreshIffUnsent /\ sim_ns \in Nat
    BY DEF B!BuildStep, Inv, Turn, Stepping, Underway, Taken, Answer, Closing, Over, Table
  <1>2. /\ worker = "step" /\ worker' = "await" /\ toBridge = <<>>
        /\ UNCHANGED <<n_, sim_ns, csv, toBridge, phase, sent, m_deliveries, reported>>
        /\ B!Ids' = B!Ids /\ B!Sends \subseteq B!Ids
    BY <1>1 DEF B!BuildStep, gatewayVars, Stepping, B!Ids, B!Sends
  <1>3. /\ requested \subseteq requested'
        /\ \A q \in requested' \ requested :
              q.robot \in B!Sends /\ q.time = sim_ns /\ q.pose = robots[q.robot].pose
        /\ \A i \in B!Sends : [robot |-> i, time |-> sim_ns, pose |-> robots[i].pose]
                                  \in requested'
        /\ requested \subseteq [robot : B!Ids, time : Nat, pose : B!Poses]
    BY <1>1, BuildStepRequests DEF Table
  <1>4. Asked' /\ OneASend' /\ SentBefore' /\ Recent' /\ Once(m_deliveries)' /\ Emptied'
    BY <1>2, <1>3 DEF Asked, OneASend, SentBefore, Recent, Once, Emptied
  <1>5. RequestsPast'
    <2> SUFFICES ASSUME NEW q \in requested' PROVE q.time <= sim_ns
      BY <1>2 DEF RequestsPast
    <2> QED
      BY <1>1, <1>3 DEF RequestsPast
  <1>6. LatestPose'
    <2> SUFFICES ASSUME NEW q \in requested'
                 PROVE  \E p \in requested' :
                           /\ p.robot = q.robot /\ p.pose = robots'[q.robot].sent_pose
                           /\ q.time <= p.time
      BY DEF LatestPose
    <2>1. q.time <= sim_ns /\ q.robot \in B!Ids
      BY <1>2, <1>3, <1>5 DEF RequestsPast
    <2>2. /\ robots'[q.robot].sent_pose = robots[q.robot].pose
          /\ q.robot \notin B!Sends => robots[q.robot].sent_pose = robots[q.robot].pose
      BY <1>1, <2>1, BuildStepRobots
    <2>3. CASE q.robot \in B!Sends
      BY <1>3, <2>1, <2>2, <2>3
    <2>4. CASE q.robot \notin B!Sends
      <3>1. q \in requested
        BY <1>3, <2>4
      <3> QED
        BY <1>3, <2>2, <2>4, <3>1 DEF LatestPose
    <2> QED
      BY <2>3, <2>4
  <1>7. Rows' /\ RowsOnce' /\ Told' = Told
    BY <1>1, <1>2, <1>3, RowsStay
  <1>8. ToldOrOnItsWay' /\ ReplyTrue'
    BY <1>2, <1>7 DEF ToldOrOnItsWay, ReplyTrue
  <1> QED
    BY <1>4, <1>5, <1>6, <1>7, <1>8

(* The lines a reply adds: its deliveries, each with the pose its sender last sent. *)
LEMMA ReplyRows ==
    ASSUME Inv, Gateway, Answer
    PROVE  LET reply == Head(toBridge) IN
           /\ reply \in G!Responses /\ G!Robots \subseteq B!Ids
           /\ \A r \in B!Rows(reply) : \E d \in G!Robots : \E e \in reply[d] :
                 r = [time |-> sim_ns, src |-> e.src, dst |-> d, lat |-> e.lat,
                      pose |-> robots[e.src].sent_pose, uid |-> e.uid]
           /\ \A d \in G!Robots : \A e \in reply[d] :
                 [time |-> sim_ns, src |-> e.src, dst |-> d, lat |-> e.lat,
                  pose |-> robots[e.src].sent_pose, uid |-> e.uid] \in B!Rows(reply)
  <1> DEFINE reply == Head(toBridge)
  <1>1. reply \in G!Responses
    <2>1. toBridge \in Seq(G!Responses) /\ toBridge # <<>>
      BY OneElement DEF Answer, Gateway, G!TypeOK
    <2> QED
      BY <2>1
  <1>2. G!Robots \subseteq B!Ids
    BY Constants DEF Answer, Inv, Table, G!Robots, B!Ids
  <1>3. B!Listeners(reply) = G!Robots
    BY <1>1, <1>2 DEF B!Listeners, G!Responses
  <1>4. \A d \in G!Robots : \A e \in reply[d] :
            e.src \in B!Ids /\ B!Published(e.src) = robots[e.src].sent_pose
    <2> SUFFICES ASSUME NEW d \in G!Robots, NEW e \in reply[d]
                 PROVE  e.src \in B!Ids /\ B!Published(e.src) = robots[e.src].sent_pose
      OBVIOUS
    <2>1. e.src \in B!Ids
      BY <1>1, <1>2 DEF G!Responses
    <2> QED
      BY <2>1 DEF B!Published
  <1>5. ASSUME NEW r \in B!Rows(reply)
        PROVE  \E d \in G!Robots : \E e \in reply[d] :
                  r = [time |-> sim_ns, src |-> e.src, dst |-> d, lat |-> e.lat,
                       pose |-> robots[e.src].sent_pose, uid |-> e.uid]
    <2>1. PICK d \in G!Robots : \E e \in reply[d] :
              r = [time |-> sim_ns, src |-> e.src, dst |-> d, lat |-> e.lat,
                   pose |-> B!Published(e.src), uid |-> e.uid]
      BY <1>3, <1>5 DEF B!Rows
    <2> QED
      BY <1>4, <2>1
  <1>6. ASSUME NEW d \in G!Robots, NEW e \in reply[d]
        PROVE  [time |-> sim_ns, src |-> e.src, dst |-> d, lat |-> e.lat,
                pose |-> robots[e.src].sent_pose, uid |-> e.uid] \in B!Rows(reply)
    <2>1. [time |-> sim_ns, src |-> e.src, dst |-> d, lat |-> e.lat,
           pose |-> B!Published(e.src), uid |-> e.uid] \in B!Rows(reply)
      BY <1>3 DEF B!Rows
    <2> QED
      BY <1>4, <2>1
  <1> QED
    BY <1>1, <1>2, <1>5, <1>6

(* The reply becomes lines of the CSV, each a reception no line tells of yet. *)
LEMMA HandleReplyLog ==
    ASSUME Inv, Inv', Gateway, LogInv, B!HandleReply, UNCHANGED gatewayVars
    PROVE  LogInv'
  <1> DEFINE reply == Head(toBridge)
  <1> USE DEF LogInv
  <1>1. Answer /\ Table
    BY DEF B!HandleReply, Inv, Turn, Stepping, Underway, Taken, Answer, Closing, Over
  <1>2. /\ worker' = "step" /\ toBridge' = <<>> /\ toBridge # <<>> /\ phase = "wait"
        /\ sim_ns' = sim_ns + Step /\ csv' = csv \cup B!Rows(reply)
        /\ now = sim_ns /\ sim_ns \in Nat
        /\ UNCHANGED <<n_, robots, requested, phase, sent, m_deliveries, reported>>
    BY <1>1, OneElement DEF B!HandleReply, gatewayVars, Answer, B!NextTime, Table
  <1>3. /\ reply \in G!Responses /\ G!Robots \subseteq B!Ids
        /\ \A r \in B!Rows(reply) : \E d \in G!Robots : \E e \in reply[d] :
              r = [time |-> sim_ns, src |-> e.src, dst |-> d, lat |-> e.lat,
                   pose |-> robots[e.src].sent_pose, uid |-> e.uid]
        /\ \A d \in G!Robots : \A e \in reply[d] :
              [time |-> sim_ns, src |-> e.src, dst |-> d, lat |-> e.lat,
               pose |-> robots[e.src].sent_pose, uid |-> e.uid] \in B!Rows(reply)
    BY <1>1, ReplyRows
  <1> HIDE DEF reply
  <1>4. Asked' /\ OneASend' /\ LatestPose'
    BY <1>2 DEF Asked, OneASend, LatestPose
  <1>5. SentBefore' /\ RequestsPast'
    <2>1. \A s \in sent : s.time \in Nat /\ s.time <= sim_ns
      BY <1>2 DEF Gateway, G!TypeOK, G!TxRecords
    <2>2. \A q \in requested : q.time \in Nat /\ q.time <= sim_ns
      BY <1>1 DEF Table, RequestsPast
    <2> QED
      BY <1>2, <2>1, <2>2, Constants DEF SentBefore, RequestsPast
  <1>6. Recent' /\ Once(m_deliveries)' /\ Emptied'
    BY <1>2 DEF Recent, Once, Emptied
  <1>7. /\ Once(reply) /\ reported = Told \cup G!Receptions(reply)
        /\ Told \cap G!Receptions(reply) = {}
        /\ \A d \in G!Robots : \A e \in reply[d] : \E s \in sent :
              s.uid = e.uid /\ IsReception(s, e.src, d, e.lat, e.at, sim_ns)
    BY <1>2 DEF ToldOrOnItsWay, ReplyTrue, reply
  <1>8. ASSUME NEW r \in B!Rows(reply)
        PROVE  r \in RowType' /\ RowTrue(r)' /\ <<r.uid, r.dst>> \in G!Receptions(reply)
    <2>1. PICK d \in G!Robots : \E e \in reply[d] :
              r = [time |-> sim_ns, src |-> e.src, dst |-> d, lat |-> e.lat,
                   pose |-> robots[e.src].sent_pose, uid |-> e.uid]
      BY <1>3, <1>8
    <2>2. PICK e \in reply[d] :
              r = [time |-> sim_ns, src |-> e.src, dst |-> d, lat |-> e.lat,
                   pose |-> robots[e.src].sent_pose, uid |-> e.uid]
      BY <2>1
    <2>3. e \in [src : G!Robots, lat : Nat, uid : Nat, at : Nat]
      BY <1>3 DEF G!Responses
    <2>4. PICK s \in sent : s.uid = e.uid /\ IsReception(s, e.src, d, e.lat, e.at, sim_ns)
      BY <1>7
    <2>5. PICK q \in requested : q.robot = s.robot /\ q.time = s.time
      BY DEF Asked
    <2>6. PICK p \in requested : /\ p.robot = q.robot /\ q.time <= p.time
                                 /\ p.pose = robots[q.robot].sent_pose
      BY DEF LatestPose
    <2>7. p.time <= sim_ns
      BY DEF RequestsPast
    <2>8. e.src \in B!Ids /\ robots[e.src].sent_pose \in B!Poses
      BY <1>1, <1>3, <2>3 DEF Table, RobotType
    <2>9. r \in RowType'
      BY <1>2, <1>3, <2>2, <2>3, <2>8 DEF RowType, B!Ids, B!Poses
    <2>10. RowTrue(r)'
      <3>1. sim_ns < sim_ns' /\ e.at \in 0 .. sim_ns
        BY <1>2, <2>3, <2>4, Constants DEF IsReception
      <3>2. s.robot = e.src
        BY <2>4 DEF IsReception
      <3>3. IsReception(s, r.src, r.dst, r.lat, e.at, r.time)
        BY <2>2, <2>4
      <3>4. p.robot = r.src /\ p.pose = r.pose /\ s.time <= p.time /\ p.time <= r.time
        BY <2>2, <2>5, <2>6, <2>7, <3>2
      <3>5. r.time = sim_ns /\ r.uid = e.uid
        BY <2>2
      <3> QED
        BY <1>2, <2>4, <3>1, <3>3, <3>4, <3>5 DEF RowTrue, IsReception
    <2>11. <<r.uid, r.dst>> \in G!Receptions(reply)
      BY <2>2 DEF G!Receptions
    <2> QED
      BY <2>9, <2>10, <2>11
  <1>9. ASSUME NEW r \in B!Rows(reply), NEW t \in B!Rows(reply), r.uid = t.uid, r.dst = t.dst
        PROVE  r = t
    <2>1. PICK d \in G!Robots : \E e \in reply[d] :
              r = [time |-> sim_ns, src |-> e.src, dst |-> d, lat |-> e.lat,
                   pose |-> robots[e.src].sent_pose, uid |-> e.uid]
      BY <1>3
    <2>2. PICK c \in G!Robots : \E f \in reply[c] :
              t = [time |-> sim_ns, src |-> f.src, dst |-> c, lat |-> f.lat,
                   pose |-> robots[f.src].sent_pose, uid |-> f.uid]
      BY <1>3
    <2>3. PICK e \in reply[d] :
              r = [time |-> sim_ns, src |-> e.src, dst |-> d, lat |-> e.lat,
                   pose |-> robots[e.src].sent_pose, uid |-> e.uid]
      BY <2>1
    <2>4. PICK f \in reply[c] :
              t = [time |-> sim_ns, src |-> f.src, dst |-> c, lat |-> f.lat,
                   pose |-> robots[f.src].sent_pose, uid |-> f.uid]
      BY <2>2
    <2>5. d = c /\ e.uid = f.uid
      BY <1>9, <2>3, <2>4
    <2>6. e = f
      BY <1>7, <2>5 DEF Once
    <2> QED
      BY <2>3, <2>4, <2>5, <2>6
  <1>10. Rows'
    <2>1. RowType' = RowType
      BY <1>2 DEF RowType, B!Ids, B!Poses
    <2>2. ASSUME NEW r \in csv PROVE r \in RowType /\ RowTrue(r)'
      <3>1. r.time \in Nat /\ r \in RowType /\ RowTrue(r)
        BY DEF Rows, RowType
      <3> QED
        BY <1>2, <3>1, Constants DEF RowTrue, IsReception
    <2> QED
      BY <1>2, <1>8, <2>1, <2>2 DEF Rows
  <1>11. RowsOnce'
    <2> SUFFICES ASSUME NEW r \in csv', NEW t \in csv', r.uid = t.uid, r.dst = t.dst
                 PROVE  r = t
      BY DEF RowsOnce
    <2>1. CASE r \in csv /\ t \in csv
      BY <2>1 DEF RowsOnce
    <2>2. CASE r \in B!Rows(reply) /\ t \in B!Rows(reply)
      BY <1>9, <2>2
    <2>3. ASSUME NEW x \in csv, NEW y \in B!Rows(reply), x.uid = y.uid, x.dst = y.dst
          PROVE  FALSE
      <3>1. <<x.uid, x.dst>> \in Told
        BY DEF Told
      <3> QED
        BY <1>7, <1>8, <2>3, <3>1
    <2> QED
      BY <1>2, <2>1, <2>2, <2>3
  <1>12. ToldOrOnItsWay' /\ ReplyTrue'
    <2>1. Told' = Told \cup {<<r.uid, r.dst>> : r \in B!Rows(reply)}
      BY <1>2 DEF Told
    <2>2. G!Receptions(reply) \subseteq {<<r.uid, r.dst>> : r \in B!Rows(reply)}
      <3> SUFFICES ASSUME NEW d \in G!Robots, NEW e \in reply[d]
                   PROVE  <<e.uid, d>> \in {<<r.uid, r.dst>> : r \in B!Rows(reply)}
        BY DEF G!Receptions
      <3>1. PICK r \in B!Rows(reply) :
                r = [time |-> sim_ns, src |-> e.src, dst |-> d, lat |-> e.lat,
                     pose |-> robots[e.src].sent_pose, uid |-> e.uid]
        BY <1>3
      <3>2. r.uid = e.uid /\ r.dst = d
        BY <3>1
      <3> QED
        BY <3>2
    <2>3. {<<r.uid, r.dst>> : r \in B!Rows(reply)} \subseteq G!Receptions(reply)
      BY <1>8
    <2> QED
      BY <1>2, <1>7, <2>1, <2>2, <2>3 DEF ToldOrOnItsWay, ReplyTrue
  <1> QED
    BY <1>4, <1>5, <1>6, <1>10, <1>11, <1>12

(* The update transmits what was asked for, and answers with what was received. *)
LEMMA DoUpdateLog ==
    ASSUME Inv, Inv', Gateway, LogInv, G!DoUpdate, UNCHANGED bridgeVars
    PROVE  LogInv'
  <1> USE DEF LogInv
  <1>1. Taken /\ Table /\ IsUpdate(update)
    BY DEF G!DoUpdate, Inv, Turn, Stepping, Underway, Taken, Answer, Closing, Over
  <1>2. /\ worker = "await" /\ toBridge = <<>> /\ toBridge' = <<m_deliveries>>
        /\ now = sim_ns /\ sim_ns \in Nat /\ n_ \in Nat /\ n_ >= N
        /\ m_deliveries' = [i \in G!Robots |-> {}]
        /\ sent' = sent \cup G!HandleTx
        /\ reported' = reported \cup G!Receptions(m_deliveries)
        /\ UNCHANGED <<n_, robots, worker, sim_ns, csv, requested>>
    <2>1. now = sim_ns /\ n_ >= N /\ n_ \in Nat
      BY <1>1, Constants DEF G!DoUpdate, IsUpdate, Table
    <2>2. toBridge' = <<m_deliveries>>
      BY <1>1, OneElement DEF G!DoUpdate, G!SendResponse, Taken
    <2> QED
      BY <1>1, <2>1, <2>2 DEF G!DoUpdate, bridgeVars, Taken, Table
  <1>3. ASSUME NEW s \in G!HandleTx
        PROVE  /\ s.time = sim_ns /\ s.uid = nextUid + s.robot /\ s.robot \in G!Robots
               /\ s = [uid |-> s.uid, robot |-> s.robot, time |-> s.time]
               /\ s.time >= TxEnable
               /\ \E q \in requested : q.robot = s.robot /\ q.time = s.time
    <2>1. PICK i \in G!Senders : s = [uid |-> nextUid + i, robot |-> i, time |-> now]
      BY <1>3 DEF G!HandleTx
    <2>2. i \in G!Robots /\ i \in B!Ids /\ update.cmd[i + 1].send /\ now >= TxEnable
      BY <1>2, Constants DEF G!Senders, G!Robots, B!Ids
    <2>3. \E q \in requested : q.robot = i /\ q.time = sim_ns
      BY <1>1, <2>2 DEF IsUpdate
    <2> QED
      BY <1>2, <2>1, <2>2, <2>3
  <1>4. \A s \in sent : s.time < sim_ns /\ s.time \in Nat
    BY <1>2 DEF SentBefore, Gateway, G!TypeOK, G!TxRecords
  <1>5. Asked'
    BY <1>2, <1>3 DEF Asked
  <1>6. OneASend'
    <2> SUFFICES ASSUME NEW s \in sent', NEW t \in sent', s.robot = t.robot, s.time = t.time
                 PROVE  s = t
      BY DEF OneASend
    <2>1. CASE s \in sent /\ t \in sent
      BY <2>1 DEF OneASend
    <2>2. CASE s \in G!HandleTx /\ t \in G!HandleTx
      <3>1. s.uid = t.uid
        BY <1>3, <2>2
      <3> QED
        BY <1>3, <2>2, <3>1
    <2>3. CASE s \in sent /\ t \in G!HandleTx
      BY <1>2, <1>3, <1>4, <2>3
    <2>4. CASE s \in G!HandleTx /\ t \in sent
      BY <1>2, <1>3, <1>4, <2>4
    <2> QED
      BY <1>2, <2>1, <2>2, <2>3, <2>4
  <1>7. SentBefore'
    BY <1>2, OneElement DEF SentBefore
  <1>8. RequestsPast' /\ LatestPose'
    BY <1>2 DEF RequestsPast, LatestPose
  <1>9. Recent' /\ Once(m_deliveries)' /\ Emptied'
    BY <1>2 DEF Recent, Once, Emptied
  <1>10. Rows' /\ RowsOnce' /\ Told' = Told
    BY <1>2, RowsStay
  <1>11. ToldOrOnItsWay'
    <2>1. Head(toBridge') = m_deliveries /\ toBridge' # <<>>
      BY <1>2, OneElement
    <2>2. reported = Told
      BY <1>2 DEF ToldOrOnItsWay
    <2>3. G!Receptions(m_deliveries) \cap reported = {}
      BY DEF Gateway, G!ExactlyOnce
    <2>4. G!Receptions(Head(toBridge))' = G!Receptions(m_deliveries)
      BY <2>1 DEF G!Receptions
    <2> QED
      BY <1>2, <1>10, <2>1, <2>2, <2>3, <2>4 DEF ToldOrOnItsWay
  <1>12. ReplyTrue'
    <2>1. Head(toBridge') = m_deliveries
      BY <1>2, OneElement
    <2>2. ASSUME NEW d \in G!Robots, NEW e \in m_deliveries[d]
          PROVE  \E s \in sent' :
                    s.uid = e.uid /\ IsReception(s, e.src, d, e.lat, e.at, sim_ns)
      <3>1. PICK s \in sent : /\ s.uid = e.uid /\ s.robot = e.src /\ e.src # d
                              /\ s.time < e.at /\ e.at <= now
                              /\ e.lat = (e.at - s.time) \div NsPerUs
        BY DEF Gateway, G!Accurate
      <3>2. sim_ns - Step <= e.at
        BY DEF Recent
      <3> QED
        BY <1>2, <3>1, <3>2 DEF IsReception
    <2> QED
      BY <1>2, <2>1, <2>2 DEF ReplyTrue, Once, IsReception
  <1> QED
    BY <1>5, <1>6, <1>7, <1>8, <1>9, <1>10, <1>11, <1>12

(* A reception waits for the reply of this step, as the only one of its packet. *)
LEMMA HandleRxLog ==
    ASSUME Inv, Inv', Gateway, LogInv, NEW c \in inflight, G!HandleRx(c),
           UNCHANGED bridgeVars
    PROVE  LogInv'
  <1> USE DEF LogInv
  <1>1. Taken /\ phase = "run" /\ sim_ns \in Nat /\ now \in Nat /\ sim_ns - now <= Step
    BY DEF G!HandleRx, Inv, Turn, Stepping, Underway, Taken, Answer, Closing, Over, Table
  <1>2. UNCHANGED <<n_, robots, worker, sim_ns, csv, requested, sent, phase, toBridge,
                    reported>>
    BY DEF G!HandleRx, bridgeVars
  <1>3. Asked' /\ OneASend' /\ SentBefore' /\ RequestsPast' /\ LatestPose'
    BY <1>2 DEF Asked, OneASend, SentBefore, RequestsPast, LatestPose
  <1>4. Rows' /\ RowsOnce' /\ Told' = Told
    BY <1>1, <1>2, RowsStay
  <1>5. ToldOrOnItsWay' /\ ReplyTrue'
    BY <1>2, <1>4 DEF ToldOrOnItsWay, ReplyTrue, G!Receptions, Once, IsReception
  <1>6. /\ c.dst \in G!Robots
        /\ \A d \in G!Robots : \A e \in m_deliveries'[d] : e \notin m_deliveries[d] =>
              d = c.dst /\ \E r \in G!Matches(c) : e = G!Delivery(c, r)
    <2>1. c.dst \in G!Robots /\ m_deliveries \in G!Responses
      BY DEF Gateway, G!TypeOK
    <2> QED
      BY <2>1 DEF G!HandleRx, G!Joined, G!Responses
  <1>7. \A r \in G!Matches(c) : G!Delivery(c, r).at = now /\ G!Delivery(c, r).uid = c.uid
    BY DEF G!Delivery
  <1>8. Recent'
    <2> SUFFICES ASSUME NEW d \in G!Robots, NEW e \in m_deliveries'[d]
                 PROVE  sim_ns - Step <= e.at
      BY <1>2 DEF Recent
    <2>1. CASE e \in m_deliveries[d]
      BY <2>1 DEF Recent
    <2>2. CASE e \notin m_deliveries[d]
      <3>1. e.at = now
        BY <1>6, <1>7, <2>2
      <3> QED
        BY <1>1, <3>1, Constants
    <2> QED
      BY <2>1, <2>2
  <1>9. Once(m_deliveries)'
    <2>1. <<c.uid, c.dst>> \notin G!Receptions(m_deliveries)
      BY DEF Gateway, G!ExactlyOnce, G!OnAir
    <2>2. ASSUME NEW f \in m_deliveries[c.dst] PROVE f.uid # c.uid
      BY <1>6, <2>1 DEF G!Receptions
    <2>3. \A r, t \in G!Matches(c) : r = t
      BY DEF G!Matches, Gateway
    <2> SUFFICES ASSUME NEW d \in G!Robots, NEW e \in m_deliveries'[d],
                        NEW f \in m_deliveries'[d], e.uid = f.uid
                 PROVE  e = f
      BY DEF Once
    <2>4. CASE e \in m_deliveries[d] /\ f \in m_deliveries[d]
      BY <2>4 DEF Once
    <2>5. CASE e \notin m_deliveries[d] /\ f \notin m_deliveries[d]
      BY <1>6, <2>3, <2>5
    <2>6. CASE e \in m_deliveries[d] /\ f \notin m_deliveries[d]
      BY <1>6, <1>7, <2>2, <2>6
    <2>7. CASE e \notin m_deliveries[d] /\ f \in m_deliveries[d]
      BY <1>6, <1>7, <2>2, <2>7
    <2> QED
      BY <2>4, <2>5, <2>6, <2>7
  <1>10. Emptied'
    BY <1>1, <1>2 DEF Emptied
  <1> QED
    BY <1>3, <1>4, <1>5, <1>8, <1>9, <1>10

(* Every other step leaves the CSV, the requests and the deliveries alone. *)
LEMMA OtherLog ==
    ASSUME Inv, LogInv,
           UNCHANGED <<n_, sim_ns, csv, requested, sent, m_deliveries, reported, toBridge>>,
           \A i \in B!Ids : robots'[i].sent_pose = robots[i].sent_pose,
           worker' = "step" => worker = "step",
           worker' \in {"step", "await"} => worker \in {"step", "await"},
           phase' \in {"wait", "stopped"} => phase \in {"wait", "stopped"}
    PROVE  LogInv'
  <1> USE DEF LogInv
  <1>1. Asked' /\ OneASend' /\ SentBefore' /\ RequestsPast'
    BY DEF Asked, OneASend, SentBefore, RequestsPast
  <1>2. LatestPose'
    <2>1. \A q \in requested : q.robot \in B!Ids
      BY DEF Inv, Table
    <2> QED
      BY <2>1 DEF LatestPose
  <1>3. Recent' /\ Once(m_deliveries)' /\ Emptied'
    BY DEF Recent, Once, Emptied
  <1>4. Rows' /\ RowsOnce' /\ Told' = Told
    <2>1. sim_ns \in Nat
      BY DEF Inv, Table
    <2> QED
      BY <2>1, RowsStay
  <1>5. ToldOrOnItsWay' /\ ReplyTrue'
    BY <1>4 DEF ToldOrOnItsWay, ReplyTrue, G!Receptions, Once, IsReception
  <1> QED
    BY <1>1, <1>2, <1>3, <1>4, <1>5

(* One step of the bridge or of ns-3 keeps the invariant. *)
LEMMA NextLog == Inv /\ Inv' /\ Gateway /\ LogInv /\ [Next]_vars => LogInv'
  <1> SUFFICES ASSUME Inv, Inv', Gateway, LogInv, [Next]_vars PROVE LogInv'
    OBVIOUS
  <1>1. CASE B!BuildStep /\ UNCHANGED gatewayVars
    BY <1>1, BuildStepLog
  <1>2. CASE B!HandleReply /\ UNCHANGED gatewayVars
    BY <1>2, HandleReplyLog
  <1>3. CASE (B!Disconnected \/ B!Finish) /\ UNCHANGED gatewayVars
    BY <1>3, OtherLog DEF B!Disconnected, B!Finish, gatewayVars
  <1>4. ASSUME NEW i \in B!Ids, PoseCallback(i) PROVE LogInv'
    <2>1. \A j \in B!Ids : robots'[j].sent_pose = robots[j].sent_pose
      BY <1>4, CallbackKeepsSentPose DEF PoseCallback, Inv
    <2> QED
      BY <1>4, <2>1, OtherLog DEF PoseCallback, B!PoseCallback, gatewayVars
  <1>5. CASE Stop \/ UNCHANGED vars
    BY <1>5, OtherLog DEF Stop, B!Stop, vars, bridgeVars, gatewayVars
  <1>6. CASE G!DoUpdate /\ UNCHANGED bridgeVars
    BY <1>6, DoUpdateLog
  <1>7. ASSUME NEW c \in inflight, G!HandleRx(c), UNCHANGED bridgeVars PROVE LogInv'
    BY <1>7, HandleRxLog
  <1>8. CASE /\ G!ReceiveUpdate \/ G!ReceiveBye \/ G!Advance \/ G!AbortUpdate
             /\ UNCHANGED bridgeVars
    BY <1>8, OtherLog
       DEF G!ReceiveUpdate, G!ReceiveBye, G!Advance, G!AbortUpdate, bridgeVars
  <1> QED
    BY <1>1, <1>2, <1>3, <1>4, <1>5, <1>6, <1>7, <1>8
       DEF Next, WorkerStep, Ns3Step, G!GatewayStep, Ended

(* The invariant holds in every reachable state. *)
THEOREM LogInvariant == Spec => []LogInv
  BY InitLog, NextLog, TurnInvariant, GatewayHolds, PTL DEF Spec

-----------------------------------------------------------------------------
(* The transmission of a line is the one with its uid. *)
LEMMA TransmissionIs ==
    ASSUME Gateway, NEW r, NEW s \in sent, s.uid = r.uid
    PROVE  TransmissionOf(r) = s
  <1>1. \A t \in sent : t.uid = r.uid => t = s
    BY DEF Gateway
  <1> QED
    BY <1>1 DEF TransmissionOf

(***************************************************************************)
(* What a neighbour is told of a robot is a pose that robot transmitted,   *)
(* in the delivered message or in a later one, before it is told.          *)
(***************************************************************************)
THEOREM PosesTransmitted == Spec => []PoseWasTransmitted
  <1>1. Gateway /\ LogInv => PoseWasTransmitted
    <2> SUFFICES ASSUME Gateway, LogInv, NEW r \in csv
                 PROVE  \E q \in requested : /\ q.robot = r.src /\ q.pose = r.pose
                                             /\ TransmissionOf(r).time <= q.time
                                             /\ q.time <= r.time
      BY DEF PoseWasTransmitted
    <2>1. PICK s \in sent :
              /\ s.uid = r.uid
              /\ \E q \in requested : /\ q.robot = r.src /\ q.pose = r.pose
                                      /\ s.time <= q.time /\ q.time <= r.time
      BY DEF LogInv, Rows, RowTrue
    <2>2. TransmissionOf(r) = s
      BY <2>1, TransmissionIs
    <2> QED
      BY <2>1, <2>2
  <1> QED
    BY <1>1, LogInvariant, GatewayHolds, PTL

(***************************************************************************)
(* When ns-3 has taken leave, every reception it had reported is a line of *)
(* the CSV, no other line is there, and none waits to be reported.         *)
(***************************************************************************)
THEOREM EverythingTold == Spec => []NothingLostAtEnd
  <1>1. Inv /\ LogInv => NothingLostAtEnd
    <2> SUFFICES ASSUME Inv, LogInv, phase = "stopped"
                 PROVE  /\ \A d \in 0 .. N - 1 : m_deliveries[d] = {}
                        /\ reported = {<<r.uid, r.dst>> : r \in csv}
      BY DEF NothingLostAtEnd
    <2>1. toBridge = <<>>
      BY DEF Inv, Turn, Stepping, Underway, Taken, Answer, Closing, Over
    <2> QED
      BY <2>1 DEF LogInv, Emptied, ToldOrOnItsWay, Told, G!Robots
  <1> QED
    BY <1>1, LogInvariant, TurnInvariant, PTL

-----------------------------------------------------------------------------
(* The state of ReceptionLog, as Cosim maps it. *)
Asking == worker \in {"await", "closing"} \/ (worker = "done" /\ phase = "aborted")

Msgs == {[robot |-> q.robot, time |-> q.time] : q \in {q \in requested : q.time >= TxEnable}}

Line(r) == [src |-> r.src, dst |-> r.dst, time |-> r.time, lat |-> r.lat,
            sent |-> TransmissionOf(r).time]

Lines == {Line(r) : r \in csv}

(* The send time of a line does not change when there are more transmissions. *)
LEMMA LinesStay ==
    ASSUME Gateway, Gateway', Rows, sent \subseteq sent', csv' = csv
    PROVE  Lines' = Lines
  <1>1. ASSUME NEW r \in csv PROVE Line(r)' = Line(r)
    <2>1. PICK s \in sent : s.uid = r.uid
      BY DEF Rows, RowTrue
    <2>2. TransmissionOf(r) = s
      BY <2>1, TransmissionIs
    <2>3. TransmissionOf(r)' = s
      <3>1. s \in sent' /\ \A t \in sent' : t.uid = r.uid => t = s
        BY <2>1 DEF Gateway
      <3> QED
        BY <2>1, <3>1 DEF TransmissionOf
    <2> QED
      BY <2>2, <2>3 DEF Line
  <1> QED
    BY <1>1 DEF Lines

(* The messages of a step are those asked for at its time, to an active radio. *)
LEMMA StepTransmits ==
    ASSUME Inv, Gateway, Gateway', LogInv, B!BuildStep, UNCHANGED gatewayVars
    PROVE  Log!Transmit
  <1>1. Stepping /\ Table /\ FreshIffUnsent
    BY DEF B!BuildStep, Inv, Turn, Stepping, Underway, Taken, Answer, Closing, Over
  <1>2. /\ requested \subseteq requested'
        /\ \A q \in requested' \ requested : q.time = sim_ns
    BY <1>1, BuildStepRequests
  <1>3. worker = "step" /\ worker' = "await" /\ UNCHANGED <<sim_ns, csv, sent>>
    BY DEF B!BuildStep, gatewayVars
  <1>4. Lines' = Lines
    BY <1>3, LinesStay DEF LogInv
  <1>5. Msgs \subseteq Msgs' /\ \A m \in Msgs' \ Msgs : m.time = sim_ns /\ sim_ns >= TxEnable
    <2>1. Msgs \subseteq Msgs'
      BY <1>2 DEF Msgs
    <2>2. ASSUME NEW m \in Msgs', m \notin Msgs
          PROVE  m.time = sim_ns /\ sim_ns >= TxEnable
      <3>1. PICK q \in requested' :
                q.time >= TxEnable /\ m = [robot |-> q.robot, time |-> q.time]
        BY <2>2 DEF Msgs
      <3>2. q \notin requested
        BY <2>2, <3>1 DEF Msgs
      <3> QED
        BY <1>2, <3>1, <3>2
    <2> QED
      BY <2>1, <2>2
  <1>6. ~Asking /\ Asking'
    BY <1>3 DEF Asking
  <1> QED
    BY <1>3, <1>4, <1>5, <1>6 DEF Log!Transmit, Asking, Msgs, Lines, Line

(* A reply tells receptions of its step, none of them a second time. *)
LEMMA ReplyTells ==
    ASSUME Inv, Gateway, Gateway', LogInv, LogInv', B!HandleReply, UNCHANGED gatewayVars
    PROVE  Log!Tell
  <1>1. /\ worker = "await" /\ worker' = "step" /\ sim_ns' = sim_ns + Step
        /\ csv' = csv \cup B!Rows(Head(toBridge)) /\ UNCHANGED <<requested, sent>>
    BY DEF B!HandleReply, B!NextTime, gatewayVars
  <1>2. ASSUME NEW r \in csv'
        PROVE  /\ Line(r)' = Line(r)
               /\ \E s \in sent : /\ s.uid = r.uid /\ TransmissionOf(r) = s
                                  /\ \E at \in 0 .. r.time :
                                        IsReception(s, r.src, r.dst, r.lat, at, r.time)
    <2>1. PICK s \in sent : /\ s.uid = r.uid
                            /\ \E at \in 0 .. r.time :
                                  IsReception(s, r.src, r.dst, r.lat, at, r.time)
      BY <1>1 DEF LogInv, Rows, RowTrue, IsReception
    <2>2. TransmissionOf(r) = s
      BY <2>1, TransmissionIs
    <2> QED
      BY <1>1, <2>1, <2>2 DEF Line, TransmissionOf
  <1>3. ASSUME NEW e \in Lines', e \notin Lines
        PROVE  \E m \in Msgs, at \in 0 .. sim_ns :
                  /\ m.robot = e.src /\ m.time = e.sent /\ m.time < at
                  /\ e.src # e.dst
                  /\ e.lat = (at - e.sent) \div NsPerUs
                  /\ e.time = sim_ns /\ sim_ns - Step <= at
    <2>1. PICK r \in csv' : e = Line(r)
      BY <1>2, <1>3 DEF Lines
    <2>2. r \in B!Rows(Head(toBridge))
      BY <1>1, <1>3, <2>1 DEF Lines
    <2>3. r.time = sim_ns
      BY <2>2 DEF B!Rows
    <2>4. PICK s \in sent : /\ TransmissionOf(r) = s
                            /\ \E at \in 0 .. r.time :
                                  IsReception(s, r.src, r.dst, r.lat, at, r.time)
      BY <1>2
    <2>5. PICK q \in requested : q.robot = s.robot /\ q.time = s.time /\ s.time >= TxEnable
      BY DEF LogInv, Asked
    <2>6. [robot |-> q.robot, time |-> q.time] \in Msgs
      BY <2>5 DEF Msgs
    <2> QED
      BY <2>1, <2>3, <2>4, <2>5, <2>6 DEF Line, IsReception
  <1>4. ASSUME NEW e \in Lines', NEW f \in Lines',
               e.src = f.src, e.dst = f.dst, e.sent = f.sent
        PROVE  e = f
    <2>1. PICK r \in csv' : e = Line(r)
      BY <1>2 DEF Lines
    <2>2. PICK t \in csv' : f = Line(t)
      BY <1>2 DEF Lines
    <2>3. PICK s \in sent : s.uid = r.uid /\ TransmissionOf(r) = s /\ s.robot = r.src
      BY <1>2 DEF IsReception
    <2>4. PICK u \in sent : u.uid = t.uid /\ TransmissionOf(t) = u /\ u.robot = t.src
      BY <1>2 DEF IsReception
    <2>5. s = u
      BY <1>4, <2>1, <2>2, <2>3, <2>4 DEF Line, LogInv, OneASend
    <2>6. r = t
      BY <1>4, <2>1, <2>2, <2>3, <2>4, <2>5 DEF Line, LogInv, RowsOnce
    <2> QED
      BY <2>1, <2>2, <2>6
  <1>5. Lines \subseteq Lines' /\ Asking /\ ~Asking' /\ Msgs' = Msgs
    BY <1>1, <1>2 DEF Lines, Asking, Msgs
  <1> QED
    BY <1>1, <1>3, <1>4, <1>5
       DEF Log!Tell, Log!Possible, Log!Distinct, Asking, Msgs, Lines, Line

(***************************************************************************)
(* The co-simulation implements ReceptionLog: its log tells of receptions  *)
(* of transmissions the bridge asked for, each once, in the step in which  *)
(* it happened, with its robots and its latency, whatever the socket, the  *)
(* threads and the tables on both sides do in between.                     *)
(***************************************************************************)
THEOREM ImplementsReceptionLog == Spec => LogSpec
  <1>1. Init => Log!Init
    BY DEF Init, B!Init, Log!Init
  <1>2. /\ Inv /\ Gateway /\ Gateway' /\ LogInv /\ LogInv' /\ [Next]_vars
        => [Log!Next]_(Log!vars)
    <2> SUFFICES ASSUME Inv, Gateway, Gateway', LogInv, LogInv', [Next]_vars
                 PROVE  Log!Next \/ UNCHANGED Log!vars
      OBVIOUS
    <2>1. CASE B!BuildStep /\ UNCHANGED gatewayVars
      BY <2>1, StepTransmits DEF Log!Next
    <2>2. CASE B!HandleReply /\ UNCHANGED gatewayVars
      BY <2>2, ReplyTells DEF Log!Next
    <2>3. ASSUME UNCHANGED <<sim_ns, csv, requested>>, sent \subseteq sent', Asking' = Asking
          PROVE  UNCHANGED Log!vars
      <3>1. Lines' = Lines /\ Msgs' = Msgs
        BY <2>3, LinesStay DEF LogInv, Msgs
      <3> QED
        BY <2>3, <3>1 DEF Log!vars, Asking, Msgs, Lines, Line
    <2>4. CASE (B!Finish \/ (phase \in {"stopped", "aborted"} /\ B!Disconnected))
               /\ UNCHANGED gatewayVars
      <3>1. Asking' = Asking
        BY <2>4 DEF Asking, B!Finish, B!Disconnected, gatewayVars, Inv, Turn, Stepping,
                    Underway, Taken, Answer, Closing, Over
      <3> QED
        BY <2>3, <2>4, <3>1 DEF B!Finish, B!Disconnected, gatewayVars
    <2>5. CASE Ns3Step
      <3>1. Asking' = Asking
        BY <2>5 DEF Asking, Ns3Step, bridgeVars, G!GatewayStep, G!ReceiveUpdate, G!ReceiveBye,
                    G!Advance, G!DoUpdate, G!AbortUpdate, G!HandleRx, Inv, Turn, Stepping,
                    Underway, Taken, Answer, Closing, Over
      <3>2. sent \subseteq sent' /\ UNCHANGED <<sim_ns, csv, requested>>
        BY <2>5 DEF Ns3Step, bridgeVars, G!GatewayStep, G!ReceiveUpdate, G!ReceiveBye,
                    G!Advance, G!DoUpdate, G!AbortUpdate, G!HandleRx
      <3> QED
        BY <2>3, <3>1, <3>2
    <2>6. CASE UNCHANGED <<worker, phase, sim_ns, csv, requested, sent>>
      BY <2>3, <2>6 DEF Asking
    <2> QED
      BY <2>1, <2>2, <2>4, <2>5, <2>6
         DEF Next, WorkerStep, PoseCallback, B!PoseCallback, Stop, B!Stop, Ended, vars,
             bridgeVars, gatewayVars
  <1> QED
    BY <1>1, <1>2, TurnInvariant, GatewayHolds, LogInvariant, PTL DEF Spec, LogSpec, Log!Spec

-----------------------------------------------------------------------------
(* BridgeNode counts with the same operator. *)
LEMMA BridgeCounts == \A S : B!Cardinality(S) = Cardinality(S)
  BY Zenon DEF B!Cardinality, Cardinality

(* A latency rounded down to microseconds is not longer than the latency. *)
LEMMA RoundedDown ==
    ASSUME NEW a \in Nat, NEW b \in Nat \ {0}
    PROVE  (a \div b) * b <= a /\ a \div b \in Nat
  OBVIOUS

(***************************************************************************)
(* The lines of the CSV inject into the messages and the robots that can   *)
(* hear one of them, so there are at most n_ - 1 lines for a message.      *)
(***************************************************************************)
LEMMA LinesPerMessage ==
    ASSUME Table, Gateway, LogInv,
           NEW T \in SUBSET requested, IsFiniteSet(T),
           \A q \in requested : q.time >= TxEnable => q \in T
    PROVE  IsFiniteSet(csv) /\ Cardinality(csv) <= Cardinality(T) * (n_ - 1)
  <1> DEFINE Msg(r) == CHOOSE q \in T :
                          q.robot = r.src /\ q.time = TransmissionOf(r).time
             Ear(r) == IF r.dst < r.src THEN r.dst + 1 ELSE r.dst
             f == [r \in csv |-> <<Msg(r), Ear(r)>>]
  <1>1. n_ \in Nat /\ n_ >= 1
    BY Constants DEF Table
  <1>2. ASSUME NEW r \in csv
        PROVE  /\ Msg(r) \in T /\ Msg(r).robot = r.src
               /\ Msg(r).time = TransmissionOf(r).time
               /\ TransmissionOf(r) \in sent /\ TransmissionOf(r).uid = r.uid
               /\ TransmissionOf(r).robot = r.src /\ r.src # r.dst
    <2>1. PICK s \in sent : s.uid = r.uid /\ s.robot = r.src /\ r.src # r.dst
      BY DEF LogInv, Rows, RowTrue, IsReception
    <2>2. TransmissionOf(r) = s
      BY <2>1, TransmissionIs
    <2>3. PICK q \in requested : q.robot = s.robot /\ q.time = s.time /\ s.time >= TxEnable
      BY DEF LogInv, Asked
    <2>4. \E x \in T : x.robot = r.src /\ x.time = TransmissionOf(r).time
      BY <2>1, <2>2, <2>3
    <2>5. /\ Msg(r) \in T /\ Msg(r).robot = r.src
          /\ Msg(r).time = TransmissionOf(r).time
      BY <2>4
    <2> QED
      BY <2>1, <2>2, <2>5
  <1>3. ASSUME NEW r \in csv
        PROVE  Ear(r) \in 1 .. n_ - 1 /\ r.src \in Int /\ r.dst \in Int
    <2>1. r.src \in 0 .. n_ - 1 /\ r.dst \in 0 .. n_ - 1 /\ r.src # r.dst
      BY <1>2 DEF LogInv, Rows, RowType, B!Ids
    <2> QED
      BY <1>1, <2>1
  <1>4. f \in [csv -> T \X (1 .. n_ - 1)]
    BY <1>2, <1>3
  <1>5. ASSUME NEW r \in csv, NEW t \in csv, f[r] = f[t]
        PROVE  r = t
    <2>1. Msg(r) = Msg(t) /\ Ear(r) = Ear(t)
      <3> HIDE DEF Msg, Ear
      <3>1. f[r] = <<Msg(r), Ear(r)>> /\ f[t] = <<Msg(t), Ear(t)>>
        OBVIOUS
      <3> QED
        BY <1>5, <3>1
    <2> HIDE DEF f, Msg
    <2>2. r.src = t.src /\ TransmissionOf(r).time = TransmissionOf(t).time
      BY <1>2, <2>1
    <2>3. TransmissionOf(r) = TransmissionOf(t)
      BY <1>2, <2>2 DEF LogInv, OneASend
    <2>4. r.uid = t.uid
      BY <1>2, <2>3
    <2>5. r.dst = t.dst
      BY <1>2, <1>3, <2>1, <2>2
    <2> QED
      BY <2>4, <2>5 DEF LogInv, RowsOnce
  <1> HIDE DEF f
  <1>6. f \in Injection(csv, T \X (1 .. n_ - 1))
    BY <1>4, <1>5, Fun_IsInj
  <1>7. IsFiniteSet(1 .. n_ - 1) /\ Cardinality(1 .. n_ - 1) = n_ - 1
    BY <1>1, FS_Interval
  <1>8. /\ IsFiniteSet(T \X (1 .. n_ - 1))
        /\ Cardinality(T \X (1 .. n_ - 1)) = Cardinality(T) * (n_ - 1)
    BY <1>7, FS_Product
  <1> QED
    BY <1>6, <1>8, FS_Injection

(* The messages that count, and how the counters relate to what they count. *)
FromWarmup == {q \in requested : q.time >= Warmup}

Finite == IsFiniteSet(requested)

Counts ==
    /\ sent_ \in Nat /\ sent_ = Cardinality(FromWarmup)
    /\ latencies \in Nat
    /\ Warmup <= TxEnable => latencies = Cardinality(csv)

(* The counters start at nothing. *)
LEMMA InitCounts == Init => Finite /\ Counts
  <1> SUFFICES ASSUME Init PROVE Finite /\ Counts
    OBVIOUS
  <1>1. requested = {} /\ csv = {} /\ sent_ = 0 /\ latencies = 0
    BY DEF Init, B!Init
  <1>2. FromWarmup = {}
    BY <1>1 DEF FromWarmup
  <1>3. IsFiniteSet({}) /\ Cardinality({}) = 0
    BY FS_EmptySet, Zenon
  <1> QED
    BY <1>1, <1>2, <1>3 DEF Finite, Counts

(* A step after the warm-up counts each of its messages. *)
LEMMA BuildStepCounts ==
    ASSUME Inv, LogInv, Finite, B!BuildStep
    PROVE  Finite' /\ (Counts => Counts')
  <1> DEFINE M(i) == [robot |-> i, time |-> sim_ns, pose |-> robots[i].pose]
             New == {M(i) : i \in B!Sends}
  <1>1. Table /\ FreshIffUnsent /\ worker = "step" /\ sim_ns \in Nat /\ n_ \in Nat
    BY Constants DEF Inv, Table, B!BuildStep
  <1>2. requested' = requested \cup New /\ UNCHANGED <<csv, latencies>>
    BY DEF B!BuildStep
  <1>3. sent_' = sent_ + (IF sim_ns >= Warmup THEN Cardinality(B!Sends) ELSE 0)
    BY BridgeCounts DEF B!BuildStep, B!Counted
  <1>4. /\ IsFiniteSet(B!Sends) /\ Cardinality(B!Sends) \in Nat
        /\ IsFiniteSet(New) /\ Cardinality(New) = Cardinality(B!Sends)
    <2>1. IsFiniteSet(B!Ids)
      BY <1>1, FS_Interval DEF B!Ids
    <2>2. IsFiniteSet(B!Sends)
      BY <2>1, FS_Subset DEF B!Sends
    <2> DEFINE g == [i \in B!Sends |-> M(i)]
    <2>3. g \in Bijection(B!Sends, New)
      <3>1. \A i, j \in B!Sends : g[i] = g[j] => i = j
        OBVIOUS
      <3>2. g \in [B!Sends -> New] /\ \A t \in New : \E i \in B!Sends : g[i] = t
        OBVIOUS
      <3> HIDE DEF g, New
      <3> QED
        BY <3>1, <3>2, Fun_IsBij
    <2> HIDE DEF New
    <2>4. ExistsBijection(B!Sends, New)
      BY <2>3 DEF ExistsBijection
    <2> QED
      BY <2>2, <2>4, FS_Bijection, FS_CardinalityType
  <1>5. requested \cap New = {}
    <2>1. \A q \in requested : q.time < sim_ns /\ q.time \in Nat
      BY <1>1 DEF LogInv, RequestsPast, Table
    <2>2. \A q \in New : q.time = sim_ns
      OBVIOUS
    <2> QED
      BY <1>1, <2>1, <2>2
  <1>6. Finite'
    BY <1>2, <1>4, FS_Union DEF Finite
  <1>7. ASSUME Counts
        PROVE  sent_' = Cardinality(FromWarmup') /\ sent_' \in Nat
    <2>1. \A q \in New : q.time = sim_ns
      OBVIOUS
    <2> HIDE DEF New
    <2>2. CASE sim_ns >= Warmup
      <3>1. FromWarmup' = FromWarmup \cup New /\ FromWarmup \cap New = {}
        BY <1>2, <1>5, <2>1, <2>2 DEF FromWarmup
      <3>2. IsFiniteSet(FromWarmup)
        BY FS_Subset DEF FromWarmup, Finite
      <3>3. Cardinality(FromWarmup') = Cardinality(FromWarmup) + Cardinality(New)
        <4>1. Cardinality({}) = 0
          BY FS_EmptySet, Zenon
        <4>2. Cardinality(FromWarmup \cup New) =
                  Cardinality(FromWarmup) + Cardinality(New) - Cardinality({})
          BY <1>4, <3>1, <3>2, FS_Union
        <4>3. Cardinality(FromWarmup) \in Nat /\ Cardinality(New) \in Nat
          BY <1>4, <3>2, FS_CardinalityType
        <4> QED
          BY <3>1, <4>1, <4>2, <4>3
      <3> QED
        BY <1>3, <1>4, <1>7, <2>2, <3>3 DEF Counts
    <2>3. CASE ~(sim_ns >= Warmup)
      <3>1. FromWarmup' = FromWarmup
        BY <1>2, <2>1, <2>3 DEF FromWarmup
      <3> QED
        BY <1>3, <1>7, <2>3, <3>1 DEF Counts
    <2> QED
      BY <2>2, <2>3
  <1> QED
    BY <1>2, <1>6, <1>7 DEF Counts

(* A reply counts the lines it adds; from the warm-up on, if nothing is sent earlier. *)
LEMMA HandleReplyCounts ==
    ASSUME Gateway', LogInv, LogInv', IsFiniteSet(csv)', Counts, B!HandleReply,
           UNCHANGED gatewayVars
    PROVE  Counts'
  <1> DEFINE new == B!Rows(Head(toBridge))
             counted == {r \in new : B!FromWarmup(r)}
  <1>1. /\ csv' = csv \cup new /\ latencies' = latencies + Cardinality(counted)
        /\ UNCHANGED <<sent_, requested, sent>>
    BY BridgeCounts DEF B!HandleReply, gatewayVars
  <1>2. \A r \in new : r.time = sim_ns
    BY DEF B!Rows
  <1> HIDE DEF new
  <1>3. IsFiniteSet(new) /\ IsFiniteSet(csv) /\ IsFiniteSet(counted)
    BY <1>1, FS_Subset
  <1>4. Cardinality(counted) \in Nat
    BY <1>3, FS_CardinalityType
  <1>5. ASSUME Warmup <= TxEnable PROVE latencies' = Cardinality(csv')
    <2>1. ASSUME NEW r \in new PROVE B!FromWarmup(r)
      <3>1. r \in csv' /\ r \in RowType'
        BY <1>1 DEF LogInv, Rows
      <3>2. PICK s \in sent :
                \E at \in 0 .. r.time : IsReception(s, r.src, r.dst, r.lat, at, r.time)
        BY <1>1, <3>1 DEF LogInv, Rows, RowTrue, IsReception
      <3>3. PICK at \in 0 .. r.time : IsReception(s, r.src, r.dst, r.lat, at, r.time)
        BY <3>2
      <3>4. s.time >= TxEnable /\ s.time \in Nat /\ r.time \in Nat
        BY <1>1, <3>1 DEF LogInv, Asked, Gateway, G!TypeOK, G!TxRecords, RowType
      <3>5. at - s.time \in Nat /\ r.lat = (at - s.time) \div NsPerUs
        BY <3>3, <3>4 DEF IsReception
      <3>6. r.lat * NsPerUs <= at - s.time /\ r.lat * NsPerUs \in Int
        BY <3>5, RoundedDown, Constants
      <3> HIDE DEF counted
      <3>7. r.time - r.lat * NsPerUs >= Warmup
        BY <1>5, <3>4, <3>5, <3>6, Constants
      <3> QED
        BY <3>7 DEF B!FromWarmup
    <2>2. counted = new
      BY <2>1
    <2>3. csv \cap new = {}
      <3>1. \A r \in csv : r.time < sim_ns /\ r.time \in Nat
        BY DEF LogInv, Rows, RowTrue, RowType
      <3> QED
        BY <1>2, <3>1
    <2>4. Cardinality(csv \cup new) = Cardinality(csv) + Cardinality(new)
      <3>1. Cardinality({}) = 0
        BY FS_EmptySet, Zenon
      <3>2. Cardinality(csv \cup new) =
                Cardinality(csv) + Cardinality(new) - Cardinality({})
        BY <1>3, <2>3, FS_Union
      <3>3. Cardinality(csv) \in Nat /\ Cardinality(new) \in Nat
        BY <1>3, FS_CardinalityType
      <3> QED
        BY <3>1, <3>2, <3>3
    <2> QED
      BY <1>1, <1>5, <2>2, <2>4 DEF Counts
  <1> QED
    BY <1>1, <1>4, <1>5 DEF Counts, FromWarmup

(* The messages, and so the lines, are finite in number. *)
LEMMA AllFinite == Spec => [](Finite /\ IsFiniteSet(csv))
  <1>1. Inv /\ LogInv /\ Finite /\ [Next]_vars => Finite'
    <2> SUFFICES ASSUME Inv, LogInv, Finite, [Next]_vars PROVE Finite'
      OBVIOUS
    <2>1. CASE B!BuildStep
      BY <2>1, BuildStepCounts
    <2>2. CASE UNCHANGED requested
      BY <2>2 DEF Finite
    <2> QED
      BY <2>1, <2>2 DEF Next, WorkerStep, B!HandleReply, B!Disconnected, B!Finish,
         PoseCallback, B!PoseCallback, Stop, B!Stop, Ns3Step, bridgeVars, Ended, vars
  <1>2. Inv /\ Gateway /\ LogInv /\ Finite => IsFiniteSet(csv)
    BY LinesPerMessage DEF Inv, Finite
  <1>3. Init => Finite
    BY InitCounts
  <1> QED
    BY <1>1, <1>2, <1>3, TurnInvariant, GatewayHolds, LogInvariant, PTL DEF Spec

(* The counters count in every reachable state. *)
LEMMA CountsHold == Spec => []Counts
  <1>1. /\ Inv /\ Gateway' /\ LogInv /\ LogInv' /\ Finite /\ IsFiniteSet(csv)' /\ Counts
        /\ [Next]_vars
        => Counts'
    <2> SUFFICES ASSUME Inv, Gateway', LogInv, LogInv', Finite, IsFiniteSet(csv)', Counts,
                        [Next]_vars
                 PROVE  Counts'
      OBVIOUS
    <2>1. CASE B!BuildStep
      BY <2>1, BuildStepCounts
    <2>2. CASE B!HandleReply /\ UNCHANGED gatewayVars
      BY <2>2, HandleReplyCounts
    <2>3. CASE UNCHANGED <<requested, csv, sent_, latencies>>
      BY <2>3 DEF Counts, FromWarmup
    <2> QED
      BY <2>1, <2>2, <2>3 DEF Next, WorkerStep, B!Disconnected, B!Finish,
         PoseCallback, B!PoseCallback, Stop, B!Stop, Ns3Step, bridgeVars, Ended, vars
  <1> QED
    BY <1>1, InitCounts, TurnInvariant, GatewayHolds, LogInvariant, AllFinite, PTL DEF Spec

(***************************************************************************)
(* Every variable of the two programs keeps its type; in particular a line *)
(* of the CSV names robots of the bridge's table and a pose in it.         *)
(***************************************************************************)
THEOREM CosimTypes == Spec => []TypeOK
  <1>1. Inv /\ Gateway /\ LogInv /\ Counts => TypeOK
    <2> SUFFICES ASSUME Inv, Gateway, LogInv, Counts PROVE B!TypeOK /\ G!TypeOK
      BY DEF TypeOK
    <2>1. sim_ns % Step = 0
      <3>1. PICK k \in Nat : sim_ns = Step * k
        BY DEF Inv, Table
      <3> QED
        BY <3>1, Constants
    <2>2. B!TypeOK
      BY <2>1 DEF Inv, Table, RobotType, LogInv, Rows, RowType, Counts, B!TypeOK
    <2> QED
      BY <2>2 DEF Gateway
  <1> QED
    BY <1>1, TurnInvariant, GatewayHolds, LogInvariant, CountsHold, PTL

(***************************************************************************)
(* The two counts of report() are of the same messages, and the PRR is at  *)
(* most one, when nothing is transmitted in the warm-up.  So it is by      *)
(* default: the gateway ignores sends before 2.1 s                         *)
(* (sidewalk-robots.cc:1046), and warmup_s is 2.1 (bridge_node.cpp:46).    *)
(***************************************************************************)
THEOREM PrrIsARatio ==
    ASSUME Warmup <= TxEnable
    PROVE  Spec => []PrrCountsFromWarmup
  <1>1. Inv /\ Gateway /\ LogInv /\ Finite /\ Counts => PrrCountsFromWarmup
    <2> SUFFICES ASSUME Inv, Gateway, LogInv, Finite, Counts PROVE PrrCountsFromWarmup
      OBVIOUS
    <2>1. {r \in csv : TransmissionOf(r).time >= Warmup} = csv
      <3> SUFFICES ASSUME NEW r \in csv PROVE TransmissionOf(r).time >= Warmup
        OBVIOUS
      <3>1. PICK s \in sent : s.uid = r.uid
        BY DEF LogInv, Rows, RowTrue
      <3>2. TransmissionOf(r) = s
        BY <3>1, TransmissionIs
      <3>3. s.time \in Nat /\ s.time >= TxEnable
        BY DEF LogInv, Asked, Gateway, G!TypeOK, G!TxRecords
      <3> QED
        BY <3>2, <3>3, Constants
    <2>2. latencies = Cardinality(csv)
      BY DEF Counts
    <2>3. Cardinality(csv) <= sent_ * (n_ - 1)
      <3>1. \A q \in requested : q.time >= TxEnable => q \in FromWarmup
        <4> SUFFICES ASSUME NEW q \in requested, q.time >= TxEnable PROVE q.time >= Warmup
          BY DEF FromWarmup
        <4>1. q.time \in Nat
          BY DEF Inv, Table
        <4> QED
          BY <4>1, Constants
      <3>2. FromWarmup \in SUBSET requested /\ IsFiniteSet(FromWarmup)
        BY FS_Subset DEF FromWarmup, Finite
      <3>3. Cardinality(csv) <= Cardinality(FromWarmup) * (n_ - 1)
        BY <3>1, <3>2, LinesPerMessage DEF Inv
      <3> QED
        BY <3>3 DEF Counts
    <2> QED
      BY <2>1, <2>2, <2>3 DEF PrrCountsFromWarmup, Counts, FromWarmup
  <1> QED
    BY <1>1, TurnInvariant, GatewayHolds, LogInvariant, AllFinite, CountsHold, PTL

-----------------------------------------------------------------------------
(* A robot asks for one message in a step. *)
OneRequest == \A p, q \in requested : p.robot = q.robot /\ p.time = q.time => p = q

(* The update ns-3 has not run yet asks the robot of q to send. *)
OnItsWay(q) ==
    LET m == IF toNs3 = <<>> THEN update ELSE Head(toNs3) IN
    worker = "await" /\ toBridge = <<>> /\ q.time = sim_ns /\ m.cmd[q.robot + 1].send

(* What is asked for once the radio is active has been sent, or will be in this step. *)
SentOrOnItsWay ==
    worker \in {"step", "await"} /\ n_ = N =>
        \A q \in requested : q.time >= TxEnable =>
            OnItsWay(q) \/ (\E s \in sent : s.robot = q.robot /\ s.time = q.time)

(* A step puts its messages on their way, when those of the last one have been sent. *)
LEMMA BuildStepSent ==
    ASSUME Inv, LogInv, OneRequest, SentOrOnItsWay, B!BuildStep, UNCHANGED gatewayVars
    PROVE  OneRequest' /\ SentOrOnItsWay'
  <1>1. Stepping /\ Table /\ FreshIffUnsent
    BY DEF B!BuildStep, Inv, Turn, Stepping, Underway, Taken, Answer, Closing, Over
  <1>2. /\ worker = "step" /\ worker' = "await" /\ toBridge = <<>>
        /\ UNCHANGED <<n_, sim_ns, toBridge, sent>>
    BY <1>1 DEF B!BuildStep, gatewayVars, Stepping
  <1>3. /\ \A q \in requested' \ requested :
              q.robot \in B!Sends /\ q.time = sim_ns /\ q.pose = robots[q.robot].pose
        /\ requested' \subseteq [robot : B!Ids, time : Nat, pose : B!Poses]
        /\ \A q \in requested : q.time < sim_ns /\ q.time \in Nat
    BY <1>1, <1>2, BuildStepRequests DEF Table, LogInv, RequestsPast
  <1>4. PICK m : toNs3' = <<m>> /\ \A i \in B!Sends : m.cmd[i + 1].send
    <2>1. toNs3 = <<>> /\ B!Sends \subseteq B!Ids
      BY <1>1 DEF Stepping, B!Sends
    <2> QED
      BY <1>1, <2>1, BuildStepMessage
  <1>5. OneRequest'
    BY <1>1, <1>3 DEF OneRequest, Table
  <1>6. SentOrOnItsWay'
    <2> SUFFICES ASSUME n_ = N, NEW q \in requested', q.time >= TxEnable
                 PROVE  OnItsWay(q)' \/ (\E s \in sent : s.robot = q.robot /\ s.time = q.time)
      BY <1>2 DEF SentOrOnItsWay
    <2>1. CASE q \in requested
      BY <1>2, <2>1 DEF SentOrOnItsWay, OnItsWay
    <2>2. CASE q \notin requested
      <3>1. toNs3' # <<>> /\ Head(toNs3') = m
        BY <1>4, OneElement
      <3> QED
        BY <1>2, <1>3, <1>4, <2>2, <3>1 DEF OnItsWay
    <2> QED
      BY <2>1, <2>2
  <1> QED
    BY <1>5, <1>6

(* ns-3 sends what the update asks for. *)
LEMMA DoUpdateSent ==
    ASSUME Inv, Gateway, OneRequest, SentOrOnItsWay, G!DoUpdate, UNCHANGED bridgeVars
    PROVE  OneRequest' /\ SentOrOnItsWay'
  <1>1. Taken /\ Table /\ now = sim_ns
    BY DEF G!DoUpdate, IsUpdate, Inv, Turn, Stepping, Underway, Taken, Answer, Closing, Over
  <1>2. sent' = sent \cup G!HandleTx /\ UNCHANGED <<n_, worker, sim_ns, requested>>
    BY DEF G!DoUpdate, bridgeVars
  <1>3. SentOrOnItsWay'
    <2> SUFFICES ASSUME worker \in {"step", "await"}, n_ = N,
                        NEW q \in requested, q.time >= TxEnable
                 PROVE  \E s \in sent' : s.robot = q.robot /\ s.time = q.time
      BY <1>2 DEF SentOrOnItsWay
    <2>1. CASE OnItsWay(q)
      <3>1. q.robot \in G!Robots
        BY <1>1 DEF Table, B!Ids, G!Robots
      <3>2. update.cmd[q.robot + 1].send /\ q.time = now
        BY <1>1, <2>1 DEF OnItsWay, Taken
      <3>3. [uid |-> nextUid + q.robot, robot |-> q.robot, time |-> now] \in G!HandleTx
        BY <3>1, <3>2 DEF G!HandleTx, G!Senders
      <3> QED
        BY <1>2, <3>2, <3>3
    <2>2. CASE ~OnItsWay(q)
      BY <1>2, <2>2 DEF SentOrOnItsWay
    <2> QED
      BY <2>1, <2>2
  <1> QED
    BY <1>2, <1>3 DEF OneRequest

(* The other steps of ns-3 leave the order where it is, or take it off the channel. *)
LEMMA SentHolds == Spec => [](OneRequest /\ SentOrOnItsWay)
  <1>1. Init => OneRequest /\ SentOrOnItsWay
    BY DEF Init, B!Init, OneRequest, SentOrOnItsWay
  <1>2. /\ Inv /\ Gateway /\ LogInv /\ OneRequest /\ SentOrOnItsWay /\ [Next]_vars
        => OneRequest' /\ SentOrOnItsWay'
    <2> SUFFICES ASSUME Inv, Gateway, LogInv, OneRequest, SentOrOnItsWay, [Next]_vars
                 PROVE  OneRequest' /\ SentOrOnItsWay'
      OBVIOUS
    <2>1. CASE B!BuildStep /\ UNCHANGED gatewayVars
      BY <2>1, BuildStepSent
    <2>2. CASE B!HandleReply /\ UNCHANGED gatewayVars
      <3>1. worker = "await" /\ toBridge # <<>> /\ UNCHANGED <<n_, requested, sent>>
        BY <2>2 DEF B!HandleReply, gatewayVars
      <3> QED
        BY <3>1 DEF OneRequest, SentOrOnItsWay, OnItsWay
    <2>3. CASE (B!Disconnected \/ B!Finish) /\ UNCHANGED gatewayVars
      BY <2>3 DEF B!Disconnected, B!Finish, OneRequest, SentOrOnItsWay
    <2>4. CASE G!DoUpdate /\ UNCHANGED bridgeVars
      BY <2>4, DoUpdateSent
    <2>5. CASE G!ReceiveUpdate /\ UNCHANGED bridgeVars
      <3>1. /\ toNs3 # <<>> /\ update' = Head(toNs3) /\ toNs3' = <<>>
            /\ UNCHANGED <<n_, worker, sim_ns, requested, sent, toBridge>>
        <4>1. PICK m : toNs3 = <<m>>
          BY <2>5 DEF G!ReceiveUpdate, Inv, Turn, Stepping, Underway, Taken, Answer,
                      Closing, Over
        <4> QED
          BY <2>5, <4>1, OneElement DEF G!ReceiveUpdate, bridgeVars
      <3> QED
        BY <3>1 DEF OneRequest, SentOrOnItsWay, OnItsWay
    <2>6. CASE G!ReceiveBye /\ UNCHANGED bridgeVars
      <3>1. worker' \notin {"step", "await"} /\ UNCHANGED requested
        <4>1. ASSUME Underway PROVE FALSE
          <5>1. PICK m : toNs3 = <<m>> /\ IsUpdate(m)
            BY <4>1 DEF Underway
          <5>2. m.time = sim_ns /\ sim_ns \in Nat /\ Head(toNs3) = m
            BY <5>1, OneElement DEF IsUpdate, Inv, Table
          <5> QED
            BY <2>6, <5>2 DEF G!ReceiveBye
        <4> QED
          BY <2>6, <4>1 DEF G!ReceiveBye, bridgeVars, Inv, Turn, Stepping, Underway,
                            Taken, Answer, Closing, Over
      <3> QED
        BY <3>1 DEF OneRequest, SentOrOnItsWay
    <2>7. CASE UNCHANGED <<n_, worker, sim_ns, requested, sent, update, toNs3, toBridge>>
      BY <2>7 DEF OneRequest, SentOrOnItsWay, OnItsWay
    <2>8. ASSUME NEW i \in B!Ids, PoseCallback(i) PROVE OneRequest' /\ SentOrOnItsWay'
      BY <2>7, <2>8 DEF PoseCallback, B!PoseCallback, gatewayVars
    <2>9. CASE Stop \/ UNCHANGED vars
      BY <2>7, <2>9 DEF Stop, B!Stop, vars, bridgeVars, gatewayVars
    <2>10. ASSUME NEW c \in inflight, G!HandleRx(c), UNCHANGED bridgeVars
           PROVE  OneRequest' /\ SentOrOnItsWay'
      BY <2>7, <2>10 DEF G!HandleRx, bridgeVars
    <2>11. CASE (G!Advance \/ G!AbortUpdate) /\ UNCHANGED bridgeVars
      BY <2>7, <2>11 DEF G!Advance, G!AbortUpdate, bridgeVars
    <2> QED
      BY <2>1, <2>2, <2>3, <2>4, <2>5, <2>6, <2>8, <2>9, <2>10, <2>11
         DEF Next, WorkerStep, Ns3Step, G!GatewayStep, Ended
  <1> QED
    BY <1>1, <1>2, TurnInvariant, GatewayHolds, LogInvariant, PTL DEF Spec

(***************************************************************************)
(* The two programs agree on what was sent: between two steps the messages *)
(* the bridge has counted and the transmissions from the warm-up on are as *)
(* many, if nothing is counted that ns-3 ignores.  So it is by default:    *)
(* both bounds are 2.1 s (bridge_node.cpp:44, sidewalk-robots.cc:1046).    *)
(***************************************************************************)
THEOREM CountedTransmitted ==
    ASSUME TxEnable <= Warmup
    PROVE  Spec => []CountedWasTransmitted
  <1>1. /\ Inv /\ Gateway /\ LogInv /\ Finite /\ Counts /\ OneRequest /\ SentOrOnItsWay
        => CountedWasTransmitted
    <2> SUFFICES ASSUME Inv, Gateway, LogInv, Finite, Counts, OneRequest, SentOrOnItsWay,
                        worker = "step", n_ = N
                 PROVE  sent_ = Cardinality({s \in sent : s.time >= Warmup})
      BY DEF CountedWasTransmitted
    <2> DEFINE T == {s \in sent : s.time >= Warmup}
               Tx(q) == CHOOSE s \in sent : s.robot = q.robot /\ s.time = q.time
               f == [q \in FromWarmup |-> Tx(q)]
    <2>1. ASSUME NEW q \in FromWarmup
          PROVE  Tx(q) \in sent /\ Tx(q).robot = q.robot /\ Tx(q).time = q.time
      <3>1. q \in requested /\ q.time \in Nat /\ q.time >= Warmup
        BY DEF FromWarmup, Inv, Table
      <3>2. q.time >= TxEnable
        BY <3>1, Constants
      <3>3. \E s \in sent : s.robot = q.robot /\ s.time = q.time
        BY <3>1, <3>2 DEF SentOrOnItsWay, OnItsWay
      <3> QED
        BY <3>3
    <2>2. f \in [FromWarmup -> T]
      BY <2>1 DEF FromWarmup
    <2>3. \A p, q \in FromWarmup : f[p] = f[q] => p = q
      BY <2>1 DEF OneRequest, FromWarmup
    <2>4. ASSUME NEW s \in T PROVE \E q \in FromWarmup : f[q] = s
      <3>1. PICK q \in requested : q.robot = s.robot /\ q.time = s.time
        BY DEF LogInv, Asked
      <3>2. q \in FromWarmup
        BY <3>1 DEF FromWarmup
      <3>3. Tx(q) = s
        BY <2>1, <3>1, <3>2 DEF LogInv, OneASend
      <3> QED
        BY <3>2, <3>3
    <2>5. ExistsBijection(FromWarmup, T)
      <3> HIDE DEF f, T
      <3> QED
        BY <2>2, <2>3, <2>4, Fun_IsBij DEF ExistsBijection
    <2>6. Cardinality(FromWarmup) = Cardinality(T)
      <3>1. IsFiniteSet(FromWarmup)
        BY FS_Subset DEF Finite, FromWarmup
      <3> QED
        BY <2>5, <3>1, FS_Bijection
    <2> QED
      BY <2>6 DEF Counts
  <1> QED
    BY <1>1, TurnInvariant, GatewayHolds, LogInvariant, AllFinite, CountsHold, SentHolds, PTL

=============================================================================
