------------------------- MODULE RobotGatewayProofs -------------------------
(***************************************************************************)
(* Proofs of the safety of RobotGateway, for every number of robots, every *)
(* schedule of receptions and every peer that keeps the protocol.          *)
(*                                                                         *)
(* Core is the inductive part everything rests on: the types, and how the  *)
(* table m_tx, the copies in the air and the history of transmissions      *)
(* relate.  Each property is then inductive relative to Core.              *)
(***************************************************************************)
EXTENDS RobotGateway, SequenceTheorems, TLAPS

(* m_tx holds transmissions that happened, as they happened. *)
TxIsSent == m_tx \subseteq sent

(* No transmission lies in the future. *)
Past == \A s \in sent : s.time <= now

(* The uids of the next update are unused. *)
BelowNextUid == \A s \in sent : s.uid < nextUid

(* A uid names one transmission: m_tx can be the map it is in the code. *)
UniqueUid == \A s, t \in sent : s.uid = t.uid => s = t

(* A copy in the air belongs to a transmission of another robot. *)
Flying == \A c \in inflight : \E s \in sent :
             s.uid = c.uid /\ s.time = c.since /\ s.robot # c.dst

(* The inductive invariant the theorems rest on. *)
Core ==
    /\ TypeOK
    /\ TxIsSent
    /\ Past
    /\ BelowNextUid
    /\ UniqueUid
    /\ Flying

-----------------------------------------------------------------------------
(* A latency in microseconds is a natural number. *)
LEMMA LatencyIsNat ==
    ASSUME NEW a \in Nat, NEW b \in Nat \ {0}
    PROVE  a \div b \in Nat
  OBVIOUS

(* The commands of an update, whatever the number of robots, form a sequence. *)
LEMMA CommandsAreSequences ==
    ASSUME NEW n \in Nat
    PROVE  Commands(n) \subseteq Seq(Command)
  BY SeqDef DEF Commands

(* Everything the peer may send is a message. *)
LEMMA PeerSendsMessages ==
    Updates \cup {Bye} \subseteq Messages
<1>1. Bye \in Messages
  BY EmptySeq DEF Bye, Messages
<1>2. Updates \subseteq Messages
  <2> SUFFICES ASSUME NEW n \in PeerRobots,
                      NEW m \in [time : {t \in 0 .. MaxTime : t > update.time},
                                 cmd : Commands(n)]
               PROVE  m \in Messages
    BY DEF Updates
  <2>1. n \in Nat
    BY GatewayAssumption
  <2>2. m.cmd \in Seq(Command)
    BY <2>1, CommandsAreSequences
  <2>3. m.time \in Nat
    BY GatewayAssumption
  <2> QED BY <2>2, <2>3 DEF Messages
<1> QED BY <1>1, <1>2

(* The robots that transmit are robots. *)
LEMMA SendersAreRobots == Senders \subseteq Robots
  BY DEF Senders

(* What the Tx trace records is well-formed and bears the uids of this update. *)
LEMMA HandleTxRecords ==
    ASSUME TypeOK
    PROVE  /\ HandleTx \subseteq TxRecords
           /\ \A r \in HandleTx : /\ r.time = now
                                  /\ nextUid <= r.uid /\ r.uid < nextUid + N
                                  /\ r.uid = nextUid + r.robot
<1> SUFFICES ASSUME NEW i \in Senders
             PROVE  LET r == [uid |-> nextUid + i, robot |-> i, time |-> now]
                    IN  /\ r \in TxRecords
                        /\ nextUid <= r.uid /\ r.uid < nextUid + N
  BY DEF HandleTx
<1>1. i \in Robots
  BY SendersAreRobots
<1> QED BY <1>1, GatewayAssumption DEF TypeOK, TxRecords, Robots

-----------------------------------------------------------------------------
(* Core holds before the first update. *)
LEMMA CoreInit == Init => Core
<1> SUFFICES ASSUME Init PROVE Core
  OBVIOUS
<1>1. NoUpdate \in Messages
  BY EmptySeq DEF NoUpdate, Messages
<1>2. TypeOK
  BY <1>1, GatewayAssumption, EmptySeq DEF Init, TypeOK, Responses
<1> QED BY <1>2 DEF Init, Core, TxIsSent, Past, BelowNextUid, UniqueUid, Flying

(* DoUpdate: new transmissions get new uids, so the table stays a function. *)
LEMMA CoreDoUpdate ==
    ASSUME Core, DoUpdate
    PROVE  Core'
<1> USE DEF Core
<1>1. HandleTx \subseteq TxRecords
  BY HandleTxRecords
<1>2. \A r \in HandleTx : r.time = now /\ nextUid <= r.uid /\ r.uid < nextUid + N
                          /\ r.uid = nextUid + r.robot
  BY HandleTxRecords
<1>3. Copies \subseteq [uid : Nat, dst : Robots, since : Nat]
  <2> SUFFICES ASSUME NEW i \in Senders, NEW d \in Robots
               PROVE  [uid |-> nextUid + i, dst |-> d, since |-> now]
                          \in [uid : Nat, dst : Robots, since : Nat]
    BY DEF Copies
  <2> QED BY SendersAreRobots DEF TypeOK, Robots
<1>4. TypeOK'
  <2>1. m_deliveries' \in Responses
    BY DEF DoUpdate, Responses
  <2>2. toBridge' \in Seq(Responses)
    BY DEF DoUpdate, TypeOK, SendResponse
  <2>3. position' \in [Robots -> Poses]
    <3> SUFFICES ASSUME NEW i \in Robots
                 PROVE  update.cmd[i + 1].pose \in Poses
      BY DEF DoUpdate
    <3>1. update.cmd \in Seq(Command) /\ i + 1 \in 1 .. Len(update.cmd)
      BY GatewayAssumption DEF TypeOK, Messages, DoUpdate, Robots
    <3>2. update.cmd[i + 1] \in Command
      BY <3>1, ElementOfSeq
    <3> QED BY <3>2 DEF Command
  <2>4. reported' \subseteq Nat \X Robots
    BY DEF DoUpdate, TypeOK, Receptions, Responses
  <2>5. m_tx' \subseteq TxRecords /\ sent' \subseteq TxRecords
    BY <1>1 DEF DoUpdate, TypeOK, Retained
  <2>6. nextUid' \in Nat
    BY GatewayAssumption DEF DoUpdate, TypeOK
  <2>7. inflight' \subseteq [uid : Nat, dst : Robots, since : Nat]
    BY <1>3 DEF DoUpdate, TypeOK
  <2> QED BY <2>1, <2>2, <2>3, <2>4, <2>5, <2>6, <2>7 DEF DoUpdate, TypeOK
<1>5. TxIsSent'
  BY DEF DoUpdate, TxIsSent, Retained
<1>6. Past'
  BY <1>2 DEF DoUpdate, Past, TypeOK
<1>7. BelowNextUid'
  BY <1>2, GatewayAssumption DEF DoUpdate, BelowNextUid, TypeOK, TxRecords
<1>8. UniqueUid'
  <2> SUFFICES ASSUME NEW s \in sent', NEW t \in sent', s.uid = t.uid
               PROVE  s = t
    BY DEF UniqueUid
  <2>1. CASE s \in sent /\ t \in sent
    BY <2>1 DEF UniqueUid
  <2>2. CASE s \in HandleTx /\ t \in HandleTx
    <3>1. PICK i \in Senders : s = [uid |-> nextUid + i, robot |-> i, time |-> now]
      BY <2>2 DEF HandleTx
    <3>2. PICK j \in Senders : t = [uid |-> nextUid + j, robot |-> j, time |-> now]
      BY <2>2 DEF HandleTx
    <3>3. i \in Int /\ j \in Int /\ nextUid \in Int
      BY SendersAreRobots DEF Robots, TypeOK
    <3>4. i = j
      BY <3>1, <3>2, <3>3
    <3> QED BY <3>1, <3>2, <3>4
  <2>3. s.uid \in Nat /\ t.uid \in Nat /\ nextUid \in Nat
    BY <1>1 DEF DoUpdate, TypeOK, TxRecords
  <2>4. ~(s \in sent /\ t \in HandleTx) /\ ~(t \in sent /\ s \in HandleTx)
    BY <2>3, <1>2 DEF BelowNextUid
  <2> QED BY <2>1, <2>2, <2>4 DEF DoUpdate
<1>9. Flying'
  <2> SUFFICES ASSUME NEW c \in inflight'
               PROVE  \E s \in sent' : s.uid = c.uid /\ s.time = c.since /\ s.robot # c.dst
    BY DEF Flying
  <2>1. CASE c \in inflight
    BY <2>1 DEF Flying, DoUpdate
  <2>2. CASE c \in Copies
    <3>1. PICK i \in Senders, d \in Robots :
              i # d /\ c = [uid |-> nextUid + i, dst |-> d, since |-> now]
      BY <2>2 DEF Copies
    <3>2. [uid |-> nextUid + i, robot |-> i, time |-> now] \in sent'
      BY DEF DoUpdate, HandleTx
    <3> QED BY <3>1, <3>2
  <2> QED BY <2>1, <2>2 DEF DoUpdate
<1> QED BY <1>4, <1>5, <1>6, <1>7, <1>8, <1>9

(* HandleRx: a copy names a transmission of the past, so its latency is one. *)
LEMMA CoreHandleRx ==
    ASSUME Core, NEW c \in inflight, HandleRx(c)
    PROVE  Core'
<1> USE DEF Core
<1>1. c \in [uid : Nat, dst : Robots, since : Nat]
  BY DEF TypeOK
<1>2. {Delivery(c, r) : r \in Matches(c)}
          \subseteq [src : Robots, lat : Nat, uid : Nat, at : Nat]
  <2> SUFFICES ASSUME NEW r \in Matches(c)
               PROVE  Delivery(c, r) \in [src : Robots, lat : Nat, uid : Nat, at : Nat]
    OBVIOUS
  <2>1. r \in sent /\ r \in TxRecords
    BY DEF Matches, TxIsSent, TypeOK
  <2>2. now - r.time \in Nat
    BY <2>1 DEF Past, TypeOK, TxRecords
  <2>3. (now - r.time) \div NsPerUs \in Nat
    BY <2>2, LatencyIsNat, GatewayAssumption
  <2> QED BY <2>1, <2>3, <1>1 DEF Delivery, TypeOK, TxRecords
<1>3. m_deliveries' \in Responses
  BY <1>1, <1>2 DEF HandleRx, TypeOK, Responses, Joined
<1>4. TypeOK'
  BY <1>1, <1>3 DEF HandleRx, TypeOK
<1> QED BY <1>4 DEF HandleRx, TxIsSent, Past, BelowNextUid, UniqueUid, Flying

(* Core is inductive: one step of the gateway, its radio or its peer keeps it. *)
LEMMA CoreNext == Core /\ [Next]_vars => Core'
<1> SUFFICES ASSUME Core, [Next]_vars PROVE Core'
  OBVIOUS
<1> USE DEF Core
<1>1. CASE ReceiveUpdate
  <2>1. toNs3 \in Seq(Messages) /\ toNs3 # <<>>
    BY <1>1 DEF ReceiveUpdate, TypeOK
  <2>2. Head(toNs3) \in Messages /\ Tail(toNs3) \in Seq(Messages)
    BY <2>1, HeadTailProperties
  <2> QED BY <1>1, <2>2 DEF ReceiveUpdate, TypeOK, TxIsSent, Past, BelowNextUid,
                             UniqueUid, Flying
<1>2. CASE ReceiveBye
  <2>1. toNs3 \in Seq(Messages) /\ toNs3 # <<>>
    BY <1>2 DEF ReceiveBye, TypeOK
  <2>2. Tail(toNs3) \in Seq(Messages)
    BY <2>1, HeadTailProperties
  <2> QED BY <1>2, <2>2 DEF ReceiveBye, TypeOK, TxIsSent, Past, BelowNextUid,
                             UniqueUid, Flying
<1>3. CASE Advance
  <2>1. now' \in Nat /\ now < now'
    BY <1>3 DEF Advance, TypeOK, Messages
  <2>2. TypeOK'
    BY <1>3, <2>1 DEF Advance, TypeOK
  <2>3. Past'
    BY <1>3, <2>1 DEF Advance, Past, TypeOK, TxRecords
  <2> QED BY <1>3, <2>2, <2>3 DEF Advance, TxIsSent, BelowNextUid, UniqueUid, Flying
<1>4. CASE DoUpdate
  BY <1>4, CoreDoUpdate
<1>5. CASE AbortUpdate
  BY <1>5 DEF AbortUpdate, TypeOK, TxIsSent, Past, BelowNextUid, UniqueUid, Flying
<1>6. ASSUME NEW c \in inflight, HandleRx(c) PROVE Core'
  BY <1>6, CoreHandleRx
<1>7. CASE PeerReply
  <2>1. Tail(toBridge) \in Seq(Responses)
    BY <1>7, HeadTailProperties DEF PeerReply, TypeOK
  <2> QED BY <1>7, <2>1 DEF PeerReply, gatewayVars, TypeOK, TxIsSent, Past, BelowNextUid,
                             UniqueUid, Flying
<1>8. CASE PeerSend
  <2>1. toNs3' \in Seq(Messages)
    <3>1. PICK m \in Messages : toNs3' = <<m>>
      BY <1>8, PeerSendsMessages DEF PeerSend
    <3> QED BY <3>1
  <2> QED BY <1>8, <2>1 DEF PeerSend, gatewayVars, TypeOK, TxIsSent, Past, BelowNextUid,
                             UniqueUid, Flying
<1>9. CASE UNCHANGED vars
  BY <1>9 DEF vars, gatewayVars, TypeOK, TxIsSent, Past, BelowNextUid, UniqueUid, Flying
<1> QED BY <1>1, <1>2, <1>3, <1>4, <1>5, <1>6, <1>7, <1>8, <1>9
        DEF Next, GatewayStep, Ended

(* Every variable keeps its type, and Core holds, in every reachable state. *)
THEOREM CoreInvariant == Spec => []Core
  BY CoreInit, CoreNext, PTL DEF Spec

(***************************************************************************)
(* Type correctness of the gateway: in particular no latency is negative,  *)
(* and an update with enough fields moves every robot to a real pose.      *)
(***************************************************************************)
THEOREM TypeCorrect == Spec => []TypeOK
<1>1. Core => TypeOK
  BY DEF Core
<1> QED BY <1>1, CoreInvariant, PTL

-----------------------------------------------------------------------------
(***************************************************************************)
(* Whatever reaches a robot within Retention of its transmission finds it  *)
(* in m_tx: pruning loses no latency that is still young.                  *)
(***************************************************************************)
THEOREM Remembered == Spec => []RememberedForASecond
<1>1. Init => RememberedForASecond
  BY DEF Init, RememberedForASecond
<1>2. Core /\ RememberedForASecond /\ [Next]_vars => RememberedForASecond'
  <2> SUFFICES ASSUME Core, RememberedForASecond, [Next]_vars
               PROVE  RememberedForASecond'
    OBVIOUS
  <2>1. CASE DoUpdate
    <3> SUFFICES ASSUME NEW s \in sent', now' - s.time <= Retention
                 PROVE  s \in m_tx'
      BY DEF RememberedForASecond
    <3>1. s \in TxRecords /\ now' = now
      BY <2>1, CoreDoUpdate DEF Core, TypeOK, DoUpdate
    <3>2. s \in m_tx \cup HandleTx
      BY <2>1, <3>1 DEF DoUpdate, RememberedForASecond
    <3>3. ~(now - s.time > Retention)
      BY <3>1, GatewayAssumption DEF Core, TypeOK, TxRecords
    <3> QED BY <2>1, <3>2, <3>3 DEF DoUpdate, Retained
  <2>2. CASE Advance
    <3>1. now' \in Nat /\ now <= now'
      BY <2>2 DEF Advance, Core, TypeOK, Messages
    <3> QED BY <2>2, <3>1, GatewayAssumption
            DEF Advance, RememberedForASecond, Core, TypeOK, TxRecords
  <2>3. CASE UNCHANGED <<now, sent, m_tx>>
    BY <2>3 DEF RememberedForASecond
  <2> QED BY <2>1, <2>2, <2>3 DEF Next, GatewayStep, ReceiveUpdate, ReceiveBye, AbortUpdate,
             HandleRx, PeerReply, PeerSend, Ended, vars, gatewayVars
<1> QED BY <1>1, <1>2, CoreInvariant, PTL DEF Spec

(***************************************************************************)
(* A delivery names the true sender and the true latency of its packet.    *)
(***************************************************************************)
THEOREM DeliveriesAccurate == Spec => []Accurate
<1>1. Init => Accurate
  BY DEF Init, Accurate
<1>2. Core /\ Accurate /\ [Next]_vars => Accurate'
  <2> SUFFICES ASSUME Core, Accurate, [Next]_vars,
                      NEW d \in Robots, NEW e \in m_deliveries'[d]
               PROVE  \E s \in sent' : /\ s.uid = e.uid
                                       /\ s.robot = e.src
                                       /\ e.src # d
                                       /\ s.time < e.at /\ e.at <= now'
                                       /\ e.lat = (e.at - s.time) \div NsPerUs
    BY DEF Accurate
  <2> USE DEF Core
  <2>1. CASE DoUpdate
    BY <2>1 DEF DoUpdate
  <2>2. ASSUME NEW c \in inflight, HandleRx(c), e \notin m_deliveries[d]
        PROVE  \E s \in sent' : /\ s.uid = e.uid
                                /\ s.robot = e.src
                                /\ e.src # d
                                /\ s.time < e.at /\ e.at <= now'
                                /\ e.lat = (e.at - s.time) \div NsPerUs
    <3>1. d = c.dst /\ \E r \in Matches(c) : e = Delivery(c, r)
      BY <2>2 DEF HandleRx, Joined, TypeOK, Responses
    <3>2. PICK r \in Matches(c) : e = Delivery(c, r)
      BY <3>1
    <3>3. PICK s \in sent : s.uid = c.uid /\ s.time = c.since /\ s.robot # c.dst
      BY DEF Flying
    <3>4. r = s
      BY <3>3 DEF Matches, TxIsSent, UniqueUid
    <3>5. s.time < now /\ now \in Nat
      BY <2>2, <3>3 DEF HandleRx, TypeOK
    <3> QED BY <2>2, <3>1, <3>2, <3>3, <3>4, <3>5 DEF HandleRx, Delivery
  <2>3. CASE e \in m_deliveries[d] /\ sent' = sent /\ now <= now' /\ now \in Nat /\ now' \in Nat
    <3>1. e \in [src : Robots, lat : Nat, uid : Nat, at : Nat]
      BY <2>3 DEF TypeOK, Responses
    <3> QED BY <2>3, <3>1 DEF Accurate
  <2>4. CASE Advance
    <3>1. now' \in Nat /\ now <= now'
      BY <2>4 DEF Advance, TypeOK, Messages
    <3> QED BY <2>3, <2>4, <3>1 DEF Advance, TypeOK
  <2>5. ASSUME NEW c \in inflight, HandleRx(c)
        PROVE  now' = now /\ sent' = sent
    BY <2>5 DEF HandleRx
  <2>6. CASE UNCHANGED <<now, sent, m_deliveries>>
    BY <2>3, <2>6 DEF TypeOK
  <2>7. now \in Nat /\ now <= now
    BY DEF TypeOK
  <2> QED BY <2>1, <2>2, <2>3, <2>4, <2>5, <2>6, <2>7
          DEF Next, GatewayStep, ReceiveUpdate, ReceiveBye, AbortUpdate,
              PeerReply, PeerSend, Ended, vars, gatewayVars
<1> QED BY <1>1, <1>2, CoreInvariant, PTL DEF Spec

(***************************************************************************)
(* Every response empties m_deliveries and prunes m_tx.                    *)
(***************************************************************************)
THEOREM Bounded == Spec => []NothingLingers
<1>1. Init => NothingLingers
  BY DEF Init, NothingLingers
<1>2. Core /\ NothingLingers /\ [Next]_vars => NothingLingers'
  <2> SUFFICES ASSUME Core, NothingLingers, [Next]_vars
               PROVE  NothingLingers'
    OBVIOUS
  <2>1. CASE DoUpdate
    <3>1. \A r \in m_tx' : now' - r.time <= Retention
      <4> SUFFICES ASSUME NEW r \in m_tx' PROVE now' - r.time <= Retention
        OBVIOUS
      <4>1. r \in TxRecords /\ ~(now - r.time > Retention)
        BY <2>1, CoreDoUpdate DEF Core, TypeOK, DoUpdate, Retained
      <4> QED BY <2>1, <4>1, GatewayAssumption DEF DoUpdate, Core, TypeOK, TxRecords
    <3> QED BY <2>1, <3>1 DEF DoUpdate, NothingLingers
  <2>2. CASE phase' # "wait"
    BY <2>2 DEF NothingLingers
  <2>3. CASE UNCHANGED <<now, phase, m_tx, m_deliveries>>
    BY <2>3 DEF NothingLingers
  <2> QED BY <2>1, <2>2, <2>3 DEF Next, GatewayStep, ReceiveUpdate, ReceiveBye, Advance,
             AbortUpdate, HandleRx, PeerReply, PeerSend, Ended, vars, gatewayVars
<1> QED BY <1>1, <1>2, CoreInvariant, PTL DEF Spec

-----------------------------------------------------------------------------
(* The copies there must be: one of each packet for each other robot. *)
Expected == {<<p[1].uid, p[2]>> : p \in {q \in sent \X Robots : q[1].robot # q[2]}}

(* The copies of the packets of one update. *)
NewPairs == {<<c.uid, c.dst>> : c \in Copies}

(* What membership in Expected gives. *)
LEMMA ExpectedPairs ==
    ASSUME NEW s \in sent, NEW d \in Robots, s.robot # d
    PROVE  <<s.uid, d>> \in Expected
<1>1. <<s, d>> \in {q \in sent \X Robots : q[1].robot # q[2]}
  OBVIOUS
<1> QED BY <1>1 DEF Expected

(* What puts a pair into Expected. *)
LEMMA PairsExpected ==
    ASSUME NEW x \in Expected
    PROVE  \E s \in sent, d \in Robots : s.robot # d /\ x = <<s.uid, d>>
  BY DEF Expected

(* An update adds exactly the new pairs to what must be accounted for. *)
LEMMA ExpectedGrows ==
    ASSUME Core, DoUpdate
    PROVE  Expected' = Expected \cup NewPairs
<1>1. ASSUME NEW x \in Expected' PROVE x \in Expected \cup NewPairs
  <2>1. PICK s \in sent', d \in Robots : s.robot # d /\ x = <<s.uid, d>>
    BY <1>1 DEF Expected
  <2>2. CASE s \in sent
    BY <2>1, <2>2, ExpectedPairs
  <2>3. CASE s \in HandleTx
    <3>1. PICK i \in Senders : s = [uid |-> nextUid + i, robot |-> i, time |-> now]
      BY <2>3 DEF HandleTx
    <3>2. [uid |-> nextUid + i, dst |-> d, since |-> now] \in Copies
      <4>1. <<i, d>> \in {q \in Senders \X Robots : q[1] # q[2]}
        BY <2>1, <3>1
      <4> QED BY <4>1 DEF Copies
    <3> QED BY <2>1, <3>1, <3>2 DEF NewPairs
  <2> QED BY <2>2, <2>3 DEF DoUpdate
<1>2. ASSUME NEW x \in Expected PROVE x \in Expected'
  <2>1. PICK s \in sent, d \in Robots : s.robot # d /\ x = <<s.uid, d>>
    BY <1>2, PairsExpected
  <2>2. <<s, d>> \in {q \in sent' \X Robots : q[1].robot # q[2]}
    BY <2>1 DEF DoUpdate
  <2> QED BY <2>1, <2>2 DEF Expected
<1>3. ASSUME NEW x \in NewPairs PROVE x \in Expected'
  <2>1. PICK i \in Senders, d \in Robots : i # d /\ x = <<nextUid + i, d>>
    BY <1>3 DEF NewPairs, Copies
  <2>2. [uid |-> nextUid + i, robot |-> i, time |-> now] \in sent'
    BY DEF DoUpdate, HandleTx
  <2>3. <<[uid |-> nextUid + i, robot |-> i, time |-> now], d>>
            \in {q \in sent' \X Robots : q[1].robot # q[2]}
    BY <2>1, <2>2
  <2> QED BY <2>1, <2>3 DEF Expected
<1> QED BY <1>1, <1>2, <1>3

(* No pair of this update was there before it. *)
LEMMA NewPairsAreNew ==
    ASSUME Core
    PROVE  NewPairs \cap Expected = {}
<1> SUFFICES ASSUME NEW x \in NewPairs, x \in Expected PROVE FALSE
  OBVIOUS
<1>1. PICK i \in Senders, d \in Robots : x = <<nextUid + i, d>>
  BY DEF NewPairs, Copies
<1>2. PICK s \in sent : x[1] = s.uid
  BY PairsExpected
<1>3. s.uid \in Nat /\ s.uid < nextUid /\ nextUid \in Nat /\ i \in Nat
  BY SendersAreRobots DEF Core, BelowNextUid, TypeOK, TxRecords, Robots
<1> QED BY <1>1, <1>2, <1>3

(* A reception takes one pair off the air, and no other. *)
LEMMA OnAirShrinks ==
    ASSUME Core, NEW c \in inflight, HandleRx(c)
    PROVE  OnAir' = OnAir \ {<<c.uid, c.dst>>}
<1>1. ASSUME NEW b \in inflight, b.uid = c.uid, b.dst = c.dst
      PROVE  b = c
  <2>1. b.since = c.since
    BY <1>1 DEF Core, Flying, UniqueUid
  <2>2. /\ b \in [uid : Nat, dst : Robots, since : Nat]
        /\ c \in [uid : Nat, dst : Robots, since : Nat]
    BY DEF Core, TypeOK
  <2> QED BY <1>1, <2>1, <2>2
<1>2. ASSUME NEW x \in OnAir' PROVE x \in OnAir \ {<<c.uid, c.dst>>}
  <2>1. PICK b \in inflight \ {c} : x = <<b.uid, b.dst>>
    BY <1>2 DEF OnAir, HandleRx
  <2> QED BY <1>1, <2>1 DEF OnAir
<1>3. ASSUME NEW x \in OnAir \ {<<c.uid, c.dst>>} PROVE x \in OnAir'
  <2>1. PICK b \in inflight : x = <<b.uid, b.dst>>
    BY <1>3 DEF OnAir
  <2> QED BY <1>3, <2>1 DEF OnAir, HandleRx
<1> QED BY <1>2, <1>3

(* A reception puts its pair into m_deliveries or into dropped. *)
LEMMA ReceptionsGrow ==
    ASSUME Core, NEW c \in inflight, HandleRx(c)
    PROVE  \/ /\ Receptions(m_deliveries)' = Receptions(m_deliveries) \cup {<<c.uid, c.dst>>}
              /\ dropped' = dropped
           \/ /\ Receptions(m_deliveries)' = Receptions(m_deliveries)
              /\ dropped' = dropped \cup {<<c.uid, c.dst>>}
<1>1. c.dst \in Robots /\ m_deliveries \in Responses
  BY DEF Core, TypeOK
<1>2. CASE Matches(c) = {}
  <2>1. {Delivery(c, r) : r \in Matches(c)} = {}
    BY <1>2
  <2>2. m_deliveries' = [m_deliveries EXCEPT ![c.dst] = m_deliveries[c.dst]]
    BY <2>1 DEF HandleRx, Joined
  <2>3. m_deliveries' = m_deliveries
    BY <1>1, <2>2 DEF Responses
  <2>4. Receptions(m_deliveries)' = Receptions(m_deliveries)
    BY <2>3 DEF Receptions
  <2>5. dropped' = dropped \cup {<<c.uid, c.dst>>}
    BY <1>2 DEF HandleRx
  <2> QED BY <2>4, <2>5
<1>3. CASE Matches(c) # {}
  <2>1. \A d \in Robots : m_deliveries'[d] =
           IF d = c.dst THEN m_deliveries[d] \cup {Delivery(c, r) : r \in Matches(c)}
                        ELSE m_deliveries[d]
    BY <1>1 DEF HandleRx, Joined, Responses
  <2>2. \A r \in Matches(c) : Delivery(c, r).uid = c.uid
    BY DEF Delivery
  <2>3. PICK r0 : r0 \in Matches(c)
    BY <1>3
  <2>4. ASSUME NEW x \in Receptions(m_deliveries)'
        PROVE  x \in Receptions(m_deliveries) \cup {<<c.uid, c.dst>>}
    <3>1. PICK d \in Robots : \E e \in m_deliveries'[d] : x = <<e.uid, d>>
      BY <2>4 DEF Receptions
    <3>2. PICK e \in m_deliveries'[d] : x = <<e.uid, d>>
      BY <3>1
    <3>3. CASE e \in m_deliveries[d]
      BY <3>2, <3>3 DEF Receptions
    <3>4. CASE e \notin m_deliveries[d]
      <4>1. d = c.dst /\ e \in {Delivery(c, r) : r \in Matches(c)}
        BY <2>1, <3>4
      <4>2. PICK r \in Matches(c) : e = Delivery(c, r)
        BY <4>1
      <4>3. e.uid = c.uid
        BY <2>2, <4>2
      <4> QED BY <3>2, <4>1, <4>3
    <3> QED BY <3>3, <3>4
  <2>5. ASSUME NEW x \in Receptions(m_deliveries)
        PROVE  x \in Receptions(m_deliveries)'
    <3>1. PICK d \in Robots : \E e \in m_deliveries[d] : x = <<e.uid, d>>
      BY <2>5 DEF Receptions
    <3>2. m_deliveries[d] \subseteq m_deliveries'[d]
      BY <2>1
    <3> QED BY <3>1, <3>2 DEF Receptions
  <2>6. <<c.uid, c.dst>> \in Receptions(m_deliveries)'
    <3>1. Delivery(c, r0) \in m_deliveries'[c.dst]
      BY <1>1, <2>1, <2>3
    <3> QED BY <1>1, <2>2, <2>3, <3>1 DEF Receptions
  <2>7. dropped' = dropped
    BY <1>3 DEF HandleRx
  <2> QED BY <2>4, <2>5, <2>6, <2>7
<1> QED BY <1>2, <1>3

(***************************************************************************)
(* No reception is lost or told twice, for any number of robots and any    *)
(* length of run.                                                          *)
(***************************************************************************)
THEOREM ToldExactlyOnce == Spec => []ExactlyOnce
<1>1. Init => ExactlyOnce
  BY DEF Init, ExactlyOnce, OnAir, Receptions
<1>2. Core /\ ExactlyOnce /\ [Next]_vars => ExactlyOnce'
  <2> SUFFICES ASSUME Core, ExactlyOnce, [Next]_vars
               PROVE  ExactlyOnce'
    OBVIOUS
  <2>1. /\ OnAir \cup Receptions(m_deliveries) \cup reported \cup dropped = Expected
        /\ OnAir \cap (Receptions(m_deliveries) \cup reported \cup dropped) = {}
        /\ Receptions(m_deliveries) \cap (reported \cup dropped) = {}
        /\ reported \cap dropped = {}
    BY DEF ExactlyOnce, Expected
  <2>2. CASE DoUpdate
    <3>1. Expected' = Expected \cup NewPairs /\ NewPairs \cap Expected = {}
      BY <2>2, ExpectedGrows, NewPairsAreNew
    <3>2. OnAir' = OnAir \cup NewPairs
      BY <2>2 DEF OnAir, NewPairs, DoUpdate
    <3>3. Receptions(m_deliveries)' = {}
      BY <2>2 DEF DoUpdate, Receptions
    <3>4. reported' = reported \cup Receptions(m_deliveries) /\ dropped' = dropped
      BY <2>2 DEF DoUpdate
    <3>5. /\ OnAir' \cup Receptions(m_deliveries)' \cup reported' \cup dropped' = Expected'
          /\ OnAir' \cap (Receptions(m_deliveries)' \cup reported' \cup dropped') = {}
          /\ Receptions(m_deliveries)' \cap (reported' \cup dropped') = {}
          /\ reported' \cap dropped' = {}
      BY <2>1, <3>1, <3>2, <3>3, <3>4
    <3> QED BY <3>5 DEF ExactlyOnce, Expected
  <2>3. ASSUME NEW c \in inflight, HandleRx(c) PROVE ExactlyOnce'
    <3>1. OnAir' = OnAir \ {<<c.uid, c.dst>>} /\ <<c.uid, c.dst>> \in OnAir
      BY <2>3, OnAirShrinks DEF OnAir
    <3>2. reported' = reported /\ Expected' = Expected
      BY <2>3 DEF HandleRx, Expected
    <3>3. \/ /\ Receptions(m_deliveries)' = Receptions(m_deliveries) \cup {<<c.uid, c.dst>>}
             /\ dropped' = dropped
          \/ /\ Receptions(m_deliveries)' = Receptions(m_deliveries)
             /\ dropped' = dropped \cup {<<c.uid, c.dst>>}
      BY <2>3, ReceptionsGrow
    <3>4. /\ OnAir' \cup Receptions(m_deliveries)' \cup reported' \cup dropped' = Expected'
          /\ OnAir' \cap (Receptions(m_deliveries)' \cup reported' \cup dropped') = {}
          /\ Receptions(m_deliveries)' \cap (reported' \cup dropped') = {}
          /\ reported' \cap dropped' = {}
      BY <2>1, <3>1, <3>2, <3>3
    <3> QED BY <3>4 DEF ExactlyOnce, Expected
  <2>4. CASE UNCHANGED <<inflight, m_deliveries, reported, dropped, sent>>
    BY <2>4 DEF ExactlyOnce, OnAir, Receptions
  <2> QED BY <2>2, <2>3, <2>4 DEF Next, GatewayStep, ReceiveUpdate, ReceiveBye, Advance,
             AbortUpdate, PeerReply, PeerSend, Ended, vars, gatewayVars
<1> QED BY <1>1, <1>2, CoreInvariant, PTL DEF Spec

=============================================================================
