---------------------------- MODULE SweepProofs ----------------------------
(***************************************************************************)
(* For every set of options, every number of robots, of rows and of sweeps *)
(* and wherever the process is killed: what a sweep says of a job is true  *)
(* of its files, and the run schedules its clients as its options say.     *)
(*                                                                         *)
(* That "done" is true of the files needs where every row is while main()  *)
(* runs (Progress): in the cache or in the database, until the caches are  *)
(* emptied, and only then in the KPI tables.  That a database with tables  *)
(* is complete for good (Files) needs in turn that a standalone job with a *)
(* database is never started, so that no process opens one afresh.  The    *)
(* schedule's end needs what each client was given by the loop over the    *)
(* robots (Clients).  What the MAC is given of the window (Window) says    *)
(* that it fits, and why a run that the MAC has aborted has a database.    *)
(***************************************************************************)
EXTENDS Sweep, TLAPS

(* The parts of main(): those before the clients, and those after the files. *)
Setup == {"defaults", "checks", "devices", "sidelink", "bearers"}
Output == {"prepare", "run", "caches", "kpis", "exit", "end"}
Phases == Setup \cup {"clients", "output", "abort"} \cup Output

Macs == [t1 : Int, t2 : Int, rri : Int, pdb : Int]

Memory ==
    [pc : Phases, rri : Int, t2 : Int, mac : Macs,
     start : Seq(Int), stop : Seq(Int), realAppStart : Int, txEnable : Int,
     simStop : Int, traced : Int, cached : Int, sensed : Int]

(* The types; times and counts may be any integers. *)
TypeInv ==
    /\ opt \in Options /\ jitter \in [Robots -> Jitters]
    /\ mem \in Memory
    /\ db \in [made : BOOLEAN, rows : Int, kpis : Int] /\ csv \in Int
    /\ job \in {"none", "running", "skipped", "done", "failed"}
    /\ done \in BOOLEAN /\ kills \in Nat /\ sweeps \in Nat

(* What the loop over the robots gives client i. *)
StartOf(i) == opt.activation + IF opt.cosim THEN 0 ELSE jitter[i]
First(i) == IF opt.cosim THEN StartOf(i) ELSE StartOf(i) + opt.msgPeriod

(* The clients that are installed, and the times computed from them. *)
Clients ==
    /\ Len(mem.start) <= NumRobots /\ Len(mem.stop) = Len(mem.start)
    /\ mem.pc \in Setup => Len(mem.start) = 0
    /\ mem.pc \in Output \cup {"output"} => Len(mem.start) = NumRobots
    /\ \A i \in 1 .. Len(mem.start) :
          /\ mem.start[i] = StartOf(i)
          /\ ~opt.cosim => mem.stop[i] = First(i) + opt.simTime
    /\ Len(mem.start) > 0 => mem.realAppStart = First(Len(mem.start))
    /\ mem.simStop # 0 =>
          /\ ~opt.cosim /\ mem.pc \in Output \cup {"abort"}
          /\ Len(mem.start) = NumRobots /\ mem.simStop = SimStopTime

(* What the MAC is given of the selection window. *)
Window ==
    /\ mem.pc # "defaults" => mem.rri = Rri /\ mem.t2 = ClampedT2
    /\ mem.pc \in {"sidelink", "bearers"} =>
          mem.mac.t1 = T1OfMac /\ mem.mac.t2 = ClampedT2
    /\ mem.pc \in {"clients", "output"} \cup Output => mem.mac = GivenWindow
    /\ mem.mac.rri # 0 =>
          /\ mem.pc \in {"clients", "output", "abort"} \cup Output
          /\ mem.mac = GivenWindow

(* The rows of a running process are in its cache and its database. *)
Rows == db.rows + mem.cached = mem.traced /\ db.kpis = -1

(* How far the output of a running process is. *)
Progress ==
    /\ mem.pc \notin Output \cup {"abort"} =>
          /\ mem.traced = 0 /\ mem.cached = 0 /\ mem.sensed = 0
          /\ ~opt.cosim => ~db.made
    /\ mem.pc = "abort" /\ ~opt.cosim /\ db.made => BadWindow /\ db.kpis = -1
    /\ mem.pc \in Output => db.made /\ mem.traced <= Packets
    /\ mem.pc \in {"prepare", "run", "caches"} => Rows
    /\ mem.pc = "prepare" => mem.traced = 0 /\ mem.sensed = 0
    /\ mem.pc \in {"caches", "kpis", "exit", "end"} =>
          mem.traced = Packets /\ mem.sensed = SensingRows
    /\ mem.pc \in {"kpis", "exit", "end"} => db.rows = Packets
    /\ mem.pc = "kpis" => db.kpis = -1
    /\ mem.pc \in {"exit", "end"} => db.kpis = IF opt.cosim THEN -1 ELSE Packets
    /\ mem.pc = "end" => csv = SensingRows

(* What the scripts have said of the files. *)
Files ==
    /\ ~db.made => db.kpis = -1
    /\ db.kpis # -1 => ~opt.cosim /\ CompleteDatabase
    /\ job = "done" => csv = SensingRows /\ (opt.cosim \/ CompleteDatabase)
    /\ ~opt.cosim /\ done => job # "running" /\ csv = SensingRows /\ CompleteDatabase
    /\ ~opt.cosim /\ kills = 0 /\ ~BadWindow /\ db.made /\ job # "running" =>
          CompleteDatabase
    /\ kills = 0 /\ db.kpis # -1 /\ job # "running" => csv = SensingRows
    /\ job = "skipped" => ~opt.cosim /\ db.made

Inv == TypeInv /\ Clients /\ Window /\ (job = "running" => Progress) /\ Files

(* The parts of the memory that a step leaves alone. *)
KeepsClients ==
    UNCHANGED <<mem.start, mem.stop, mem.realAppStart, mem.simStop>>
KeepsWindow == UNCHANGED <<mem.rri, mem.t2, mem.mac>>
KeepsRows == UNCHANGED <<mem.traced, mem.cached, mem.sensed>>

-----------------------------------------------------------------------------
(* The order of main(), one part at a time. *)
LEMMA NextPhase ==
    /\ mem.pc = "defaults" => Pass(FALSE) = "checks"
    /\ mem.pc = "checks" => \A r \in BOOLEAN : Pass(r) \in {"devices", "abort"}
    /\ mem.pc = "devices" => Pass(FALSE) = "sidelink"
    /\ mem.pc = "sidelink" => \A r \in BOOLEAN : Pass(r) \in {"bearers", "abort"}
    /\ mem.pc = "bearers" => Pass(FALSE) = "clients"
    /\ mem.pc = "clients" => Pass(FALSE) = "output"
    /\ mem.pc = "output" => Pass(FALSE) = "prepare"
    /\ mem.pc = "prepare" => Pass(FALSE) = "run"
    /\ mem.pc = "run" => Pass(FALSE) = "caches" /\ Pass(TRUE) = "abort"
    /\ mem.pc = "caches" => Pass(FALSE) = "kpis"
    /\ mem.pc = "kpis" => Pass(FALSE) = "exit"
    /\ mem.pc = "exit" => Pass(FALSE) = "end"
  BY DEF Pass, Then

(* The command line and the draws have the types of the options. *)
LEMMA OptionTypes ==
    ASSUME TypeInv
    PROVE  /\ opt.msgPeriod \in Nat /\ opt.msgPeriod > 0 /\ opt.reservationPeriod \in Nat
           /\ opt.mu \in Nat /\ opt.t1 \in Nat /\ opt.t2 \in Nat /\ opt.pdb \in Nat
           /\ opt.activation \in Nat /\ opt.simTime \in Nat /\ opt.cosim \in BOOLEAN
           /\ \A i \in Robots : jitter[i] \in Jitters /\ jitter[i] \in Nat
           /\ NumRobots \in Nat /\ NumRobots > 0
           /\ PktRows \in Nat /\ SensingRows \in Nat /\ CacheSize \in Nat
  <1>1. \A x \in UInt16 : x \in Nat
    BY DEF UInt16
  <1>2. /\ opt.msgPeriod \in UInt16 /\ opt.msgPeriod # 0 /\ opt.reservationPeriod \in UInt16
        /\ opt.t1 \in UInt16 /\ opt.t2 \in UInt16 /\ opt.pdb \in UInt16
        /\ opt.mu \in 0 .. 5
    BY ScenarioAssumption DEF ScenarioAssumption, TypeInv, Options
  <1>3. opt.activation \in Nat /\ opt.simTime \in Nat
    BY ScenarioAssumption DEF ScenarioAssumption, TypeInv, Options
  <1>4. opt.cosim \in BOOLEAN
    BY DEF TypeInv, Options
  <1>5. /\ NumRobots \in Nat /\ NumRobots > 0
        /\ PktRows \in Nat /\ SensingRows \in Nat /\ CacheSize \in Nat
    BY ScenarioAssumption DEF ScenarioAssumption
  <1>6. \A i \in Robots : jitter[i] \in Jitters /\ jitter[i] \in Nat
    BY ScenarioAssumption DEF ScenarioAssumption, TypeInv
  <1> QED
    BY <1>1, <1>2, <1>3, <1>4, <1>5, <1>6

(* The same options give the same window. *)
LEMMA SameWindow ==
    ASSUME UNCHANGED opt
    PROVE  /\ Rri' = Rri /\ ClampedT2' = ClampedT2 /\ T1OfMac' = T1OfMac
           /\ GivenWindow' = GivenWindow /\ BadWindow' = BadWindow
  <1>1. Rri' = Rri /\ T1OfMac' = T1OfMac
    BY DEF Rri, T1OfMac
  <1>2. ClampedT2' = ClampedT2
    BY <1>1 DEF ClampedT2, MaxT2
  <1>3. GivenWindow' = GivenWindow
    BY <1>1, <1>2 DEF GivenWindow
  <1> QED
    BY <1>1, <1>2, <1>3 DEF BadWindow, Rejects, WindowEnd, T2Min

(* The period and the window are integers, the window's end at most MaxT2. *)
LEMMA WindowTypes ==
    ASSUME TypeInv
    PROVE  /\ Rri \in Nat /\ Rri # 0 /\ ClampedT2 \in Int /\ ClampedT2 <= MaxT2(Rri)
           /\ T1OfMac \in Int
  <1>1. Rri \in Nat /\ Rri # 0
    BY OptionTypes DEF Rri
  <1>2. MaxT2(Rri) \in Int
    BY <1>1, OptionTypes DEF MaxT2
  <1>3. ClampedT2 \in Int /\ ClampedT2 <= MaxT2(Rri)
    BY <1>2, OptionTypes DEF ClampedT2
  <1>4. T1OfMac \in Int
    BY OptionTypes DEF T1OfMac
  <1> QED
    BY <1>1, <1>3, <1>4

(* What each part of main() makes of the memory. T2 is clamped. *)
LEMMA DefaultsFields ==
    ASSUME TypeInv, ApplyDefaults
    PROVE  /\ mem' \in Memory /\ mem'.pc = "checks" /\ KeepsClients /\ KeepsRows
           /\ mem'.rri = Rri /\ mem'.t2 = ClampedT2 /\ mem'.mac = mem.mac
  <1>1. Rri \in Int /\ ClampedT2 \in Int
    BY WindowTypes
  <1>2. mem \in Memory /\ "checks" \in Phases
    BY DEF TypeInv, Phases, Setup
  <1>3. mem' = [mem EXCEPT !.pc = "checks", !.rri = Rri, !.t2 = ClampedT2]
    BY NextPhase DEF ApplyDefaults
  <1> QED
    BY <1>1, <1>2, <1>3 DEF Memory, KeepsClients, KeepsRows

(* An NS_ABORT ends the process, or nothing changes but the phase. *)
LEMMA ChecksFields ==
    ASSUME TypeInv, Checks \/ PrepareSidelink
    PROVE  /\ mem' \in Memory /\ KeepsClients /\ KeepsRows /\ KeepsWindow
           /\ \/ mem.pc = "checks" /\ mem'.pc \in {"devices", "abort"}
              \/ mem.pc = "sidelink" /\ mem'.pc \in {"bearers", "abort"}
  <1>1. PICK p \in {"devices", "bearers", "abort"} :
           /\ mem' = [mem EXCEPT !.pc = p]
           /\ \/ mem.pc = "checks" /\ p \in {"devices", "abort"}
              \/ mem.pc = "sidelink" /\ p \in {"bearers", "abort"}
    BY NextPhase DEF Checks, PrepareSidelink, RejectsPool
  <1>2. p \in Phases /\ mem \in Memory
    BY DEF Phases, Setup, TypeInv
  <1>3. mem' \in Memory /\ mem'.pc = p /\ KeepsClients /\ KeepsRows /\ KeepsWindow
    BY <1>1, <1>2 DEF Memory, KeepsClients, KeepsRows, KeepsWindow
  <1> QED
    BY <1>1, <1>3

(* The MAC is given the window. *)
LEMMA DevicesFields ==
    ASSUME TypeInv, InstallDevices
    PROVE  /\ mem' \in Memory /\ mem'.pc = "sidelink" /\ KeepsClients /\ KeepsRows
           /\ mem'.rri = mem.rri /\ mem'.t2 = mem.t2 /\ mem'.mac.rri = mem.mac.rri
           /\ mem'.mac.t1 = T1OfMac /\ mem'.mac.t2 = mem.t2
  <1> DEFINE mac == [mem.mac EXCEPT !.t1 = T1OfMac, !.t2 = mem.t2]
  <1>1. mem \in Memory /\ "sidelink" \in Phases /\ T1OfMac \in Int
    BY WindowTypes DEF TypeInv, Phases, Setup
  <1>2. /\ mac \in Macs /\ mac.rri = mem.mac.rri
        /\ mac.t1 = T1OfMac /\ mac.t2 = mem.t2
    BY <1>1 DEF Memory, Macs
  <1>3. mem' = [mem EXCEPT !.pc = "sidelink", !.mac = mac]
    BY <1>1, NextPhase DEF InstallDevices, Memory
  <1> HIDE DEF mac
  <1>4. /\ mem' \in Memory /\ mem'.pc = "sidelink" /\ KeepsClients /\ KeepsRows
        /\ mem'.rri = mem.rri /\ mem'.t2 = mem.t2 /\ mem'.mac = mac
    BY <1>1, <1>2, <1>3 DEF Memory, KeepsClients, KeepsRows
  <1> QED
    BY <1>2, <1>4

(* The MAC is given the period and the packet delay budget. *)
LEMMA BearersFields ==
    ASSUME TypeInv, ActivateBearers
    PROVE  /\ mem' \in Memory /\ mem'.pc = "clients" /\ KeepsClients /\ KeepsRows
           /\ mem'.rri = mem.rri /\ mem'.t2 = mem.t2
           /\ mem'.mac = [t1 |-> mem.mac.t1, t2 |-> mem.mac.t2,
                          rri |-> mem.rri, pdb |-> opt.pdb]
  <1> DEFINE mac == [t1 |-> mem.mac.t1, t2 |-> mem.mac.t2,
                     rri |-> mem.rri, pdb |-> opt.pdb]
  <1>1. mem \in Memory /\ "clients" \in Phases /\ opt.pdb \in Int
    BY OptionTypes DEF TypeInv, Phases
  <1>2. mac \in Macs
    BY <1>1 DEF Memory, Macs
  <1>3. mem' = [mem EXCEPT !.pc = "clients", !.mac = mac]
    <2>1. mem' = [mem EXCEPT !.pc = "clients", !.mac.rri = mem.rri, !.mac.pdb = opt.pdb]
      BY NextPhase DEF ActivateBearers
    <2>2. mem.mac \in Macs
      BY <1>1 DEF Memory
    <2>3. ASSUME NEW m \in Macs, NEW rri \in Int, NEW pdb \in Int
          PROVE  [m EXCEPT !.rri = rri, !.pdb = pdb]
                    = [t1 |-> m.t1, t2 |-> m.t2, rri |-> rri, pdb |-> pdb]
      <3> DEFINE n == [m EXCEPT !.rri = rri, !.pdb = pdb]
      <3>1. n \in Macs
        BY DEF Macs
      <3>2. n.t1 = m.t1 /\ n.t2 = m.t2 /\ n.rri = rri /\ n.pdb = pdb
        BY DEF Macs
      <3>3. n = [t1 |-> n.t1, t2 |-> n.t2, rri |-> n.rri, pdb |-> n.pdb]
        <4> HIDE DEF n
        <4> QED
          BY <3>1 DEF Macs
      <3> QED
        BY <3>2, <3>3
    <2>4. mac = [mem.mac EXCEPT !.rri = mem.rri, !.pdb = opt.pdb]
      BY <1>1, <2>2, <2>3 DEF Memory
    <2> HIDE DEF mac
    <2> QED
      BY <1>1, <2>1, <2>4 DEF Memory
  <1> HIDE DEF mac
  <1>4. /\ mem' \in Memory /\ mem'.pc = "clients" /\ KeepsClients /\ KeepsRows
        /\ mem'.rri = mem.rri /\ mem'.t2 = mem.t2 /\ mem'.mac = mac
    BY <1>1, <1>2, <1>3 DEF Memory, KeepsClients, KeepsRows
  <1> QED
    BY <1>4 DEF mac

(* One turn of the loop over the robots. *)
LEMMA ClientFields ==
    ASSUME TypeInv, InstallClient
    PROVE  LET i == Len(mem.start) + 1 IN
           /\ mem' \in Memory /\ mem'.pc = "clients" /\ KeepsRows /\ KeepsWindow
           /\ mem'.simStop = mem.simStop
           /\ mem'.start = Append(mem.start, StartOf(i))
           /\ mem'.stop = Append(mem.stop, IF opt.cosim THEN 0 ELSE First(i) + opt.simTime)
           /\ mem'.realAppStart = First(i)
  <1> DEFINE i == Len(mem.start) + 1
             start == StartOf(i)
             first == First(i)
             stop == IF opt.cosim THEN 0 ELSE First(i) + opt.simTime
             starts == Append(mem.start, start)
             stops == Append(mem.stop, stop)
  <1>1. mem \in Memory /\ mem.start \in Seq(Int) /\ mem.stop \in Seq(Int)
    BY DEF TypeInv, Memory
  <1>2. i \in Robots
    <2>1. Len(mem.start) \in Nat /\ NumRobots \in Nat
      BY <1>1, OptionTypes
    <2>2. Len(mem.start) < NumRobots
      BY DEF InstallClient
    <2> QED
      BY <2>1, <2>2 DEF Robots
  <1>3. start \in Int /\ first \in Int /\ stop \in Int
    <2> HIDE DEF i
    <2>1. /\ opt.activation \in Nat /\ opt.msgPeriod \in Nat /\ opt.simTime \in Nat
          /\ jitter[i] \in Nat
      BY <1>2, OptionTypes, Zenon
    <2>2. start \in Int /\ start + opt.msgPeriod \in Int
      BY <2>1 DEF StartOf
    <2>3. first \in Int
      BY <2>2 DEF First
    <2> HIDE DEF first
    <2> QED
      BY <2>1, <2>2, <2>3 DEF first
  <1>4. starts \in Seq(Int) /\ stops \in Seq(Int)
    BY <1>1, <1>3
  <1>5. mem' = [mem EXCEPT !.start = starts, !.stop = stops, !.realAppStart = first]
    BY Zenon DEF InstallClient, StartOf, First
  <1>6. mem.pc = "clients"
    BY DEF InstallClient
  <1> HIDE DEF i, start, first, stop, starts, stops
  <1>7. /\ mem' \in Memory /\ mem'.pc = "clients" /\ KeepsRows /\ KeepsWindow
        /\ mem'.simStop = mem.simStop /\ mem'.start = starts /\ mem'.stop = stops
        /\ mem'.realAppStart = first
    BY <1>1, <1>3, <1>4, <1>5, <1>6 DEF Memory, KeepsRows, KeepsWindow
  <1> QED
    BY <1>7 DEF i, start, first, stop, starts, stops

(* Parts of main() that change no more of the memory than the phase. *)
LEMMA PassFields ==
    ASSUME TypeInv,
           ClientsInstalled \/ OpenOutput \/ AbortInRun \/ Stop \/ WriteKpis \/ Exit
    PROVE  /\ mem' \in Memory /\ KeepsClients /\ KeepsRows /\ KeepsWindow
           /\ ClientsInstalled => mem'.pc = "output"
           /\ OpenOutput => mem'.pc = "prepare"
           /\ AbortInRun => mem'.pc = "abort"
           /\ Stop => mem'.pc = "caches"
           /\ WriteKpis => mem'.pc = "exit"
           /\ Exit => mem'.pc = "end"
  <1>1. PICK p \in {"output", "prepare", "abort", "caches", "exit", "end"} :
           /\ mem' = [mem EXCEPT !.pc = p]
           /\ ClientsInstalled => p = "output"
           /\ OpenOutput => p = "prepare"
           /\ AbortInRun => p = "abort"
           /\ Stop => p = "caches"
           /\ WriteKpis => p = "exit"
           /\ Exit => p = "end"
    BY NextPhase DEF ClientsInstalled, OpenOutput, AbortInRun, Stop, WriteKpis, Exit
  <1>2. p \in Phases /\ mem \in Memory
    BY DEF Phases, Output, TypeInv
  <1>3. mem' \in Memory /\ mem'.pc = p /\ KeepsClients /\ KeepsRows /\ KeepsWindow
    BY <1>1, <1>2 DEF Memory, KeepsClients, KeepsRows, KeepsWindow
  <1> QED
    BY <1>1, <1>3

(* The stop time, or the time from which the gateway sends. *)
LEMMA PrepareFields ==
    ASSUME TypeInv, Prepare
    PROVE  /\ mem' \in Memory /\ mem'.pc = "run" /\ KeepsRows /\ KeepsWindow
           /\ UNCHANGED <<mem.start, mem.stop, mem.realAppStart>>
           /\ mem'.simStop = IF opt.cosim THEN mem.simStop ELSE SimStopTime
  <1> DEFINE tx == IF opt.cosim THEN TxEnable ELSE mem.txEnable
             stop == IF opt.cosim THEN mem.simStop ELSE SimStopTime
  <1>1. mem \in Memory /\ "run" \in Phases
    BY DEF TypeInv, Phases, Output
  <1>2. tx \in Int /\ stop \in Int
    <2>1. opt.activation \in Int /\ opt.simTime \in Int
      BY OptionTypes
    <2>2. mem.txEnable \in Int /\ mem.simStop \in Int /\ mem.realAppStart \in Int
      BY <1>1 DEF Memory
    <2>3. TxEnable \in Int /\ SimStopTime \in Int
      BY <2>1, <2>2 DEF TxEnable, SimStopTime
    <2> QED
      BY <2>2, <2>3
  <1>3. mem' = [mem EXCEPT !.pc = "run", !.txEnable = tx, !.simStop = stop]
    BY NextPhase, Zenon DEF Prepare
  <1> HIDE DEF tx, stop
  <1>4. /\ mem' \in Memory /\ mem'.pc = "run" /\ KeepsRows /\ KeepsWindow
        /\ UNCHANGED <<mem.start, mem.stop, mem.realAppStart>>
        /\ mem'.simStop = stop
    BY <1>1, <1>2, <1>3 DEF Memory, KeepsRows, KeepsWindow
  <1> QED
    BY <1>4 DEF stop

(* A packet's row is in the cache or in the database, and is one more. *)
LEMMA PacketFields ==
    ASSUME TypeInv, TracePacket
    PROVE  /\ mem' \in Memory /\ mem'.pc = "run" /\ KeepsClients /\ KeepsWindow
           /\ mem'.traced = mem.traced + 1 /\ mem'.sensed = mem.sensed
           /\ db' \in [made : BOOLEAN, rows : Int, kpis : Int]
           /\ db'.made = db.made /\ db'.kpis = db.kpis
           /\ db'.rows + mem'.cached = db.rows + mem.cached + 1
  <1> DEFINE full == mem.cached = CacheSize
             cached == IF full THEN 1 ELSE mem.cached + 1
             rows == IF full THEN db.rows + mem.cached ELSE db.rows
             traced == mem.traced + 1
  <1>1. /\ mem \in Memory /\ db \in [made : BOOLEAN, rows : Int, kpis : Int]
        /\ mem.cached \in Int /\ mem.traced \in Int /\ db.rows \in Int
    BY DEF TypeInv, Memory
  <1>2. /\ cached \in Int /\ rows \in Int /\ traced \in Int
        /\ rows + cached = db.rows + mem.cached + 1
    BY <1>1
  <1>3. /\ mem' = [mem EXCEPT !.traced = traced, !.cached = cached]
        /\ db' = [db EXCEPT !.rows = rows]
    BY Zenon DEF TracePacket
  <1>4. mem.pc = "run"
    BY DEF TracePacket
  <1> HIDE DEF full, cached, rows, traced
  <1>5. /\ mem' \in Memory /\ mem'.pc = "run" /\ KeepsClients /\ KeepsWindow
        /\ mem'.traced = traced /\ mem'.cached = cached /\ mem'.sensed = mem.sensed
    BY <1>1, <1>2, <1>3, <1>4 DEF Memory, KeepsClients, KeepsWindow
  <1>6. /\ db' \in [made : BOOLEAN, rows : Int, kpis : Int]
        /\ db'.made = db.made /\ db'.kpis = db.kpis /\ db'.rows = rows
    BY <1>1, <1>2, <1>3
  <1> QED
    BY <1>2, <1>5, <1>6 DEF traced

(* A sensing row goes to the stream of the CSV. *)
LEMMA SelectionFields ==
    ASSUME TypeInv, TraceSelection
    PROVE  /\ mem' \in Memory /\ mem'.pc = "run" /\ KeepsClients /\ KeepsWindow
           /\ mem'.traced = mem.traced /\ mem'.cached = mem.cached
           /\ csv' \in Int /\ db' = db
  <1>1. mem \in Memory /\ mem.pc = "run" /\ csv \in Int /\ mem.sensed \in Int
    BY DEF TypeInv, Memory, TraceSelection
  <1> DEFINE sensed == mem.sensed + 1
  <1>2. mem' = [mem EXCEPT !.sensed = sensed]
    BY Zenon DEF TraceSelection
  <1>3. csv' \in Int /\ db' = db /\ sensed \in Int
    BY <1>1 DEF TraceSelection
  <1> HIDE DEF sensed
  <1> QED
    BY <1>1, <1>2, <1>3 DEF Memory, KeepsClients, KeepsWindow

(* The rows held back go to the database. *)
LEMMA CachesFields ==
    ASSUME TypeInv, EmptyCaches
    PROVE  /\ mem' \in Memory /\ mem'.pc = "kpis" /\ KeepsClients /\ KeepsWindow
           /\ mem'.traced = mem.traced /\ mem'.cached = 0 /\ mem'.sensed = mem.sensed
           /\ db' \in [made : BOOLEAN, rows : Int, kpis : Int]
           /\ db'.made = db.made /\ db'.kpis = db.kpis /\ db'.rows = db.rows + mem.cached
  <1> DEFINE rows == db.rows + mem.cached
  <1>1. mem \in Memory /\ db \in [made : BOOLEAN, rows : Int, kpis : Int]
        /\ "kpis" \in Phases /\ rows \in Int
    BY DEF TypeInv, Memory, Phases, Output
  <1>2. mem' = [mem EXCEPT !.pc = "kpis", !.cached = 0]
    BY NextPhase DEF EmptyCaches
  <1>3. db' = [db EXCEPT !.rows = rows]
    BY Zenon DEF EmptyCaches, Emptied
  <1> HIDE DEF rows
  <1>4. /\ mem' \in Memory /\ mem'.pc = "kpis" /\ KeepsClients /\ KeepsWindow
        /\ mem'.traced = mem.traced /\ mem'.cached = 0 /\ mem'.sensed = mem.sensed
    <2> DEFINE p == "kpis"
               none == 0
    <2>1. /\ mem \in Memory /\ p \in Phases /\ none \in Int
          /\ mem' = [mem EXCEPT !.pc = p, !.cached = none]
      BY <1>1, <1>2
    <2> HIDE DEF p, none
    <2>2. mem' \in Memory
      BY <2>1 DEF Memory
    <2>3. /\ mem'.pc = p /\ KeepsClients /\ KeepsWindow
          /\ mem'.traced = mem.traced /\ mem'.cached = none /\ mem'.sensed = mem.sensed
      BY <2>1 DEF Memory, KeepsClients, KeepsWindow
    <2> QED
      BY <2>2, <2>3 DEF p, none
  <1>5. /\ db' \in [made : BOOLEAN, rows : Int, kpis : Int]
        /\ db'.made = db.made /\ db'.kpis = db.kpis /\ db'.rows = rows
    BY <1>1, <1>3
  <1> QED
    BY <1>4, <1>5 DEF rows

(* The database is opened afresh, with no rows and no tables. *)
LEMMA OutputFields ==
    ASSUME TypeInv, OpenOutput
    PROVE  /\ db' \in [made : BOOLEAN, rows : Int, kpis : Int] /\ csv' = 0
           /\ db'.made /\ db'.rows = 0 /\ db'.kpis = -1
  <1>1. db' = [made |-> TRUE, rows |-> 0, kpis |-> -1] /\ csv' = 0
    BY DEF OpenOutput, NoDatabase
  <1> QED
    BY <1>1

(* The tables are computed from the rows of the database. *)
LEMMA KpiFields ==
    ASSUME TypeInv, WriteKpis
    PROVE  /\ db' \in [made : BOOLEAN, rows : Int, kpis : Int] /\ csv' = csv
           /\ db'.made = db.made /\ db'.rows = db.rows
           /\ db'.kpis = IF opt.cosim THEN db.kpis ELSE db.rows
  <1> DEFINE kpis == IF opt.cosim THEN db.kpis ELSE db.rows
  <1>1. db \in [made : BOOLEAN, rows : Int, kpis : Int] /\ kpis \in Int
    BY DEF TypeInv
  <1>2. db' = [db EXCEPT !.kpis = kpis] /\ csv' = csv
    BY Zenon DEF WriteKpis
  <1> HIDE DEF kpis
  <1>3. /\ db' \in [made : BOOLEAN, rows : Int, kpis : Int]
        /\ db'.made = db.made /\ db'.rows = db.rows /\ db'.kpis = kpis
    BY <1>1, <1>2
  <1> QED
    BY <1>2, <1>3 DEF kpis

-----------------------------------------------------------------------------
(* Nothing but the phase changes, and not back to an earlier part of main(). *)
LEMMA ClientsKept ==
    ASSUME Clients, KeepsClients, UNCHANGED inputs,
           mem'.pc \in Setup => mem.pc \in Setup,
           mem'.pc \in Output \cup {"output"} =>
              mem.pc \in Output \cup {"output"} \/ Len(mem.start) = NumRobots,
           mem.pc # "abort", mem.pc \in Output => mem'.pc \in Output \cup {"abort"}
    PROVE  Clients'
  BY DEF Clients, KeepsClients, inputs, StartOf, First, SimStopTime

(* The client that is installed is what Clients says of it. *)
LEMMA ClientAdded ==
    ASSUME TypeInv, Clients, InstallClient
    PROVE  Clients'
  <1> DEFINE i == Len(mem.start) + 1
  <1>1. /\ mem.start \in Seq(Int) /\ mem.stop \in Seq(Int) /\ i \in Nat /\ i > 0
        /\ Len(mem.start) < NumRobots /\ NumRobots \in Nat /\ UNCHANGED inputs
    <2>1. mem.start \in Seq(Int) /\ mem.stop \in Seq(Int)
      BY DEF TypeInv, Memory
    <2>2. Len(mem.start) < NumRobots /\ UNCHANGED inputs
      BY DEF InstallClient
    <2>3. NumRobots \in Nat
      BY OptionTypes
    <2>4. i \in Nat /\ i > 0
      BY <2>1
    <2> QED
      BY <2>1, <2>2, <2>3, <2>4
  <1>2. /\ mem.pc = "clients" /\ mem'.pc = "clients" /\ mem'.simStop = mem.simStop
        /\ mem'.start = Append(mem.start, StartOf(i))
        /\ mem'.stop = Append(mem.stop, IF opt.cosim THEN 0 ELSE First(i) + opt.simTime)
        /\ mem'.realAppStart = First(i)
    BY ClientFields DEF InstallClient
  <1>3. Len(mem'.start) = i /\ Len(mem'.stop) = i
    BY <1>1, <1>2 DEF Clients
  <1>4. ASSUME NEW k \in 1 .. i
        PROVE  /\ mem'.start[k] = StartOf(k)
               /\ ~opt.cosim => mem'.stop[k] = First(k) + opt.simTime
    <2>1. CASE k = i
      <3>1. i = Len(mem.stop) + 1
        BY DEF Clients
      <3>2. mem'.start[i] = StartOf(i)
        BY <1>1, <1>2
      <3>3. mem'.stop[i] = IF opt.cosim THEN 0 ELSE First(i) + opt.simTime
        BY <1>1, <1>2, <3>1
      <3> QED
        BY <2>1, <3>2, <3>3
    <2>2. CASE k \in 1 .. Len(mem.start)
      BY <1>1, <1>2, <2>2 DEF Clients
    <2>3. k = i \/ k \in 1 .. Len(mem.start)
      <3>1. Len(mem.start) \in Nat
        BY <1>1
      <3> QED
        BY <3>1
    <2> QED
      BY <2>1, <2>2, <2>3
  <1>5. mem.simStop = 0
    BY <1>2 DEF Clients, Output
  <1> QED
    BY <1>1, <1>2, <1>3, <1>4, <1>5 DEF Clients, Setup, Output, inputs, StartOf, First

(* Simulator::Stop is computed from the start of the last robot. *)
LEMMA StopSet ==
    ASSUME TypeInv, Clients, Prepare
    PROVE  Clients'
  <1>1. /\ mem.pc = "prepare" /\ UNCHANGED inputs /\ mem'.pc = "run"
        /\ UNCHANGED <<mem.start, mem.stop, mem.realAppStart>>
        /\ opt.cosim => mem'.simStop = mem.simStop
        /\ ~opt.cosim => mem'.simStop = SimStopTime
    BY PrepareFields DEF Prepare
  <1>2. opt.cosim \in BOOLEAN
    BY OptionTypes
  <1> QED
    BY <1>1, <1>2
       DEF Clients, Setup, Output, inputs, StartOf, First, SimStopTime

(* The parts of main() before the clients. *)
Configures == ApplyDefaults \/ Checks \/ InstallDevices \/ PrepareSidelink \/ ActivateBearers

(* They neither install a client nor touch a file. *)
LEMMA ConfigureFields ==
    ASSUME TypeInv, Configures
    PROVE  /\ mem' \in Memory /\ KeepsClients /\ KeepsRows /\ UNCHANGED <<inputs, files>>
           /\ mem.pc \in Setup /\ mem'.pc \in Setup \cup {"clients", "abort"}
  <1>1. CASE ApplyDefaults
    BY <1>1, DefaultsFields DEF ApplyDefaults, Setup
  <1>2. CASE Checks \/ PrepareSidelink
    BY <1>2, ChecksFields DEF Checks, PrepareSidelink, Setup
  <1>3. CASE InstallDevices
    BY <1>3, DevicesFields DEF InstallDevices, Setup
  <1>4. CASE ActivateBearers
    BY <1>4, BearersFields DEF ActivateBearers, Setup
  <1> QED
    BY <1>1, <1>2, <1>3, <1>4 DEF Configures

(* Every part of main() leaves the clients as the loop has installed them. *)
LEMMA MainClients ==
    ASSUME TypeInv, Clients, Main
    PROVE  Clients'
  <1>1. CASE Configures
    BY <1>1, ConfigureFields, ClientsKept DEF Setup, Output
  <1>2. CASE InstallClient
    BY <1>2, ClientAdded
  <1>3. CASE Prepare
    BY <1>3, StopSet
  <1>4. CASE ClientsInstalled
    BY <1>4, PassFields, ClientsKept DEF ClientsInstalled, Setup, Output
  <1>5. CASE OpenOutput
    BY <1>5, PassFields, ClientsKept DEF OpenOutput, Setup, Output
  <1>6. CASE Stop
    BY <1>6, PassFields, ClientsKept DEF Stop, Setup, Output
  <1>7. CASE WriteKpis
    BY <1>7, PassFields, ClientsKept DEF WriteKpis, Setup, Output
  <1>8. CASE Exit
    BY <1>8, PassFields, ClientsKept DEF Exit, Setup, Output
  <1>9. CASE TracePacket
    BY <1>9, PacketFields, ClientsKept DEF TracePacket, Setup, Output
  <1>10. CASE TraceSelection
    BY <1>10, SelectionFields, ClientsKept DEF TraceSelection, Setup, Output
  <1>11. CASE EmptyCaches
    BY <1>11, CachesFields, ClientsKept DEF EmptyCaches, Setup, Output
  <1>12. CASE AbortInRun
    BY <1>12, PassFields, ClientsKept DEF AbortInRun, Setup, Output
  <1> QED
    BY <1>1, <1>2, <1>3, <1>4, <1>5, <1>6, <1>7, <1>8, <1>9, <1>10, <1>11, <1>12
       DEF Main, Configures

(* What the options say of the window, and what the MAC is given of it. *)
LEMMA MainWindow ==
    ASSUME TypeInv, Window, Main
    PROVE  Window'
  <1>1. UNCHANGED inputs
    BY DEF Main, ApplyDefaults, Checks, InstallDevices, PrepareSidelink, ActivateBearers,
           InstallClient, ClientsInstalled, OpenOutput, Prepare, AbortInRun, TracePacket, TraceSelection,
           Stop, EmptyCaches, WriteKpis, Exit
  <1>2. /\ Rri' = Rri /\ ClampedT2' = ClampedT2 /\ T1OfMac' = T1OfMac
        /\ GivenWindow' = GivenWindow
    BY <1>1, SameWindow DEF inputs
  <1>3. CASE ApplyDefaults
    BY <1>2, <1>3, DefaultsFields DEF ApplyDefaults, Window, Output
  <1>4. CASE Checks \/ PrepareSidelink
    BY <1>2, <1>4, ChecksFields DEF Window, KeepsWindow, Output
  <1>5. CASE InstallDevices
    <2>1. /\ mem.pc = "devices" /\ mem'.pc = "sidelink" /\ mem'.rri = mem.rri
          /\ mem'.t2 = mem.t2 /\ mem'.mac.rri = mem.mac.rri
          /\ mem'.mac.t1 = T1OfMac /\ mem'.mac.t2 = mem.t2
      BY <1>5, DevicesFields DEF InstallDevices
    <2> QED
      BY <1>2, <2>1 DEF Window, Output
  <1>6. CASE ActivateBearers
    <2>1. /\ mem'.pc = "clients" /\ mem'.rri = mem.rri /\ mem'.t2 = mem.t2
          /\ mem.pc = "bearers"
          /\ mem'.mac = [t1 |-> mem.mac.t1, t2 |-> mem.mac.t2,
                         rri |-> mem.rri, pdb |-> opt.pdb]
      BY <1>6, BearersFields DEF ActivateBearers
    <2>2. mem'.mac = GivenWindow /\ mem.rri = Rri /\ mem.t2 = ClampedT2
      BY <2>1 DEF Window, GivenWindow
    <2> QED
      BY <1>2, <2>1, <2>2 DEF Window, Output
  <1>7. ASSUME KeepsWindow, mem.pc \in {"clients", "output"} \cup Output,
               mem'.pc \in {"clients", "output", "abort"} \cup Output
        PROVE  Window'
    BY <1>2, <1>7 DEF Window, KeepsWindow, Output
  <1>8. CASE InstallClient
    BY <1>7, <1>8, ClientFields DEF InstallClient
  <1>9. CASE ClientsInstalled \/ OpenOutput \/ AbortInRun \/ Stop \/ WriteKpis \/ Exit
    BY <1>7, <1>9, PassFields
       DEF ClientsInstalled, OpenOutput, AbortInRun, Stop, WriteKpis, Exit, Output
  <1>10. CASE Prepare
    BY <1>7, <1>10, PrepareFields DEF Prepare, Output
  <1>11. CASE TracePacket \/ TraceSelection \/ EmptyCaches
    BY <1>7, <1>11, PacketFields, SelectionFields, CachesFields
       DEF TracePacket, TraceSelection, EmptyCaches, Output
  <1> QED
    BY <1>3, <1>4, <1>5, <1>6, <1>8, <1>9, <1>10, <1>11 DEF Main

(* Every part of main() keeps the types. *)
LEMMA MainTypes ==
    ASSUME TypeInv, Main, UNCHANGED driver
    PROVE  TypeInv'
  <1>1. SUFFICES /\ UNCHANGED inputs /\ mem' \in Memory
                 /\ db' \in [made : BOOLEAN, rows : Int, kpis : Int] /\ csv' \in Int
    BY DEF TypeInv, driver, inputs
  <1>2. db \in [made : BOOLEAN, rows : Int, kpis : Int] /\ csv \in Int /\ mem.sensed \in Int
    BY DEF TypeInv, Memory
  <1>3. CASE Configures
    BY <1>2, <1>3, ConfigureFields DEF files
  <1>4. CASE InstallClient
    BY <1>2, <1>4, ClientFields DEF InstallClient, files
  <1>5. CASE ClientsInstalled \/ AbortInRun \/ Stop
    BY <1>2, <1>5, PassFields DEF ClientsInstalled, AbortInRun, Stop, files
  <1>6. CASE OpenOutput
    BY <1>6, PassFields, OutputFields DEF OpenOutput
  <1>7. CASE Prepare
    BY <1>2, <1>7, PrepareFields DEF Prepare, files
  <1>8. CASE TracePacket \/ EmptyCaches
    BY <1>2, <1>8, PacketFields, CachesFields DEF TracePacket, EmptyCaches
  <1>9. CASE TraceSelection
    BY <1>2, <1>9, SelectionFields DEF TraceSelection
  <1>10. CASE WriteKpis
    BY <1>2, <1>10, PassFields, KpiFields DEF WriteKpis
  <1>11. CASE Exit
    BY <1>2, <1>11, PassFields DEF Exit
  <1> QED
    BY <1>3, <1>4, <1>5, <1>6, <1>7, <1>8, <1>9, <1>10, <1>11 DEF Main, Configures

(* Every row is in the cache or in the database until the caches are emptied. *)
LEMMA MainProgress ==
    ASSUME TypeInv, Window, Progress, Main
    PROVE  Progress'
  <1>1. /\ PktRows \in Nat /\ SensingRows \in Nat /\ opt.cosim \in BOOLEAN /\ mem.pc \in Phases
        /\ db.rows \in Int /\ mem.traced \in Int /\ mem.cached \in Int /\ mem.sensed \in Int
    BY OptionTypes DEF TypeInv, Memory
  <1>2. Packets \in Nat /\ Packets' = Packets /\ BadWindow' = BadWindow /\ opt' = opt
    <2>1. opt' = opt
      BY DEF Main, ApplyDefaults, Checks, InstallDevices, PrepareSidelink, ActivateBearers,
             InstallClient, ClientsInstalled, OpenOutput, Prepare, AbortInRun, TracePacket,
             TraceSelection, Stop, EmptyCaches, WriteKpis, Exit, inputs
    <2> QED
      BY <1>1, <2>1, SameWindow DEF Packets
  <1>3. CASE Configures
    BY <1>2, <1>3, ConfigureFields DEF Progress, KeepsRows, files, Setup, Output
  <1>4. CASE InstallClient
    BY <1>4, ClientFields DEF InstallClient, Progress, KeepsRows, files, inputs, Output
  <1>5. CASE ClientsInstalled
    BY <1>5, PassFields DEF ClientsInstalled, Progress, KeepsRows, files, inputs, Output
  <1>6. CASE OpenOutput
    <2>1. mem'.pc = "prepare" /\ mem'.traced = 0 /\ mem'.cached = 0 /\ mem'.sensed = 0
      BY <1>6, PassFields DEF OpenOutput, Progress, KeepsRows, Output
    <2>2. db'.made /\ db'.rows = 0 /\ db'.kpis = -1
      BY <1>6, OutputFields
    <2> QED
      BY <1>2, <2>1, <2>2 DEF Progress, Rows, Output
  <1>7. CASE Prepare
    BY <1>2, <1>7, PrepareFields DEF Prepare, Progress, Rows, KeepsRows, files, Output
  <1>8. CASE TracePacket
    BY <1>1, <1>2, <1>8, PacketFields DEF TracePacket, Progress, Rows, Output
  <1>9. CASE TraceSelection
    BY <1>2, <1>9, SelectionFields DEF TraceSelection, Progress, Rows, Output
  <1>10. CASE Stop
    BY <1>2, <1>10, PassFields DEF Stop, Progress, Rows, KeepsRows, files, Output
  <1>11. CASE EmptyCaches
    BY <1>1, <1>2, <1>11, CachesFields DEF EmptyCaches, Progress, Rows, Output
  <1>12. CASE WriteKpis
    BY <1>1, <1>2, <1>12, PassFields, KpiFields
       DEF WriteKpis, Progress, KeepsRows, inputs, Output
  <1>13. CASE Exit
    BY <1>2, <1>13, PassFields DEF Exit, Progress, KeepsRows, inputs, Output
  <1>14. CASE AbortInRun
    <2>1. mem.pc = "run" /\ mem'.pc = "abort" /\ Rejects(mem.mac) /\ db' = db
      BY <1>14, PassFields DEF AbortInRun, files
    <2>2. BadWindow /\ db.kpis = -1
      BY <2>1 DEF Window, Progress, Rows, Output, BadWindow
    <2> QED
      BY <1>2, <2>1, <2>2 DEF Progress, Output
  <1> QED
    BY <1>3, <1>4, <1>5, <1>6, <1>7, <1>8, <1>9, <1>10, <1>11, <1>12, <1>13, <1>14
       DEF Main, Configures

-----------------------------------------------------------------------------
(* The process starts with an empty memory. *)
Started ==
    /\ mem \in Memory /\ mem.pc = "defaults"
    /\ mem.traced = 0 /\ mem.cached = 0 /\ mem.sensed = 0
    /\ Clients /\ Window

LEMMA BootedInv == mem = Booted => Started
  <1> SUFFICES ASSUME mem = Booted PROVE Started
    OBVIOUS
  <1>1. Booted \in Memory
    BY DEF Booted, Memory, Macs, NoWindow, Phases, Setup
  <1>2. /\ mem.pc = "defaults" /\ mem.traced = 0 /\ mem.cached = 0 /\ mem.sensed = 0
        /\ mem.start = <<>> /\ mem.stop = <<>> /\ mem.simStop = 0
        /\ mem.mac = NoWindow
    BY DEF Booted
  <1>3. NumRobots \in Nat
    BY ScenarioAssumption DEF ScenarioAssumption
  <1>4. Clients
    BY <1>2, <1>3 DEF Clients, Setup, Output
  <1>5. Window
    BY <1>2 DEF Window, NoWindow, Output
  <1> QED
    BY <1>1, <1>2, <1>4, <1>5 DEF Started

(* The same of the state a step leads to. *)
LEMMA BootedNext == (mem = Booted => Started)'
  BY BootedInv, PTL

(* Before the first sweep. *)
LEMMA InitInv == SweepInit => Inv
  <1> SUFFICES ASSUME SweepInit PROVE Inv
    OBVIOUS
  <1>1. mem = Booted /\ job = "none" /\ db = [made |-> FALSE, rows |-> 0, kpis |-> -1]
    BY DEF SweepInit, Init, NoDatabase
  <1>2. TypeInv
    <2>1. mem \in Memory /\ db \in [made : BOOLEAN, rows : Int, kpis : Int]
      BY <1>1, BootedInv DEF Started
    <2>2. opt \in Options /\ jitter \in [Robots -> Jitters] /\ csv = 0
          /\ done = FALSE /\ sweeps = 0 /\ kills = 0
      BY DEF SweepInit, Init
    <2> QED
      BY <1>1, <2>1, <2>2 DEF TypeInv
  <1>3. Files
    BY <1>1 DEF Files, SweepInit
  <1> QED
    BY <1>1, <1>2, <1>3, BootedInv DEF Started, Inv

(* A job whose database is there is skipped; every other starts afresh. *)
LEMMA RunInv ==
    ASSUME Inv, RunOne
    PROVE  Inv'
  <1>1. TypeInv /\ Clients /\ Window /\ Files
    BY DEF Inv
  <1>2. /\ job # "running" /\ UNCHANGED <<inputs, files, done, kills>>
        /\ sweeps' = sweeps + 1
    BY DEF RunOne
  <1>3. CASE db.made /\ ~opt.cosim /\ job' = "skipped" /\ UNCHANGED mem
    <2>1. TypeInv'
      BY <1>1, <1>2, <1>3 DEF TypeInv, inputs, files
    <2>2. Clients' /\ Window'
      BY <1>1, <1>2, <1>3, SameWindow
         DEF inputs, Clients, Window, StartOf, First, SimStopTime
    <2>3. Files'
      BY <1>1, <1>2, <1>3, SameWindow DEF inputs, files, Files, CompleteDatabase
    <2> QED
      BY <1>3, <2>1, <2>2, <2>3 DEF Inv
  <1>4. CASE (~db.made \/ opt.cosim) /\ job' = "running" /\ mem' = Booted
    <2>1. /\ mem' \in Memory /\ mem'.pc = "defaults"
          /\ mem'.traced = 0 /\ mem'.cached = 0 /\ mem'.sensed = 0
          /\ Clients' /\ Window'
      BY <1>4, BootedNext DEF Started
    <2>2. TypeInv'
      BY <1>1, <1>2, <1>4, <2>1 DEF TypeInv, inputs, files
    <2>3. Progress'
      BY <1>2, <1>4, <2>1 DEF Progress, Output, inputs, files
    <2>4. Files'
      BY <1>1, <1>2, <1>4, SameWindow DEF inputs, files, Files, CompleteDatabase
    <2> QED
      BY <2>1, <2>2, <2>3, <2>4 DEF Inv
  <1> QED
    BY <1>3, <1>4 DEF RunOne, HasRun

(* The process runs: done of a standalone job is not said while it does. *)
LEMMA ProcessInv ==
    ASSUME Inv, Process
    PROVE  Inv'
  <1>1. /\ TypeInv /\ Clients /\ Window /\ Progress /\ Files
        /\ job = "running" /\ Main /\ UNCHANGED driver
    BY DEF Inv, Process
  <1>2. TypeInv' /\ Clients' /\ Window' /\ Progress'
    BY <1>1, MainTypes, MainClients, MainWindow, MainProgress
  <1>3. job' = "running" /\ done' = done /\ opt' = opt
    BY <1>1
       DEF driver, Main, ApplyDefaults, Checks, InstallDevices, PrepareSidelink,
           ActivateBearers, InstallClient, ClientsInstalled, OpenOutput, Prepare,
           AbortInRun, TracePacket, TraceSelection, Stop, EmptyCaches, WriteKpis, Exit, inputs
  <1>4. Files'
    <2>1. SUFFICES /\ ~db'.made => db'.kpis = -1
                   /\ db'.kpis # -1 => ~opt.cosim /\ CompleteDatabase'
      BY <1>1, <1>3, SameWindow DEF Files
    <2>2. CASE UNCHANGED db
      BY <1>1, <2>2 DEF Files, CompleteDatabase
    <2>3. CASE OpenOutput
      BY <1>1, <2>3, OutputFields
    <2>4. CASE TracePacket
      BY <1>1, <2>4, PacketFields DEF TracePacket, Progress, Rows, Output
    <2>5. CASE EmptyCaches
      BY <1>1, <2>5, CachesFields DEF EmptyCaches, Progress, Rows, Output
    <2>6. CASE WriteKpis
      <3>1. mem.pc = "kpis" /\ opt.cosim \in BOOLEAN
        BY <1>1, <2>6, OptionTypes DEF WriteKpis
      <3>2. db.made /\ db.kpis = -1 /\ db.rows = Packets
        BY <1>1, <3>1 DEF Progress, Output
      <3>3. /\ db'.made /\ db'.rows = Packets
            /\ db'.kpis = IF opt.cosim THEN -1 ELSE Packets
        BY <1>1, <2>6, <3>2, KpiFields
      <3> QED
        BY <3>1, <3>3 DEF Packets, CompleteDatabase
    <2> QED
      BY <1>1, <2>2, <2>3, <2>4, <2>5, <2>6
         DEF Main, ApplyDefaults, Checks, InstallDevices, PrepareSidelink,
             ActivateBearers, InstallClient, ClientsInstalled, Prepare, AbortInRun,
             TraceSelection, Stop, Exit, files
  <1> QED
    BY <1>2, <1>3, <1>4 DEF Inv

(* sweep.sh says done of a process that has ended after all of its output. *)
LEMMA ReportInv ==
    ASSUME Inv, Report
    PROVE  Inv'
  <1>1. /\ TypeInv /\ Clients /\ Window /\ Progress /\ Files
        /\ job = "running" /\ mem.pc \in {"end", "abort"} /\ UNCHANGED <<vars, sweeps, kills>>
    BY DEF Inv, Report, Over
  <1>2. /\ job' = IF mem.pc = "end" THEN "done" ELSE "failed"
        /\ done' \in BOOLEAN /\ done' => done \/ mem.pc = "end"
    BY <1>1 DEF Report, TypeInv
  <1>3. TypeInv'
    <2>1. job' \in {"done", "failed"}
      BY <1>2
    <2>2. opt' \in Options /\ jitter' \in [Robots -> Jitters] /\ mem' \in Memory
      BY <1>1 DEF TypeInv, vars, inputs
    <2>3. db' \in [made : BOOLEAN, rows : Int, kpis : Int] /\ csv' \in Int
      BY <1>1 DEF TypeInv, vars, files
    <2>4. kills' \in Nat /\ sweeps' \in Nat
      BY <1>1 DEF TypeInv
    <2>5. done' \in BOOLEAN
      BY DEF Report
    <2> QED
      BY <2>1, <2>2, <2>3, <2>4, <2>5 DEF TypeInv
  <1>4. Clients' /\ Window'
    BY <1>1, SameWindow
       DEF vars, inputs, Clients, Window, StartOf, First, SimStopTime
  <1>5. opt.cosim \in BOOLEAN
    BY <1>1, OptionTypes
  <1>6. mem.pc = "end" => csv = SensingRows /\ (opt.cosim \/ CompleteDatabase)
    BY <1>1, <1>5 DEF Progress, Output, Packets, CompleteDatabase
  <1>7. mem.pc = "abort" => db.kpis = -1 /\ (opt.cosim \/ ~db.made \/ BadWindow)
    BY <1>1, <1>5 DEF Progress, Output, Files
  <1>8. Files'
    BY <1>1, <1>2, <1>6, <1>7, SameWindow
       DEF Files, CompleteDatabase, vars, inputs, files
  <1> QED
    BY <1>2, <1>3, <1>4, <1>8 DEF Inv

(* What a killed process has written stays, and is not taken for complete. *)
LEMMA KillInv ==
    ASSUME Inv, Kill
    PROVE  Inv'
  <1>1. /\ TypeInv /\ Files /\ job = "running" /\ job' = "failed" /\ mem' = Booted
        /\ kills' = kills + 1 /\ UNCHANGED <<inputs, files, done, sweeps>>
    BY DEF Inv, Kill
  <1>2. mem' \in Memory /\ Clients' /\ Window'
    BY <1>1, BootedNext DEF Started
  <1>3. TypeInv'
    BY <1>1, <1>2 DEF TypeInv, inputs, files
  <1>4. kills' # 0
    BY <1>1 DEF TypeInv
  <1>5. Files'
    BY <1>1, <1>4, SameWindow DEF Files, CompleteDatabase, inputs, files
  <1> QED
    BY <1>1, <1>2, <1>3, <1>5 DEF Inv

(***************************************************************************)
(* Where the rows are, what the MAC and the clients were given and what    *)
(* the scripts have said of the files agree, however often the process is  *)
(* killed and the job swept again.                                         *)
(***************************************************************************)
THEOREM SweepInvariant == SweepSpec => []Inv
  <1>1. ASSUME Inv, [SweepNext]_allvars PROVE Inv'
    <2>1. CASE UNCHANGED allvars
      BY <1>1, <2>1, SameWindow
         DEF allvars, vars, driver, inputs, files, Inv, TypeInv, Clients, Window,
             Progress, Rows, Packets, Files, CompleteDatabase, StartOf, First,
             SimStopTime
    <2> QED
      BY <1>1, <2>1, RunInv, ProcessInv, ReportInv, KillInv DEF SweepNext, AllSwept
  <1> QED
    BY <1>1, InitInv, PTL DEF SweepSpec

-----------------------------------------------------------------------------
(***************************************************************************)
(* "done" is only said of a job all of whose rows, tables and sensing rows *)
(* are on disk.                                                            *)
(***************************************************************************)
THEOREM DoneHolds == SweepSpec => []DoneIsComplete
  <1>1. Inv => DoneIsComplete
    BY DEF Inv, Files, DoneIsComplete
  <1> QED
    BY <1>1, SweepInvariant, PTL

(***************************************************************************)
(* A database kpi.py aggregates is complete, however often the process was *)
(* killed.  The sensing CSV beside it is when the process is not running,  *)
(* and the job was once called done or nothing was killed; a kill between  *)
(* the KPI tables and the end of main() is the exception.                  *)
(***************************************************************************)
THEOREM AggregatedHolds == SweepSpec => []AggregatedIsComplete
  <1>1. Inv => AggregatedIsComplete
    BY DEF Inv, Files, AggregatedIsComplete, Aggregates
  <1> QED
    BY <1>1, SweepInvariant, PTL

(***************************************************************************)
(* Unless a process was killed or the MAC rejects the window its options   *)
(* give it, a job that is skipped has been finished.                       *)
(***************************************************************************)
THEOREM SkippedHolds == SweepSpec => []SkippedIsComplete
  <1>1. Inv => SkippedIsComplete
    BY DEF Inv, Files, SkippedIsComplete
  <1> QED
    BY <1>1, SweepInvariant, PTL

(* A finished job of a sweep is never run again, so its files stay. *)
THEOREM CompleteStays == SweepSpec => CompleteIsFinal
  <1>1. Inv /\ [SweepNext]_allvars => [done /\ ~opt.cosim => UNCHANGED files]_allvars
    <2> SUFFICES ASSUME Inv, SweepNext, done, ~opt.cosim PROVE UNCHANGED files
      BY DEF files, allvars, vars
    <2>1. job # "running"
      BY DEF Inv, Files
    <2> QED
      BY <2>1
         DEF SweepNext, RunOne, Process, Report, Kill, AllSwept, allvars, vars, files
  <1> QED
    BY <1>1, SweepInvariant, PTL DEF SweepSpec, CompleteIsFinal

(***************************************************************************)
(* Every client sends for the whole of --simTime if the bearers are        *)
(* activated no earlier than the largest start jitter: 2 s against 100 ms  *)
(* by default.  The stop time knows the start of the last robot only.      *)
(***************************************************************************)
THEOREM ClientsFinish ==
    ASSUME \A a \in Activations, j \in Jitters : j <= a
    PROVE  SweepSpec => []EveryClientFinishes
  <1>1. ASSUME Inv PROVE EveryClientFinishes
    <2> SUFFICES ASSUME mem.simStop > 0, NEW i \in Robots
                 PROVE  /\ mem.stop[i] - mem.start[i] >= opt.simTime
                        /\ mem.stop[i] <= mem.simStop
      BY DEF EveryClientFinishes
    <2>1. /\ opt.activation \in Nat /\ opt.msgPeriod \in Nat /\ opt.simTime \in Nat
          /\ jitter[i] \in Nat /\ jitter[NumRobots] \in Nat
          /\ NumRobots \in Nat /\ NumRobots > 0
      <3>1. NumRobots \in Robots
        BY ScenarioAssumption DEF ScenarioAssumption, Robots
      <3> QED
        BY <1>1, <3>1, OptionTypes DEF Inv
    <2>2. jitter[i] <= opt.activation
      BY <1>1, OptionTypes DEF Inv, TypeInv, Options
    <2>3. /\ ~opt.cosim /\ Len(mem.start) = NumRobots
          /\ mem.simStop = opt.simTime + opt.activation + mem.realAppStart
      BY <1>1 DEF Inv, Clients, Output, SimStopTime
    <2>4. /\ mem.start[i] = opt.activation + jitter[i]
          /\ mem.stop[i] = opt.activation + jitter[i] + opt.msgPeriod + opt.simTime
          /\ mem.realAppStart = opt.activation + jitter[NumRobots] + opt.msgPeriod
      BY <1>1, <2>1, <2>3 DEF Inv, Clients, Robots, StartOf, First
    <2> DEFINE a == opt.activation
               first == a + jitter[i] + opt.msgPeriod
               last == a + jitter[NumRobots] + opt.msgPeriod
    <2>5. /\ a + jitter[i] <= first /\ first <= a + last
          /\ first \in Nat /\ last \in Nat /\ a + jitter[i] \in Nat
      BY <2>1, <2>2
    <2>6. /\ mem.start[i] = a + jitter[i] /\ mem.stop[i] = first + opt.simTime
          /\ mem.simStop = opt.simTime + a + last
      BY <2>3, <2>4
    <2> HIDE DEF a, first, last
    <2>7. a \in Nat /\ opt.simTime \in Nat
      BY <2>1 DEF a
    <2> QED
      BY <2>5, <2>6, <2>7
  <1> QED
    BY <1>1, SweepInvariant, PTL

(***************************************************************************)
(* The selection window lies inside the reservation period for all options *)
(* whose period has at least one slot after T1, and not more than 2^16:    *)
(* those for which the value T2 is clamped to does not wrap around.        *)
(***************************************************************************)
THEOREM WindowFits ==
    ASSUME \A rri \in MsgPeriods \cup ReservationPeriods, mu \in Numerologies, t1 \in T1s :
              rri # 0 => t1 < rri * 2^mu /\ rri * 2^mu - t1 <= 65536
    PROVE  SweepSpec => []WindowInPeriod
  <1>1. ASSUME Inv PROVE WindowInPeriod
    <2> SUFFICES ASSUME mem.mac.rri > 0
                 PROVE  mem.mac.t1 + mem.mac.t2 < mem.mac.rri * 2^opt.mu
      BY DEF WindowInPeriod
    <2> DEFINE period == Rri * 2^opt.mu
    <2>1. /\ mem.mac.rri = Rri /\ mem.mac.t1 = opt.t1 % 256 /\ mem.mac.t2 <= MaxT2(Rri)
      BY <1>1, WindowTypes DEF Inv, Window, GivenWindow, T1OfMac
    <2>2. opt.t1 \in Nat /\ Rri \in Nat /\ opt.mu \in Nat
      BY <1>1, OptionTypes, WindowTypes DEF Inv
    <2>3. opt.t1 < period /\ period - opt.t1 <= 65536
      <3>1. /\ Rri \in MsgPeriods \cup ReservationPeriods
            /\ opt.mu \in Numerologies /\ opt.t1 \in T1s
        BY <1>1 DEF Inv, TypeInv, Options, Rri
      <3>2. Rri # 0
        BY <2>1
      <3> QED
        BY <3>1, <3>2
    <2>4. period \in Int
      BY <2>2
    <2>5. MaxT2(Rri) = (period - opt.t1 - 1) % 65536
      BY DEF MaxT2
    <2> HIDE DEF period
    <2>6. MaxT2(Rri) = period - opt.t1 - 1
      BY <2>2, <2>3, <2>4, <2>5
    <2>7. opt.t1 % 256 <= opt.t1 /\ opt.t1 % 256 \in Int
      BY <2>2
    <2>8. mem.mac.t1 \in Int /\ mem.mac.t2 \in Int
      <3>1. mem \in Memory
        BY <1>1 DEF Inv, TypeInv
      <3> QED
        BY <3>1 DEF Memory, Macs
    <2>9. mem.mac.t1 + mem.mac.t2 < period
      BY <2>1, <2>2, <2>4, <2>6, <2>7, <2>8
    <2> QED
      BY <2>1, <2>9 DEF period
  <1> QED
    BY <1>1, SweepInvariant, PTL

=============================================================================
