------------------------------ MODULE Scenario ------------------------------
(***************************************************************************)
(* main() of examples/sidewalk-robots.cc: how the options of a run become  *)
(* the radio's configuration, the applications' schedule and the files in  *)
(* the output directory, in the order the program does it.                 *)
(*                                                                         *)
(* Times are milliseconds, windows slots, of which there are 2^mu to a     *)
(* millisecond.  Options that only set a value of the channel, the antenna *)
(* or the output are left out; the option invalid stands for those that an *)
(* NS_ABORT of main() rejects: "early" the scenario's name or the          *)
(* frequency, "pool" the bitmap or the keep probability.  The selection    *)
(* window is only rejected by the MAC, at the first selection of the run.  *)
(*                                                                         *)
(* mem is the memory of the process and dies with it; db and csv are the   *)
(* files.  A run with given options and seed writes a fixed number of rows.*)
(***************************************************************************)
EXTENDS Integers, Sequences

CONSTANTS
    NumRobots,
    MsgPeriods,        \* --msgPeriod
    ReservationPeriods,\* --reservationPeriod, 0 = msgPeriod
    Numerologies,      \* --numerologyBwpSl
    T1s, T2s,          \* --t1, --t2
    Pdbs,              \* --pdb, 0 = the window ends at T2
    SelectionWindow,   \* --slSelectionWindow
    Activations,       \* --slBearerActivationTime
    SimTimes,          \* --simTime
    Jitters,           \* values of the start jitter, at most 100
    PktRows,           \* rows a standalone run adds to pktTxRx
    CacheSize,         \* rows a statistics table holds back
    SensingRows        \* executions of the sensing algorithm in a run

UInt16 == 0 .. 2^16 - 1

ASSUME ScenarioAssumption ==
    /\ NumRobots \in Nat \ {0}
    /\ MsgPeriods \subseteq UInt16 \ {0} /\ ReservationPeriods \subseteq UInt16
    /\ Numerologies \subseteq 0 .. 5
    /\ T1s \subseteq UInt16 /\ T2s \subseteq UInt16 /\ Pdbs \subseteq UInt16
    /\ SelectionWindow \in UInt16
    /\ Activations \subseteq Nat /\ SimTimes \subseteq Nat
    /\ \A j \in Jitters : j \in Nat /\ j <= 100
    /\ PktRows \in Nat /\ SensingRows \in Nat /\ CacheSize \in Nat \ {0}

Robots == 1 .. NumRobots

Options == [msgPeriod : MsgPeriods, reservationPeriod : ReservationPeriods,
            mu : Numerologies, t1 : T1s, t2 : T2s, pdb : Pdbs,
            activation : Activations, simTime : SimTimes, cosim : BOOLEAN,
            invalid : {"none", "early", "pool"}]

VARIABLES
    opt,    \* the command line
    jitter, \* what --RngRun makes of the start jitter of each robot
    mem,    \* the memory of the process, see Booted
    db,     \* <tag>.db: made = it is not empty, rows of pktTxRx, rows of it
            \* that the tables of the KPIs are made from; -1 = no such tables
    csv     \* rows of <tag>-sensing.csv

inputs == <<opt, jitter>>
files == <<db, csv>>
vars == <<inputs, mem, files>>

NoWindow == [t1 |-> 0, t2 |-> 0, rri |-> 0, pdb |-> 0]

Booted ==
    [pc |-> "defaults",
     rri |-> 0, t2 |-> 0,                      \* reservationPeriod, t2
     mac |-> NoWindow,                         \* what the MAC is given
     start |-> <<>>, stop |-> <<>>,            \* of the clients; no stop: 0
     realAppStart |-> 0,
     txEnable |-> 0,                           \* the gateway's; 0 = none
     simStop |-> 0,                            \* Simulator::Stop; 0 = none
     traced |-> 0, cached |-> 0, sensed |-> 0] \* rows so far

NoDatabase == [made |-> FALSE, rows |-> 0, kpis |-> -1]

Init ==
    /\ opt \in Options /\ jitter \in [Robots -> Jitters]
    /\ mem = Booted
    /\ db = NoDatabase /\ csv = 0

-----------------------------------------------------------------------------
(* Mutated forms: the database is opened first; KPIs before the last rows. *)
OutputFirst ==
    [defaults |-> "checks", checks |-> "output", output |-> "devices",
     devices |-> "sidelink", sidelink |-> "bearers", bearers |-> "clients",
     clients |-> "prepare", prepare |-> "run", run |-> "caches",
     caches |-> "kpis", kpis |-> "exit", exit |-> "end"]
KpisFirst ==
    [defaults |-> "checks", checks |-> "devices", devices |-> "sidelink",
     sidelink |-> "bearers", bearers |-> "clients", clients |-> "output",
     output |-> "prepare", prepare |-> "run", run |-> "kpis",
     kpis |-> "caches", caches |-> "exit", exit |-> "end"]

(* The order of main(). *)
Then ==
    [defaults |-> "checks", checks |-> "devices", devices |-> "sidelink",
     sidelink |-> "bearers", bearers |-> "clients", clients |-> "output",
     output |-> "prepare", prepare |-> "run", run |-> "caches",
     caches |-> "kpis", kpis |-> "exit", exit |-> "end"]

(* The next part of main(), unless an NS_ABORT ends the process. *)
Pass(rejected) == IF rejected THEN "abort" ELSE Then[mem.pc]

(* Mutated form: the window may end with the period, whatever T1 is. *)
MaxT2IgnoresT1(rri) == (rri * 2^opt.mu) % 65536

(* uint16_t maxT2: the int result is cut to 16 bits. *)
MaxT2(rri) == (rri * 2^opt.mu - opt.t1 - 1) % 65536

(* The reservation period defaults to that of the messages. *)
Rri == IF opt.reservationPeriod = 0 THEN opt.msgPeriod ELSE opt.reservationPeriod

(* T2 is clamped to the period. *)
ClampedT2 == IF opt.t2 > MaxT2(Rri) THEN MaxT2(Rri) ELSE opt.t2

ApplyDefaults ==
    /\ mem.pc = "defaults"
    /\ mem' = [mem EXCEPT !.pc = Pass(FALSE), !.rri = Rri, !.t2 = ClampedT2]
    /\ UNCHANGED <<inputs, files>>

(* Scenario name and frequency. *)
Checks ==
    /\ mem.pc = "checks"
    /\ mem' = [mem EXCEPT !.pc = Pass(opt.invalid = "early")]
    /\ UNCHANGED <<inputs, files>>

(* T1 is an uint8_t in the MAC. *)
T1OfMac == opt.t1 % 256

(* Robots, channel, antennas, devices. *)
InstallDevices ==
    /\ mem.pc = "devices"
    /\ mem' = [mem EXCEPT !.pc = Pass(FALSE),
                          !.mac.t1 = T1OfMac, !.mac.t2 = mem.t2]
    /\ UNCHANGED <<inputs, files>>

(* Mutated form: the condition of the NS_ABORT is turned round. *)
RejectsGoodPool == opt.invalid # "pool"

(* An empty or ill-formed bitmap, or a keep probability above one. *)
RejectsPool == opt.invalid = "pool"

(* The scheduler, the resource pool and the pre-configuration. *)
PrepareSidelink ==
    /\ mem.pc = "sidelink"
    /\ mem' = [mem EXCEPT !.pc = Pass(RejectsPool)]
    /\ UNCHANGED <<inputs, files>>

(* SidelinkInfo, and with it the bearers of both directions. *)
ActivateBearers ==
    /\ mem.pc = "bearers"
    /\ mem' = [mem EXCEPT !.pc = Pass(FALSE), !.mac.rri = mem.rri,
                          !.mac.pdb = opt.pdb]
    /\ UNCHANGED <<inputs, files>>

(***************************************************************************)
(* One turn of the loop over the robots.  A standalone client sends its    *)
(* first packet one period after its start, when its bit rate allows it,   *)
(* and runs for simTime from then; a triggered one has no stop time.       *)
(***************************************************************************)
InstallClient ==
    /\ mem.pc = "clients" /\ Len(mem.start) < NumRobots
    /\ LET start == opt.activation + IF opt.cosim THEN 0 ELSE jitter[Len(mem.start) + 1]
           first == IF opt.cosim THEN start ELSE start + opt.msgPeriod
       IN  mem' = [mem EXCEPT !.start = Append(@, start),
                              !.stop = Append(@, IF opt.cosim THEN 0 ELSE first + opt.simTime),
                              !.realAppStart = first]
    /\ UNCHANGED <<inputs, files>>

ClientsInstalled ==
    /\ mem.pc = "clients" /\ Len(mem.start) = NumRobots
    /\ mem' = [mem EXCEPT !.pc = Pass(FALSE)]
    /\ UNCHANGED <<inputs, files>>

(* Sinks, the database with its tables, the trace hooks, the sensing CSV. *)
OpenOutput ==
    /\ mem.pc = "output"
    /\ mem' = [mem EXCEPT !.pc = Pass(FALSE)]
    /\ db' = [NoDatabase EXCEPT !.made = TRUE] /\ csv' = 0
    /\ UNCHANGED inputs

(* Mutated form. *)
StopAfterSimTime == opt.simTime + opt.activation

SimStopTime == opt.simTime + opt.activation + mem.realAppStart

TxEnable == opt.activation + 100

(* Simulator::Stop, or the gateway that will be told to stop. *)
Prepare ==
    /\ mem.pc = "prepare"
    /\ mem' = [mem EXCEPT !.pc = Pass(FALSE),
                          !.txEnable = IF opt.cosim THEN TxEnable ELSE @,
                          !.simStop = IF opt.cosim THEN @ ELSE SimStopTime]
    /\ UNCHANGED <<inputs, files>>

-----------------------------------------------------------------------------
(* The slot after which the MAC's selection window ends, and the first it may. *)
WindowEnd(mac) == IF mac.pdb = 0 THEN mac.t2 ELSE mac.pdb * 2^opt.mu

T2Min == SelectionWindow * 2^opt.mu

(* The windows the MAC aborts at: too short, or past the period. *)
Rejects(mac) ==
    \/ WindowEnd(mac) < T2Min
    \/ mac.t1 + WindowEnd(mac) >= mac.rri * 2^opt.mu

(* Every run selects resources, and aborts when it does so the first time. *)
AbortInRun ==
    /\ mem.pc = "run" /\ Rejects(mem.mac)
    /\ mem' = [mem EXCEPT !.pc = Pass(TRUE)]
    /\ UNCHANGED <<inputs, files>>

(* Triggered packets carry no sequence number and leave no row. *)
Packets == IF opt.cosim THEN 0 ELSE PktRows

(* A packet is sent or received: a row goes to the cache of its table, *)
(* which is written when it is full. *)
TracePacket ==
    /\ mem.pc = "run" /\ mem.traced < Packets
    /\ LET full == mem.cached = CacheSize IN
          /\ mem' = [mem EXCEPT !.traced = @ + 1, !.cached = IF full THEN 1 ELSE @ + 1]
          /\ db' = [db EXCEPT !.rows = IF full THEN @ + mem.cached ELSE @]
    /\ UNCHANGED <<inputs, csv>>

(* SensingTraceSink::Save: a row goes to the stream, which may write some. *)
TraceSelection ==
    /\ mem.pc = "run" /\ ~Rejects(mem.mac) /\ mem.sensed < SensingRows
    /\ mem' = [mem EXCEPT !.sensed = @ + 1]
    /\ csv' \in csv .. mem.sensed + 1
    /\ UNCHANGED <<inputs, db>>

(* Simulator::Run returns: the stop time, or the bridge's goodbye. *)
Stop ==
    /\ mem.pc = "run" /\ ~Rejects(mem.mac)
    /\ mem.traced = Packets /\ mem.sensed = SensingRows
    /\ mem' = [mem EXCEPT !.pc = Pass(FALSE)]
    /\ UNCHANGED <<inputs, files>>

(* Mutated form: the last rows stay in the cache. *)
EmptiedNothing == db

Emptied == [db EXCEPT !.rows = @ + mem.cached]

EmptyCaches ==
    /\ mem.pc = "caches"
    /\ mem' = [mem EXCEPT !.pc = Pass(FALSE), !.cached = 0]
    /\ db' = Emptied
    /\ UNCHANGED <<inputs, csv>>

(* V2xKpi computes its tables from pktTxRx; a co-simulation has none. *)
WriteKpis ==
    /\ mem.pc = "kpis"
    /\ mem' = [mem EXCEPT !.pc = Pass(FALSE)]
    /\ db' = [db EXCEPT !.kpis = IF opt.cosim THEN @ ELSE db.rows]
    /\ UNCHANGED <<inputs, csv>>

(* The destructors close the sensing CSV. *)
Exit ==
    /\ mem.pc = "exit"
    /\ mem' = [mem EXCEPT !.pc = Pass(FALSE)]
    /\ csv' = mem.sensed
    /\ UNCHANGED <<inputs, db>>

Main ==
    \/ ApplyDefaults \/ Checks \/ InstallDevices \/ PrepareSidelink \/ ActivateBearers
    \/ InstallClient \/ ClientsInstalled \/ OpenOutput \/ Prepare
    \/ AbortInRun \/ TracePacket \/ TraceSelection \/ Stop
    \/ EmptyCaches \/ WriteKpis \/ Exit

Over == mem.pc \in {"end", "abort"}

Ended == Over /\ UNCHANGED vars

Next == Main \/ Ended

Spec == Init /\ [][Next]_vars

-----------------------------------------------------------------------------
(***************************************************************************)
(* sidewalk-robots.cc:400: "the selection window [n+T1, n+T2] must lie     *)
(* inside one reservation period (the MAC aborts otherwise). Clamp T2 when *)
(* the period is short."  So the MAC never gets one that does not.         *)
(***************************************************************************)
WindowInPeriod ==
    mem.mac.rri > 0 => mem.mac.t1 + mem.mac.t2 < mem.mac.rri * 2^opt.mu

(***************************************************************************)
(* In a standalone run every robot sends for the whole of --simTime: the   *)
(* simulation, whose end is computed from the start of the last robot      *)
(* only, outlives the application of each, whatever jitter each has drawn: *)
(* the activation time is added twice, and covers the largest jitter.      *)
(***************************************************************************)
EveryClientFinishes ==
    mem.simStop > 0 =>
        \A i \in Robots : /\ mem.stop[i] - mem.start[i] >= opt.simTime
                          /\ mem.stop[i] <= mem.simStop

=============================================================================
