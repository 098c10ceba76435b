# Verification of sidewalk

TLA+ models of [sidewalk](../src/README.md), a simulator of sidewalk robots that
exchange state messages over 5G NR sidelink: ns-3 with 5G-LENA on one side,
optionally ROS 2 robots in lock-step on the other. TLC checks the models on
small instances; TLAPS proves every safety property of the runs that hold, and
the four refinements, for every instance (some properties under hypotheses on
options that are stated with the theorem). Liveness is model-checked only.

All paths below are relative to `src/`.

## The system

| part | code | state | operations |
|---|---|---|---|
| RobotGateway | `model/robot-gateway.{h,cc}` | `m_tx` (packet uid -> transmitter, time), `m_deliveries` per robot, positions | `DoInitialize`/`DoUpdate` (one update of the bridge), `HandleTx`, `HandleRx` (trace callbacks) |
| BridgeNode | `ros2/sidewalk_cosim/src/bridge_node.cpp` | robot table (`pose`, `sent_pose`, `fresh`, `have_pose`) under `mu_`; simulated time; PRR counts; CSV; socket buffer | pose callbacks (executor thread); `acceptClient`, step loop, `handleReply`, goodbye (worker thread); destructor |
| a run | `scripts/cosim.sh`, `ros2/sidewalk_cosim/launch/cosim.launch.py` | processes, listening socket, connection | start, sleep, run, wait, shut down |
| scheduler | `model/nr-sl-ue-mac-scheduler-earliest.{h,cc}` | `SlotFraction` | `DoNrSlAllocation`: cut the candidates to the earliest slots |
| scenario | `examples/sidewalk-robots.cc` | options, radio configuration, application schedule | `main` |
| sensing trace | `model/sensing-trace-sink.{h,cc}` | CSV stream | `Save` per sensing report |
| robot node | `ros2/sidewalk_cosim/src/robot_node.cpp` | position, waypoint, `last_` | `tick`, `pickWaypoint`, neighbour callback |
| sweep | `scripts/sweep.sh`, `analysis/kpi.py` | result directory | run the jobs of a preset in parallel, skip finished ones; aggregate |
| presentation | `analysis/{cosim,animate}.py` | none | plots |
| installation | `docker/*.sh`, `CMakeLists.txt` | none | |

**How they interact.** `cosim.sh` launches robots and bridge in the background,
sleeps four seconds and runs ns-3, which connects to the bridge over TCP. From
then on the bridge owns simulated time: it sends a line with a time and, per
robot, a position and a send flag; ns-3 runs its events up to that time, moves
the robots, triggers the sends, and answers with one field per robot listing
what that robot received since the last answer (`src:latency_us;...`). The
bridge publishes each reception to the ROS robot, appends it to a CSV and moves
on by `step_ms`. A time of -1 ends ns-3. Robots publish poses whenever they
like; the table in the bridge is the only place where the two clocks meet.

Without ROS, `sweep.sh` starts `sidewalk-robots` once per job. The program
writes a database `<tag>.db`, whose rows are cached per table and whose KPI
tables are computed at the end, and `<tag>-sensing.csv`, one row per execution
of the sensing algorithm. A later sweep skips a job whose database is not
empty, and `kpi.py` aggregates every database it finds. Inside ns-3, sensing
hands the surviving candidates to the scheduler, which keeps the earliest.

**What is hard about it.**

- Two threads of the bridge share the robot table, and what the worker reads
  from it when a reply arrives may be newer than what was sent.
- Receptions come any number of steps after their transmission, in any order:
  the RLC buffer is unbounded in practice, while `m_tx` is pruned after 1 s.
- Lock-step is a convention of two programs that both block without timeouts.
- Either program may end at any point: bad options, `NS_ABORT`, a kill, Ctrl-C,
  a port in use, an ns-3 that connects too early or to somebody else.
- A job may be killed at any point of its writing, and nobody looks at what it
  left but a test for "not empty" and a query of the aggregation.
- The threshold of a sensing report is uninitialised memory when there was
  nothing to sense.
- A robot's timer runs on the steady clock and its step on the ROS clock, which
  may be set back.
- The numbers that the run is judged by (PRR, latency) are computed from
  counters kept on both sides of a warm-up boundary.
- Small arithmetic with consequences: the 16-bit clamp of T2, the end of the
  simulation computed from one robot's start, a rounded product used as an index.

The hazards, each at its line, are listed in `PROJECT.json`, with the
properties that watch them.

**What makes each part correct.**

- RobotGateway: each reception is reported once, with its true sender and
  latency; state does not grow with the run; every update is answered.
- BridgeNode: a new pose is sent in the next message, once; what is published
  was really transmitted; the PRR is a ratio of comparable counts, and what it
  counts as sent is what ns-3 has transmitted.
- Both: lock-step; the CSV is the log of what happened in ns-3.
- A run: it ends, leaves nothing behind, and its CSV is complete.
- Scheduler: a time prefix of the candidates, no longer than asked for, from
  which the MAC gets no grant the stock scheduler would not have given; it
  fails on no list but the empty one.
- Sensing trace: its averages are over the selections that had data.
- Scenario: the selection window fits the reservation period, every robot sends
  for the whole `--simTime`.
- Sweep: what is called done, skipped or aggregated is complete, and what was
  killed gets done or is noticed.
- Robot: it gets to its waypoints and stays in its area as far as its clock
  allows.

## Modules

| module | models | used by |
|---|---|---|
| `RobotGateway` | the gateway, the simulator loop it lives in, a most general peer and radio | `Cosim`, `RobotGatewayProofs` |
| `RobotGatewayProofs` | theorems about `RobotGateway` | `CosimLogProofs` |
| `BridgeNode` | the bridge's two threads | `Cosim` |
| `ReceptionLog` | abstract: what the log of a co-simulation promises | `Cosim` |
| `Cosim` | `BridgeNode` and `RobotGateway` on one connection; refines `ReceptionLog` | `CosimProofs` |
| `CosimProofs` | theorems about the connection: lock-step, the bridge as a peer | `CosimLogProofs` |
| `CosimLogProofs` | theorems about what the run writes down; the refinement | |
| `CosimLifecycle` | processes, threads, sockets and their ends | `CosimLifecycleProofs` |
| `CosimLifecycleProofs` | theorems about `CosimLifecycle` | |
| `LineFifo` | abstract: a stream of whole lines | `LineReader` |
| `LineReader` | `recvLine` and the splitting of a reply; refines `LineFifo` | `LineReaderProofs` |
| `LineReaderProofs` | theorems about lines, fields and `LineReader` | |
| `StockScheduler` | abstract: what the MAC may expect of its scheduler | `Selection` |
| `EarliestScheduler` | the candidate filter and the draw behind it | `Selection` |
| `Selection` | sensing, its trace and the scheduler composed; refines `StockScheduler` | `SelectionProofs` |
| `SelectionProofs` | theorems about `Selection` | |
| `Scenario` | `main` of `sidewalk-robots`, memory and files | `Sweep` |
| `Sweep` | `sweep.sh` and `kpi.py` around the program of `Scenario` | `SweepProofs` |
| `SweepProofs` | theorems about `Sweep` and the schedule of `Scenario` | |
| `RobotNode` | a robot's movement | `RobotNodeProofs` |
| `RobotNodeProofs` | theorem about `RobotNode` | |

The definitions bear the names of the code where there is one (`m_tx`,
`HandleRx`, `sent_pose`, `Continue`...); `PROJECT.json` maps each of them to its
lines. Definitions under a comment "Mutated form" are wrong on purpose: each
is a plausible bug, and `PROJECT.json` says which property must catch it.

### RobotGateway

ns-3 is a single thread: `phase` says whether it blocks for an update or runs
towards one. `Advance` is the event loop's clock. `DoUpdate` is the whole
handler: positions, sends (with the `Tx` trace, `HandleTx`, inside), answer,
clearing of `m_deliveries`, pruning of `m_tx`. `HandleRx` may fire for any copy
in flight at any later time while ns-3 runs, or never. The peer is as general
as the protocol allows: it takes the answer before it sends the next update,
times only grow, any robots may move and send, and its robot count may be wrong
(with fewer robots ns-3 aborts, with more the surplus never transmits). The
robots start anywhere (`Init`): `main` installs a random position allocator, and
the first update moves them. A delivery is a record; its fields `uid` and `at` and the
variables `sent`, `reported`, `dropped` are history that no guard reads. Robot
`i` of the update number `k` sends uid `k*N+i`: uids of ns-3 are unique and
nothing else about them matters.

One assumption about external code: `TriggeredSendApplication::Send(1)` sends
within the event of the update, so that the `Tx` trace fires in `DoUpdate`.

### BridgeNode and Cosim

`PoseCallback` is the executor thread, everything else the worker. `BuildStep`
is one action although only its loop holds `mu_`: what precedes and follows
touches no shared data. `HandleReply` likewise runs under `mu_`. Poses are
numbered, so a pose identifies its publication. `csv` is a set: an answer has
no two equal items, because of the uid it carries as history. `Cosim` adds the
connection: lines arrive whole, in order, and `recv` fails only when the other
side has ended.

`ReceptionLog` has no socket, no uids, no table: in every step some robots
transmit, later some receptions are told, each once and with its true latency.
The refinement mapping takes simulated time from the bridge, the transmissions
from what the bridge asked for after the gateway's start time, and the log from
the CSV.

### CosimLifecycle

The contents of the lines are dropped; what is left is whose turn it is. `conn`
is the bridge's view of the TCP connection and follows the kernel: ns-3's end is
a FIN, or a reset when it had unread input; a line written after a FIN is
answered by a reset; a line written after a reset is a SIGPIPE, which kills the
bridge. `faults` is chosen at the start: any subset of a port in use, a bridge
slower than the sleep of `cosim.sh`, and an ns-3 that ends during set-up, in
the middle of a step, or while it waits. If another program has the port, the
bridge's `bind` fails and ns-3's `Connect` may reach that program: then ns-3 is
"stray" and waits for it, possibly for ever (`StrangerLeaves` has no fairness). `rows` and `disk` separate what was
written to the stream from what has reached the file.

### LineReader

Bytes are a carriage return, a line feed, a space or content. `Receive` takes any
part of what has arrived; the terminator may be cut in two. ns-3 may end within
a line (`cut`). `BytesConserved` relates buffer and wire to what was written;
`QueueOfLines` says that to its caller `recvLine` is `LineFifo`, which is how
`Cosim` uses its channel towards the bridge. The other direction is read by
`ns3::Gateway`, external code. `Split` is stated by where the loop of
`handleReply` stops (`Ends`), and `End` is its k-th stop.

### StockScheduler, EarliestScheduler and Selection

Candidates are slot/subchannel pairs. `Filter` is `DoNrSlAllocation` up to the
call of the base class: the ceiling of the floating-point product may be one
more than the exact one when that is a whole number, `Keep` is the clamp,
`LastKept` the iterator's target, `ResourcesUpTo` the copy loop. `Draw`, the
base class, is external: `max(1, maxTx)` distinct slots of those it is given.
With `--slotFraction=1` `main` installs the stock scheduler instead (`PassOn`).

`Selection` puts sensing in front, which is external too: with data it leaves
some share of the candidates (at least `Percent` percent of those its own
transmissions leave, which may be none), without data any list, and with
sensing switched off the whole window. Of a report without data
the thresholds may be any value (`Garbage`); `Save` is
`SensingTraceSink::Save`, and its row of the last report is `row`.

The scheduler relies on a list that is not empty and does not check it: for an
empty one `keep` is 0, and the begin of an empty set is moved back by one and
dereferenced. Whether the MAC can hand over such a list is not said anywhere in
`src/`, so the model lets it. `FilterNothing` has the outcomes of that undefined
behaviour: a crash, or an arbitrary `lastKept`, with which the loop over no
resource keeps none. `StockSpec` says that the grant is filled whatever the
fraction and the list, and that a crash needs the empty list: the refinement
maps the filter to a stutter, or to `Stock!Crash`.

### Scenario and Sweep

`Scenario` is `main` in its order (`Then`): defaults and the clamp of T2, the
checks that abort, devices, pool, bearers, one client after the other, output,
the run, and the three things written after it. The run itself ends in an abort
when the MAC rejects its selection window (`Rejects`, `AbortInRun`): the window
ends at T2 or, with `--pdb`, at the packet delay budget, and has to end at
T2min or later and within the reservation period. This is external code,
modelled from the comment at `sidewalk-robots.cc:400`, the help of
`--slSelectionWindow` and the abort of `--pdb=3` in the README. Options that only set an
attribute of ns-3 are dropped; what makes one of the `NS_ABORT`s fire is the
option `invalid`. `MaxT2` is reduced modulo 2^16 as in the code, T1 is cut to 8
bits where it is handed to the MAC. `mem` is the memory of the process, `db`
and `csv` are the files. One table stands for all six: rows are held back in a
cache that is written when full (`TracePacket`) and at the end (`EmptyCaches`);
`WriteKpis` computes the KPI tables from the rows that are on disk by then; the
stream of the CSV may write any part of its buffer at each row
(`TraceSelection`) and the rest when it is destroyed (`Exit`). `EmptyCaches` and
`WriteKpis` are single steps: a kill within one leaves some tables missing, on
which `kpi.py` raises, as it does after a kill before `WriteKpis`.

`Sweep` starts that program, kills it at any point, starts it again or skips it,
and lets `kpi.py` look at the files at any time (`Aggregates` is a state
function: that its queries succeed). The jobs of a preset have distinct tags,
hence distinct files, so one job stands for all; one sweep of a preset runs at
a time. A run of `cosim.sh` is the same program with `cosim` set, which is
started without a test for old files: it has no packet rows and no KPIs.

What comes out: after a kill, or after the MAC has rejected the window, the next
sweep skips the job, since the database is there from `OpenOutput` on
(`SkippedIsComplete` says that nothing else does that: options that `main`
rejects leave no database). That is not silent, because `kpi.py` fails on a
database without KPI tables (`AggregatedIsComplete`); but of the sensing CSV
completeness holds only for a job `sweep.sh` has called done, as the process may
die between the last table and the destructor.

### RobotNode

One coordinate, along the line between two waypoints. Ticks come at any time up
to `MaxLate` apart, on the executor's steady clock; the ROS clock is kept as its
distance from `last_`, may be set back (`SetBack`), and setting it forward is
the same as a late tick. `behind` is history: by how much the clock is behind
the latest time it has shown. A negative `dt` gives a negative step, which is
smaller than the distance and so drives the robot away from its waypoint
(`Drive`). The pose published by each tick is the `PoseCallback` of `BridgeNode`;
one that the middleware drops is no callback.

## Runs

| run | states | question | result |
|---|---|---|---|
| `gateway` | 485,129 | does the gateway account for every reception, and answer? | holds |
| `cosim` | 1,066,124 | do bridge and gateway keep lock-step, agree on what was sent, and implement `ReceptionLog`? | holds |
| `lifecycle` | 16,672 | what is lost, left behind or stuck when something ends early? | holds |
| `lines` | 26,081 | is `recvLine` a queue of lines, and are the fields the right ones? | holds |
| `selection` | 356,964 | does sensing feed the scheduler, can the MAC tell it from the stock one, is the trace true? | holds |
| `sweep` | 773,248 | do window, start, stop and end fit together; what is done, skipped and aggregated? | holds |
| `robot_node` | 8,776 | how far does a clock drive a robot astray, and does it arrive? | holds |
| `pose_as_of_transmission` | | is the published pose the one the packet carried? | no |
| `prr_from_warmup` | | do numerator and denominator agree for any warm-up? | no |
| `bridge_ends_run` | | does the bridge end when ns-3 is gone? | no |
| `csv_complete` | | is the CSV complete however ns-3 ends? | no |
| `window_short_period` | | is the window in the period for periods near T1? | no |

What the failing runs show:

- **Pose.** `handleReply` publishes `sent_pose` as it is when the reply arrives
  (`bridge_node.cpp:235`). If the sender has sent another message since, the
  neighbour gets that one's pose, although line 13 says "as of its
  transmission". What does hold (`PoseWasTransmitted`): it is a pose the robot
  has put in a message no older than the delivered one.
- **PRR.** A delivery counts if `sim_ns - latency >= warmup_s`, with `sim_ns`
    the time of the reply, up to a step after the reception. A message sent less
  than a step before the warm-up ends can enter the numerator only: in the run it
  is sent at 2, received at 3 and told at 4, and with a warm-up of 3 its send time
  is taken for 3. Messages are sent at multiples of the step, so it takes a
  warm-up that is none, and one after the time up to which ns-3 sends nothing.
  With the default warm-up that is the same time, and the counts agree (`cosim`).
- **End of the bridge.** If ns-3 ends before it connects (a bad option is
  enough), `acceptClient` polls on, and launch and `cosim.sh` wait for it.
    A bind failure has the same effect, and ns-3 may then wait as well, for the
  program that has the port. In all of these the connection was never made, by a
  fault at the start (`NeverMet`); no other run hangs (`SomeoneMoves`).
- **CSV.** If ns-3 is killed between two steps, the bridge's step provokes a
  reset, `recvLine` fails, and the goodbye at line 191 raises SIGPIPE. Rows in
  the stream buffer are lost. A crash *within* a step does no harm
  (`CsvSurvives`): the goodbye is then the first line after the FIN.
- **Window.** For `reservationPeriod * 2^mu <= t1` the bound wraps to about
  65535 and T2 is left as it was. Periods of the presets are long enough.

### Bounds

- `gateway`: two robots, one pose, updates up to time 4 with every increment,
  retention 1, sends ignored before 1, two ticks per microsecond. So packets
  outlive the retention, several receptions share a field, latencies are
  rounded, sends fall on both sides of the start. `PeerRobots = {1, 2, 3}`
  includes the abort and a peer with too many robots. Copies are independent of each other except through `m_tx` and the
  fields, which two robots already exercise; the proofs cover any number.
- `cosim`: two robots, step 2, four steps, so a packet can be told in its own step, the next, or after the pruning; two poses per robot, both in one step
  or in two, and robots that skip steps. A bridge with one, two or three robots
  meets an ns-3 with two. `Warmup = TxEnable` is the code's default; the violation
  run of the PRR sets it half a step later, and counts a microsecond to the tick,
  so that no rounding is involved.
- `lifecycle`: three steps, all 32 fault sets. A fault can hit the first step,
  one in the middle, and the last.
- `lines`: three replies of two fields, empty or not (so lines of one to three
  bytes), chunks of one to four bytes: every cut inside and between lines, and
  chunks that span two terminators.
- `selection`: all candidate lists over five slots and two subchannels, the empty
  one included, all fractions of fifths, zero, one and three transmissions (256 is cut to zero in
  8 bits), two raises of the threshold. Five slots tell a fraction, a
  retransmission and a rounding apart; the proofs cover any number.
- `sweep`: periods of 20 and 100 ms (the presets), numerologies 0 and 1, T1
  and T2 on both sides of the clamp, windows that end at T2 or at a delay budget,
  some too short for the MAC (`SelectionWindow` 5 ms, `Pdbs` 3 ms, or T2 clamped
  to 0), extreme jitters for three robots.
  Activation times are 100 ms or more: the end of the simulation
  counts on the activation time being at least the largest jitter (the
  default is 2 s). Three rows with a cache of one, and two sensing rows, so that
  a kill finds rows on disk, in the cache and in neither. Three sweeps and two
  kills: killed, skipped or restarted, and done.
- `robot_node`: an area that is not a multiple of the speed, ticks up to three
  units apart, so a tick may move the robot by nothing, by a part of its leg or
  past its end, and two set-backs of up to four, more than a tick may be late.

The bounds put on counters are `MaxTime`, `MaxPose`, `Duration`, `MaxLines`,
`MaxRaises`, `MaxSweeps`, `MaxKills`, `MaxLate`, `MaxSetBack`, `MaxSetBacks`.

### Fairness

Weak fairness of threads and processes, which the operating system schedules:
`GatewayStep` (the ns-3 thread), `WorkerStep` (the bridge's worker), `MainStep`,
`ScriptStep`, `Ns3Step`, `Process \/ Report` of `Sweep` (a job and the shell that
waits for it), and in `RobotNode` the clock (`Advance`) and the executor that runs
a due timer (`Tick`). `GatewayStep` includes `Advance`, and a step has
finitely many events, so simulated time reaches the update. Nothing is assumed
about pose callbacks, receptions, the peer, faults, kills, the setting of a clock
or the user. In the
lifecycle ns-3 either answers a step or dies in it; a hung ns-3 would hang the
bridge in `recv`, which has no timeout.

## Proofs

Seven of the eight proof modules prove an inductive invariant of their model
and derive the properties from it; the eighth, `RobotNodeProofs`, needs none.
TLC has checked each invariant on the run of its model before it was proved. All
theorems are about `Spec` (`SweepSpec`), without fairness, and hold for every
value of the constants the named assumptions of the modules allow: their types
and signs, and the ranges of the options in `Scenario`. Where a theorem assumes
more, it says so below.

### RobotGateway

`RobotGatewayProofs`, for every `N`, retention, start time, set of poses and
peer, assuming only `GatewayAssumption` (types of the constants):

| theorem | property |
|---|---|
| `CoreInvariant` | the inductive invariant `Core` |
| `TypeCorrect` | `TypeOK` |
| `Remembered` | `RememberedForASecond` |
| `DeliveriesAccurate` | `Accurate` |
| `Bounded` | `NothingLingers` |
| `ToldExactlyOnce` | `ExactlyOnce` |

`TypeOK` alone is not inductive: a latency is a natural number only because the
reception is later than the transmission. `Core` adds what the argument needs:
`m_tx` is part of the history of transmissions, these are in the past, their
uids are below the next one and unique, and every copy in the air belongs to
one of them and goes to another robot. Each property is then inductive relative
to `Core`. For `ExactlyOnce` the steps that matter are `DoUpdate`, where the
new copies' uids are fresh (`NewPairsAreNew`) and the fields move to `reported`
as a whole, and `HandleRx`, where one pair leaves the air (`OnAirShrinks`) and
enters either its field or `dropped` (`ReceptionsGrow`).

### Cosim

`CosimProofs` and `CosimLogProofs`, for every number of robots, step, duration,
number of poses and interleaving of the two threads with ns-3:

| theorem | property | module |
|---|---|---|
| `TurnInvariant` | the inductive invariant `Inv` | `CosimProofs` |
| `LockStepHolds` | `LockStep` | |
| `FreshHolds` | `FreshIffUnsent` | |
| `RobotsFollowHolds` | `RobotsFollow` | |
| `BridgeIsThePeer` | `GatewaySpec` | |
| `LogInvariant` | the inductive invariant `LogInv` | `CosimLogProofs` |
| `PosesTransmitted` | `PoseWasTransmitted` | |
| `EverythingTold` | `NothingLostAtEnd` | |
| `ImplementsReceptionLog` | `LogSpec` | |
| `CosimTypes` | `TypeOK` | |
| `PrrIsARatio` | `PrrCountsFromWarmup`, if `Warmup <= TxEnable` | |
| `CountedTransmitted` | `CountedWasTransmitted`, if `TxEnable <= Warmup` | |

`LockStep` is not inductive: it says nothing of the times in the messages.
`Turn` does. The connection is in one of six states (the worker at a step, an
update under way, the update taken, its answer under way, the worker leaving an
ns-3 that has aborted, the end), and in each it fixes what both ends hold: which
side has the message, that its time is the bridge's `sim_ns`, that ns-3's clock
lies between the last step and this one. `Table` and `Published` add the types
of the bridge's table and that what was sent had been published; `Placed` that
ns-3's robots, from the first answer on, are where the last message put them. From `Turn` it follows that
the bridge is a peer as `RobotGateway` assumes it, so the gateway's theorems
carry over by instantiation.

`LogInv` then follows a reception from `m_deliveries` through the answer into
a line of the CSV. The parts about the two histories say that each transmission
was asked for, for that time, and at most once per robot and time (`Asked`,
`OneASend`), that while the bridge is at a step both are in its past (`SentBefore`,
`RequestsPast`), and that the table's `sent_pose` is the pose of a robot's latest
request (`LatestPose`). Those about the answer say that it
is true (`ReplyTrue`), of this step (`Recent`, `Emptied`) and without repetition
(`Once`), and that what the gateway has reported is what the CSV has, but for one answer on its way
(`ToldOrOnItsWay`). Hence each line is a reception, told once (`Rows`,
`RowsOnce`), and the step of the bridge that handles an answer is the abstract
`Tell`. `PrrIsARatio` assumes that the gateway ignores sends before the
warm-up, which is so by default, both being 2.1 s; `prr_from_warmup` shows what
happens otherwise.

`CountedTransmitted` needs the other direction: `SentOrOnItsWay` says that a
message asked for once the radio is active has been transmitted, or that the
update ns-3 has not run yet asks for it. Between two steps no update is on its
way, so the messages that count and the transmissions from the warm-up on map
one to one to each other (`OneRequest`, `Asked`, `OneASend`). It assumes that no
message counts that ns-3 ignores, which is again so by default.

### CosimLifecycle

`CosimLifecycleProofs`, for every `Duration` and every set of faults:

| theorem | property |
|---|---|
| `LifecycleTypes` | `TypeOK` |
| `CsvSurvivesHolds` | `CsvSurvives` |
| `NothingLeft` | `NothingLeftBehind` |
| `SomeoneCanMove` | `SomeoneMoves` |

The invariant says which process is there when another one is (`Processes`),
whose turn it is on the connection (`Conversation`), how rows on disk and in the
stream are counted (`Counts`), and in which states of the worker ns-3 can have
died (`Survival`). The last one carries the argument about SIGPIPE: an ns-3 that
dies in a step is missed by the `recv` that follows, and between that and the
`close` there is a single line, the goodbye, which a FIN alone does not turn into a
signal. Only a death between two steps is followed by two lines.

`SomeoneMoves` names what each program waits for (`WorkerReady`, `Ns3Ready`, ...:
the guards of its actions, as ENABLED is outside the prover's reach) and says that
but for the runs of `NeverMet` one of them has it. It needs a second invariant, `Waits`,
kept by every program given the first: a worker that awaits a line on an open
connection has its own line unread, ns-3 at work on it, or the answer on its way;
an ns-3 that waits is connected or sees the end; a worker that has returned has
shut rclcpp down, unless the bind failed. It is the safety half of
`ConnectedRunEnds`: that the one which can go on does, and that the run is finite,
is left to fairness and to TLC.

### LineReader

`LineReaderProofs`, for every number of robots and replies, every length of the
fields, every chunk size, and wherever ns-3 ends:

| theorem | property |
|---|---|
| `ReaderInvariant` | the inductive invariant `Inv` |
| `BytesKept` | `BytesConserved` |
| `FieldsArrive` | `FieldsAgree` |
| `ImplementsFifo` | `QueueOfLines` |
| `SplitJoin` | splitting undoes joining |
| `LostAfterAll` | the safety half of `EverythingReadThenLost` |

The work is in the lemmas about data. `FlattenSeq` of the community modules is
a recursive function; that it is unique, and what it does at either end of a
sequence, is shown by least counterexample (`Least`), which needs no induction
theorem with an operator parameter. From that come the offsets of the pieces of
a concatenation and what is at each position (`PieceOf`, `PieceAt`). A line is
such a concatenation; its spaces are where its fields end and nowhere else
(`EndsOfLine`), the ends grow, so the k-th of them is the one with k ends up to
it (`Ranks`), and between two lies the field (`FieldBetween`). For the stream,
`FirstLine` says that the first terminator found is that of the first line and
that what is kept is all that follows; `CutOff` that no part of an unfinished
reply is a terminator; `NextLine` and `AllRead` apply both to buffer and wire.

### Selection

`SelectionProofs`, for every window, set of subchannels, fraction, rounding,
number of retransmissions and threshold, assuming `SchedulerAssumption` and
`SelectionAssumption`:

| theorem | property |
|---|---|
| `KeepsEarliest` | `KeepsPrefix` |
| `KeepsNoMore` | `NoLaterThanAsked` |
| `ImplementsStock` | `StockSpec` |
| `RowsTrue` | `RowsAreTrue` |

The properties say what is kept, not how much; the invariant `IInv` adds types
and `Enough`: the slots kept are at least the transmissions that can be placed. The argument has three
parts. A set of slots is finite and has a k-th element in time order for each k
up to its size (`KthSlot`: the least m with k slots up to it), so `LastKept` is
what the iterator points to and the loop keeps exactly `Keep` slots
(`FilterKeeps`). `Keep` is at least the transmissions, at most the slots, and no
more than the ceiling unless for a retransmission (`KeepBounds`), and the ceiling
is less than one above the exact product (`CeilingBounds`). Then a draw of
`max(1, maxTx)` slots from the kept ones is a draw of as many from all
(`DrawIsStock`), which is the only step of the refinement that is not a matter
of renaming.

### Scenario and Sweep

`SweepProofs`, for every set of options, number of robots, rows, sweeps and
kills:

| theorem | property |
|---|---|
| `SweepInvariant` | the inductive invariant `Inv` |
| `DoneHolds` | `DoneIsComplete` |
| `AggregatedHolds` | `AggregatedIsComplete` |
| `SkippedHolds` | `SkippedIsComplete` |
| `CompleteStays` | `CompleteIsFinal` |
| `ClientsFinish` | `EveryClientFinishes`, if no jitter exceeds an activation time |
| `WindowFits` | `WindowInPeriod`, if the bound of the clamp does not wrap |

What is on disk is true only because of where every row is while `main` runs
(`Progress`: in the cache or in the database, until the caches are emptied; only
then in the KPI tables), and stays true because a standalone job whose database
exists is never started again (`Files`). `Clients` says what the loop over the
robots has given each client so far, and with it when the bearers and the end of
the simulation are; `Window` what T2 was clamped to before the MAC was given it.

The two theorems with a hypothesis are about options the program does not check.
`main` computes the end of the simulation from the start of the last robot, to
which it adds the activation time once more; that covers another robot's larger
jitter only if no jitter exceeds the activation time (by default 100 ms against
2 s). And
the bound of the clamp is computed modulo 2^16: `WindowFits` asks that it does
not wrap for the periods in use, `window_short_period` is a run where it does.

### RobotNode

`RobotNodeProofs`, for every area, speed and behaviour of the clock: `StaysNear`
(`TypeOK` and `NeverFarOutside`), which is inductive as it stands: driving
forwards the distance from the area and the bound shrink together, backwards
they grow together, and the clock alone moves only the bound, upwards.

### Only model-checked

Liveness: `Answered`, `RunEnds`, `InterruptEnds`, `ConnectedRunEnds`,
`EverythingReadThenLost`, `StartedGetsDone` and `ReachesWaypoint`. Fairness and
ENABLED are outside the prover's reach. The failing runs are, by their nature,
TLC's counterexamples.

## Not modelled, and why

- The sidelink stack, `ns3::Gateway`, ROS 2 delivery: external code, present
  as nondeterminism (a copy arrives any time later or never).
- Other aborts of ns-3 itself during the run than that for a window the MAC
  rejects: like that one and like a kill, they leave a database that later sweeps
  skip.
- `SIM_TIME` is not part of the tag, so a sweep with another value skips what is
  there and `kpi.py` averages both. A listed hazard; nothing in the repository
  says otherwise, so no property is stated.
- The second coordinate of a robot, a waypoint equal to its position, and
  `neighbours_seen_`, which feeds a log line.
- The reported percentiles, the averages of `kpi.py` and its figures: arithmetic
  on what the models account for.
- The IPv6 branch, which no script uses, and the options that only set an
  attribute; plots; installation.

## Plan

Done, in this order: `RobotGateway` and its proofs, `BridgeNode`,
`ReceptionLog`, `Cosim`, `CosimLifecycle`, `EarliestScheduler`, `Scenario`,
`LineReader`; then `Sweep`, `RobotNode` and its proofs, `StockScheduler`,
`Selection` and its proofs; then `CosimProofs`, `CosimLogProofs`,
`SweepProofs`, `CosimLifecycleProofs` and `LineReaderProofs`.

Left:

1. The safety halves of the other liveness properties, as `LostAfterAll` is for
   `EverythingReadThenLost` and `SomeoneCanMove` for `ConnectedRunEnds`: in `Cosim`
   that no state of `Turn` is stuck before the last step.
2. Variant functions for the same properties, as action properties: each step of
   the worker or of ns-3 brings the run nearer to its end.
