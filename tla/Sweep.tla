------------------------------- MODULE Sweep -------------------------------
(***************************************************************************)
(* One job of a campaign: scripts/sweep.sh starts sidewalk-robots for it,  *)
(* skips it in a later sweep when its database is there, and               *)
(* analysis/kpi.py aggregates what it finds.  The jobs of a preset have    *)
(* distinct tags, hence distinct files, and share nothing else.            *)
(*                                                                         *)
(* Options with cosim are the run of scripts/cosim.sh, which starts the    *)
(* same program and skips nothing.  The process may be killed at any time; *)
(* what it has written stays.  One sweep of a preset runs at a time.       *)
(***************************************************************************)
EXTENDS Scenario

CONSTANTS
    MaxSweeps, \* bound of the model: times the scripts are started
    MaxKills   \* bound of the model: times the process is killed

ASSUME SweepAssumption == MaxSweeps \in Nat /\ MaxKills \in Nat

VARIABLES
    job,    \* the last thing a script has said of the job
    done,   \* a script has printed "done" for it
    sweeps, \* how often the scripts were started
    kills   \* how often the process was killed

driver == <<job, done, sweeps, kills>>
allvars == <<vars, driver>>

SweepInit == Init /\ job = "none" /\ done = FALSE /\ sweeps = 0 /\ kills = 0

-----------------------------------------------------------------------------
(* Mutated form: the pattern of compgen matches no file. *)
NeverHasRun == FALSE

(* compgen -G "$OUT/${tag}-*.db", and [ -s ] of the first match. *)
HasRun == db.made

(* run_one: the job is skipped or started. *)
RunOne ==
    /\ job # "running" /\ sweeps < MaxSweeps
    /\ sweeps' = sweeps + 1
    /\ \/ /\ HasRun /\ ~opt.cosim
          /\ job' = "skipped" /\ UNCHANGED mem
       \/ /\ ~HasRun \/ opt.cosim
          /\ job' = "running" /\ mem' = Booted
    /\ UNCHANGED <<inputs, files, done, kills>>

Process == job = "running" /\ Main /\ UNCHANGED driver

(* echo "done $tag" or echo "FAILED $tag", by the exit status. *)
Report ==
    /\ job = "running" /\ Over
    /\ job' = IF mem.pc = "end" THEN "done" ELSE "failed"
    /\ done' = (done \/ mem.pc = "end")
    /\ UNCHANGED <<vars, sweeps, kills>>

(* The process dies, and what it had in memory with it. *)
Kill ==
    /\ job = "running" /\ ~Over /\ kills < MaxKills
    /\ kills' = kills + 1
    /\ job' = "failed"
    /\ mem' = Booted
    /\ UNCHANGED <<inputs, files, done, sweeps>>

AllSwept == job # "running" /\ sweeps = MaxSweeps /\ UNCHANGED allvars

SweepNext == RunOne \/ Process \/ Report \/ Kill \/ AllSwept

(* The operating system runs the process and the shell that waits for it. *)
SweepSpec == SweepInit /\ [][SweepNext]_allvars /\ WF_allvars(Process \/ Report)

-----------------------------------------------------------------------------
(* kpi.py: its query of the first table that is missing raises. *)
Aggregates == db.made /\ db.kpis # -1

CompleteDatabase == db.made /\ db.rows = PktRows /\ db.kpis = PktRows

(***************************************************************************)
(* sweep.sh says "done" only of a job all of whose output is on disk: the  *)
(* rows held back in caches, the KPI tables computed from all of them, and *)
(* the sensing rows, whose stream is closed by a destructor.               *)
(***************************************************************************)
DoneIsComplete ==
    job = "done" => csv = SensingRows /\ (opt.cosim \/ CompleteDatabase)

(***************************************************************************)
(* Whenever kpi.py is run, while a job is running or after one was killed: *)
(* a database it can aggregate is a complete one.  It raises on every      *)
(* other, so a half-written run, which later sweeps skip, never enters a   *)
(* summary in silence.  The sensing CSV is as complete only once the job   *)
(* is done, or if nothing was killed: a kill between the KPI tables and    *)
(* the end of main() leaves a database that is aggregated, and beside it a *)
(* CSV without its last rows.                                              *)
(***************************************************************************)
AggregatedIsComplete ==
    Aggregates => /\ CompleteDatabase
                  /\ job # "running" /\ (done \/ kills = 0) => csv = SensingRows

(* The window these options give the MAC, and that the MAC aborts at it. *)
GivenWindow == [t1 |-> T1OfMac, t2 |-> ClampedT2, rri |-> Rri, pdb |-> opt.pdb]

BadWindow == Rejects(GivenWindow)

(***************************************************************************)
(* sweep.sh:54 takes a non-empty database for a finished run.  It is one   *)
(* unless the process was killed or the MAC has aborted the run: every     *)
(* NS_ABORT of main() comes before the database is opened, so a job whose  *)
(* options main() rejects is tried again.  One whose window the MAC        *)
(* rejects has a database without tables, and is skipped from then on.     *)
(***************************************************************************)
SkippedIsComplete ==
    job = "skipped" /\ kills = 0 /\ ~BadWindow => CompleteDatabase

(* A later sweep leaves the files of a finished job as they are. *)
CompleteIsFinal == [][done /\ ~opt.cosim => UNCHANGED files]_allvars

(***************************************************************************)
(* A job whose options neither main() nor the MAC rejects and that is      *)
(* started, also after it was killed in an earlier sweep, gets done once   *)
(* nothing kills it any more.                                              *)
(***************************************************************************)
StartedGetsDone ==
    (job = "running" /\ opt.invalid = "none" /\ ~BadWindow /\ kills = MaxKills)
        ~> job = "done"

=============================================================================
