----------------------------- MODULE Selection -----------------------------
(***************************************************************************)
(* One resource selection of a UE from end to end: the Mode 2 sensing of   *)
(* the MAC (external), its trace, SensingTraceSink                         *)
(* (model/sensing-trace-sink.cc), and the scheduler that draws from what   *)
(* sensing has left.                                                       *)
(*                                                                         *)
(* The MAC raises the RSRP threshold in steps of 3 dB until enough of the  *)
(* candidates survive.  Without sensing data, at the first selection, it   *)
(* excludes nothing and leaves both thresholds of its report               *)
(* uninitialised: they may be anything.                                    *)
(***************************************************************************)
EXTENDS EarliestScheduler

CONSTANTS
    Percent,   \* share of the candidates that has to survive
    Initial,   \* slThresPsschRsrp
    MaxRaises, \* bound of the model: raises of the threshold
    Garbage    \* values an uninitialised threshold may have

ASSUME SelectionAssumption ==
    /\ Percent \in 1 .. 100 /\ Initial \in Int /\ MaxRaises \in Nat
    /\ Garbage \subseteq Int

VARIABLE row \* the last row of the sensing CSV; data and raises are history

NoRow == [thr |-> <<>>, steps |-> 0, data |-> FALSE, raises |-> 0]

SelectionInit == Init /\ row = NoRow

-----------------------------------------------------------------------------
(* Enough of a number of candidates have survived. *)
Survives(list, left) == Cardinality(list) * 100 >= Percent * left

(* Integer division of C++. *)
Quotient(a, b) == IF a >= 0 THEN a \div b ELSE -((-a) \div b)

(* Mutated form: the thresholds of a report are trusted. *)
TrustsEvery(data) == TRUE

(* Whether the thresholds of a report mean something. *)
Valid(data) == data

(* The row of a report with these thresholds. *)
Save(init, final, data, raises) ==
    [thr |-> IF Valid(data) THEN <<init, final>> ELSE <<>>,
     steps |-> IF Valid(data) THEN Quotient(final - init, 3) ELSE 0,
     data |-> data, raises |-> raises]

(* Of the candidates that are left after the UE's own transmissions are *)
(* taken out, possibly none, the RSRP takes out more.                   *)
SenseData ==
    /\ cand' \in {c \in SUBSET Resources :
                    \E left \in Cardinality(c) .. Cardinality(Resources) : Survives(c, left)}
    /\ \E k \in 0 .. MaxRaises : row' = Save(Initial, Initial + 3 * k, TRUE, k)

(* Without data nothing under src/ says which candidates are handed over. *)
SenseNothing ==
    /\ cand' \in SUBSET Resources
    /\ \E init, final \in Garbage : row' = Save(init, final, FALSE, 0)

(* EnableSensing is off: the whole window, and no report. *)
TakeWindow == cand' = Resources /\ UNCHANGED row

Sense ==
    /\ pc = "idle"
    /\ SenseData \/ SenseNothing \/ TakeWindow
    /\ pc' = "sensed"
    /\ UNCHANGED <<fraction, maxTx, given, grant>>

(* --slotFraction=1: the stock scheduler itself. *)
PassOn ==
    /\ pc = "sensed" /\ fraction = Den
    /\ given' = cand /\ pc' = "filtered"
    /\ UNCHANGED <<fraction, maxTx, cand, grant>>

FilterOrPassOn == PassOn \/ (fraction < Den /\ (Filter \/ FilterNothing))

Schedule == (FilterOrPassOn \/ Draw \/ Expire) /\ UNCHANGED row

(* The process is gone. *)
Crashed == pc = "crashed" /\ UNCHANGED <<vars, row>>

SelectionNext == Sense \/ Schedule \/ Crashed

SelectionSpec == SelectionInit /\ [][SelectionNext]_<<vars, row>>

-----------------------------------------------------------------------------
Stock == INSTANCE StockScheduler WITH pc <- IF pc = "filtered" THEN "sensed" ELSE pc

(***************************************************************************)
(* The comment above the computation of keep: "so the base class can still *)
(* fill the grant".  Whatever the fraction, each grant is one the stock    *)
(* scheduler could have drawn from all the candidates: as many distinct    *)
(* slots, no other.  An empty list, of which DoNrSlAllocation takes the    *)
(* slot before the first, is the only one it may crash on.                 *)
(***************************************************************************)
StockSpec == Stock!Spec

(* dropna(subset=["rsrp_thr_init_dbm"]) of kpi.py. *)
Aggregated(r) == r.thr # <<>>

(***************************************************************************)
(* kpi.py averages exactly the selections that had sensing data, and their *)
(* rows tell how often the threshold was raised; nothing uninitialised     *)
(* reaches the CSV, and a selection without data is not a back-off.        *)
(***************************************************************************)
RowsAreTrue ==
    /\ Aggregated(row) <=> row.data
    /\ row.steps = row.raises
    /\ Aggregated(row) => row.thr = <<Initial, Initial + 3 * row.raises>>

=============================================================================
