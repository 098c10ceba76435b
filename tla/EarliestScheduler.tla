------------------------- MODULE EarliestScheduler -------------------------
(***************************************************************************)
(* NrSlUeMacSchedulerEarliest::DoNrSlAllocation                            *)
(* (model/nr-sl-ue-mac-scheduler-earliest.cc): before the random draw of   *)
(* the base class, the candidate resources are cut down to those of the    *)
(* earliest slots.                                                         *)
(*                                                                         *)
(* A candidate resource is a slot and a subchannel.  The slots are         *)
(* numbered in time order, as operator< of SfnSf sorts them.  SlotFraction *)
(* is fraction / Den.  It is a double: when the exact product with the     *)
(* number of slots is a whole number, the rounded one may be just above    *)
(* it, and ceil then gives one more.                                       *)
(*                                                                         *)
(* The candidates come from the sensing of Selection, which composes it    *)
(* with these actions.                                                     *)
(***************************************************************************)
EXTENDS Integers, FiniteSets, FiniteSetsExt

CONSTANTS
    Window,      \* the last slot of a selection window
    Subchannels,
    Den,         \* denominator of SlotFraction
    MaxTxs       \* values of GetSlMaxTxTransNumPssch

ASSUME SchedulerAssumption ==
    /\ Window \in Nat
    /\ IsFiniteSet(Subchannels) /\ Subchannels # {}
    /\ Den \in Nat \ {0}
    /\ MaxTxs \subseteq Nat

Slots == 0 .. Window

Resources == [slot : Slots, sub : Subchannels]

VARIABLES
    fraction, \* m_slotFraction, in units of 1/Den
    maxTx,    \* GetSlMaxTxTransNumPssch()
    cand,     \* candResources: what sensing has left
    given,    \* earliest: what the base class draws from
    grant,    \* the slots the base class has drawn
    pc        \* "idle", "sensed", "filtered", "granted", "crashed"

vars == <<fraction, maxTx, cand, given, grant, pc>>

SlotsOf(list) == {r.slot : r \in list}

Init ==
    /\ fraction \in 0 .. Den
    /\ maxTx \in MaxTxs
    /\ cand = {} /\ given = {} /\ grant = {}
    /\ pc = "idle"

-----------------------------------------------------------------------------
AtLeast(a, b) == IF a < b THEN b ELSE a
AtMost(a, b) == IF a > b THEN b ELSE a

(* What ceil(m_slotFraction * n) may be. *)
Ceilings(n) ==
    LET q == (fraction * n) \div Den IN
    IF (fraction * n) % Den # 0 THEN {q + 1}
    ELSE IF fraction \in {0, Den} THEN {q}
    ELSE {q, q + 1}

(* Mutated form: retransmissions are not allowed for. *)
KeepFractionOnly(n, c) == AtMost(AtLeast(c, 1), n)

(* keep: std::clamp of the ceiling c for n distinct slots. *)
Keep(n, c) == AtMost(AtLeast(c, AtMost(AtLeast(1, maxTx), n)), n)

(* Mutated forms: the iterator is not moved back by one; < for <=. *)
CutoffPastLast(slots, keep) ==
    CHOOSE s \in slots : Cardinality({t \in slots : t < s}) = AtMost(keep, Cardinality(slots) - 1)
ResourcesBefore(list, last) == {r \in list : r.slot < last}

(* *cutoff: the keep-th slot in time order. *)
LastKept(slots, keep) ==
    CHOOSE s \in slots : Cardinality({t \in slots : t <= s}) = keep

(* The copy loop. *)
ResourcesUpTo(list, last) == {r \in list : ~(last < r.slot)}

Filter ==
    /\ pc = "sensed" /\ cand # {}
    /\ LET slots == SlotsOf(cand) n == Cardinality(slots) IN
          \E c \in Ceilings(n) :
              given' = ResourcesUpTo(cand, LastKept(slots, Keep(n, c)))
    /\ pc' = "filtered"
    /\ UNCHANGED <<fraction, maxTx, cand, grant>>

(***************************************************************************)
(* Nothing checks for an empty list.  keep is 0 then, begin() is moved     *)
(* back by one and dereferenced, which is undefined: the process crashes,  *)
(* or lastKept is anything and the copy loop, over no resource, keeps none.*)
(***************************************************************************)
FilterNothing ==
    /\ pc = "sensed" /\ cand = {}
    /\ given' = {}
    /\ pc' \in {"filtered", "crashed"}
    /\ UNCHANGED <<fraction, maxTx, cand, grant>>

(***************************************************************************)
(* NrSlUeMacSchedulerFixedMcs: maxTx distinct slots of what it is given,   *)
(* or all of them when there are fewer (no PSFCH, so no minimum gap); of   *)
(* nothing, no slot.                                                       *)
(***************************************************************************)
Draw ==
    /\ pc = "filtered"
    /\ grant' \in kSubset(AtMost(AtLeast(1, maxTx), Cardinality(SlotsOf(given))),
                          SlotsOf(given))
    /\ pc' = "granted"
    /\ UNCHANGED <<fraction, maxTx, cand, given>>

(* The grant has run out. *)
Expire ==
    /\ pc = "granted"
    /\ cand' = {} /\ given' = {} /\ grant' = {}
    /\ pc' = "idle"
    /\ UNCHANGED <<fraction, maxTx>>

-----------------------------------------------------------------------------
(***************************************************************************)
(* What is kept is a prefix in time and whole slots: no resource is        *)
(* dropped while a later one, or another one of its slot, stays, so the    *)
(* draw in a slot is as uniform as the stock scheduler's; and something is *)
(* kept of every list that has something.                                  *)
(***************************************************************************)
KeepsPrefix ==
    pc = "filtered" =>
        /\ given \subseteq cand /\ (cand # {} => given # {})
        /\ \A r \in given, q \in cand : q.slot <= r.slot => q \in given

(***************************************************************************)
(* No more is kept than was asked for: a slot beyond the fraction (but for *)
(* the rounding of one slot) is there only for a retransmission.           *)
(***************************************************************************)
NoLaterThanAsked ==
    pc = "filtered" =>
        LET n == Cardinality(SlotsOf(cand)) k == Cardinality(SlotsOf(given)) IN
        \/ k <= AtLeast(1, maxTx)
        \/ (k - 1) * Den <= fraction * n

=============================================================================
