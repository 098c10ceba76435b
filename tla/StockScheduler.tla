--------------------------- MODULE StockScheduler ---------------------------
(***************************************************************************)
(* What the sidelink MAC may expect of its scheduler                       *)
(* (NrSlUeMacSchedulerFixedMcs, without the gap PSFCH would ask for): for  *)
(* each list of candidates a grant of as many distinct slots as there are  *)
(* blind retransmissions, if there are as many and of all otherwise, any   *)
(* of the candidates' slots.  Only for an empty list is nothing promised:  *)
(* it may bring the process down.                                          *)
(***************************************************************************)
EXTENDS Integers, FiniteSets, FiniteSetsExt

CONSTANTS Slots, Subchannels, MaxTxs

VARIABLES maxTx, cand, grant, pc

vars == <<maxTx, cand, grant, pc>>

CandidateLists == SUBSET [slot : Slots, sub : Subchannels]

Init ==
    /\ maxTx \in MaxTxs
    /\ cand = {} /\ grant = {} /\ pc = "idle"

Select ==
    /\ pc = "idle" /\ pc' = "sensed"
    /\ cand' \in CandidateLists
    /\ UNCHANGED <<maxTx, grant>>

Transmissions == IF maxTx = 0 THEN 1 ELSE maxTx

Wanted(n) == IF n < Transmissions THEN n ELSE Transmissions

Draw ==
    /\ pc = "sensed" /\ pc' = "granted"
    /\ LET slots == {r.slot : r \in cand} IN
          grant' \in kSubset(Wanted(Cardinality(slots)), slots)
    /\ UNCHANGED <<maxTx, cand>>

Expire ==
    /\ pc = "granted" /\ pc' = "idle"
    /\ cand' = {} /\ grant' = {}
    /\ UNCHANGED maxTx

Crash ==
    /\ pc = "sensed" /\ cand = {} /\ pc' = "crashed"
    /\ UNCHANGED <<maxTx, cand, grant>>

Next == Select \/ Draw \/ Crash \/ Expire

Spec == Init /\ [][Next]_vars

=============================================================================
