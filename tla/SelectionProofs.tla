-------------------------- MODULE SelectionProofs --------------------------
(***************************************************************************)
(* For every window, set of subchannels, fraction, rounding and number of  *)
(* retransmissions: Selection implements StockScheduler, what is kept is a *)
(* prefix in time and no longer than asked for, and the rows of the        *)
(* sensing CSV are true.                                                   *)
(*                                                                         *)
(* The slots of a list are finitely many, so for each k up to their number *)
(* there is a k-th one in time order (KthSlot), which is what *cutoff is.  *)
(* What is kept then has exactly Keep slots, and the rest is arithmetic on *)
(* the clamp.                                                              *)
(***************************************************************************)
EXTENDS Selection, FiniteSetTheorems, WellFoundedInduction, TLAPS

UpTo(S, m) == {t \in S : t <= m}

(* Sets of slots are finite. *)
LEMMA SlotsFinite ==
    ASSUME NEW S \in SUBSET Slots
    PROVE  IsFiniteSet(S) /\ Cardinality(S) \in Nat
  <1>1. IsFiniteSet(Slots)
    BY FS_Interval, SchedulerAssumption DEF SchedulerAssumption, Slots
  <1>2. IsFiniteSet(S)
    BY <1>1, FS_Subset
  <1> QED
    BY <1>2, FS_CardinalityType

(* A nonempty set of naturals has a least element. *)
LEMMA Least ==
    ASSUME NEW T \in SUBSET Nat, T # {}
    PROVE  \E m \in T : \A y \in T : m <= y
  <1>1. PICK m \in T : \A y \in T : ~ (<<y, m>> \in OpToRel(<, Nat))
    BY NatLessThanWellFounded, WFMin
  <1>2. \A y \in T : ~ (y < m)
    BY <1>1 DEF OpToRel
  <1> QED
    BY <1>2

(* For each k up to its size, a set of slots has a k-th slot. *)
LEMMA KthSlot ==
    ASSUME NEW S \in SUBSET Slots, NEW k \in 1 .. Cardinality(S)
    PROVE  \E s \in S : Cardinality(UpTo(S, s)) = k
  <1> DEFINE T == {m \in Nat : Cardinality(UpTo(S, m)) >= k}
  <1>1. Cardinality(S) \in Nat /\ k \in Nat /\ 1 <= k /\ k <= Cardinality(S)
    BY SlotsFinite
  <1>2. Window \in Nat /\ \A t \in S : t \in Nat /\ t <= Window
    BY SchedulerAssumption DEF SchedulerAssumption, Slots
  <1>3. UpTo(S, Window) = S
    BY <1>2 DEF UpTo
  <1>4. T # {}
    BY <1>1, <1>2, <1>3
  <1>5. PICK m \in T : \A y \in T : m <= y
    <2> HIDE DEF T
    <2>1. T \in SUBSET Nat
      BY DEF T
    <2> QED
      BY <1>4, <2>1, Least
  <1> m \in Nat
    OBVIOUS
  <1> HIDE DEF T
  <1>6. \A j \in Int : /\ IsFiniteSet(UpTo(S, j))
                       /\ Cardinality(UpTo(S, j)) \in Nat
    <2>1. \A j \in Int : UpTo(S, j) \in SUBSET Slots
      BY DEF UpTo
    <2> QED
      BY <2>1, SlotsFinite
  <1>7. Cardinality(UpTo(S, m - 1)) < k
    <2>1. CASE m = 0
      <3>1. UpTo(S, m - 1) = {}
        BY <1>2, <2>1 DEF UpTo
      <3>2. Cardinality(UpTo(S, m - 1)) = 0
        BY <3>1, FS_EmptySet, Zenon
      <3> QED
        BY <1>1, <3>2
    <2>2. CASE m # 0
      <3>1. m - 1 \in Nat /\ m - 1 \notin T
        BY <1>5, <2>2
      <3> QED
        BY <1>1, <1>6, <3>1 DEF T
    <2> QED
      BY <2>1, <2>2
  <1>8. m \in S
    <2> SUFFICES ASSUME m \notin S PROVE FALSE
      OBVIOUS
    <2>1. \A t \in S : t <= m <=> t <= m - 1
      BY <1>2
    <2>2. UpTo(S, m) = UpTo(S, m - 1)
      BY <2>1 DEF UpTo
    <2> QED
      BY <1>1, <1>6, <1>7, <2>2 DEF T
  <1>9. UpTo(S, m) = UpTo(S, m - 1) \cup {m} /\ m \notin UpTo(S, m - 1)
    <2>1. \A t \in S : t <= m <=> t <= m - 1 \/ t = m
      BY <1>2
    <2>2. m <= m /\ ~(m <= m - 1)
      OBVIOUS
    <2> QED
      BY <1>8, <2>1, <2>2 DEF UpTo
  <1>10. Cardinality(UpTo(S, m)) = Cardinality(UpTo(S, m - 1)) + 1
    <2>1. IsFiniteSet(UpTo(S, m - 1))
      BY <1>6
    <2> QED
      BY <1>9, <2>1, FS_AddElement
  <1>11. Cardinality(UpTo(S, m)) >= k
    BY DEF T
  <1>12. Cardinality(UpTo(S, m)) = k
    BY <1>1, <1>6, <1>7, <1>10, <1>11
  <1> QED
    BY <1>8, <1>12

(* *cutoff is the keep-th slot in time order. *)
LEMMA LastKeptIsKth ==
    ASSUME NEW S \in SUBSET Slots, NEW k \in 1 .. Cardinality(S)
    PROVE  /\ LastKept(S, k) \in S
           /\ Cardinality(UpTo(S, LastKept(S, k))) = k
  BY KthSlot DEF LastKept, UpTo

-----------------------------------------------------------------------------
(* What std::clamp makes of the ceiling. *)
LEMMA KeepBounds ==
    ASSUME NEW n \in Nat, n > 0, NEW c \in Int, maxTx \in Nat
    PROVE  /\ Keep(n, c) \in 1 .. n
           /\ Keep(n, c) >= AtMost(AtLeast(1, maxTx), n)
           /\ Keep(n, c) <= AtLeast(1, maxTx) \/ Keep(n, c) <= c
  BY DEF Keep, AtMost, AtLeast

(* What ceil may return is less than one above the exact product. *)
LEMMA CeilingBounds ==
    ASSUME fraction \in 0 .. Den, NEW n \in Nat, NEW c \in Ceilings(n)
    PROVE  c \in Int /\ (c - 1) * Den <= fraction * n
  <1> DEFINE p == fraction * n
             q == p \div Den
  <1>1. Den \in Nat /\ Den > 0
    BY SchedulerAssumption DEF SchedulerAssumption
  <1>2. p \in Nat
    BY <1>1
  <1>3. c = q \/ c = q + 1
    BY DEF Ceilings
  <1> HIDE DEF p
  <1>4. q \in Int /\ q * Den <= p
    BY <1>1, <1>2
  <1> HIDE DEF q
  <1>5. (q - 1) * Den = q * Den - Den /\ q * Den \in Int
    BY <1>1, <1>4
  <1>6. CASE c = q
    BY <1>1, <1>2, <1>4, <1>5, <1>6 DEF p
  <1>7. CASE c = q + 1
    <2>1. c - 1 = q
      BY <1>4, <1>7
    <2> QED
      BY <1>4, <1>7, <2>1 DEF p
  <1> QED
    BY <1>3, <1>6, <1>7

-----------------------------------------------------------------------------
(* What is kept has its slots among the candidates', and enough of them. *)
Enough ==
    pc = "filtered" =>
        Cardinality(SlotsOf(given)) >= AtMost(AtLeast(1, maxTx), Cardinality(SlotsOf(cand)))

TypeInv ==
    /\ fraction \in 0 .. Den /\ maxTx \in Nat
    /\ cand \in SUBSET Resources /\ given \in SUBSET cand
    /\ pc \in {"idle", "sensed", "filtered", "granted", "crashed"}
    /\ pc = "idle" => given = {}

IInv == TypeInv /\ Enough /\ KeepsPrefix /\ NoLaterThanAsked

(* The slots of a list, and their number. *)
LEMMA SlotsOfList ==
    ASSUME NEW list \in SUBSET Resources
    PROVE  /\ SlotsOf(list) \in SUBSET Slots
           /\ Cardinality(SlotsOf(list)) \in Nat
           /\ list # {} => Cardinality(SlotsOf(list)) > 0
  <1>1. SlotsOf(list) \in SUBSET Slots
    BY DEF SlotsOf, Resources
  <1>2. IsFiniteSet(SlotsOf(list)) /\ Cardinality(SlotsOf(list)) \in Nat
    BY <1>1, SlotsFinite
  <1>3. ASSUME list # {} PROVE Cardinality(SlotsOf(list)) # 0
    <2>1. SlotsOf(list) # {}
      BY <1>3 DEF SlotsOf
    <2> QED
      BY <1>2, <2>1, FS_EmptySet
  <1> QED
    BY <1>1, <1>2, <1>3

(* The copy loop keeps Keep(n, c) slots, the earliest ones. *)
LEMMA FilterKeeps ==
    ASSUME TypeInv, Filter
    PROVE  LET n == Cardinality(SlotsOf(cand)) IN
           \E c \in Ceilings(n), last \in SlotsOf(cand) :
              /\ given' = ResourcesUpTo(cand, last)
              /\ SlotsOf(given') = UpTo(SlotsOf(cand), last)
              /\ Cardinality(SlotsOf(given')) = Keep(n, c)
  <1> DEFINE S == SlotsOf(cand)
             n == Cardinality(S)
  <1>1. cand \in SUBSET Resources /\ cand # {} /\ maxTx \in Nat /\ fraction \in 0 .. Den
    BY DEF TypeInv, Filter
  <1>2. S \in SUBSET Slots /\ n \in Nat /\ n > 0
    BY <1>1, SlotsOfList
  <1>3. PICK c \in Ceilings(n) : given' = ResourcesUpTo(cand, LastKept(S, Keep(n, c)))
    BY DEF Filter
  <1>4. Keep(n, c) \in 1 .. n
    <2>1. c \in Int
      BY <1>1, <1>2, CeilingBounds
    <2> HIDE DEF n
    <2> QED
      BY <1>1, <1>2, <2>1, KeepBounds
  <1> DEFINE last == LastKept(S, Keep(n, c))
  <1>5. last \in S /\ Cardinality(UpTo(S, last)) = Keep(n, c)
    <2> HIDE DEF S
    <2> QED
      BY <1>2, <1>4, LastKeptIsKth
  <1>6. SlotsOf(given') = UpTo(S, last)
    <2> HIDE DEF last
    <2>1. last \in Int /\ \A r \in cand : r.slot \in Int
      BY <1>1, <1>2, <1>5, SchedulerAssumption DEF SchedulerAssumption, Resources, Slots
    <2>2. given' = {r \in cand : ~(last < r.slot)}
      BY <1>3 DEF ResourcesUpTo, last
    <2>3. given' = {r \in cand : r.slot <= last}
      BY <2>1, <2>2
    <2> QED
      BY <2>3 DEF SlotsOf, UpTo
  <1> QED
    BY <1>3, <1>5, <1>6

-----------------------------------------------------------------------------
(* Sensing starts over: nothing is kept yet. *)
LEMMA SenseIInv ==
    ASSUME IInv, Sense
    PROVE  IInv'
  <1>1. cand' \in SUBSET Resources
    BY DEF Sense, SenseData, SenseNothing, TakeWindow
  <1>2. given' = {} /\ pc' = "sensed"
    BY DEF IInv, TypeInv, Sense
  <1> QED
    BY <1>1, <1>2 DEF IInv, TypeInv, Enough, KeepsPrefix, NoLaterThanAsked, Sense

(* The filter keeps enough, a prefix, and no more than asked for. *)
LEMMA FilterIInv ==
    ASSUME IInv, Filter
    PROVE  IInv'
  <1> DEFINE n == Cardinality(SlotsOf(cand))
  <1>1. /\ cand \in SUBSET Resources /\ cand # {}
        /\ maxTx \in Nat /\ fraction \in 0 .. Den
    BY DEF IInv, TypeInv, Filter
  <1>2. PICK c \in Ceilings(n), last \in SlotsOf(cand) :
              /\ given' = ResourcesUpTo(cand, last)
              /\ SlotsOf(given') = UpTo(SlotsOf(cand), last)
              /\ Cardinality(SlotsOf(given')) = Keep(n, c)
    BY FilterKeeps DEF IInv
  <1>3. UNCHANGED <<fraction, maxTx, cand>> /\ pc' = "filtered"
    BY DEF Filter
  <1>4. n \in Nat /\ n > 0 /\ SlotsOf(cand) \in SUBSET Slots
    BY <1>1, SlotsOfList
  <1>5. last \in Int /\ \A r \in cand : r.slot \in Int
    BY <1>1, <1>2, <1>4, SchedulerAssumption DEF SchedulerAssumption, Resources, Slots
  <1>6. given' = {r \in cand : r.slot <= last}
    BY <1>2, <1>5 DEF ResourcesUpTo
  <1> HIDE DEF n
  <1>7. c \in Int /\ (c - 1) * Den <= fraction * n
    BY <1>1, <1>2, <1>4, CeilingBounds
  <1>8. /\ Keep(n, c) \in 1 .. n
        /\ Keep(n, c) >= AtMost(AtLeast(1, maxTx), n)
        /\ Keep(n, c) <= AtLeast(1, maxTx) \/ Keep(n, c) <= c
    BY <1>1, <1>4, <1>7, KeepBounds
  <1>9. TypeInv'
    BY <1>1, <1>3, <1>6 DEF TypeInv
  <1>10. Enough'
    BY <1>2, <1>3, <1>8 DEF Enough, AtMost, AtLeast, n
  <1>11. KeepsPrefix'
    <2>1. given' # {}
      <3>1. PICK r \in cand : r.slot = last
        BY <1>2 DEF SlotsOf
      <3> QED
        BY <1>5, <1>6, <3>1
    <2>2. given' \subseteq cand'
      BY <1>3, <1>6
    <2>3. ASSUME NEW r \in given', NEW q \in cand', q.slot <= r.slot PROVE q \in given'
      BY <1>3, <1>5, <1>6, <2>3
    <2> QED
      BY <2>1, <2>2, <2>3 DEF KeepsPrefix
  <1>12. NoLaterThanAsked'
    <2> DEFINE k == Keep(n, c)
    <2>1. Den \in Nat /\ k \in Int
      BY <1>8, SchedulerAssumption DEF SchedulerAssumption
    <2>2. CASE k <= AtLeast(1, maxTx)
      BY <1>2, <1>3, <2>2 DEF NoLaterThanAsked, AtLeast
    <2>3. CASE k <= c
      <3> HIDE DEF k
      <3>1. (k - 1) * Den <= (c - 1) * Den
        BY <1>7, <2>1, <2>3
      <3>2. (k - 1) * Den \in Int /\ (c - 1) * Den \in Int /\ fraction * n \in Int
        BY <1>1, <1>4, <1>7, <2>1
      <3>3. (k - 1) * Den <= fraction * n
        BY <1>7, <3>1, <3>2
      <3> QED
        BY <1>2, <1>3, <3>3 DEF NoLaterThanAsked, n, k
    <2> QED
      BY <1>8, <2>2, <2>3
  <1> QED
    BY <1>9, <1>10, <1>11, <1>12 DEF IInv

(* Of an empty list nothing is kept, if the process lives on. *)
LEMMA FilterNothingIInv ==
    ASSUME IInv, FilterNothing
    PROVE  IInv'
  <1>1. /\ cand = {} /\ given' = {} /\ pc' \in {"filtered", "crashed"}
        /\ UNCHANGED <<fraction, maxTx, cand>>
    BY DEF FilterNothing
  <1>2. Cardinality(SlotsOf({})) = 0
    <2>1. SlotsOf({}) = {}
      BY DEF SlotsOf
    <2> QED
      BY <2>1, FS_EmptySet, Zenon
  <1>3. /\ Cardinality(SlotsOf(given')) = 0 /\ Cardinality(SlotsOf(cand')) = 0
        /\ cand' = {} /\ maxTx' \in Nat
    BY <1>1, <1>2 DEF IInv, TypeInv
  <1>4. TypeInv'
    BY <1>1 DEF IInv, TypeInv
  <1>5. Enough'
    BY <1>3 DEF Enough, AtMost, AtLeast
  <1>6. KeepsPrefix'
    BY <1>1 DEF KeepsPrefix
  <1>7. NoLaterThanAsked'
    BY <1>3 DEF NoLaterThanAsked, AtLeast
  <1> QED
    BY <1>4, <1>5, <1>6, <1>7 DEF IInv

(* Without the filter everything is kept, which the fraction allows. *)
LEMMA PassOnIInv ==
    ASSUME IInv, PassOn
    PROVE  IInv'
  <1> DEFINE n == Cardinality(SlotsOf(cand))
  <1>1. /\ cand \in SUBSET Resources /\ maxTx \in Nat /\ fraction = Den
        /\ Den \in Nat
    BY SchedulerAssumption DEF IInv, TypeInv, PassOn, SchedulerAssumption
  <1>2. UNCHANGED <<fraction, maxTx, cand>> /\ pc' = "filtered" /\ given' = cand
    BY DEF PassOn
  <1>3. n \in Nat
    BY <1>1, SlotsOfList
  <1>4. Cardinality(SlotsOf(given')) = n
    BY <1>2
  <1> HIDE DEF n
  <1>5. TypeInv'
    BY <1>1, <1>2 DEF IInv, TypeInv
  <1>6. Enough'
    BY <1>1, <1>2, <1>3, <1>4 DEF Enough, AtMost, AtLeast, n
  <1>7. KeepsPrefix'
    BY <1>1, <1>2 DEF KeepsPrefix
  <1>8. NoLaterThanAsked'
    <2>1. (n - 1) * Den <= Den * n
      BY <1>1, <1>3
    <2> QED
      BY <1>1, <1>2, <1>4, <2>1 DEF NoLaterThanAsked, n
  <1> QED
    BY <1>5, <1>6, <1>7, <1>8 DEF IInv

(* IInv is an invariant of Selection. *)
LEMMA Invariant == SelectionSpec => []IInv
  <1>1. SelectionInit => IInv
    BY SchedulerAssumption
       DEF SelectionInit, Init, IInv, TypeInv, Enough, KeepsPrefix, NoLaterThanAsked, SchedulerAssumption
  <1>2. ASSUME IInv, [SelectionNext]_<<vars, row>> PROVE IInv'
    <2>1. CASE Sense
      BY <1>2, <2>1, SenseIInv
    <2>2. CASE PassOn
      BY <1>2, <2>2, PassOnIInv
    <2>3. CASE Filter
      BY <1>2, <2>3, FilterIInv
    <2>4. CASE FilterNothing
      BY <1>2, <2>4, FilterNothingIInv
    <2>5. CASE Draw
      BY <1>2, <2>5 DEF Draw, IInv, TypeInv, Enough, KeepsPrefix, NoLaterThanAsked
    <2>6. CASE Expire
      BY <1>2, <2>6 DEF Expire, IInv, TypeInv, Enough, KeepsPrefix, NoLaterThanAsked
    <2>7. CASE Crashed \/ UNCHANGED <<vars, row>>
      <3>1. UNCHANGED <<fraction, maxTx, cand, given, pc>>
        BY <2>7 DEF vars, Crashed
      <3> QED
        BY <1>2, <3>1 DEF IInv, TypeInv, Enough, KeepsPrefix, NoLaterThanAsked
    <2> QED
      BY <1>2, <2>1, <2>2, <2>3, <2>5, <2>6, <2>7, <2>4 DEF SelectionNext, Schedule, FilterOrPassOn
  <1> QED
    BY <1>1, <1>2, PTL DEF SelectionSpec

(***************************************************************************)
(* What DoNrSlAllocation passes on is a prefix in time of the candidates,  *)
(* in whole slots.                                                         *)
(***************************************************************************)
THEOREM KeepsEarliest == SelectionSpec => []KeepsPrefix
  BY Invariant, PTL DEF IInv

(***************************************************************************)
(* It is no longer than the fraction or the retransmissions ask for,       *)
(* whichever way the multiplication by the fraction is rounded.            *)
(***************************************************************************)
THEOREM KeepsNoMore == SelectionSpec => []NoLaterThanAsked
  BY Invariant, PTL DEF IInv

-----------------------------------------------------------------------------
(* StockScheduler's cardinality is this module's. *)
LEMMA SameCardinality == \A T : Stock!Cardinality(T) = Cardinality(T)
  BY Zenon DEF Stock!Cardinality, Cardinality

(* Of what is kept the base class draws what it could draw of everything. *)
LEMMA DrawIsStock ==
    ASSUME IInv, Draw
    PROVE  Stock!Draw
  <1> DEFINE n == Cardinality(SlotsOf(cand))
             k == Cardinality(SlotsOf(given))
             wanted == AtMost(AtLeast(1, maxTx), k)
  <1>1. /\ cand \in SUBSET Resources /\ given \in SUBSET cand /\ maxTx \in Nat
        /\ pc = "filtered" /\ pc' = "granted"
    BY DEF IInv, TypeInv, Draw
  <1>2. n \in Nat /\ k \in Nat
    BY <1>1, SlotsOfList
  <1>3. SlotsOf(given) \subseteq SlotsOf(cand)
    BY <1>1 DEF SlotsOf
  <1>4. IsFiniteSet(SlotsOf(cand))
    BY <1>1, SlotsOfList, SlotsFinite
  <1>5. k <= n
    BY <1>3, <1>4, FS_Subset
  <1>6. k >= AtMost(AtLeast(1, maxTx), n)
    BY <1>1 DEF IInv, Enough
  <1>7. grant' \in SUBSET SlotsOf(given) /\ Cardinality(grant') = wanted
    BY DEF Draw, kSubset
  <1> HIDE DEF n, k
  <1>8. wanted = Stock!Wanted(n)
    BY <1>1, <1>2, <1>5, <1>6 DEF Stock!Wanted, Stock!Transmissions, AtMost, AtLeast
  <1>9. grant' \in SUBSET SlotsOf(cand) /\ Cardinality(grant') = Stock!Wanted(n)
    BY <1>3, <1>7, <1>8
  <1>10. grant' \in Stock!kSubset(Stock!Wanted(Stock!Cardinality(SlotsOf(cand))), SlotsOf(cand))
    BY <1>9, SameCardinality DEF Stock!kSubset, n
  <1> QED
    BY <1>1, <1>10 DEF Stock!Draw, Draw, SlotsOf

(***************************************************************************)
(* Whatever the fraction, the MAC cannot tell the two schedulers apart:    *)
(* sensing is Select, the filter is a stutter or, for an empty list and no *)
(* other, Crash.                                                           *)
(***************************************************************************)
THEOREM ImplementsStock == SelectionSpec => StockSpec
  <1>1. SelectionInit => Stock!Init
    BY DEF SelectionInit, Init, Stock!Init
  <1>2. ASSUME IInv, [SelectionNext]_<<vars, row>>
        PROVE  [Stock!Next]_(Stock!vars)
    <2>1. CASE Sense
      <3>1. cand' \in SUBSET Resources
        BY <1>2, <2>1, SenseIInv DEF IInv, TypeInv
      <3>2. cand' \in Stock!CandidateLists
        BY <3>1 DEF Stock!CandidateLists, Resources
      <3>3. pc = "idle" /\ pc' = "sensed" /\ UNCHANGED <<maxTx, grant>>
        BY <2>1 DEF Sense
      <3> QED
        BY <3>2, <3>3 DEF Stock!Next, Stock!Select
    <2>2. CASE PassOn
      BY <2>2 DEF PassOn, Stock!vars
    <2>3. CASE Filter
      BY <2>3 DEF Filter, Stock!vars
    <2>4. CASE FilterNothing
      <3>1. CASE pc' = "filtered"
        BY <2>4, <3>1 DEF FilterNothing, Stock!vars
      <3>2. CASE pc' = "crashed"
        BY <2>4, <3>2 DEF FilterNothing, Stock!Crash, Stock!Next
      <3> QED
        BY <2>4, <3>1, <3>2 DEF FilterNothing
    <2>5. CASE Draw
      BY <1>2, <2>5, DrawIsStock DEF Stock!Next
    <2>6. CASE Expire
      BY <2>6 DEF Expire, Stock!Expire, Stock!Next
    <2>7. CASE Crashed \/ UNCHANGED <<vars, row>>
      BY <2>7 DEF vars, Stock!vars, Crashed
    <2> QED
      BY <1>2, <2>1, <2>2, <2>3, <2>5, <2>6, <2>7, <2>4 DEF SelectionNext, Schedule, FilterOrPassOn
  <1> QED
    BY <1>1, <1>2, Invariant, PTL DEF SelectionSpec, StockSpec, Stock!Spec

-----------------------------------------------------------------------------
(***************************************************************************)
(* kpi.py averages the selections with sensing data and no other, and each *)
(* row tells how often the threshold was raised.                           *)
(***************************************************************************)
THEOREM RowsTrue == SelectionSpec => []RowsAreTrue
  <1>1. SelectionInit => RowsAreTrue
    BY DEF SelectionInit, NoRow, RowsAreTrue, Aggregated
  <1>2. ASSUME RowsAreTrue, [SelectionNext]_<<vars, row>>
        PROVE  RowsAreTrue'
    <2>1. ASSUME NEW k \in 0 .. MaxRaises,
                 row' = Save(Initial, Initial + 3 * k, TRUE, k)
          PROVE  RowsAreTrue'
      <3>1. Initial \in Int /\ k \in Nat
        BY SelectionAssumption DEF SelectionAssumption
      <3>2. Quotient((Initial + 3 * k) - Initial, 3) = k
        BY <3>1 DEF Quotient
      <3>3. row' = [thr |-> <<Initial, Initial + 3 * k>>, steps |-> k, data |-> TRUE, raises |-> k]
        BY <2>1, <3>2 DEF Save, Valid
      <3> QED
        BY <3>3 DEF RowsAreTrue, Aggregated
    <2>2. ASSUME NEW init, NEW final, row' = Save(init, final, FALSE, 0)
          PROVE  RowsAreTrue'
      <3>1. row' = [thr |-> <<>>, steps |-> 0, data |-> FALSE, raises |-> 0]
        BY <2>2 DEF Save, Valid
      <3> QED
        BY <3>1 DEF RowsAreTrue, Aggregated
    <2>3. CASE UNCHANGED row
      BY <1>2, <2>3 DEF RowsAreTrue, Aggregated
    <2>4. CASE Sense
      BY <2>1, <2>2, <2>3, <2>4 DEF Sense, SenseData, SenseNothing, TakeWindow
    <2>5. CASE Schedule
      BY <2>3, <2>5 DEF Schedule
    <2> QED
      BY <1>2, <2>3, <2>4, <2>5 DEF SelectionNext, Crashed
  <1> QED
    BY <1>1, <1>2, PTL DEF SelectionSpec

=============================================================================
