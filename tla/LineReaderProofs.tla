-------------------------- MODULE LineReaderProofs --------------------------
(***************************************************************************)
(* For every number of robots and replies, every length of the fields,     *)
(* every size of the buffer and every cut of the stream: recvLine returns  *)
(* the lines SendResponse wrote, and handleReply the fields.               *)
(*                                                                         *)
(* The argument has three parts.  First what FlattenSeq is, by its two     *)
(* recursions, and where the k-th piece of a concatenation ends (Offset).  *)
(* Then a line: its fields end at growing offsets, the only spaces are     *)
(* there, and a number in a growing sequence is the k-th of it iff k of    *)
(* them are up to it (Ranks); hence Split undoes Join.  Last the stream:   *)
(* a line has no terminator within, so the first one found is that of the  *)
(* first line (FirstLine), and no part of a cut-off reply is one.  The     *)
(* invariant is BytesConserved with the types, the absence of a line feed  *)
(* in what ns-3 did not finish, and the histories piece by piece.          *)
(***************************************************************************)
EXTENDS LineReader, SequenceTheorems, FiniteSetTheorems, WellFoundedInduction, TLAPS

(* A nonempty set of naturals has a least element. *)
LEMMA Least ==
    ASSUME NEW T \in SUBSET Nat, T # {}
    PROVE  \E m \in T : \A y \in T : m <= y
  <1>1. PICK m \in T : \A y \in T : ~ (<<y, m>> \in OpToRel(<, Nat))
    BY NatLessThanWellFounded, WFMin
  <1>2. \A y \in T : ~ (y < m)
    BY <1>1 DEF OpToRel
  <1> QED
    BY <1>2

-----------------------------------------------------------------------------
(* f[i] is the concatenation of the first i of ss, as FlattenSeq has it. *)
Concatenates(f, ss, n) ==
    f = [i \in 1 .. n |-> IF i = 1 THEN ss[i] ELSE f[i - 1] \o ss[i]]

(* There is such a function. *)
LEMMA ConcatenationExists ==
    ASSUME NEW A, NEW ss \in Seq(A), NEW n \in Nat
    PROVE  \E f : Concatenates(f, ss, n)
  <1> DEFINE T == {m \in Nat : ~ \E f : Concatenates(f, ss, m)}
  <1> SUFFICES ASSUME T # {} PROVE FALSE
    OBVIOUS
  <1>1. PICK m \in T : \A y \in T : m <= y
    <2> HIDE DEF T
    <2>1. T \in SUBSET Nat
      BY DEF T
    <2> QED
      BY <2>1, Least
  <1>2. m # 0
    <2> DEFINE e == [i \in 1 .. 0 |-> ss[i]]
    <2>1. Concatenates(e, ss, 0)
      BY DEF Concatenates
    <2> QED
      BY <2>1
  <1>3. PICK f : Concatenates(f, ss, m - 1)
    <2>1. m - 1 \in Nat /\ m - 1 \notin T
      BY <1>1, <1>2
    <2> QED
      BY <2>1
  <1> DEFINE last == IF m = 1 THEN ss[1] ELSE f[m - 1] \o ss[m]
             g == [i \in 1 .. m |-> IF i = m THEN last ELSE f[i]]
  <1>4. ASSUME NEW i \in 1 .. m
        PROVE  g[i] = IF i = 1 THEN ss[i] ELSE g[i - 1] \o ss[i]
    <2>1. CASE i = m
      BY <1>2, <2>1
    <2>2. CASE i # m
      <3>1. i \in 1 .. m - 1 /\ (i # 1 => i - 1 \in 1 .. m /\ i - 1 # m)
        BY <2>2
      <3>2. f[i] = IF i = 1 THEN ss[i] ELSE f[i - 1] \o ss[i]
        BY <1>3, <3>1 DEF Concatenates
      <3>3. g[i] = f[i] /\ (i # 1 => g[i - 1] = f[i - 1])
        BY <2>2, <3>1
      <3> QED
        BY <3>2, <3>3
    <2> QED
      BY <2>1, <2>2
  <1>5. g = [i \in 1 .. m |-> g[i]]
    OBVIOUS
  <1> HIDE DEF g
  <1>6. Concatenates(g, ss, m)
    BY <1>4, <1>5 DEF Concatenates
  <1> QED
    BY <1>6

(* Its values depend on the first sequences only. *)
LEMMA ConcatenationUnique ==
    ASSUME NEW A, NEW ss \in Seq(A), NEW tt \in Seq(A), NEW f, NEW g,
           Concatenates(f, ss, Len(ss)), Concatenates(g, tt, Len(tt)),
           Len(ss) <= Len(tt), \A i \in 1 .. Len(ss) : ss[i] = tt[i]
    PROVE  \A i \in 1 .. Len(ss) : f[i] = g[i]
  <1> DEFINE T == {i \in Nat : i \in 1 .. Len(ss) /\ f[i] # g[i]}
  <1> SUFFICES ASSUME T # {} PROVE FALSE
    OBVIOUS
  <1>1. PICK m \in T : \A y \in T : m <= y
    <2> HIDE DEF T
    <2>1. T \in SUBSET Nat
      BY DEF T
    <2> QED
      BY <2>1, Least
  <1>2. /\ m \in 1 .. Len(ss) /\ m \in 1 .. Len(tt)
        /\ f[m] = IF m = 1 THEN ss[m] ELSE f[m - 1] \o ss[m]
        /\ g[m] = IF m = 1 THEN tt[m] ELSE g[m - 1] \o tt[m]
    <2>1. m \in 1 .. Len(ss) /\ m \in 1 .. Len(tt)
      BY LenProperties
    <2>2. f[m] = IF m = 1 THEN ss[m] ELSE f[m - 1] \o ss[m]
      BY <2>1 DEF Concatenates
    <2>3. g[m] = IF m = 1 THEN tt[m] ELSE g[m - 1] \o tt[m]
      BY <2>1 DEF Concatenates
    <2> QED
      BY <2>1, <2>2, <2>3
  <1>3. m # 1 => f[m - 1] = g[m - 1]
    <2> SUFFICES ASSUME m # 1 PROVE f[m - 1] = g[m - 1]
      OBVIOUS
    <2>1. m - 1 \in Nat /\ m - 1 \in 1 .. Len(ss) /\ m - 1 \notin T
      BY <1>1, <1>2
    <2> QED
      BY <2>1
  <1>4. f[m] = g[m]
    BY <1>2, <1>3
  <1> QED
    BY <1>4

(* FlattenSeq by its recursion over the end of the sequence. *)
LEMMA FlattenEmpty == FlattenSeq(<<>>) = <<>>
  BY DEF FlattenSeq

(* What FlattenSeq chooses is the concatenation. *)
LEMMA FlattenIs ==
    ASSUME NEW A, NEW ss \in Seq(A), Len(ss) # 0
    PROVE  \E f : Concatenates(f, ss, Len(ss)) /\ FlattenSeq(ss) = f[Len(ss)]
  <1> DEFINE f == CHOOSE h : h = [i \in 1 .. Len(ss) |-> IF i = 1 THEN ss[i] ELSE h[i - 1] \o ss[i]]
  <1>1. Len(ss) \in Nat
    BY LenProperties
  <1>2. \E h : Concatenates(h, ss, Len(ss))
    BY <1>1, ConcatenationExists, Zenon
  <1>3. Concatenates(f, ss, Len(ss))
    BY <1>2, Zenon DEF Concatenates
  <1>4. FlattenSeq(ss) = f[Len(ss)]
    BY DEF FlattenSeq
  <1> QED
    BY <1>3, <1>4

(* One value of it. *)
ValueAt(f, ss, i) == f[i] = IF i = 1 THEN ss[i] ELSE f[i - 1] \o ss[i]

LEMMA ConcatenationAt ==
    ASSUME NEW A, NEW ss \in Seq(A), NEW n \in Nat, NEW f, Concatenates(f, ss, n),
           NEW i \in 1 .. n
    PROVE  ValueAt(f, ss, i)
  BY DEF Concatenates, ValueAt

(* The last of at least two sequences comes last. *)
LEMMA FlattenStep ==
    ASSUME NEW A, NEW ss \in Seq(A), NEW tt \in Seq(A),
           ss # <<>>, Len(tt) = Len(ss) + 1, \A i \in 1 .. Len(ss) : ss[i] = tt[i]
    PROVE  FlattenSeq(tt) = FlattenSeq(ss) \o tt[Len(tt)]
  <1>1. /\ Len(ss) \in Nat /\ Len(tt) \in Nat /\ Len(ss) # 0 /\ Len(tt) # 0
        /\ Len(ss) <= Len(tt) /\ Len(tt) - 1 = Len(ss) /\ Len(tt) # 1
        /\ Len(tt) \in 1 .. Len(tt) /\ Len(ss) \in 1 .. Len(ss)
    BY LenProperties, EmptySeq
  <1>2. PICK f : Concatenates(f, ss, Len(ss)) /\ FlattenSeq(ss) = f[Len(ss)]
    BY <1>1, FlattenIs, Zenon
  <1>3. PICK g : Concatenates(g, tt, Len(tt)) /\ FlattenSeq(tt) = g[Len(tt)]
    BY <1>1, FlattenIs, Zenon
  <1>4. \A i \in 1 .. Len(ss) : f[i] = g[i]
    BY <1>1, <1>2, <1>3, ConcatenationUnique, SMT
  <1>5. g[Len(tt)] = IF Len(tt) = 1 THEN tt[Len(tt)] ELSE g[Len(tt) - 1] \o tt[Len(tt)]
    <2>1. Concatenates(g, tt, Len(tt)) /\ Len(tt) \in Nat /\ Len(tt) \in 1 .. Len(tt)
      BY <1>1, <1>3, Zenon
    <2>2. ValueAt(g, tt, Len(tt))
      BY <2>1, ConcatenationAt
    <2> QED
      BY <2>2, Zenon DEF ValueAt
  <1> QED
    BY <1>1, <1>2, <1>3, <1>4, <1>5, Zenon

(* The last of the sequences comes last. *)
LEMMA FlattenAppend ==
    ASSUME NEW S, NEW ss \in Seq(Seq(S)), NEW s \in Seq(S)
    PROVE  FlattenSeq(Append(ss, s)) = FlattenSeq(ss) \o s
  <1>1. CASE ss = <<>>
    <2>1. /\ Len(<<s>>) = 1 /\ <<s>>[1] = s /\ Append(ss, s) = <<s>>
          /\ FlattenSeq(ss) \o s = s
      BY <1>1, FlattenEmpty, ConcatEmptySeq
    <2>2. <<s>> \in Seq(Seq(S)) /\ Len(<<s>>) # 0 /\ 1 \in 1 .. 1 /\ 1 \in Nat
      OBVIOUS
    <2>3. PICK f : Concatenates(f, <<s>>, Len(<<s>>)) /\ FlattenSeq(<<s>>) = f[Len(<<s>>)]
      BY <2>2, FlattenIs, Zenon
    <2>4. Concatenates(f, <<s>>, 1) /\ FlattenSeq(<<s>>) = f[1]
      BY <2>1, <2>3, Zenon
    <2>5. f[1] = IF 1 = 1 THEN <<s>>[1] ELSE f[1 - 1] \o <<s>>[1]
      <3>1. Concatenates(f, <<s>>, 1) /\ 1 \in Nat /\ 1 \in 1 .. 1
            /\ <<s>> \in Seq(Seq(S))
        BY <2>2, <2>4
      <3>2. ValueAt(f, <<s>>, 1)
        BY <3>1, ConcatenationAt
      <3> QED
        BY <3>2, Zenon DEF ValueAt
    <2> QED
      BY <2>1, <2>4, <2>5, Zenon
  <1>2. CASE ss # <<>>
    <2>1. /\ Len(ss) \in Nat /\ Len(ss) # 0 /\ Len(Append(ss, s)) = Len(ss) + 1
          /\ Append(ss, s) \in Seq(Seq(S)) /\ Append(ss, s)[Len(Append(ss, s))] = s
          /\ \A i \in 1 .. Len(ss) : ss[i] = Append(ss, s)[i]
      BY <1>2, AppendProperties, LenProperties, EmptySeq
    <2> QED
      BY <1>2, <2>1, FlattenStep, Zenon
  <1> QED
    BY <1>1, <1>2

(* So it is a sequence of what the sequences are of. *)
LEMMA FlattenType ==
    ASSUME NEW S, NEW ss \in Seq(Seq(S))
    PROVE  FlattenSeq(ss) \in Seq(S)
  <1> DEFINE T == {m \in Nat : \E tt \in Seq(Seq(S)) :
                                   Len(tt) = m /\ FlattenSeq(tt) \notin Seq(S)}
  <1>1. SUFFICES ASSUME T # {} PROVE FALSE
    <2>1. Len(ss) \in Nat
      BY LenProperties
    <2> QED
      BY <2>1
  <1>2. PICK m \in T : \A y \in T : m <= y
    <2> HIDE DEF T
    <2>1. T \in SUBSET Nat
      BY DEF T
    <2> QED
      BY <1>1, <2>1, Least
  <1>3. PICK tt \in Seq(Seq(S)) : Len(tt) = m /\ FlattenSeq(tt) \notin Seq(S)
    OBVIOUS
  <1>4. tt # <<>>
    BY <1>3, FlattenEmpty, EmptySeq
  <1>5. PICK uu \in Seq(Seq(S)), u \in Seq(S) : tt = Append(uu, u)
    BY <1>4, SequenceEmptyOrAppend
  <1>6. FlattenSeq(uu) \in Seq(S)
    <2>1. Len(uu) \in Nat /\ Len(uu) = m - 1
      BY <1>3, <1>5, LenProperties, AppendProperties
    <2>2. Len(uu) \notin T
      BY <1>2, <2>1
    <2> QED
      BY <2>1, <2>2
  <1>7. FlattenSeq(tt) \in Seq(S)
    BY <1>5, <1>6, FlattenAppend, ConcatProperties
  <1> QED
    BY <1>3, <1>7

(* The first of the sequences comes first. *)
LEMMA FlattenConsStep ==
    ASSUME NEW S, NEW uu \in Seq(Seq(S)), NEW s \in Seq(S), NEW u \in Seq(S),
           FlattenSeq(<<s>> \o uu) = s \o FlattenSeq(uu)
    PROVE  FlattenSeq(<<s>> \o Append(uu, u)) = s \o FlattenSeq(Append(uu, u))
  <1>1. /\ <<s>> \in Seq(Seq(S)) /\ <<u>> \in Seq(Seq(S))
        /\ <<s>> \o uu \in Seq(Seq(S)) /\ FlattenSeq(uu) \in Seq(S)
    BY ConcatProperties, FlattenType
  <1>2. <<s>> \o Append(uu, u) = Append(<<s>> \o uu, u)
    <2>1. Append(uu, u) = uu \o <<u>> /\ Append(<<s>> \o uu, u) = (<<s>> \o uu) \o <<u>>
      BY <1>1, AppendIsConcat, Zenon
    <2>2. (<<s>> \o uu) \o <<u>> = <<s>> \o (uu \o <<u>>)
      BY <1>1, ConcatAssociative
    <2> QED
      BY <2>1, <2>2, Zenon
  <1>3. FlattenSeq(Append(<<s>> \o uu, u)) = (s \o FlattenSeq(uu)) \o u
    BY <1>1, FlattenAppend, Zenon
  <1>4. FlattenSeq(Append(uu, u)) = FlattenSeq(uu) \o u
    BY FlattenAppend, Zenon
  <1>5. (s \o FlattenSeq(uu)) \o u = s \o (FlattenSeq(uu) \o u)
    BY <1>1, ConcatAssociative
  <1> QED
    BY <1>2, <1>3, <1>4, <1>5, Zenon

(* By induction over the others. *)
LEMMA FlattenCons ==
    ASSUME NEW S, NEW ss \in Seq(Seq(S)), NEW s \in Seq(S)
    PROVE  FlattenSeq(<<s>> \o ss) = s \o FlattenSeq(ss)
  <1> DEFINE T == {m \in Nat : \E tt \in Seq(Seq(S)) :
                     Len(tt) = m /\ FlattenSeq(<<s>> \o tt) # s \o FlattenSeq(tt)}
  <1>1. SUFFICES ASSUME T # {} PROVE FALSE
    <2>1. Len(ss) \in Nat
      BY LenProperties
    <2> QED
      BY <2>1
  <1>2. PICK m \in T : \A y \in T : m <= y
    <2> HIDE DEF T
    <2>1. T \in SUBSET Nat
      BY DEF T
    <2> QED
      BY <1>1, <2>1, Least
  <1>3. PICK tt \in Seq(Seq(S)) :
           Len(tt) = m /\ FlattenSeq(<<s>> \o tt) # s \o FlattenSeq(tt)
    OBVIOUS
  <1>4. <<s>> \in Seq(Seq(S)) /\ <<>> \in Seq(Seq(S)) /\ <<>> \in Seq(S)
    OBVIOUS
  <1>5. CASE tt = <<>>
    <2>1. <<s>> \o tt = Append(<<>>, s)
      BY <1>4, <1>5, AppendIsConcat, ConcatEmptySeq
    <2>2. FlattenSeq(Append(<<>>, s)) = <<>> \o s
      BY <1>4, FlattenAppend, FlattenEmpty
    <2>3. <<>> \o s = s /\ s \o <<>> = s
      BY ConcatEmptySeq
    <2> QED
      BY <1>3, <1>5, <2>1, <2>2, <2>3, FlattenEmpty
  <1>6. CASE tt # <<>>
    <2>1. PICK uu \in Seq(Seq(S)), u \in Seq(S) : tt = Append(uu, u)
      BY <1>6, SequenceEmptyOrAppend
    <2>2. FlattenSeq(<<s>> \o uu) = s \o FlattenSeq(uu)
      <3>1. Len(uu) \in Nat /\ Len(uu) = m - 1
        BY <1>3, <2>1, LenProperties, AppendProperties
      <3>2. Len(uu) \notin T
        <4>1. m \in Nat
          OBVIOUS
        <4>2. ~(m <= Len(uu))
          BY <3>1, <4>1
        <4> HIDE DEF T
        <4> QED
          BY <1>2, <4>2
      <3> QED
        BY <3>1, <3>2
    <2> QED
      BY <1>3, <2>1, <2>2, FlattenConsStep
  <1> QED
    BY <1>5, <1>6

-----------------------------------------------------------------------------
(* Where the k-th of the sequences ends. *)
Offset(ss, k) == Len(FlattenSeq(SubSeq(ss, 1, k)))

(* The first k sequences are the first k - 1 and one more. *)
LEMMA PrefixStep ==
    ASSUME NEW S, NEW ss \in Seq(Seq(S)), NEW k \in 1 .. Len(ss)
    PROVE  /\ SubSeq(ss, 1, k) = Append(SubSeq(ss, 1, k - 1), ss[k])
           /\ SubSeq(ss, 1, k - 1) \in Seq(Seq(S)) /\ ss[k] \in Seq(S)
  <1>1. ss[k] \in Seq(S)
    BY ElementOfSeq
  <1>2. SubSeq(ss, 1, k - 1) \in Seq(Seq(S)) /\ <<ss[k]>> \in Seq(Seq(S))
    <2>1. \A i \in 1 .. k - 1 : ss[i] \in Seq(S)
      <3> SUFFICES ASSUME NEW i \in 1 .. k - 1 PROVE ss[i] \in Seq(S)
        OBVIOUS
      <3>1. i \in 1 .. Len(ss)
        BY LenProperties
      <3> QED
        BY <3>1, ElementOfSeq
    <2> QED
      BY <1>1, <2>1, SubSeqProperties
  <1>3. 1 \in 1 .. Len(ss) /\ k \in 1 .. Len(ss)
    BY LenProperties
  <1>4. SubSeq(ss, 1, k) = SubSeq(ss, 1, k - 1) \o <<ss[k]>>
    BY <1>3, SubSeqRecursiveSecond
  <1> QED
    BY <1>1, <1>2, <1>4, AppendIsConcat

(* One sequence after the other. *)
LEMMA OffsetStep ==
    ASSUME NEW S, NEW ss \in Seq(Seq(S)), NEW k \in 1 .. Len(ss)
    PROVE  /\ Offset(ss, k) = Offset(ss, k - 1) + Len(ss[k])
           /\ Offset(ss, k) \in Nat /\ Offset(ss, k - 1) \in Nat
           /\ \A i \in 1 .. Offset(ss, k) :
                 FlattenSeq(SubSeq(ss, 1, k))[i] =
                    IF i <= Offset(ss, k - 1) THEN FlattenSeq(SubSeq(ss, 1, k - 1))[i]
                    ELSE ss[k][i - Offset(ss, k - 1)]
  <1> DEFINE p == SubSeq(ss, 1, k - 1)
             f == FlattenSeq(p)
  <1> DEFINE l == Len(f)
  <1>1. FlattenSeq(SubSeq(ss, 1, k)) = f \o ss[k] /\ f \in Seq(S) /\ ss[k] \in Seq(S)
    <2>1. SubSeq(ss, 1, k) = Append(p, ss[k]) /\ p \in Seq(Seq(S)) /\ ss[k] \in Seq(S)
      BY PrefixStep
    <2> HIDE DEF p
    <2> QED
      BY <2>1, FlattenAppend, FlattenType
  <1>2. Offset(ss, k - 1) = l /\ Offset(ss, k) = Len(f \o ss[k])
    BY <1>1, Zenon DEF Offset
  <1> HIDE DEF f
  <1>3. /\ Len(f \o ss[k]) = l + Len(ss[k]) /\ l \in Nat /\ Len(ss[k]) \in Nat
        /\ \A i \in 1 .. l + Len(ss[k]) :
              (f \o ss[k])[i] = IF i <= l THEN f[i] ELSE ss[k][i - l]
    BY <1>1, ConcatProperties, LenProperties
  <1> HIDE DEF l
  <1>4. \A i \in 1 .. Offset(ss, k) :
           (f \o ss[k])[i] = IF i <= Offset(ss, k - 1) THEN f[i]
                             ELSE ss[k][i - Offset(ss, k - 1)]
    BY <1>2, <1>3, Zenon
  <1>5. Offset(ss, k) = Offset(ss, k - 1) + Len(ss[k]) /\ Offset(ss, k) \in Nat
        /\ Offset(ss, k - 1) \in Nat
    BY <1>2, <1>3
  <1> QED
    BY <1>1, <1>4, <1>5 DEF f

(* The offsets begin at 0 and end with the whole. *)
LEMMA OffsetEnds ==
    ASSUME NEW S, NEW ss \in Seq(Seq(S))
    PROVE  /\ Offset(ss, 0) = 0
           /\ Offset(ss, Len(ss)) = Len(FlattenSeq(ss))
           /\ FlattenSeq(SubSeq(ss, 1, Len(ss))) = FlattenSeq(ss)
  <1>1. SubSeq(ss, 1, 0) = <<>>
    BY SubSeqEmpty
  <1>2. SubSeq(ss, 1, Len(ss)) = ss
    BY SubSeqFull
  <1> QED
    BY <1>1, <1>2, FlattenEmpty, EmptySeq DEF Offset

NoneEmpty(ss) == \A k \in 1 .. Len(ss) : Len(ss[k]) > 0

(* Offsets of sequences that are not empty differ. *)
LEMMA OffsetsGrow ==
    ASSUME NEW S, NEW ss \in Seq(Seq(S)), NoneEmpty(ss),
           NEW j \in 0 .. Len(ss), NEW k \in 0 .. Len(ss), j < k
    PROVE  Offset(ss, j) < Offset(ss, k)
  <1> DEFINE T == {n \in Nat : j < n /\ n <= Len(ss) /\ ~ (Offset(ss, j) < Offset(ss, n))}
  <1>1. SUFFICES ASSUME T # {} PROVE FALSE
    BY LenProperties
  <1>2. PICK m \in T : \A y \in T : m <= y
    <2> HIDE DEF T
    <2>1. T \in SUBSET Nat
      BY DEF T
    <2> QED
      BY <1>1, <2>1, Least
  <1>3. m \in 1 .. Len(ss) /\ j <= m - 1 /\ j \in Nat /\ m \in Nat
    BY LenProperties
  <1>4. ~ (Offset(ss, j) < Offset(ss, m))
    OBVIOUS
  <1>5. /\ Offset(ss, m) = Offset(ss, m - 1) + Len(ss[m]) /\ Len(ss[m]) > 0
        /\ Offset(ss, m - 1) \in Nat /\ Len(ss[m]) \in Nat
    <2>1. ss[m] \in Seq(S)
      BY <1>3, ElementOfSeq
    <2> QED
      BY <1>3, <2>1, OffsetStep, LenProperties DEF NoneEmpty
  <1>6. j # m - 1 => Offset(ss, j) < Offset(ss, m - 1)
    <2> SUFFICES ASSUME j # m - 1 PROVE Offset(ss, j) < Offset(ss, m - 1)
      OBVIOUS
    <2>1. m - 1 \in Nat /\ j < m - 1 /\ m - 1 <= Len(ss)
      BY <1>3, LenProperties
    <2>2. m - 1 \notin T
      <3> HIDE DEF T
      <3> QED
        BY <1>2, <1>3
    <2> QED
      BY <2>1, <2>2
  <1>7. Offset(ss, j) \in Nat
    <2>1. CASE j = 0
      BY <2>1, OffsetEnds
    <2>2. CASE j # 0
      <3>1. j \in 1 .. Len(ss)
        BY <2>2
      <3> QED
        BY <3>1, OffsetStep
    <2> QED
      BY <2>1, <2>2
  <1> HIDE DEF T
  <1> QED
    BY <1>4, <1>5, <1>6, <1>7

(* Every position is in one of the sequences. *)
LEMMA PieceOf ==
    ASSUME NEW S, NEW ss \in Seq(Seq(S)), NEW p \in 1 .. Len(FlattenSeq(ss))
    PROVE  \E k \in 1 .. Len(ss) : Offset(ss, k - 1) < p /\ p <= Offset(ss, k)
  <1> DEFINE T == {n \in Nat : n <= Len(ss) /\ p <= Offset(ss, n)}
  <1>1. Len(ss) \in Nat /\ Len(FlattenSeq(ss)) \in Nat
    BY LenProperties, FlattenType
  <1>2. T # {}
    BY <1>1, OffsetEnds
  <1>3. PICK m \in T : \A y \in T : m <= y
    <2> HIDE DEF T
    <2>1. T \in SUBSET Nat
      BY DEF T
    <2> QED
      BY <1>2, <2>1, Least
  <1>4. m \in Nat /\ m <= Len(ss) /\ p <= Offset(ss, m)
    OBVIOUS
  <1>5. m # 0
    BY <1>4, OffsetEnds
  <1>6. m \in 1 .. Len(ss) /\ m - 1 \in Nat /\ m - 1 <= Len(ss)
    BY <1>1, <1>4, <1>5
  <1>7. Offset(ss, m - 1) \in Nat /\ p \in Nat
    BY <1>1, <1>6, OffsetStep
  <1>8. m - 1 \notin T
    <2> HIDE DEF T
    <2> QED
      BY <1>3, <1>4
  <1>9. Offset(ss, m - 1) < p
    BY <1>6, <1>7, <1>8
  <1> QED
    BY <1>4, <1>6, <1>9

(* What is at a position of the k-th. *)
LEMMA PieceAt ==
    ASSUME NEW S, NEW ss \in Seq(Seq(S)), NoneEmpty(ss),
           NEW k \in 1 .. Len(ss), NEW i \in 1 .. Len(ss[k])
    PROVE  FlattenSeq(ss)[Offset(ss, k - 1) + i] = ss[k][i]
  <1> DEFINE q == Offset(ss, k - 1) + i
  <1> HIDE DEF q
  <1> DEFINE T == {n \in Nat : k <= n /\ n <= Len(ss)
                              /\ FlattenSeq(SubSeq(ss, 1, n))[q] # ss[k][i]}
  <1>1. SUFFICES ASSUME T # {} PROVE FALSE
    <2>1. Len(ss) \in Nat /\ k \in Nat /\ k <= Len(ss)
      BY LenProperties
    <2>2. FlattenSeq(SubSeq(ss, 1, Len(ss))) = FlattenSeq(ss)
      BY OffsetEnds
    <2>3. FlattenSeq(ss)[q] = ss[k][i]
      BY <2>1, <2>2
    <2> QED
      BY <2>3 DEF q
  <1>2. PICK m \in T : \A y \in T : m <= y
    <2> HIDE DEF T
    <2>1. T \in SUBSET Nat
      BY DEF T
    <2> QED
      BY <1>1, <2>1, Least
  <1>3. m \in Nat /\ k <= m /\ m \in 1 .. Len(ss) /\ k \in Nat
    BY LenProperties
  <1>4. FlattenSeq(SubSeq(ss, 1, m))[q] # ss[k][i]
    OBVIOUS
  <1>5. /\ Offset(ss, k) = Offset(ss, k - 1) + Len(ss[k])
        /\ Offset(ss, k) \in Nat /\ Offset(ss, k - 1) \in Nat /\ Len(ss[k]) \in Nat
    <2>1. ss[k] \in Seq(S)
      BY ElementOfSeq
    <2> QED
      BY <2>1, OffsetStep, LenProperties
  <1>6. q \in Nat /\ q >= 1 /\ q <= Offset(ss, k) /\ q - Offset(ss, k - 1) = i
        /\ ~ (q <= Offset(ss, k - 1))
    <2>1. i \in Nat /\ 1 <= i /\ i <= Len(ss[k])
      BY <1>5
    <2>2. q = Offset(ss, k - 1) + i
      BY DEF q
    <2>3. PICK o \in Nat, l \in Nat :
             o = Offset(ss, k - 1) /\ l = Len(ss[k]) /\ Offset(ss, k) = o + l
      BY <1>5
    <2>4. i \in Nat /\ 1 <= i /\ i <= l /\ q = o + i
      BY <2>1, <2>2, <2>3
    <2>5. q \in Nat /\ q >= 1 /\ q <= o + l /\ q - o = i /\ ~ (q <= o)
      BY <2>4
    <2> QED
      BY <2>3, <2>5
  <1>7. \A j \in 1 .. Offset(ss, m) :
           FlattenSeq(SubSeq(ss, 1, m))[j] =
              IF j <= Offset(ss, m - 1) THEN FlattenSeq(SubSeq(ss, 1, m - 1))[j]
              ELSE ss[m][j - Offset(ss, m - 1)]
    BY <1>3, OffsetStep
  <1>8. CASE m = k
    <2>1. q \in 1 .. Offset(ss, k)
      BY <1>5, <1>6
    <2> QED
      BY <1>4, <1>6, <1>7, <1>8, <2>1
  <1>9. CASE m # k
    <2>1. /\ m - 1 \in Nat /\ k <= m - 1 /\ m - 1 <= Len(ss)
          /\ m - 1 \in 1 .. Len(ss) /\ k \in 1 .. Len(ss)
      BY <1>3, <1>9, LenProperties
    <2>2. Offset(ss, k) <= Offset(ss, m - 1) /\ Offset(ss, m - 1) <= Offset(ss, m)
          /\ Offset(ss, m) \in Nat /\ Offset(ss, m - 1) \in Nat
      <3>1. /\ \A x \in 1 .. Len(ss) : Offset(ss, x) \in Nat
            /\ \A x, y \in 1 .. Len(ss) : x < y => Offset(ss, x) < Offset(ss, y)
        <4>1. \A x \in 1 .. Len(ss) : x \in 0 .. Len(ss)
          BY LenProperties
        <4> QED
          BY <4>1, OffsetStep, OffsetsGrow
      <3>2. m - 1 < m /\ (k = m - 1 \/ k < m - 1)
        BY <1>3, <2>1
      <3> QED
        <4>1. m - 1 \in 1 .. Len(ss) /\ m \in 1 .. Len(ss) /\ k \in 1 .. Len(ss)
          BY <1>3, <2>1
        <4>2. Offset(ss, m - 1) < Offset(ss, m)
          BY <3>1, <3>2, <4>1
        <4>3. k = m - 1 \/ Offset(ss, k) < Offset(ss, m - 1)
          BY <3>1, <3>2, <4>1
        <4>4. PICK a \in Nat, b \in Nat, c \in Nat :
                 a = Offset(ss, k) /\ b = Offset(ss, m - 1) /\ c = Offset(ss, m)
          BY <3>1, <4>1
        <4>5. b < c /\ (a = b \/ a < b)
          BY <4>2, <4>3, <4>4
        <4>6. a <= b /\ b <= c
          BY <4>5
        <4> QED
          BY <4>4, <4>6
    <2>3. q \in 1 .. Offset(ss, m) /\ q <= Offset(ss, m - 1)
      <3>1. PICK a \in Nat, b \in Nat, c \in Nat :
               a = Offset(ss, k) /\ b = Offset(ss, m - 1) /\ c = Offset(ss, m)
        BY <1>5, <2>2
      <3>2. q \in Nat /\ q >= 1 /\ q <= a /\ a <= b /\ b <= c
        BY <1>6, <2>2, <3>1
      <3>3. q \in 1 .. c /\ q <= b
        BY <3>2
      <3> QED
        BY <3>1, <3>3
    <2>4. FlattenSeq(SubSeq(ss, 1, m - 1))[q] = ss[k][i]
      <3>1. m - 1 \notin T
        <4> HIDE DEF T
        <4> QED
          BY <1>2, <1>3
      <3> QED
        BY <2>1, <3>1
    <2> QED
      BY <1>4, <1>7, <2>3, <2>4
  <1> QED
    BY <1>8, <1>9

-----------------------------------------------------------------------------
(* The k-th of n growing numbers is the one with k up to it. *)
LEMMA Ranks ==
    ASSUME NEW n \in Nat, NEW f \in [1 .. n -> Nat],
           \A j, k \in 1 .. n : j < k => f[j] < f[k]
    PROVE  /\ Cardinality({f[j] : j \in 1 .. n}) = n
           /\ \A k \in 1 .. n :
                 Cardinality({e \in {f[j] : j \in 1 .. n} : e <= f[k]}) = k
  <1>1. ASSUME NEW k \in 0 .. n PROVE Cardinality({f[j] : j \in 1 .. k}) = k
    <2> DEFINE S == {f[j] : j \in 1 .. k}
               g == [j \in 1 .. k |-> f[j]]
    <2>1. \A j \in 1 .. k : j \in 1 .. n
      OBVIOUS
    <2>2. g \in [1 .. k -> S]
      OBVIOUS
    <2>3. ASSUME NEW i \in 1 .. k, NEW j \in 1 .. k, g[i] = g[j] PROVE i = j
      <3>1. f[i] = f[j] /\ f[i] \in Nat /\ f[j] \in Nat
        BY <2>1, <2>3
      <3>2. ~ (i < j) /\ ~ (j < i)
        BY <2>1, <3>1
      <3> QED
        BY <3>2
    <2>4. \A e \in S : \E j \in 1 .. k : g[j] = e
      OBVIOUS
    <2> HIDE DEF S, g
    <2>5. g \in Bijection(1 .. k, S)
      BY <2>2, <2>3, <2>4 DEF Bijection, Injection, Surjection, IsInjective
    <2>6. k \in Nat /\ ExistsBijection(1 .. k, S)
      BY <2>5 DEF ExistsBijection
    <2> QED
      BY <2>6, FS_CountingElements DEF S
  <1>2. ASSUME NEW k \in 1 .. n
        PROVE  {e \in {f[j] : j \in 1 .. n} : e <= f[k]} = {f[j] : j \in 1 .. k}
    <2>1. ASSUME NEW j \in 1 .. n PROVE f[j] <= f[k] <=> j <= k
      <3>1. f[j] \in Nat /\ f[k] \in Nat
        OBVIOUS
      <3>2. j < k => f[j] < f[k]
        OBVIOUS
      <3>3. k < j => f[k] < f[j]
        OBVIOUS
      <3>4. j < k \/ j = k \/ k < j
        OBVIOUS
      <3> QED
        BY <3>1, <3>2, <3>3, <3>4
    <2> QED
      BY <2>1
  <1>3. n \in 0 .. n /\ \A k \in 1 .. n : k \in 0 .. n
    OBVIOUS
  <1> QED
    BY <1>1, <1>2, <1>3

-----------------------------------------------------------------------------
Bytes == {"CR", "LF", "SP", "c"}

(* The parameters have their types. *)
LEMMA Constants ==
    /\ NumFields \in Nat /\ NumFields > 0 /\ MaxField \in Nat
    /\ MaxLines \in Nat /\ Ahead \in Nat /\ MaxChunk \in Nat
  BY LineAssumption DEF LineAssumption

(* A field is content. *)
LEMMA FieldType ==
    ASSUME NEW reply \in Replies, NEW k \in 1 .. NumFields
    PROVE  /\ reply[k] \in Seq(Bytes) /\ Len(reply[k]) \in Nat
           /\ \A i \in 1 .. Len(reply[k]) : reply[k][i] = "c"
  <1>1. PICK n \in 0 .. MaxField : reply[k] = [j \in 1 .. n |-> "c"]
    BY DEF Replies, Content
  <1>2. n \in Nat
    BY Constants
  <1> QED
    BY <1>1, <1>2 DEF Bytes

(* The fields, each with a space before it. *)
Spaced(reply) == [k \in DOMAIN reply |-> <<"SP">> \o reply[k]]

(* A spaced field: the space first, then the field. *)
LEMMA SpacedAt ==
    ASSUME NEW reply \in Replies, NEW k \in 1 .. NumFields
    PROVE  /\ Spaced(reply)[k] \in Seq(Bytes)
           /\ Len(Spaced(reply)[k]) = Len(reply[k]) + 1
           /\ Spaced(reply)[k][1] = "SP"
           /\ \A i \in 1 .. Len(reply[k]) : Spaced(reply)[k][i + 1] = reply[k][i]
  <1> DEFINE field == reply[k]
             sp == <<"SP">>
  <1>1. Spaced(reply)[k] = sp \o field
    BY DEF Spaced, Replies
  <1>2. field \in Seq(Bytes) /\ Len(field) \in Nat
    BY FieldType
  <1>3. sp \in Seq(Bytes) /\ Len(sp) = 1 /\ sp[1] = "SP"
    BY DEF Bytes
  <1> HIDE DEF field, sp
  <1>4. /\ sp \o field \in Seq(Bytes) /\ Len(sp \o field) = Len(sp) + Len(field)
        /\ \A i \in 1 .. Len(sp) + Len(field) :
              (sp \o field)[i] = IF i <= Len(sp) THEN sp[i] ELSE field[i - Len(sp)]
    BY <1>2, <1>3, ConcatProperties
  <1>5. (sp \o field)[1] = "SP"
    <2>1. 1 \in 1 .. Len(sp) + Len(field) /\ 1 <= Len(sp)
      BY <1>2, <1>3
    <2> QED
      BY <1>3, <1>4, <2>1
  <1>6. ASSUME NEW i \in 1 .. Len(field) PROVE (sp \o field)[i + 1] = field[i]
    <2>1. /\ i + 1 \in 1 .. Len(sp) + Len(field) /\ ~ (i + 1 <= Len(sp))
          /\ i + 1 - Len(sp) = i
      BY <1>2, <1>3
    <2> QED
      BY <1>4, <2>1
  <1> QED
    BY <1>1, <1>3, <1>4, <1>5, <1>6 DEF field

(* There is one for each robot. *)
LEMMA SpacedType ==
    ASSUME NEW reply \in Replies
    PROVE  /\ Spaced(reply) \in Seq(Seq(Bytes)) /\ Len(Spaced(reply)) = NumFields
           /\ NoneEmpty(Spaced(reply))
  <1>1. DOMAIN reply = 1 .. NumFields /\ NumFields \in Nat
    BY Constants DEF Replies
  <1>2. Spaced(reply) \in [1 .. NumFields -> Seq(Bytes)]
    <2>1. Spaced(reply) = [k \in 1 .. NumFields |-> Spaced(reply)[k]]
      BY <1>1 DEF Spaced
    <2>2. \A k \in 1 .. NumFields : Spaced(reply)[k] \in Seq(Bytes)
      BY SpacedAt
    <2> QED
      BY <2>1, <2>2
  <1>3. Spaced(reply) \in Seq(Seq(Bytes)) /\ Len(Spaced(reply)) = NumFields
    BY <1>1, <1>2
  <1>4. \A k \in 1 .. NumFields : Len(Spaced(reply)[k]) > 0
    BY SpacedAt, FieldType
  <1> QED
    BY <1>3, <1>4 DEF NoneEmpty

(* Where the k-th field of a line ends: its space or the end of the line. *)
Off(reply, k) == Offset(Spaced(reply), k)

(* The offsets of a line, in terms of its fields. *)
LEMMA OffFacts ==
    ASSUME NEW reply \in Replies
    PROVE  /\ Off(reply, 0) = 0
           /\ Off(reply, NumFields) = Len(FlattenSeq(Spaced(reply)))
           /\ \A k \in 0 .. NumFields : Off(reply, k) \in Nat
           /\ \A k \in 1 .. NumFields :
                 Off(reply, k) = Off(reply, k - 1) + Len(reply[k]) + 1
           /\ \A j, k \in 0 .. NumFields : j < k => Off(reply, j) < Off(reply, k)
  <1> DEFINE ss == Spaced(reply)
  <1>1. ss \in Seq(Seq(Bytes)) /\ Len(ss) = NumFields /\ NoneEmpty(ss)
    BY SpacedType
  <1>2. \A k \in 1 .. NumFields : Len(ss[k]) = Len(reply[k]) + 1 /\ Len(reply[k]) \in Nat
    BY SpacedAt, FieldType
  <1> HIDE DEF ss
  <1>3. Offset(ss, 0) = 0 /\ Offset(ss, NumFields) = Len(FlattenSeq(ss))
    BY <1>1, OffsetEnds
  <1>4. ASSUME NEW k \in 1 .. NumFields
        PROVE  /\ Offset(ss, k) = Offset(ss, k - 1) + Len(reply[k]) + 1
               /\ Offset(ss, k) \in Nat
    <2>1. k \in 1 .. Len(ss)
      BY <1>1
    <2>2. Offset(ss, k) = Offset(ss, k - 1) + Len(ss[k]) /\ Offset(ss, k) \in Nat
          /\ Offset(ss, k - 1) \in Nat
      BY <1>1, <2>1, OffsetStep
    <2> QED
      BY <1>2, <2>2
  <1>5. ASSUME NEW j \in 0 .. NumFields, NEW k \in 0 .. NumFields, j < k
        PROVE  Offset(ss, j) < Offset(ss, k)
    <2>1. j \in 0 .. Len(ss) /\ k \in 0 .. Len(ss)
      BY <1>1
    <2> QED
      BY <1>1, <1>5, <2>1, OffsetsGrow
  <1>6. \A k \in 0 .. NumFields : Offset(ss, k) \in Nat
    <2>1. \A k \in 0 .. NumFields : k = 0 \/ k \in 1 .. NumFields
      BY Constants
    <2> QED
      BY <1>3, <1>4, <2>1
  <1> QED
    BY <1>3, <1>4, <1>5, <1>6 DEF ss, Off

(* A line has a space between two fields and the fields' bytes elsewhere. *)
LEMMA JoinAt ==
    ASSUME NEW reply \in Replies
    PROVE  /\ Join(reply) \in Seq(Bytes)
           /\ Len(Join(reply)) = Off(reply, NumFields) - 1
           /\ \A k \in 1 .. NumFields : \A i \in 1 .. Len(reply[k]) :
                 Join(reply)[Off(reply, k - 1) + i] = reply[k][i]
           /\ \A k \in 1 .. NumFields - 1 : Join(reply)[Off(reply, k)] = "SP"
  <1> DEFINE ss == Spaced(reply)
             F == FlattenSeq(ss)
             n == Len(F)
  <1>1. ss \in Seq(Seq(Bytes)) /\ Len(ss) = NumFields /\ NoneEmpty(ss)
    BY SpacedType
  <1>2. F \in Seq(Bytes)
    BY <1>1, FlattenType
  <1>3. Off(reply, NumFields) = n /\ n \in Nat /\ n > 0 /\ NumFields \in Nat /\ NumFields > 0
    <2>1. NumFields \in 0 .. NumFields /\ 0 \in 0 .. NumFields /\ 0 < NumFields
      BY Constants
    <2> QED
      BY <1>2, <2>1, OffFacts, LenProperties, Constants
  <1>4. Join(reply) = Tail(F)
    BY DEF Join, Spaced
  <1>5. ASSUME NEW k \in 1 .. NumFields, NEW i \in 1 .. Len(reply[k]) + 1
        PROVE  /\ F[Off(reply, k - 1) + i] = ss[k][i]
               /\ Off(reply, k - 1) + i \in 1 .. n
    <2>1. k \in 1 .. Len(ss) /\ i \in 1 .. Len(ss[k])
      BY <1>1, SpacedAt
    <2>2. F[Offset(ss, k - 1) + i] = ss[k][i]
      <3> HIDE DEF ss
      <3> QED
        BY <1>1, <2>1, PieceAt
    <2>3. /\ Off(reply, k) = Off(reply, k - 1) + Len(reply[k]) + 1
          /\ Off(reply, k) <= n /\ Off(reply, k - 1) \in Nat /\ Off(reply, k) \in Nat
          /\ Len(reply[k]) \in Nat
      <3>1. k \in 0 .. NumFields /\ k - 1 \in 0 .. NumFields /\ NumFields \in 0 .. NumFields
            /\ (k = NumFields \/ k < NumFields)
        BY <1>3
      <3>2. Off(reply, k) \in Nat /\ Off(reply, k - 1) \in Nat
        BY <3>1, OffFacts
      <3>3. Off(reply, k) <= n
        BY <1>3, <3>1, <3>2, OffFacts
      <3> QED
        BY <3>2, <3>3, OffFacts, FieldType
    <2>4. i \in Nat /\ 1 <= i /\ i <= Len(reply[k]) + 1
      BY <2>3
    <2>5. Off(reply, k - 1) + i \in 1 .. n
      BY <1>3, <2>3, <2>4, SMTT(20)
    <2> QED
      BY <2>2, <2>5 DEF Off
  <1> HIDE DEF F, n
  <1>6. F # <<>>
    BY <1>2, <1>3, EmptySeq DEF n
  <1>7. /\ Tail(F) \in Seq(Bytes) /\ Len(Tail(F)) = n - 1
        /\ \A q \in 1 .. n - 1 : Tail(F)[q] = F[q + 1]
    BY <1>2, <1>6, HeadTailProperties DEF n
  <1>8. ASSUME NEW k \in 1 .. NumFields, NEW i \in 1 .. Len(reply[k])
        PROVE  Tail(F)[Off(reply, k - 1) + i] = reply[k][i]
    <2>1. Len(reply[k]) \in Nat /\ Off(reply, k - 1) \in Nat
      <3>1. k - 1 \in 0 .. NumFields
        BY <1>3
      <3> QED
        BY <3>1, FieldType, OffFacts
    <2>2. i + 1 \in 1 .. Len(reply[k]) + 1 /\ i \in Nat /\ i >= 1
      BY <2>1
    <2>3. F[Off(reply, k - 1) + (i + 1)] = ss[k][i + 1] /\ ss[k][i + 1] = reply[k][i]
          /\ Off(reply, k - 1) + (i + 1) \in 1 .. n
      BY <1>5, <2>2, SpacedAt
    <2>4. Off(reply, k - 1) + i \in 1 .. n - 1
          /\ (Off(reply, k - 1) + i) + 1 = Off(reply, k - 1) + (i + 1)
      BY <1>3, <2>1, <2>2, <2>3, SMTT(20)
    <2> QED
      BY <1>7, <2>3, <2>4
  <1>9. ASSUME NEW k \in 1 .. NumFields - 1 PROVE Tail(F)[Off(reply, k)] = "SP"
    <2>1. k + 1 \in 1 .. NumFields /\ (k + 1) - 1 = k /\ k \in 1 .. NumFields
      BY <1>3
    <2>2. Len(reply[k + 1]) \in Nat /\ Len(reply[k]) \in Nat
      BY <2>1, FieldType
    <2>3. 1 \in 1 .. Len(reply[k + 1]) + 1
      BY <2>2
    <2>4. F[Off(reply, k) + 1] = ss[k + 1][1] /\ Off(reply, k) + 1 \in 1 .. n
      BY <1>5, <2>1, <2>3
    <2>5. ss[k + 1][1] = "SP"
      BY <2>1, SpacedAt
    <2>6. Off(reply, k) \in Nat /\ Off(reply, k) >= 1
      <3>1. k - 1 \in 0 .. NumFields /\ k \in 0 .. NumFields
        BY <1>3
      <3>2. Off(reply, k - 1) \in Nat /\ Off(reply, k) \in Nat
        BY <3>1, OffFacts
      <3> QED
        BY <2>1, <2>2, <3>2, OffFacts
    <2>7. Off(reply, k) \in 1 .. n - 1
      BY <1>3, <2>4, <2>6
    <2> QED
      BY <1>7, <2>4, <2>5, <2>7
  <1> QED
    BY <1>3, <1>4, <1>7, <1>8, <1>9

(* Every position of a line, and the one behind it, is in a field or ends one. *)
LEMMA FieldOf ==
    ASSUME NEW reply \in Replies, NEW p \in 1 .. Len(Join(reply)) + 1
    PROVE  \E k \in 1 .. NumFields :
              \/ p = Off(reply, k)
              \/ \E i \in 1 .. Len(reply[k]) : p = Off(reply, k - 1) + i
  <1> DEFINE ss == Spaced(reply)
  <1>1. ss \in Seq(Seq(Bytes)) /\ Len(ss) = NumFields
    BY SpacedType
  <1>2. Len(Join(reply)) + 1 = Len(FlattenSeq(ss))
    <2>1. Len(Join(reply)) = Off(reply, NumFields) - 1
          /\ Off(reply, NumFields) = Len(FlattenSeq(ss))
      BY JoinAt, OffFacts
    <2>2. Len(FlattenSeq(ss)) \in Nat
      BY <1>1, FlattenType, LenProperties
    <2> QED
      BY <2>1, <2>2
  <1>3. p \in 1 .. Len(FlattenSeq(ss)) /\ p \in Nat
    BY <1>2, JoinAt, LenProperties
  <1>4. PICK k \in 1 .. NumFields : Offset(ss, k - 1) < p /\ p <= Offset(ss, k)
    <2> HIDE DEF ss
    <2> QED
      BY <1>1, <1>3, PieceOf
  <1>5. /\ Off(reply, k) = Off(reply, k - 1) + Len(reply[k]) + 1
        /\ Off(reply, k - 1) \in Nat /\ Len(reply[k]) \in Nat
    <2>1. k - 1 \in 0 .. NumFields
      BY Constants
    <2> QED
      BY <2>1, OffFacts, FieldType
  <1>6. Off(reply, k - 1) < p /\ p <= Off(reply, k)
    BY <1>4 DEF Off
  <1> DEFINE i == p - Off(reply, k - 1)
  <1>7. i \in 1 .. Len(reply[k]) + 1 /\ p = Off(reply, k - 1) + i
    BY <1>3, <1>5, <1>6
  <1>8. i = Len(reply[k]) + 1 \/ i \in 1 .. Len(reply[k])
    BY <1>5, <1>7
  <1> HIDE DEF i
  <1>9. i = Len(reply[k]) + 1 => p = Off(reply, k)
    BY <1>5, <1>7
  <1> QED
    BY <1>7, <1>8, <1>9

(* Only the last field ends behind the line. *)
LEMMA OffInLine ==
    ASSUME NEW reply \in Replies, NEW k \in 1 .. NumFields
    PROVE  /\ Off(reply, k) \in 1 .. Len(Join(reply)) + 1
           /\ Off(reply, k) = Len(Join(reply)) + 1 <=> k = NumFields
  <1>1. /\ k \in 0 .. NumFields /\ NumFields \in 0 .. NumFields /\ 0 \in 0 .. NumFields
        /\ 0 < k /\ (k = NumFields \/ k < NumFields)
    BY Constants
  <1>2. /\ Off(reply, 0) = 0 /\ Off(reply, k) \in Nat /\ Off(reply, NumFields) \in Nat
        /\ Off(reply, 0) < Off(reply, k)
        /\ (k < NumFields => Off(reply, k) < Off(reply, NumFields))
    BY <1>1, OffFacts
  <1>3. Len(Join(reply)) + 1 = Off(reply, NumFields)
    BY <1>2, JoinAt
  <1> QED
    BY <1>1, <1>2, <1>3

(* handleReply stops where the fields end. *)
LEMMA EndsOfLine ==
    ASSUME NEW reply \in Replies
    PROVE  /\ Ends(Join(reply)) = {Off(reply, k) : k \in 1 .. NumFields}
           /\ \A p \in 1 .. Len(Join(reply)) : Join(reply)[p] \in {"SP", "c"}
  <1> DEFINE line == Join(reply)
  <1>1. Len(line) \in Nat
    BY JoinAt, LenProperties
  <1>2. ASSUME NEW k \in 1 .. NumFields
        PROVE  /\ Off(reply, k) \in Ends(line)
               /\ Off(reply, k) # Len(line) + 1 => line[Off(reply, k)] = "SP"
    <2>1. k = NumFields \/ k \in 1 .. NumFields - 1
      BY Constants
    <2>2. k \in 1 .. NumFields - 1 => line[Off(reply, k)] = "SP"
      BY JoinAt
    <2>3. Off(reply, k) \in 1 .. Len(line) + 1
          /\ (Off(reply, k) = Len(line) + 1 <=> k = NumFields)
      BY OffInLine
    <2> QED
      BY <2>1, <2>2, <2>3 DEF Ends
  <1>3. ASSUME NEW k \in 1 .. NumFields, NEW i \in 1 .. Len(reply[k])
        PROVE  /\ line[Off(reply, k - 1) + i] = "c"
               /\ Off(reply, k - 1) + i # Len(line) + 1
    <2>1. line[Off(reply, k - 1) + i] = "c"
      BY JoinAt, FieldType
    <2>2. /\ k - 1 \in 0 .. NumFields /\ k \in 0 .. NumFields
      BY Constants
    <2>3. /\ Off(reply, k) = Off(reply, k - 1) + Len(reply[k]) + 1
          /\ Off(reply, k - 1) \in Nat /\ Len(reply[k]) \in Nat
          /\ Off(reply, k) <= Len(line) + 1
      BY <1>1, <2>2, OffFacts, FieldType, OffInLine
    <2> QED
      BY <1>1, <2>1, <2>3
  <1>4. ASSUME NEW p \in 1 .. Len(line) + 1
        PROVE  \/ \E k \in 1 .. NumFields : p = Off(reply, k)
               \/ p # Len(line) + 1 /\ line[p] = "c"
    BY <1>3, FieldOf
  <1> HIDE DEF line
  <1>5. ASSUME NEW p \in Ends(line) PROVE \E k \in 1 .. NumFields : p = Off(reply, k)
    BY <1>4 DEF Ends
  <1>6. \A p \in 1 .. Len(line) : p \in 1 .. Len(line) + 1 /\ p # Len(line) + 1
    BY <1>1
  <1>7. Ends(line) = {Off(reply, k) : k \in 1 .. NumFields}
    BY <1>2, <1>5
  <1>8. \A p \in 1 .. Len(line) : line[p] \in {"SP", "c"}
    BY <1>2, <1>4, <1>6
  <1> QED
    BY <1>7, <1>8 DEF line

(* The k-th stop of handleReply is where the k-th field ends. *)
LEMMA EndOfField ==
    ASSUME NEW reply \in Replies
    PROVE  /\ Cardinality(Ends(Join(reply))) = NumFields
           /\ \A k \in 1 .. NumFields : End(Join(reply), k) = Off(reply, k)
  <1> DEFINE f == [k \in 1 .. NumFields |-> Off(reply, k)]
             E == Ends(Join(reply))
  <1>1. NumFields \in Nat
    BY Constants
  <1>2. f \in [1 .. NumFields -> Nat] /\ \A j, k \in 1 .. NumFields : j < k => f[j] < f[k]
    <2>1. \A k \in 1 .. NumFields : k \in 0 .. NumFields
      OBVIOUS
    <2> QED
      BY <2>1, OffFacts
  <1>3. E = {f[k] : k \in 1 .. NumFields} /\ \A k \in 1 .. NumFields : f[k] = Off(reply, k)
    BY EndsOfLine
  <1> HIDE DEF f, E
  <1>4. /\ Cardinality(E) = NumFields
        /\ \A k \in 1 .. NumFields : Cardinality({e \in E : e <= f[k]}) = k
    BY <1>1, <1>2, <1>3, Ranks
  <1>5. ASSUME NEW k \in 1 .. NumFields PROVE End(Join(reply), k) = f[k]
    <2>1. f[k] \in E /\ Cardinality({i \in E : i <= f[k]}) = k
      BY <1>3, <1>4
    <2>2. ASSUME NEW e \in E, Cardinality({i \in E : i <= e}) = k PROVE e = f[k]
      <3>1. PICK j \in 1 .. NumFields : e = f[j]
        BY <1>3
      <3>2. Cardinality({i \in E : i <= f[j]}) = j
        BY <1>4
      <3> QED
        BY <2>2, <3>1, <3>2
    <2>3. End(Join(reply), k) = CHOOSE e \in E : Cardinality({i \in E : i <= e}) = k
      BY DEF End, E
    <2> QED
      BY <2>1, <2>2, <2>3
  <1> QED
    BY <1>3, <1>4, <1>5 DEF E

(* What lies between two ends is the field. *)
LEMMA FieldBetween ==
    ASSUME NEW reply \in Replies, NEW k \in 1 .. NumFields
    PROVE  SubSeq(Join(reply), Off(reply, k - 1) + 1, Off(reply, k) - 1) = reply[k]
  <1> DEFINE line == Join(reply)
             m == Off(reply, k - 1) + 1
             n == Off(reply, k) - 1
             field == reply[k]
  <1>1. /\ Off(reply, k) = Off(reply, k - 1) + Len(field) + 1
        /\ Off(reply, k - 1) \in Nat /\ Len(field) \in Nat /\ field \in Seq(Bytes)
    <2>1. k - 1 \in 0 .. NumFields
      BY Constants
    <2> QED
      BY <2>1, OffFacts, FieldType
  <1>2. m \in Int /\ n \in Int /\ n - m + 1 = Len(field) /\ m = Off(reply, k - 1) + 1
    BY <1>1
  <1>3. line \in Seq(Bytes)
    BY JoinAt
  <1>4. \A i \in 1 .. Len(field) : line[Off(reply, k - 1) + i] = field[i]
    BY JoinAt
  <1>5. \A i \in 1 .. Len(field) : field[i] \in Bytes
    BY <1>1, ElementOfSeq
  <1> HIDE DEF line, m, n, field
  <1>6. \A j \in m .. n : line[j] \in Bytes
    <2> SUFFICES ASSUME NEW j \in m .. n PROVE line[j] \in Bytes
      OBVIOUS
    <2>1. PICK o \in Nat : o = Off(reply, k - 1)
      BY <1>1
    <2>2. PICK l \in Nat : l = Len(field)
      BY <1>1
    <2>3. j \in Int /\ m <= j /\ j <= n /\ m = o + 1 /\ n - m + 1 = l /\ n \in Int
      BY <1>2, <2>1, <2>2
    <2>4. j - o \in 1 .. l /\ j = o + (j - o)
      BY <2>3
    <2> QED
      BY <1>4, <1>5, <2>1, <2>2, <2>4
  <1>7. /\ SubSeq(line, m, n) \in Seq(Bytes)
        /\ Len(SubSeq(line, m, n)) = IF m <= n THEN n - m + 1 ELSE 0
        /\ \A i \in 1 .. n - m + 1 : SubSeq(line, m, n)[i] = line[m + i - 1]
    BY <1>2, <1>6, SubSeqProperties
  <1>8. Len(SubSeq(line, m, n)) = Len(field)
    BY <1>1, <1>2, <1>7
  <1>9. \A i \in 1 .. Len(field) : SubSeq(line, m, n)[i] = field[i]
    <2> SUFFICES ASSUME NEW i \in 1 .. Len(field) PROVE SubSeq(line, m, n)[i] = field[i]
      OBVIOUS
    <2>1. m + i - 1 = Off(reply, k - 1) + i /\ i \in 1 .. n - m + 1
      <3>1. PICK o \in Nat, l \in Nat : o = Off(reply, k - 1) /\ l = Len(field)
        BY <1>1
      <3>2. m = o + 1 /\ n - m + 1 = l /\ i \in 1 .. l
        BY <1>2, <3>1
      <3>3. m + i - 1 = o + i /\ i \in 1 .. n - m + 1
        BY <3>2
      <3> QED
        BY <3>1, <3>3
    <2> QED
      BY <1>4, <1>7, <2>1
  <1>10. SubSeq(line, m, n) = field
    BY <1>1, <1>7, <1>8, <1>9, SeqEqual
  <1> QED
    BY <1>10 DEF line, m, n, field

(* Splitting undoes joining, whatever fields are empty. *)
THEOREM SplitJoin == \A reply \in Replies : Fields(Join(reply)) = reply
  <1> SUFFICES ASSUME NEW reply \in Replies PROVE Fields(Join(reply)) = reply
    OBVIOUS
  <1> DEFINE line == Join(reply)
             first(k) == IF k = 1 THEN 1 ELSE End(line, k - 1) + 1
  <1>1. Fields(line) = [k \in 1 .. Cardinality(Ends(line)) |->
                          SubSeq(line, first(k), End(line, k) - 1)]
    BY DEF Fields, Split
  <1>2. ASSUME NEW k \in 1 .. NumFields
        PROVE  SubSeq(line, first(k), End(line, k) - 1) = reply[k]
    <2>1. End(line, k) = Off(reply, k)
      BY EndOfField
    <2>2. first(k) = Off(reply, k - 1) + 1
      <3>1. CASE k = 1
        BY <3>1, OffFacts
      <3>2. CASE k # 1
        <4>1. k - 1 \in 1 .. NumFields
          BY <3>2, Constants
        <4> QED
          BY <3>2, <4>1, EndOfField
      <3> QED
        BY <3>1, <3>2
    <2> QED
      BY <2>1, <2>2, FieldBetween
  <1> HIDE DEF first
  <1>3. Fields(line) = [k \in 1 .. NumFields |-> reply[k]]
    BY <1>1, <1>2, EndOfField
  <1>4. reply = [k \in 1 .. NumFields |-> reply[k]]
    BY DEF Replies
  <1> QED
    BY <1>3, <1>4

-----------------------------------------------------------------------------
(* Lines have no terminator within. *)
Clean(line) == line \in Seq(Bytes) /\ \A p \in 1 .. Len(line) : line[p] \in {"SP", "c"}

(* What SendResponse writes has none. *)
LEMMA JoinClean ==
    ASSUME NEW reply \in Replies
    PROVE  Clean(Join(reply))
  BY JoinAt, EndsOfLine DEF Clean

(* The terminator. *)
LEMMA TypeOfCRLF ==
    CRLF \in Seq(Bytes) /\ Len(CRLF) = 2 /\ CRLF[1] = "CR" /\ CRLF[2] = "LF"
  BY DEF CRLF, Bytes

(* find compares two bytes. *)
LEMMA FoundAt ==
    ASSUME NEW buf \in Seq(Bytes), NEW i \in 1 .. Len(buf) - 1
    PROVE  i \in Found(buf) <=> buf[i] = "CR" /\ buf[i + 1] = "LF"
  <1> DEFINE t == SubSeq(buf, i, i + 1)
  <1>1. i \in Int /\ i + 1 \in Int /\ i <= i + 1 /\ (i + 1) - i + 1 = 2
    BY LenProperties
  <1>2. \A j \in i .. i + 1 : buf[j] \in Bytes
    <2> SUFFICES ASSUME NEW j \in i .. i + 1 PROVE buf[j] \in Bytes
      OBVIOUS
    <2>1. j \in 1 .. Len(buf)
      BY LenProperties
    <2> QED
      BY <2>1, ElementOfSeq
  <1>3. /\ t \in Seq(Bytes) /\ Len(t) = (IF i <= i + 1 THEN (i + 1) - i + 1 ELSE 0)
        /\ \A j \in 1 .. (i + 1) - i + 1 : t[j] = buf[i + j - 1]
    BY <1>1, <1>2, SubSeqProperties
  <1>4. t \in Seq(Bytes) /\ Len(t) = 2 /\ t[1] = buf[i] /\ t[2] = buf[i + 1]
    <2>1. 1 \in 1 .. (i + 1) - i + 1 /\ 2 \in 1 .. (i + 1) - i + 1
          /\ i + 1 - 1 = i /\ i + 2 - 1 = i + 1
      BY <1>1
    <2> QED
      BY <1>1, <1>3, <2>1
  <1> HIDE DEF t
  <1>5. t = CRLF <=> t[1] = "CR" /\ t[2] = "LF"
    <2>1. ASSUME t[1] = "CR", t[2] = "LF" PROVE t = CRLF
      <3>1. \A j \in 1 .. Len(t) : t[j] = CRLF[j]
        BY <1>4, <2>1, TypeOfCRLF
      <3> QED
        BY <1>4, <3>1, TypeOfCRLF, SeqEqual
    <2> QED
      BY <2>1, TypeOfCRLF
  <1> QED
    BY <1>4, <1>5 DEF Found, t

(* Without a line feed nothing is found. *)
LEMMA NothingFound ==
    ASSUME NEW buf \in Seq(Bytes), NEW rest \in Seq(Bytes),
           \A i \in 1 .. Len(buf \o rest) : (buf \o rest)[i] # "LF"
    PROVE  Found(buf) = {}
  <1> SUFFICES ASSUME NEW i \in Found(buf) PROVE FALSE
    OBVIOUS
  <1>1. i \in 1 .. Len(buf) - 1 /\ Len(buf) \in Nat /\ Len(rest) \in Nat
    BY LenProperties DEF Found
  <1>2. buf[i + 1] = "LF"
    BY <1>1, FoundAt
  <1>3. /\ i + 1 \in 1 .. Len(buf) + Len(rest) /\ i + 1 <= Len(buf)
    BY <1>1
  <1>4. Len(buf \o rest) = Len(buf) + Len(rest) /\ (buf \o rest)[i + 1] = buf[i + 1]
    BY <1>3, ConcatProperties
  <1> QED
    BY <1>2, <1>3, <1>4

(* A line at the head of the stream, byte by byte. *)
LEMMA LineAt ==
    ASSUME NEW line, Clean(line), NEW rest \in Seq(Bytes)
    PROVE  /\ Len(line) \in Nat /\ Len(rest) \in Nat
           /\ (line \o CRLF) \o rest \in Seq(Bytes)
           /\ Len((line \o CRLF) \o rest) = Len(line) + 2 + Len(rest)
           /\ \A i \in 1 .. Len(line) : ((line \o CRLF) \o rest)[i] = line[i]
           /\ ((line \o CRLF) \o rest)[Len(line) + 1] = "CR"
           /\ ((line \o CRLF) \o rest)[Len(line) + 2] = "LF"
           /\ \A i \in 1 .. Len(rest) :
                 ((line \o CRLF) \o rest)[Len(line) + 2 + i] = rest[i]
  <1> DEFINE t == line \o CRLF
             s == t \o rest
  <1>1. line \in Seq(Bytes) /\ Len(line) \in Nat /\ Len(rest) \in Nat
    BY LenProperties DEF Clean
  <1>2. /\ t \in Seq(Bytes) /\ Len(t) = Len(line) + Len(CRLF)
        /\ \A i \in 1 .. Len(line) + Len(CRLF) :
              t[i] = IF i <= Len(line) THEN line[i] ELSE CRLF[i - Len(line)]
    BY <1>1, TypeOfCRLF, ConcatProperties
  <1> HIDE DEF t
  <1>3. /\ s \in Seq(Bytes) /\ Len(s) = Len(t) + Len(rest)
        /\ \A i \in 1 .. Len(t) + Len(rest) :
              s[i] = IF i <= Len(t) THEN t[i] ELSE rest[i - Len(t)]
    <2>1. t \in Seq(Bytes)
      BY <1>2
    <2> QED
      BY <2>1, ConcatProperties, Zenon
  <1> HIDE DEF s
  <1>4. Len(t) = Len(line) + 2
    BY <1>1, <1>2, TypeOfCRLF
  <1>5. \A i \in 1 .. Len(line) : s[i] = line[i]
    BY <1>1, <1>2, <1>3, <1>4, TypeOfCRLF
  <1>6. s[Len(line) + 1] = "CR"
    <2>1. t[Len(line) + 1] = CRLF[1]
      BY <1>1, <1>2, TypeOfCRLF
    <2> QED
      BY <1>1, <1>3, <1>4, <2>1, TypeOfCRLF
  <1>7. s[Len(line) + 2] = "LF"
    <2>1. t[Len(line) + 2] = CRLF[2]
      BY <1>1, <1>2, TypeOfCRLF
    <2> QED
      BY <1>1, <1>3, <1>4, <2>1, TypeOfCRLF
  <1>8. \A i \in 1 .. Len(rest) : s[Len(line) + 2 + i] = rest[i]
    <2> SUFFICES ASSUME NEW i \in 1 .. Len(rest) PROVE s[Len(line) + 2 + i] = rest[i]
      OBVIOUS
    <2>1. /\ Len(line) + 2 + i \in 1 .. Len(t) + Len(rest)
          /\ ~ (Len(line) + 2 + i <= Len(t)) /\ Len(line) + 2 + i - Len(t) = i
      BY <1>1, <1>4
    <2> QED
      BY <1>3, <2>1
  <1> QED
    BY <1>1, <1>3, <1>4, <1>5, <1>6, <1>7, <1>8 DEF s, t

(* Behind it. *)
LEMMA RestAt ==
    ASSUME NEW line, Clean(line), NEW rest \in Seq(Bytes), NEW i \in 1 .. Len(rest)
    PROVE  ((line \o CRLF) \o rest)[Len(line) + 2 + i] = rest[i]
  BY LineAt

(* A stream in two parts. *)
Together(buf, more, stream) == buf \o more = stream

(* The first terminator found is the end of the first line, and what is kept *)
(* is all that follows it.                                                   *)
LEMMA FirstLine ==
    ASSUME NEW line, Clean(line), NEW rest \in Seq(Bytes),
           NEW buf \in Seq(Bytes), NEW more \in Seq(Bytes),
           Together(buf, more, (line \o CRLF) \o rest), Found(buf) # {}
    PROVE  /\ Min(Found(buf)) = Len(line) + 1
           /\ SubSeq(buf, 1, Len(line)) = line
           /\ After(buf, Len(line) + 1) \in Seq(Bytes)
           /\ Together(After(buf, Len(line) + 1), more, rest)
  <1> DEFINE s == (line \o CRLF) \o rest
             l == Len(line)
             b == Len(buf)
             m == Len(more)
             r == Len(rest)
  <1>1. /\ l \in Nat /\ r \in Nat /\ Len(s) = l + 2 + r
        /\ \A i \in 1 .. l : s[i] = line[i]
        /\ s[l + 1] = "CR" /\ s[l + 2] = "LF"
        /\ \A i \in 1 .. r : s[l + 2 + i] = rest[i]
    <2> HIDE DEF s, l, r
    <2>1. /\ Len(line) \in Nat /\ Len(rest) \in Nat
          /\ Len((line \o CRLF) \o rest) = Len(line) + 2 + Len(rest)
      BY LineAt
    <2>2. \A i \in 1 .. Len(line) : ((line \o CRLF) \o rest)[i] = line[i]
      BY LineAt
    <2>3. /\ ((line \o CRLF) \o rest)[Len(line) + 1] = "CR"
          /\ ((line \o CRLF) \o rest)[Len(line) + 2] = "LF"
      BY LineAt
    <2>4. \A i \in 1 .. Len(rest) :
             ((line \o CRLF) \o rest)[Len(line) + 2 + i] = rest[i]
      <3> SUFFICES ASSUME NEW i \in 1 .. Len(rest)
                   PROVE  ((line \o CRLF) \o rest)[Len(line) + 2 + i] = rest[i]
        OBVIOUS
      <3> QED
        BY RestAt, Zenon
    <2> QED
      BY <2>1, <2>2, <2>3, <2>4, Zenon DEF s, l, r
  <1>2. /\ b \in Nat /\ m \in Nat /\ Len(s) = b + m
        /\ \A i \in 1 .. b + m : s[i] = IF i <= b THEN buf[i] ELSE more[i - b]
    BY ConcatProperties, LenProperties DEF Together
  <1>3. \A i \in 1 .. l : line[i] \in {"SP", "c"}
    BY DEF Clean
  <1>4. line \in Seq(Bytes)
    BY DEF Clean
  <1>5. \A i \in Found(buf) : i \in 1 .. b - 1 /\ buf[i] = "CR" /\ buf[i + 1] = "LF"
    BY FoundAt DEF Found
  <1>6. \A i \in 1 .. b - 1 : buf[i] = "CR" /\ buf[i + 1] = "LF" => i \in Found(buf)
    BY FoundAt
  <1>7. \A i \in 1 .. b : buf[i] \in Bytes
    BY ElementOfSeq
  <1> HIDE DEF s, l, b, m, r
  <1>8. ASSUME NEW i \in Found(buf) PROVE i \in Nat /\ l + 1 <= i /\ i <= b - 1
    <2>1. i \in 1 .. b - 1 /\ buf[i] = "CR"
      BY <1>5
    <2>2. i \in 1 .. b + m /\ i <= b /\ i \in Nat
      BY <1>2, <2>1
    <2>3. s[i] = "CR"
      BY <1>2, <2>1, <2>2
    <2>4. ~ (i \in 1 .. l)
      BY <1>1, <1>3, <2>3
    <2> QED
      BY <1>1, <1>2, <2>1, <2>2, <2>4
  <1>9. l + 2 <= b
    BY <1>1, <1>2, <1>8
  <1>10. l + 1 \in Found(buf)
    <2>1. l + 1 \in 1 .. b - 1 /\ l + 1 \in 1 .. b + m /\ l + 2 \in 1 .. b + m
          /\ l + 1 <= b /\ (l + 1) + 1 = l + 2
      BY <1>1, <1>2, <1>9
    <2>2. buf[l + 1] = s[l + 1] /\ buf[l + 2] = s[l + 2]
      BY <1>2, <1>9, <2>1
    <2> QED
      BY <1>1, <1>6, <2>1, <2>2
  <1>11. Min(Found(buf)) = l + 1
    <2>1. \A x \in Found(buf) : (\A y \in Found(buf) : x <= y) => x = l + 1
      <3> SUFFICES ASSUME NEW x \in Found(buf), x <= l + 1 PROVE x = l + 1
        BY <1>10
      <3> QED
        BY <1>1, <1>8
    <2>2. \A y \in Found(buf) : l + 1 <= y
      BY <1>8
    <2> QED
      BY <1>10, <2>1, <2>2 DEF Min
  <1>12. SubSeq(buf, 1, l) = line
    <2>1. /\ 1 \in Int /\ l \in Int /\ l - 1 + 1 = l /\ (l < 1 => l = 0)
          /\ \A i \in 1 .. l : i \in 1 .. b + m /\ i <= b /\ i \in 1 .. b /\ 1 + i - 1 = i
      BY <1>1, <1>2, <1>9
    <2>2. \A i \in 1 .. l : buf[i] \in Bytes
      BY <1>7, <2>1
    <2>3. /\ SubSeq(buf, 1, l) \in Seq(Bytes)
          /\ Len(SubSeq(buf, 1, l)) = IF 1 <= l THEN l - 1 + 1 ELSE 0
          /\ \A i \in 1 .. l - 1 + 1 : SubSeq(buf, 1, l)[i] = buf[1 + i - 1]
      BY <2>1, <2>2, SubSeqProperties
    <2>4. Len(SubSeq(buf, 1, l)) = Len(line)
      BY <1>1, <2>1, <2>3 DEF l
    <2>5. ASSUME NEW i \in 1 .. l PROVE SubSeq(buf, 1, l)[i] = line[i]
      <3>1. SubSeq(buf, 1, l)[i] = buf[i]
        BY <1>1, <2>1, <2>3
      <3>2. s[i] = buf[i]
        BY <1>2, <2>1
      <3> QED
        BY <1>1, <3>1, <3>2
    <2> QED
      BY <1>4, <2>3, <2>4, <2>5, SeqEqual DEF l
  <1> DEFINE a == After(buf, l + 1)
  <1>13. /\ a \in Seq(Bytes) /\ Len(a) = b - l - 2
         /\ \A i \in 1 .. b - l - 2 : a[i] = buf[l + 2 + i]
    <2>1. a = SubSeq(buf, l + 3, b)
      BY <1>1 DEF After, b
    <2>2. /\ l + 3 \in Int /\ b \in Int /\ b - (l + 3) + 1 = b - l - 2
          /\ \A i \in l + 3 .. b : i \in 1 .. b
          /\ \A i \in 1 .. b - l - 2 : l + 3 + i - 1 = l + 2 + i
          /\ (~ (l + 3 <= b) => b - l - 2 = 0)
      BY <1>1, <1>2, <1>9
    <2>3. \A i \in l + 3 .. b : buf[i] \in Bytes
      BY <1>7, <2>2
    <2>4. /\ SubSeq(buf, l + 3, b) \in Seq(Bytes)
          /\ Len(SubSeq(buf, l + 3, b)) = IF l + 3 <= b THEN b - (l + 3) + 1 ELSE 0
          /\ \A i \in 1 .. b - (l + 3) + 1 : SubSeq(buf, l + 3, b)[i] = buf[l + 3 + i - 1]
      BY <2>2, <2>3, SubSeqProperties, SMTT(20)
    <2> QED
      BY <2>1, <2>2, <2>4
  <1> HIDE DEF a
  <1>14. a \o more = rest
    <2>1. /\ a \o more \in Seq(Bytes) /\ Len(a \o more) = Len(a) + m
          /\ \A i \in 1 .. Len(a) + m :
                (a \o more)[i] = IF i <= Len(a) THEN a[i] ELSE more[i - Len(a)]
      BY <1>13, ConcatProperties DEF m
    <2>2. Len(a) + m = r /\ Len(a) \in Nat
      BY <1>1, <1>2, <1>9, <1>13
    <2>3. ASSUME NEW i \in 1 .. r PROVE (a \o more)[i] = rest[i]
      <3>1. l + 2 + i \in 1 .. b + m /\ i \in Nat
        BY <1>1, <1>2, <1>13, <2>2
      <3>2. rest[i] = IF l + 2 + i <= b THEN buf[l + 2 + i] ELSE more[l + 2 + i - b]
        BY <1>1, <1>2, <3>1
      <3>3. CASE i <= Len(a)
        <4>1. i \in 1 .. b - l - 2 /\ l + 2 + i <= b
          BY <1>1, <1>2, <1>13, <3>3
        <4> QED
          BY <1>13, <2>1, <2>2, <3>2, <3>3, <4>1
      <3>4. CASE ~ (i <= Len(a))
        <4>1. i - Len(a) = l + 2 + i - b /\ ~ (l + 2 + i <= b)
          BY <1>1, <1>2, <1>13, <3>1, <3>4
        <4> QED
          BY <2>1, <2>2, <3>2, <3>4, <4>1
      <3> QED
        BY <3>3, <3>4
    <2>4. Len(a \o more) = Len(rest)
      BY <2>1, <2>2 DEF r
    <2> QED
      BY <2>1, <2>3, <2>4, SeqEqual DEF r
  <1> QED
    BY <1>11, <1>12, <1>13, <1>14 DEF l, a, Together

-----------------------------------------------------------------------------
Written == {Join(reply) : reply \in Replies}

(* The bytes of the lines after the first k. *)
Terminated(lines, k) == [i \in 1 .. Len(lines) - k |-> lines[k + i] \o CRLF]

Unread == Terminated(sent, Len(got))

(* A line that was written is a clean sequence of bytes. *)
LEMMA WrittenType ==
    ASSUME NEW line \in Written
    PROVE  line \in Seq(Bytes) /\ line \o CRLF \in Seq(Bytes) /\ Clean(line)
  <1>1. PICK reply \in Replies : line = Join(reply)
    BY DEF Written
  <1>2. Clean(line) /\ line \in Seq(Bytes)
    BY <1>1, JoinClean DEF Clean
  <1> QED
    BY <1>2, TypeOfCRLF, ConcatProperties

(* One terminated line for each after the first k. *)
LEMMA RemainderType ==
    ASSUME NEW lines \in Seq(Written), NEW k \in 0 .. Len(lines)
    PROVE  /\ Terminated(lines, k) \in Seq(Seq(Bytes))
           /\ Len(Terminated(lines, k)) = Len(lines) - k /\ Len(lines) - k \in Nat
           /\ \A i \in 1 .. Len(lines) - k : Terminated(lines, k)[i] = lines[k + i] \o CRLF
  <1> DEFINE n == Len(lines) - k
  <1>1. n \in Nat
    BY LenProperties
  <1>2. ASSUME NEW i \in 1 .. n PROVE lines[k + i] \o CRLF \in Seq(Bytes)
    <2>1. k + i \in 1 .. Len(lines)
      BY LenProperties
    <2>2. lines[k + i] \in Written
      BY <2>1, ElementOfSeq
    <2> QED
      BY <2>2, WrittenType
  <1>3. Terminated(lines, k) = [i \in 1 .. n |-> lines[k + i] \o CRLF]
    BY DEF Terminated
  <1>4. Terminated(lines, k) \in [1 .. n -> Seq(Bytes)]
    BY <1>2, <1>3
  <1>5. Terminated(lines, k) \in Seq(Seq(Bytes)) /\ Len(Terminated(lines, k)) = n
    <2> HIDE DEF n
    <2> QED
      BY <1>1, <1>4
  <1> QED
    BY <1>1, <1>3, <1>5

(* A line written is the last to be read. *)
LEMMA RemainderAppend ==
    ASSUME NEW lines \in Seq(Written), NEW k \in 0 .. Len(lines), NEW line \in Written
    PROVE  Terminated(Append(lines, line), k) = Append(Terminated(lines, k), line \o CRLF)
  <1> DEFINE more == Append(lines, line)
             s == Terminated(lines, k)
             t == Append(s, line \o CRLF)
             u == Terminated(more, k)
  <1>1. /\ more \in Seq(Written) /\ Len(more) = Len(lines) + 1
        /\ \A i \in 1 .. Len(lines) : more[i] = lines[i]
        /\ more[Len(lines) + 1] = line
    BY AppendProperties
  <1>2. Len(lines) \in Nat /\ k \in Nat /\ k <= Len(lines)
    BY LenProperties
  <1> HIDE DEF more
  <1>3. k \in 0 .. Len(more)
    BY <1>1, <1>2
  <1>4. /\ u \in Seq(Seq(Bytes)) /\ Len(u) = Len(more) - k
        /\ \A i \in 1 .. Len(more) - k : u[i] = more[k + i] \o CRLF
    BY <1>1, <1>3, RemainderType
  <1>5. /\ s \in Seq(Seq(Bytes)) /\ Len(s) = Len(lines) - k
        /\ \A i \in 1 .. Len(lines) - k : s[i] = lines[k + i] \o CRLF
    BY RemainderType
  <1> HIDE DEF u, s
  <1>6. line \o CRLF \in Seq(Bytes)
    BY WrittenType
  <1>7. /\ t \in Seq(Seq(Bytes)) /\ Len(t) = Len(s) + 1
        /\ \A i \in 1 .. Len(s) : t[i] = s[i]
        /\ t[Len(s) + 1] = line \o CRLF
    BY <1>5, <1>6, AppendProperties, SMTT(20)
  <1> HIDE DEF t
  <1>8. Len(u) = Len(t)
    BY <1>1, <1>2, <1>4, <1>5, <1>7
  <1>9. ASSUME NEW i \in 1 .. Len(u) PROVE u[i] = t[i]
    <2>1. Len(u) = Len(lines) - k + 1 /\ i \in Nat /\ 1 <= i /\ i <= Len(lines) - k + 1
          /\ Len(lines) - k \in Nat
      BY <1>1, <1>2, <1>4
    <2>2. u[i] = more[k + i] \o CRLF
      BY <1>4
    <2>3. CASE i <= Len(lines) - k
      <3>1. i \in 1 .. Len(lines) - k /\ k + i \in 1 .. Len(lines)
        BY <1>2, <2>1, <2>3
      <3>2. t[i] = s[i] /\ s[i] = lines[k + i] \o CRLF
        BY <1>5, <1>7, <3>1
      <3> QED
        BY <1>1, <2>2, <3>1, <3>2
    <2>4. CASE ~ (i <= Len(lines) - k)
      <3>1. i = Len(lines) - k + 1 /\ k + i = Len(lines) + 1
        BY <1>2, <2>1, <2>4
      <3> QED
        BY <1>1, <1>5, <1>7, <2>2, <3>1
    <2> QED
      BY <2>3, <2>4
  <1> QED
    BY <1>4, <1>7, <1>8, <1>9, SeqEqual DEF more, s, t, u

(* The next line is the first to be read. *)
LEMMA RemainderCons ==
    ASSUME NEW lines \in Seq(Written), NEW k \in 0 .. Len(lines), k < Len(lines)
    PROVE  Terminated(lines, k) = <<lines[k + 1] \o CRLF>> \o Terminated(lines, k + 1)
  <1> DEFINE s == Terminated(lines, k)
             t == Terminated(lines, k + 1)
             l == lines[k + 1] \o CRLF
             u == <<l>> \o t
  <1>1. Len(lines) \in Nat /\ k \in Nat /\ k + 1 \in 0 .. Len(lines)
        /\ k + 1 \in 1 .. Len(lines)
    BY LenProperties
  <1>2. /\ s \in Seq(Seq(Bytes)) /\ Len(s) = Len(lines) - k
        /\ \A i \in 1 .. Len(lines) - k : s[i] = lines[k + i] \o CRLF
    BY RemainderType
  <1>3. /\ t \in Seq(Seq(Bytes)) /\ Len(t) = Len(lines) - (k + 1)
        /\ \A i \in 1 .. Len(lines) - (k + 1) : t[i] = lines[k + 1 + i] \o CRLF
    BY <1>1, RemainderType
  <1>4. l \in Seq(Bytes)
    <2>1. lines[k + 1] \in Written
      BY <1>1, ElementOfSeq
    <2> QED
      BY <2>1, WrittenType
  <1>5. l = lines[k + 1] \o CRLF
    OBVIOUS
  <1> HIDE DEF s, t, l
  <1>6. <<l>> \in Seq(Seq(Bytes)) /\ Len(<<l>>) = 1 /\ <<l>>[1] = l
    BY <1>4
  <1>7. /\ u \in Seq(Seq(Bytes)) /\ Len(u) = Len(<<l>>) + Len(t)
        /\ \A i \in 1 .. Len(<<l>>) + Len(t) :
              u[i] = IF i <= Len(<<l>>) THEN <<l>>[i] ELSE t[i - Len(<<l>>)]
    BY <1>3, <1>6, ConcatProperties
  <1> HIDE DEF u
  <1>8. Len(s) = Len(u)
    BY <1>1, <1>2, <1>3, <1>6, <1>7
  <1>9. ASSUME NEW i \in 1 .. Len(s) PROVE s[i] = u[i]
    <2>1. s[i] = lines[k + i] \o CRLF /\ i \in Nat /\ i >= 1 /\ i <= Len(lines) - k
      BY <1>1, <1>2
    <2>2. u[i] = IF i <= 1 THEN l ELSE t[i - 1]
      <3>1. u[i] = IF i <= 1 THEN <<l>>[i] ELSE t[i - 1]
        <4>1. i \in 1 .. Len(<<l>>) + Len(t)
          BY <1>7, <1>8
        <4>2. u[i] = IF i <= Len(<<l>>) THEN <<l>>[i] ELSE t[i - Len(<<l>>)]
          BY <1>7, <4>1
        <4> QED
          BY <1>6, <4>2
      <3> QED
        BY <1>6, <2>1, <3>1
    <2>3. CASE i = 1
      BY <1>5, <2>1, <2>2, <2>3
    <2>4. CASE i # 1
      <3>1. i - 1 \in 1 .. Len(lines) - (k + 1) /\ k + 1 + (i - 1) = k + i /\ ~ (i <= 1)
        BY <1>1, <2>1, <2>4
      <3> QED
        BY <1>3, <2>1, <2>2, <3>1
    <2> QED
      BY <2>3, <2>4
  <1> QED
    BY <1>2, <1>7, <1>8, <1>9, SeqEqual DEF s, t, u, l

Types ==
    /\ net \in Seq(Bytes) /\ rx_buf_ \in Seq(Bytes) /\ cut \in Seq(Bytes)
    /\ replies \in Seq(Replies) /\ fields \in Seq(Replies)
    /\ sent \in Seq(Written) /\ got \in Seq(Written)

(* The histories agree: what was written is what the replies say, and what *)
(* was read is the beginning of it.                                        *)
Histories ==
    /\ Len(sent) = Len(replies) /\ Len(got) = Len(fields) /\ Len(got) <= Len(sent)
    /\ \A k \in 1 .. Len(sent) : sent[k] = Join(replies[k])
    /\ \A k \in 1 .. Len(got) : got[k] = sent[k] /\ fields[k] = replies[k]

(* What ns-3 did not finish has no terminator, and is the last it wrote. *)
Unfinished ==
    /\ ~closed => cut = <<>>
    /\ \A i \in 1 .. Len(cut) : cut[i] # "LF"

(* Buffer and wire are what is to be read. *)
Conserved == rx_buf_ \o net = FlattenSeq(Unread) \o cut

Inv ==
    /\ Types
    /\ Histories
    /\ Unfinished
    /\ Conserved

(* The types of what is still to be read. *)
LEMMA UnreadType ==
    ASSUME Types, Histories
    PROVE  /\ Unread \in Seq(Seq(Bytes)) /\ FlattenSeq(Unread) \in Seq(Bytes)
           /\ Len(got) \in 0 .. Len(sent) /\ Len(got) \in Nat /\ Len(sent) \in Nat
  <1>1. Len(got) \in 0 .. Len(sent) /\ Len(got) \in Nat /\ Len(sent) \in Nat
    BY LenProperties DEF Types, Histories
  <1>2. Unread \in Seq(Seq(Bytes))
    BY <1>1, RemainderType DEF Unread, Types
  <1> QED
    BY <1>1, <1>2, FlattenType

(* What the reader sees of the stream, as bytes. *)
LEMMA Untouched ==
    ASSUME Inv, UNCHANGED <<closed, cut, replies, fields, sent, got>>,
           net' \in Seq(Bytes), rx_buf_' \in Seq(Bytes),
           rx_buf_' \o net' = rx_buf_ \o net
    PROVE  Inv'
  <1>1. Types'
    BY DEF Inv, Types
  <1>2. Histories' /\ Unfinished'
    BY DEF Inv, Histories, Unfinished
  <1>3. Conserved'
    BY DEF Inv, Conserved, Unread
  <1> QED
    BY <1>1, <1>2, <1>3 DEF Inv

(* At the start there is nothing. *)
LEMMA InitInv ==
    ASSUME Init
    PROVE  Inv
  <1>1. Types
    BY DEF Init, Types
  <1>2. Histories /\ Unfinished
    BY DEF Init, Histories, Unfinished
  <1>3. Conserved
    <2>1. sent \in Seq(Written) /\ Len(got) = 0 /\ Len(sent) = 0 /\ 0 \in 0 .. Len(sent)
      BY DEF Init
    <2>2. Unread \in Seq(Seq(Bytes)) /\ Len(Unread) = 0
      <3>1. /\ Terminated(sent, 0) \in Seq(Seq(Bytes))
            /\ Len(Terminated(sent, 0)) = Len(sent) - 0
        BY <2>1, RemainderType
      <3> QED
        BY <2>1, <3>1 DEF Unread
    <2>3. Unread = <<>>
      BY <2>2, EmptySeq
    <2> QED
      BY <2>3, FlattenEmpty DEF Init, Conserved
  <1> QED
    BY <1>1, <1>2, <1>3 DEF Inv

(* ns-3 writes: one more line at the end. *)
LEMMA WriteReplyInv ==
    ASSUME Inv, WriteReply
    PROVE  Inv'
  <1>1. PICK reply \in Replies :
           /\ net' = (net \o Join(reply)) \o CRLF
           /\ replies' = Append(replies, reply)
           /\ sent' = Append(sent, Join(reply))
    BY DEF WriteReply
  <1> DEFINE line == Join(reply)
             t == line \o CRLF
  <1>2. /\ cut = <<>> /\ cut' = <<>> /\ rx_buf_' = rx_buf_ /\ closed' = closed
        /\ fields' = fields /\ got' = got
    BY DEF WriteReply, Inv, Unfinished
  <1>3. /\ line \in Written /\ line \in Seq(Bytes) /\ t \in Seq(Bytes)
        /\ CRLF \in Seq(Bytes)
    <2>1. line \in Written
      BY DEF Written
    <2> QED
      BY <2>1, WrittenType, TypeOfCRLF
  <1>4. /\ net \in Seq(Bytes) /\ rx_buf_ \in Seq(Bytes)
        /\ replies \in Seq(Replies) /\ fields \in Seq(Replies)
        /\ sent \in Seq(Written) /\ got \in Seq(Written)
    BY DEF Inv, Types
  <1>5. net' = net \o t
    <2> HIDE DEF line
    <2>1. net' = (net \o line) \o CRLF
      BY <1>1 DEF line
    <2> QED
      <3>1. net \in Seq(Bytes) /\ line \in Seq(Bytes) /\ CRLF \in Seq(Bytes)
        BY <1>3, <1>4
      <3>2. (net \o line) \o CRLF = net \o (line \o CRLF)
        BY <3>1, ConcatAssociative
      <3> QED
        BY <2>1, <3>2, Zenon
  <1>6. /\ sent' \in Seq(Written) /\ Len(sent') = Len(sent) + 1
        /\ \A i \in 1 .. Len(sent) : sent'[i] = sent[i]
        /\ sent'[Len(sent) + 1] = line
    <2> HIDE DEF line
    <2>1. sent' = Append(sent, line)
      BY <1>1 DEF line
    <2> QED
      BY <1>3, <1>4, <2>1, AppendProperties
  <1>7. /\ replies' \in Seq(Replies) /\ Len(replies') = Len(replies) + 1
        /\ \A i \in 1 .. Len(replies) : replies'[i] = replies[i]
        /\ replies'[Len(replies) + 1] = reply
    BY <1>1, <1>4, AppendProperties
  <1>8. Types'
    <2>1. net' \in Seq(Bytes)
      BY <1>3, <1>4, <1>5, ConcatProperties
    <2>2. cut' \in Seq(Bytes)
      BY <1>2
    <2> QED
      BY <1>2, <1>4, <1>6, <1>7, <2>1, <2>2 DEF Types
  <1>9. Histories'
    <2>1. /\ Len(sent) = Len(replies) /\ Len(got) = Len(fields) /\ Len(got) <= Len(sent)
          /\ \A k \in 1 .. Len(sent) : sent[k] = Join(replies[k])
          /\ \A k \in 1 .. Len(got) : got[k] = sent[k] /\ fields[k] = replies[k]
      BY DEF Inv, Histories
    <2>2. Len(sent) \in Nat /\ Len(got) \in Nat
      BY <1>4, LenProperties
    <2>3. ASSUME NEW k \in 1 .. Len(sent') PROVE sent'[k] = Join(replies'[k])
      <3>1. k \in 1 .. Len(sent) \/ k = Len(sent) + 1
        BY <1>6, <2>2
      <3>2. k \in 1 .. Len(sent) => sent'[k] = Join(replies'[k])
        BY <1>6, <1>7, <2>1
      <3>3. k = Len(sent) + 1 => sent'[k] = Join(replies'[k])
        BY <1>6, <1>7, <2>1
      <3> QED
        BY <3>1, <3>2, <3>3
    <2>4. ASSUME NEW k \in 1 .. Len(got)
          PROVE  got[k] = sent'[k] /\ fields[k] = replies'[k]
      <3>1. k \in 1 .. Len(sent)
        BY <2>1, <2>2
      <3> QED
        BY <1>6, <1>7, <2>1, <3>1
    <2>5. /\ Len(sent') = Len(replies') /\ Len(got') = Len(fields')
          /\ Len(got') <= Len(sent')
      BY <1>2, <1>6, <1>7, <2>1, <2>2
    <2> QED
      BY <1>2, <2>3, <2>4, <2>5 DEF Histories
  <1>10. Unfinished'
    BY <1>2 DEF Inv, Unfinished
  <1>11. Conserved'
    <2> DEFINE f == FlattenSeq(Unread)
               b == rx_buf_ \o net
    <2>1. Unread \in Seq(Seq(Bytes)) /\ f \in Seq(Bytes) /\ Len(got) \in 0 .. Len(sent)
      BY UnreadType DEF Inv
    <2>2. Unread' = Append(Unread, t)
      <3>1. sent' = Append(sent, line)
        BY <1>1
      <3> HIDE DEF line
      <3> QED
        BY <1>2, <1>3, <1>4, <2>1, <3>1, RemainderAppend DEF Unread
    <2> HIDE DEF t
    <2>3. FlattenSeq(Unread') = f \o t
      BY <1>3, <2>1, <2>2, FlattenAppend
    <2>4. b = f \o <<>>
      BY <1>2 DEF Inv, Conserved
    <2>5. rx_buf_ \o (net \o t) = b \o t
      <3>1. t \in Seq(Bytes) /\ net \in Seq(Bytes) /\ rx_buf_ \in Seq(Bytes)
        BY <1>3, <1>4
      <3>2. (rx_buf_ \o net) \o t = rx_buf_ \o (net \o t)
        BY <3>1, ConcatAssociative
      <3> QED
        BY <3>2
    <2> HIDE DEF f, b
    <2>6. f \o <<>> = f /\ (f \o t) \o <<>> = f \o t
      <3>1. f \o t \in Seq(Bytes)
        BY <1>3, <2>1, ConcatProperties
      <3> QED
        BY <2>1, <3>1, ConcatEmptySeq
    <2> QED
      BY <1>2, <1>5, <2>3, <2>4, <2>5, <2>6 DEF Conserved
  <1> QED
    BY <1>8, <1>9, <1>10, <1>11 DEF Inv

(* A reply that is cut off has lost its line feed. *)
LEMMA CutOff ==
    ASSUME NEW line, Clean(line), NEW n \in 0 .. Len(line) + 1
    PROVE  /\ SubSeq(line \o CRLF, 1, n) \in Seq(Bytes)
           /\ \A i \in 1 .. Len(SubSeq(line \o CRLF, 1, n)) :
                 SubSeq(line \o CRLF, 1, n)[i] # "LF"
  <1> DEFINE t == line \o CRLF
             s == SubSeq(t, 1, n)
  <1>1. line \in Seq(Bytes) /\ Len(line) \in Nat
    BY LenProperties DEF Clean
  <1>2. /\ t \in Seq(Bytes) /\ Len(t) = Len(line) + Len(CRLF)
        /\ \A i \in 1 .. Len(line) + Len(CRLF) :
              t[i] = IF i <= Len(line) THEN line[i] ELSE CRLF[i - Len(line)]
    BY <1>1, TypeOfCRLF, ConcatProperties
  <1>3. ASSUME NEW i \in 1 .. n PROVE t[i] \in Bytes /\ t[i] # "LF"
    <2>1. i \in 1 .. Len(line) + Len(CRLF) /\ i \in Nat
      BY <1>1, TypeOfCRLF
    <2>2. CASE i <= Len(line)
      <3>1. i \in 1 .. Len(line)
        BY <1>1, <2>1, <2>2
      <3>2. t[i] = line[i] /\ line[i] \in {"SP", "c"}
        BY <1>2, <2>1, <2>2, <3>1 DEF Clean
      <3> QED
        BY <3>2 DEF Bytes
    <2>3. CASE ~ (i <= Len(line))
      <3>1. i - Len(line) = 1
        BY <1>1, <2>1, <2>3
      <3>2. t[i] = CRLF[1]
        BY <1>2, <2>1, <2>3, <3>1
      <3> QED
        BY <3>2, TypeOfCRLF DEF Bytes
    <2> QED
      BY <2>2, <2>3
  <1> HIDE DEF t
  <1>4. n \in Int /\ n - 1 + 1 = n /\ n \in Nat
    BY <1>1
  <1>5. /\ s \in Seq(Bytes) /\ Len(s) = (IF 1 <= n THEN n - 1 + 1 ELSE 0)
        /\ \A i \in 1 .. n - 1 + 1 : s[i] = t[1 + i - 1]
    BY <1>3, <1>4, SubSeqProperties
  <1> HIDE DEF s
  <1>6. Len(s) = n
    BY <1>4, <1>5
  <1>7. ASSUME NEW i \in 1 .. n PROVE s[i] = t[i]
    <2>1. 1 + i - 1 = i /\ i \in 1 .. n - 1 + 1
      BY <1>4
    <2> QED
      BY <1>5, <2>1
  <1> QED
    BY <1>3, <1>5, <1>6, <1>7 DEF s, t

(* ns-3 ends: a part of a line at the end. *)
LEMMA CloseInv ==
    ASSUME Inv, Close
    PROVE  Inv'
  <1>1. PICK reply \in Replies : \E n \in 0 .. Len(Join(reply)) + 1 :
           cut' = SubSeq(Join(reply) \o CRLF, 1, n)
    BY DEF Close
  <1>2. /\ ~closed /\ closed' /\ net' = net \o cut' /\ rx_buf_' = rx_buf_
        /\ replies' = replies /\ fields' = fields /\ sent' = sent /\ got' = got
    BY DEF Close
  <1>3. cut' \in Seq(Bytes) /\ \A i \in 1 .. Len(cut') : cut'[i] # "LF"
    BY <1>1, JoinClean, CutOff
  <1>4. cut = <<>> /\ net \in Seq(Bytes) /\ rx_buf_ \in Seq(Bytes)
    BY <1>2 DEF Inv, Types, Unfinished
  <1>5. Types'
    <2>1. net' \in Seq(Bytes)
      BY <1>2, <1>3, <1>4, ConcatProperties
    <2> QED
      BY <1>2, <1>3, <2>1 DEF Inv, Types
  <1>6. Histories'
    BY <1>2 DEF Inv, Histories
  <1>7. Unfinished'
    BY <1>2, <1>3 DEF Unfinished
  <1>8. Conserved'
    <2>1. FlattenSeq(Unread) \in Seq(Bytes)
      BY UnreadType DEF Inv
    <2>2. rx_buf_ \o net = FlattenSeq(Unread) \o <<>>
      BY <1>4 DEF Inv, Conserved
    <2>3. FlattenSeq(Unread) \o <<>> = FlattenSeq(Unread)
      BY <2>1, ConcatEmptySeq
    <2>4. (rx_buf_ \o net) \o cut' = rx_buf_ \o (net \o cut')
      BY <1>3, <1>4, ConcatAssociative
    <2>5. Unread' = Unread
      BY <1>2 DEF Unread
    <2> QED
      BY <1>2, <2>2, <2>3, <2>4, <2>5, Zenon DEF Conserved
  <1> QED
    BY <1>5, <1>6, <1>7, <1>8 DEF Inv

(* recv moves bytes from the wire to the buffer. *)
LEMMA ReceiveInv ==
    ASSUME Inv, Receive
    PROVE  Inv'
  <1>1. PICK n \in 1 .. MaxChunk :
           /\ n <= Len(net)
           /\ rx_buf_' = rx_buf_ \o SubSeq(net, 1, n)
           /\ net' = SubSeq(net, n + 1, Len(net))
    BY DEF Receive
  <1>2. net \in Seq(Bytes) /\ rx_buf_ \in Seq(Bytes) /\ Len(net) \in Nat
    BY LenProperties DEF Inv, Types
  <1>3. /\ n \in Nat /\ 1 \in 1 .. Len(net) + 1 /\ n \in 1 - 1 .. Len(net)
        /\ Len(net) \in n .. Len(net) /\ 1 \in Int /\ n \in Int /\ n + 1 \in Int
        /\ Len(net) \in Int
    BY <1>1, <1>2, Constants
  <1>4. SubSeq(net, 1, n) \o SubSeq(net, n + 1, Len(net)) = net
    <2>1. SubSeq(net, 1, n) \o SubSeq(net, n + 1, Len(net)) = SubSeq(net, 1, Len(net))
      BY <1>2, <1>3, ConcatAdjacentSubSeq, Zenon
    <2> QED
      BY <1>2, <2>1, SubSeqFull
  <1>5. SubSeq(net, 1, n) \in Seq(Bytes) /\ SubSeq(net, n + 1, Len(net)) \in Seq(Bytes)
    <2>1. \A i \in 1 .. Len(net) : net[i] \in Bytes
      BY <1>2, ElementOfSeq
    <2>2. /\ \A i \in 1 .. n : i \in 1 .. Len(net)
          /\ \A i \in n + 1 .. Len(net) : i \in 1 .. Len(net)
      BY <1>1, <1>2, <1>3
    <2> QED
      BY <1>3, <2>1, <2>2, SubSeqProperties
  <1>6. net' \in Seq(Bytes) /\ rx_buf_' \in Seq(Bytes)
    BY <1>1, <1>2, <1>5, ConcatProperties
  <1>7. rx_buf_' \o net' = rx_buf_ \o net
    <2>1. (rx_buf_ \o SubSeq(net, 1, n)) \o SubSeq(net, n + 1, Len(net))
            = rx_buf_ \o (SubSeq(net, 1, n) \o SubSeq(net, n + 1, Len(net)))
      <3>1. PICK x \in Seq(Bytes), y \in Seq(Bytes) :
               x = SubSeq(net, 1, n) /\ y = SubSeq(net, n + 1, Len(net))
        BY <1>5, Zenon
      <3>2. (rx_buf_ \o x) \o y = rx_buf_ \o (x \o y)
        <4>1. rx_buf_ \in Seq(Bytes)
          BY <1>2
        <4> QED
          BY <4>1, ConcatAssociative, SMTT(20)
      <3> QED
        BY <3>1, <3>2, Zenon
    <2> QED
      BY <1>1, <1>4, <2>1, Zenon
  <1> QED
    BY <1>6, <1>7, Untouched DEF Receive

(* The line returned is the first of those not yet read. *)
LEMMA NextLine ==
    ASSUME Inv, Found(rx_buf_) # {}
    PROVE  /\ Len(got) < Len(sent)
           /\ Min(Found(rx_buf_)) = Len(sent[Len(got) + 1]) + 1
           /\ SubSeq(rx_buf_, 1, Len(sent[Len(got) + 1])) = sent[Len(got) + 1]
           /\ After(rx_buf_, Len(sent[Len(got) + 1]) + 1) \in Seq(Bytes)
           /\ After(rx_buf_, Len(sent[Len(got) + 1]) + 1) \o net =
                 FlattenSeq(Terminated(sent, Len(got) + 1)) \o cut
  <1>1. /\ net \in Seq(Bytes) /\ rx_buf_ \in Seq(Bytes) /\ cut \in Seq(Bytes)
        /\ sent \in Seq(Written)
        /\ rx_buf_ \o net = FlattenSeq(Unread) \o cut
        /\ \A i \in 1 .. Len(cut) : cut[i] # "LF"
    BY DEF Inv, Types, Unfinished, Conserved
  <1>2. Len(got) \in 0 .. Len(sent) /\ Len(got) \in Nat /\ Len(sent) \in Nat
    BY UnreadType DEF Inv
  <1>3. ASSUME ~ (Len(got) < Len(sent)) PROVE FALSE
    <2>1. Len(sent) - Len(got) = 0
      BY <1>2, <1>3
    <2>2. Unread \in Seq(Seq(Bytes)) /\ Len(Unread) = 0
      BY <1>1, <1>2, <2>1, RemainderType DEF Unread
    <2>3. Unread = <<>>
      BY <2>2, EmptySeq
    <2>4. rx_buf_ \o net = cut
      BY <1>1, <2>3, FlattenEmpty, ConcatEmptySeq
    <2>5. Found(rx_buf_) = {}
      BY <1>1, <2>4, NothingFound
    <2> QED
      BY <2>5
  <1> DEFINE line == sent[Len(got) + 1]
             later == Terminated(sent, Len(got) + 1)
             rest == FlattenSeq(later) \o cut
  <1>4. line \in Written
    <2>1. Len(got) + 1 \in 1 .. Len(sent)
      BY <1>2, <1>3
    <2> QED
      BY <1>1, <2>1, ElementOfSeq
  <1>5. later \in Seq(Seq(Bytes)) /\ FlattenSeq(later) \in Seq(Bytes)
    <2>1. Len(got) + 1 \in 0 .. Len(sent)
      BY <1>2, <1>3
    <2>2. later \in Seq(Seq(Bytes))
      BY <1>1, <2>1, RemainderType
    <2> HIDE DEF later
    <2> QED
      BY <2>2, FlattenType
  <1>6. Unread = <<line \o CRLF>> \o later
    BY <1>1, <1>2, <1>3, RemainderCons DEF Unread
  <1> HIDE DEF line, later
  <1>7. line \o CRLF \in Seq(Bytes) /\ Clean(line)
    BY <1>4, WrittenType
  <1>8. FlattenSeq(Unread) = (line \o CRLF) \o FlattenSeq(later)
    BY <1>5, <1>6, <1>7, FlattenCons
  <1>9. rx_buf_ \o net = (line \o CRLF) \o rest
    <2>1. ((line \o CRLF) \o FlattenSeq(later)) \o cut
            = (line \o CRLF) \o (FlattenSeq(later) \o cut)
      <3>1. PICK x \in Seq(Bytes), y \in Seq(Bytes) :
               x = line \o CRLF /\ y = FlattenSeq(later)
        BY <1>5, <1>7, Zenon
      <3>2. (x \o y) \o cut = x \o (y \o cut)
        <4>1. cut \in Seq(Bytes)
          BY <1>1
        <4> QED
          BY <4>1, ConcatAssociative
      <3> QED
        BY <3>1, <3>2, Zenon
    <2> QED
      BY <1>1, <1>8, <2>1, Zenon
  <1>10. rest \in Seq(Bytes)
    BY <1>1, <1>5, ConcatProperties
  <1> HIDE DEF rest
  <1>11. /\ Min(Found(rx_buf_)) = Len(line) + 1
         /\ SubSeq(rx_buf_, 1, Len(line)) = line
         /\ After(rx_buf_, Len(line) + 1) \in Seq(Bytes)
         /\ After(rx_buf_, Len(line) + 1) \o net = rest
    <2>1. /\ Clean(line) /\ rest \in Seq(Bytes) /\ rx_buf_ \in Seq(Bytes)
          /\ net \in Seq(Bytes) /\ Found(rx_buf_) # {}
          /\ Together(rx_buf_, net, (line \o CRLF) \o rest)
      BY <1>1, <1>7, <1>9, <1>10 DEF Together
    <2>2. Min(Found(rx_buf_)) = Len(line) + 1
      BY <2>1, FirstLine
    <2>3. SubSeq(rx_buf_, 1, Len(line)) = line
      BY <2>1, FirstLine
    <2>4. After(rx_buf_, Len(line) + 1) \in Seq(Bytes)
      BY <2>1, FirstLine
    <2>5. Together(After(rx_buf_, Len(line) + 1), net, rest)
      BY <2>1, FirstLine
    <2> QED
      BY <2>2, <2>3, <2>4, <2>5 DEF Together
  <1> QED
    BY <1>3, <1>11, Zenon DEF line, rest, later

(* A line that has arrived is found. *)
LEMMA LineFound ==
    ASSUME NEW line, Clean(line), NEW rest \in Seq(Bytes), NEW buf,
           buf = (line \o CRLF) \o rest
    PROVE  Found(buf) # {}
  <1>1. /\ Len(line) \in Nat /\ Len(rest) \in Nat /\ buf \in Seq(Bytes)
        /\ Len(buf) = Len(line) + 2 + Len(rest)
        /\ buf[Len(line) + 1] = "CR" /\ buf[Len(line) + 2] = "LF"
    BY LineAt
  <1>2. Len(line) + 1 \in 1 .. Len(buf) - 1 /\ (Len(line) + 1) + 1 = Len(line) + 2
    BY <1>1
  <1>3. Len(line) + 1 \in Found(buf)
    BY <1>1, <1>2, FoundAt
  <1> QED
    BY <1>3

(* So when everything has arrived and nothing is found, all is read. *)
LEMMA AllRead ==
    ASSUME Inv, net = <<>>, Found(rx_buf_) = {}
    PROVE  got = sent
  <1>1. /\ rx_buf_ \in Seq(Bytes) /\ cut \in Seq(Bytes)
        /\ sent \in Seq(Written) /\ got \in Seq(Written)
        /\ rx_buf_ \o <<>> = FlattenSeq(Unread) \o cut
    BY DEF Inv, Types, Conserved
  <1>2. Len(got) \in 0 .. Len(sent) /\ Len(got) \in Nat /\ Len(sent) \in Nat
    BY UnreadType DEF Inv
  <1>3. ASSUME Len(got) < Len(sent) PROVE FALSE
    <2> DEFINE line == sent[Len(got) + 1]
               later == Terminated(sent, Len(got) + 1)
    <2>1. line \in Written
      <3>1. Len(got) + 1 \in 1 .. Len(sent)
        BY <1>2, <1>3
      <3> QED
        BY <1>1, <3>1, ElementOfSeq
    <2>2. later \in Seq(Seq(Bytes))
      <3>1. Len(got) + 1 \in 0 .. Len(sent)
        BY <1>2, <1>3
      <3> QED
        BY <1>1, <3>1, RemainderType
    <2>3. Unread = <<line \o CRLF>> \o later
      BY <1>1, <1>2, <1>3, RemainderCons DEF Unread
    <2> HIDE DEF line, later
    <2>4. line \o CRLF \in Seq(Bytes) /\ Clean(line) /\ FlattenSeq(later) \in Seq(Bytes)
      BY <2>1, <2>2, WrittenType, FlattenType
    <2>5. FlattenSeq(Unread) = (line \o CRLF) \o FlattenSeq(later)
      BY <2>2, <2>3, <2>4, FlattenCons
    <2>6. PICK x \in Seq(Bytes), y \in Seq(Bytes) :
             x = line \o CRLF /\ y = FlattenSeq(later)
      BY <2>4, Zenon
    <2>7. (x \o y) \o cut = x \o (y \o cut) /\ y \o cut \in Seq(Bytes)
      <3>1. cut \in Seq(Bytes)
        BY <1>1
      <3> QED
        BY <3>1, ConcatAssociative, ConcatProperties
    <2>8. rx_buf_ \o <<>> = rx_buf_
      BY <1>1, ConcatEmptySeq
    <2>9. rx_buf_ = (line \o CRLF) \o (y \o cut)
      BY <1>1, <2>5, <2>6, <2>7, <2>8, Zenon
    <2>10. Found(rx_buf_) # {}
      BY <2>4, <2>7, <2>9, LineFound, Zenon
    <2> QED
      BY <2>10
  <1>4. Len(got) = Len(sent)
    BY <1>2, <1>3
  <1>5. \A k \in 1 .. Len(got) : got[k] = sent[k]
    BY DEF Inv, Histories
  <1> QED
    BY <1>1, <1>4, <1>5, SeqEqual

(* What recvLine returns and handleReply makes of it. *)
LEMMA Returned ==
    ASSUME Inv, ReturnLine
    PROVE  /\ Len(got) < Len(sent)
           /\ got' = Append(got, sent[Len(got) + 1])
           /\ fields' = Append(fields, replies[Len(got) + 1])
           /\ rx_buf_' = After(rx_buf_, Len(sent[Len(got) + 1]) + 1)
           /\ UNCHANGED <<net, closed, cut, replies, sent>>
  <1> DEFINE end == Min(Found(rx_buf_))
             line == SubSeq(rx_buf_, 1, end - 1)
             next == sent[Len(got) + 1]
  <1>1. /\ got' = Append(got, line) /\ fields' = Append(fields, Fields(line))
        /\ rx_buf_' = After(rx_buf_, end) /\ Found(rx_buf_) # {}
        /\ UNCHANGED <<net, closed, cut, replies, sent>>
    BY DEF ReturnLine
  <1>2. /\ Len(got) < Len(sent) /\ end = Len(next) + 1
        /\ SubSeq(rx_buf_, 1, Len(next)) = next
    BY <1>1, NextLine, Zenon
  <1>3. Len(got) + 1 \in 1 .. Len(sent) /\ sent \in Seq(Written)
    <2>1. Len(got) \in Nat /\ Len(sent) \in Nat
      BY UnreadType DEF Inv
    <2> QED
      BY <1>2, <2>1 DEF Inv, Types
  <1> HIDE DEF end
  <1>4. line = next
    <2>1. next \in Seq(Bytes)
      BY <1>3, ElementOfSeq, WrittenType
    <2>2. Len(next) \in Nat
      BY <2>1, LenProperties
    <2> HIDE DEF next
    <2>3. end - 1 = Len(next)
      BY <1>2, <2>2
    <2> QED
      BY <1>2, <2>3
  <1>5. Fields(next) = replies[Len(got) + 1]
    <2>1. next = Join(replies[Len(got) + 1]) /\ Len(got) + 1 \in 1 .. Len(replies)
          /\ replies \in Seq(Replies)
      BY <1>3 DEF Inv, Histories, Types
    <2>2. replies[Len(got) + 1] \in Replies
      BY <2>1, ElementOfSeq
    <2> QED
      BY <2>1, <2>2, SplitJoin
  <1> HIDE DEF line, next
  <1> QED
    BY <1>1, <1>2, <1>4, <1>5 DEF next

(* A line leaves the buffer. *)
LEMMA ReturnLineInv ==
    ASSUME Inv, ReturnLine
    PROVE  Inv'
  <1> DEFINE k == Len(got)
  <1>1. /\ k < Len(sent) /\ got' = Append(got, sent[k + 1])
        /\ fields' = Append(fields, replies[k + 1])
        /\ rx_buf_' = After(rx_buf_, Len(sent[k + 1]) + 1)
        /\ net' = net /\ closed' = closed /\ cut' = cut /\ replies' = replies
        /\ sent' = sent
    BY Returned
  <1>2. /\ net \in Seq(Bytes) /\ cut \in Seq(Bytes)
        /\ replies \in Seq(Replies) /\ fields \in Seq(Replies)
        /\ sent \in Seq(Written) /\ got \in Seq(Written)
    BY DEF Inv, Types
  <1>3. /\ Len(sent) = Len(replies) /\ k = Len(fields)
        /\ \A j \in 1 .. Len(sent) : sent[j] = Join(replies[j])
        /\ \A j \in 1 .. k : got[j] = sent[j] /\ fields[j] = replies[j]
    BY DEF Inv, Histories
  <1>4. k \in Nat /\ Len(sent) \in Nat
    BY UnreadType DEF Inv
  <1>5. sent[k + 1] \in Written /\ replies[k + 1] \in Replies
    <2>1. k + 1 \in 1 .. Len(sent) /\ k + 1 \in 1 .. Len(replies)
      BY <1>1, <1>3, <1>4
    <2> QED
      BY <1>2, <2>1, ElementOfSeq
  <1>6. /\ got' \in Seq(Written) /\ Len(got') = k + 1 /\ got'[k + 1] = sent[k + 1]
        /\ \A j \in 1 .. k : got'[j] = got[j]
    BY <1>1, <1>2, <1>5, AppendProperties
  <1>7. /\ fields' \in Seq(Replies) /\ Len(fields') = Len(fields) + 1
        /\ fields'[Len(fields) + 1] = replies[k + 1]
        /\ \A j \in 1 .. Len(fields) : fields'[j] = fields[j]
    BY <1>1, <1>2, <1>5, AppendProperties
  <1>8. /\ rx_buf_' \in Seq(Bytes)
        /\ rx_buf_' \o net = FlattenSeq(Terminated(sent, k + 1)) \o cut
    <2>1. Found(rx_buf_) # {}
      BY DEF ReturnLine
    <2> QED
      BY <1>1, <2>1, NextLine, Zenon
  <1> HIDE DEF k
  <1>9. Types'
    BY <1>1, <1>2, <1>6, <1>7, <1>8 DEF Types
  <1>10. Histories'
    <2>1. ASSUME NEW j \in 1 .. k + 1
          PROVE  got'[j] = sent'[j] /\ fields'[j] = replies'[j]
      <3>1. j \in 1 .. k \/ j = k + 1
        BY <1>4
      <3>2. j \in 1 .. k => got'[j] = sent[j] /\ fields'[j] = replies[j]
        BY <1>3, <1>6, <1>7
      <3>3. j = k + 1 => got'[j] = sent[j] /\ fields'[j] = replies[j]
        BY <1>3, <1>6, <1>7
      <3> QED
        BY <1>1, <3>1, <3>2, <3>3
    <2>2. /\ Len(sent') = Len(replies') /\ Len(got') = Len(fields')
          /\ Len(got') <= Len(sent')
      BY <1>1, <1>3, <1>4, <1>6, <1>7
    <2> QED
      BY <1>1, <1>3, <1>6, <2>1, <2>2 DEF Histories
  <1>11. Unfinished'
    BY <1>1 DEF Inv, Unfinished
  <1>12. Conserved'
    BY <1>1, <1>6, <1>8 DEF Conserved, Unread
  <1> QED
    BY <1>9, <1>10, <1>11, <1>12 DEF Inv

(* Every step keeps the invariant. *)
LEMMA NextInv ==
    ASSUME Inv, [Next]_vars
    PROVE  Inv'
  <1>1. ASSUME rx_buf_' = rx_buf_, net' = net,
               UNCHANGED <<closed, cut, replies, fields, sent, got>>
        PROVE  Inv'
    <2>1. net' \in Seq(Bytes) /\ rx_buf_' \in Seq(Bytes)
      BY <1>1 DEF Inv, Types
    <2> QED
      BY <1>1, <2>1, Untouched
  <1>2. CASE WriteReply
    BY <1>2, WriteReplyInv
  <1>3. CASE Close
    BY <1>3, CloseInv
  <1>4. CASE CallRecvLine
    BY <1>1, <1>4 DEF CallRecvLine
  <1>5. CASE Receive
    BY <1>5, ReceiveInv
  <1>6. CASE ReceiveNothing
    BY <1>1, <1>6 DEF ReceiveNothing
  <1>7. CASE ReturnLine
    BY <1>7, ReturnLineInv
  <1>8. CASE UNCHANGED vars
    BY <1>1, <1>8 DEF vars
  <1> QED
    BY <1>2, <1>3, <1>4, <1>5, <1>6, <1>7, <1>8 DEF Next, Reader, Ended, Quiet

-----------------------------------------------------------------------------
(* The reader's invariant: buffer and wire together are the lines that are *)
(* still to be read and what ns-3 did not finish (recvLine, sock_).        *)
THEOREM ReaderInvariant == Spec => []Inv
  <1> QED
    BY InitInv, NextInv, PTL DEF Spec

(* recvLine loses, repeats and moves no byte, whatever recv returns and *)
(* wherever ns-3 ends, for any number of replies, robots and chunk size. *)
THEOREM BytesKept == Spec => []BytesConserved
  <1>1. Inv => BytesConserved
    BY DEF Inv, Histories, Conserved, Unread, Terminated, BytesConserved
  <1> QED
    BY <1>1, ReaderInvariant, PTL

(* The fields handleReply sees are those SendResponse was given: field j *)
(* is about robot j, also when fields are empty.                         *)
THEOREM FieldsArrive == Spec => []FieldsAgree
  <1>1. Inv => FieldsAgree
    <2> SUFFICES ASSUME Inv PROVE FieldsAgree
      OBVIOUS
    <2> DEFINE n == Len(fields)
               s == SubSeq(replies, 1, n)
    <2>1. /\ replies \in Seq(Replies) /\ fields \in Seq(Replies)
          /\ Len(sent) = Len(replies) /\ Len(got) = n /\ Len(got) <= Len(sent)
          /\ \A k \in 1 .. Len(got) : fields[k] = replies[k]
      BY DEF Inv, Types, Histories
    <2>2. n \in Nat /\ Len(replies) \in Nat
      BY <2>1, LenProperties
    <2>3. n <= Len(replies) /\ \A k \in 1 .. n : fields[k] = replies[k]
      BY <2>1
    <2> HIDE DEF n
    <2>4. \A k \in 1 .. n : replies[k] \in Replies
      <3>1. \A k \in 1 .. n : k \in 1 .. Len(replies)
        BY <2>2, <2>3
      <3> QED
        BY <2>1, <3>1, ElementOfSeq
    <2>5. /\ s \in Seq(Replies)
          /\ Len(s) = IF 1 <= n THEN n - 1 + 1 ELSE 0
          /\ \A i \in 1 .. n - 1 + 1 : s[i] = replies[1 + i - 1]
      BY <2>2, <2>4, SubSeqProperties
    <2> HIDE DEF s
    <2>6. Len(s) = n
      BY <2>2, <2>5
    <2>7. ASSUME NEW i \in 1 .. n PROVE fields[i] = s[i]
      <3>1. i \in 1 .. n - 1 + 1 /\ 1 + i - 1 = i
        BY <2>2
      <3> QED
        BY <2>3, <2>5, <3>1
    <2>8. Len(fields) = n
      BY DEF n
    <2>9. fields = s
      BY <2>1, <2>5, <2>6, <2>7, <2>8, SeqEqual
    <2> QED
      BY <2>9 DEF FieldsAgree, s, n
  <1> QED
    BY <1>1, ReaderInvariant, PTL

(* To its caller recvLine is a queue of whole lines: each step of the *)
(* stream puts a line, gets the next one, or changes neither history. *)
THEOREM ImplementsFifo == Spec => QueueOfLines
  <1>1. Init => Fifo!Init
    BY DEF Init, Fifo!Init
  <1>2. ASSUME Inv, [Next]_vars PROVE [Fifo!Put \/ Fifo!Get]_<<sent, got>>
    <2>1. CASE WriteReply
      <3>1. PICK reply \in Replies : sent' = Append(sent, Join(reply))
        BY <2>1 DEF WriteReply
      <3>2. Join(reply) \in {Join(r) : r \in Replies}
        OBVIOUS
      <3>3. got' = got
        BY <2>1 DEF WriteReply
      <3>4. Fifo!Put
        BY <3>1, <3>2, <3>3 DEF Fifo!Put
      <3> QED
        BY <3>4
    <2>2. CASE ReturnLine
      <3>1. Fifo!Get
        BY <1>2, <2>2, Returned DEF Fifo!Get
      <3> QED
        BY <3>1
    <2>3. CASE Close \/ CallRecvLine \/ Receive \/ ReceiveNothing \/ UNCHANGED vars
      BY <2>3 DEF Close, CallRecvLine, Receive, ReceiveNothing, vars
    <2> QED
      BY <1>2, <2>1, <2>2, <2>3 DEF Next, Reader, Ended, Quiet
  <1> QED
    BY <1>1, <1>2, ReaderInvariant, PTL DEF Spec, QueueOfLines, Fifo!Spec

(* When recvLine gives ns-3 up for lost, every reply that ns-3 finished has *)
(* been read: the safety half of EverythingReadThenLost.                    *)
THEOREM LostAfterAll == Spec => [](pc = "lost" => got = sent)
  <1> DEFINE Lost == pc = "lost" => closed /\ got = sent
  <1>1. Init => Lost
    BY DEF Init
  <1>2. ASSUME Inv, Lost, [Next]_vars PROVE Lost'
    <2>1. CASE WriteReply
      BY <1>2, <2>1 DEF WriteReply
    <2>2. CASE Close
      BY <1>2, <2>2 DEF Close
    <2>3. CASE ReceiveNothing
      BY <1>2, <2>3, AllRead DEF ReceiveNothing
    <2>4. CASE CallRecvLine \/ Receive \/ ReturnLine
      BY <2>4 DEF CallRecvLine, Receive, ReturnLine
    <2>5. CASE UNCHANGED vars
      BY <1>2, <2>5 DEF vars
    <2> QED
      BY <1>2, <2>1, <2>2, <2>3, <2>4, <2>5 DEF Next, Reader, Ended, Quiet
  <1>3. Lost => (pc = "lost" => got = sent)
    OBVIOUS
  <1> HIDE DEF Lost
  <1>4. [](Lost) => [](pc = "lost" => got = sent)
    BY <1>3, PTL
  <1> QED
    BY <1>1, <1>2, <1>4, ReaderInvariant, PTL DEF Spec

=============================================================================
