------------------------------- MODULE FoldFacts -------------------------------
(***************************************************************************)
(* Facts about the folds of the community modules that the proofs of this  *)
(* project cite: FlattenSeq, which lays sequences out one after another,   *)
(* and SumFunction, which adds up the values of a function; and about the  *)
(* powers of an integer.  All are defined by recursion; every fact is      *)
(* proved from the least counterexample to it.                             *)
(***************************************************************************)
EXTENDS Integers, Sequences, FiniteSets, SequencesExt, SequenceTheorems,
        FiniteSetTheorems, TLAPS

(* A non-empty set of naturals has a least element.                        *)
LEMMA NatLeast ==
  ASSUME NEW S \in SUBSET Nat, S # {}
  PROVE  \E m \in S : \A k \in S : m <= k
<1>1. \E m \in S : \A k \in S : ~(<<k, m>> \in OpToRel(<, Nat))
  BY NatLessThanWellFounded, WFMin
<1>2. PICK m \in S : \A k \in S : ~(<<k, m>> \in OpToRel(<, Nat)) BY <1>1
<1>3. \A k \in S : ~(k < m) BY <1>2 DEF OpToRel
<1> QED BY <1>3

----------------------------------------------------------------------------
(* Where each of n pieces of the lengths len ends when they are laid out   *)
(* one after another.                                                      *)
IsOffsets(o, len, n) ==
  /\ o \in [0..n -> Nat] /\ o[0] = 0
  /\ \A i \in 1..n : o[i] = o[i - 1] + len[i]

LEMMA OffsetsExist ==
  ASSUME NEW n \in Nat, NEW len \in [1..n -> Nat]
  PROVE  \E o : IsOffsets(o, len, n)
<1> DEFINE T == {k \in Nat : k <= n /\ ~\E o : IsOffsets(o, len, k)}
<1> SUFFICES ASSUME T # {} PROVE FALSE
  OBVIOUS
<1>1. PICK m \in T : \A k \in T : m <= k
  <2> HIDE DEF T
  <2>1. T \subseteq Nat BY DEF T
  <2> QED BY <2>1, NatLeast
<1>2. CASE m = 0
  <2>1. IsOffsets([i \in 0..0 |-> 0], len, 0) BY DEF IsOffsets
  <2> QED BY <2>1, <1>1, <1>2
<1>3. CASE m > 0
  <2>1. m - 1 \in Nat /\ m - 1 \notin T /\ m <= n BY <1>1, <1>3
  <2>2. PICK o : IsOffsets(o, len, m - 1) BY <2>1
  <2> DEFINE q == [i \in 0..m |-> IF i = m THEN o[m - 1] + len[m] ELSE o[i]]
  <2>3. /\ o \in [0..m - 1 -> Nat] /\ o[0] = 0 /\ m \in 1..n /\ len[m] \in Nat
        /\ \A i \in 1..m - 1 : o[i] = o[i - 1] + len[i]
    BY <2>1, <2>2, <1>3 DEF IsOffsets
  <2>4. q \in [0..m -> Nat] /\ q[0] = 0 /\ q[m] = o[m - 1] + len[m] BY <2>3
  <2>5. \A i \in 0..m - 1 : q[i] = o[i] BY <2>3
  <2> HIDE DEF q
  <2>6. ASSUME NEW i \in 1..m PROVE q[i] = q[i - 1] + len[i]
    <3>1. m \in Nat /\ i - 1 \in 0..m - 1 BY <1>1
    <3>2. q[i - 1] = o[i - 1] BY <2>5, <3>1
    <3>3. CASE i = m BY <2>4, <3>2, <3>3
    <3>4. CASE i # m
      <4>1. i \in 1..m - 1 /\ i \in 0..m - 1 BY <3>1, <3>4
      <4> QED BY <4>1, <2>3, <2>5, <3>2
    <3> QED BY <3>3, <3>4
  <2>7. IsOffsets(q, len, m) BY <2>4, <2>6 DEF IsOffsets
  <2> QED BY <2>7, <1>1
<1> QED BY <1>1, <1>2, <1>3

LEMMA OffsetsMonotone ==
  ASSUME NEW n \in Nat, NEW len \in [1..n -> Nat], NEW o, IsOffsets(o, len, n),
         NEW i \in 0..n, NEW j \in i..n
  PROVE  o[i] <= o[j]
<1> DEFINE T == {k \in Nat : k \in i..n /\ ~(o[i] <= o[k])}
<1> SUFFICES ASSUME T # {} PROVE FALSE
  OBVIOUS
<1>1. PICK m \in T : \A k \in T : m <= k
  <2> HIDE DEF T
  <2>1. T \subseteq Nat BY DEF T
  <2> QED BY <2>1, NatLeast
<1>2. m \in 0..n /\ m > i BY <1>1 DEF IsOffsets
<1>3. m - 1 \in i..n /\ m - 1 \notin T BY <1>1, <1>2
<1>4. o[m] = o[m - 1] + len[m] /\ m \in 1..n BY <1>2 DEF IsOffsets
<1>5. o[m] \in Nat /\ o[m - 1] \in Nat /\ o[i] \in Nat BY <1>2, <1>3 DEF IsOffsets
<1> QED BY <1>1, <1>3, <1>4, <1>5

(* Every place belongs to a piece, and to one only.                        *)
LEMMA OffsetsCover ==
  ASSUME NEW n \in Nat, NEW len \in [1..n -> Nat], NEW o, IsOffsets(o, len, n),
         NEW p \in 1..o[n]
  PROVE  \E i \in 1..n : \E k \in 1..len[i] : p = o[i - 1] + k
<1> DEFINE T == {k \in Nat : k \in 0..n /\ p <= o[k]}
<1>1. PICK m \in T : \A k \in T : m <= k
  <2>1. n \in T BY DEF IsOffsets
  <2>2. T \subseteq Nat OBVIOUS
  <2> HIDE DEF T
  <2> QED BY <2>1, <2>2, NatLeast
<1>2. m \in 1..n BY <1>1 DEF IsOffsets
<1>3. m - 1 \in 0..n /\ m - 1 \notin T BY <1>1, <1>2
<1>4. o[m] = o[m - 1] + len[m] /\ o[m - 1] \in Nat /\ o[n] \in Nat BY <1>2, <1>3 DEF IsOffsets
<1>5. p - o[m - 1] \in 1..len[m] BY <1>1, <1>2, <1>3, <1>4
<1> QED BY <1>2, <1>4, <1>5

LEMMA OffsetsApart ==
  ASSUME NEW n \in Nat, NEW len \in [1..n -> Nat], NEW o, IsOffsets(o, len, n),
         NEW i \in 1..n, NEW j \in 1..n, NEW k \in 1..len[i], NEW l \in 1..len[j]
  PROVE  /\ o[i - 1] + k \in 1..o[n]
         /\ o[i - 1] + k = o[j - 1] + l => i = j /\ k = l
<1>1. /\ o \in [0..n -> Nat]
      /\ o[i] = o[i - 1] + len[i] /\ o[j] = o[j - 1] + len[j]
  BY DEF IsOffsets
<1>2. o[i] <= o[n] /\ n \in i..n BY OffsetsMonotone
<1>3. o[j] <= o[n] /\ n \in j..n BY OffsetsMonotone
<1>4. i < j => o[i] <= o[j - 1]
  <2> SUFFICES ASSUME i < j PROVE o[i] <= o[j - 1] OBVIOUS
  <2>1. j - 1 \in i..n /\ i \in 0..n OBVIOUS
  <2> QED BY <2>1, OffsetsMonotone
<1>5. j < i => o[j] <= o[i - 1]
  <2> SUFFICES ASSUME j < i PROVE o[j] <= o[i - 1] OBVIOUS
  <2>1. i - 1 \in j..n /\ j \in 0..n OBVIOUS
  <2> QED BY <2>1, OffsetsMonotone
<1>6. PICK a \in Nat, b \in Nat, c \in Nat, d \in Nat, e \in Nat :
        a = o[i - 1] /\ b = o[j - 1] /\ c = o[i] /\ d = o[j] /\ e = o[n]
  <2>1. i - 1 \in 0..n /\ j - 1 \in 0..n /\ i \in 0..n /\ j \in 0..n /\ n \in 0..n
    OBVIOUS
  <2> QED BY <2>1, <1>1
<1>7. PICK p \in Nat, q \in Nat : p = len[i] /\ q = len[j] OBVIOUS
<1>8. /\ k \in 1..p /\ l \in 1..q /\ c = a + p /\ d = b + q /\ c <= e /\ d <= e
      /\ i < j => c <= b
      /\ j < i => d <= a
  BY <1>1, <1>2, <1>3, <1>4, <1>5, <1>6, <1>7
<1>9. a + k \in 1..e BY <1>8
<1>10. a + k = b + l => i = j
  BY <1>8
<1>11. i = j /\ a + k = b + l => k = l
  <2>1. i = j => a = b BY <1>6
  <2> QED BY <2>1, <1>8
<1> QED BY <1>6, <1>9, <1>10, <1>11

----------------------------------------------------------------------------
(* The recursive function of FlattenSeq exists.                            *)
LEMMA FlattenExists ==
  ASSUME NEW n \in Nat, NEW seqs
  PROVE  \E h : h = [i \in 1..n |-> IF i = 1 THEN seqs[i] ELSE h[i - 1] \o seqs[i]]
<1> DEFINE Flat(h, k) == h = [i \in 1..k |-> IF i = 1 THEN seqs[i] ELSE h[i - 1] \o seqs[i]]
<1> SUFFICES ASSUME ~\E h : Flat(h, n) PROVE FALSE
  OBVIOUS
<1> DEFINE T == {k \in Nat : k <= n /\ ~\E h : Flat(h, k)}
<1>0. n \in T
  <2> HIDE DEF Flat
  <2> QED OBVIOUS
<1>1. PICK m \in T : \A k \in T : m <= k
  <2>1. T \subseteq Nat OBVIOUS
  <2> HIDE DEF T
  <2> QED BY <2>1, <1>0, NatLeast
<1>2. CASE m = 0
  <2>1. Flat([i \in 1..0 |-> 0], 0) OBVIOUS
  <2> HIDE DEF Flat
  <2> QED BY <2>1, <1>1, <1>2
<1>3. CASE m > 0
  <2>1. m - 1 \in Nat /\ m <= n BY <1>1, <1>3
  <2>2. PICK h : Flat(h, m - 1)
    <3> HIDE DEF Flat
    <3>1. m - 1 \notin T
      <4>1. m \in Nat BY <1>1
      <4> HIDE DEF T
      <4> QED BY <1>1, <4>1
    <3> QED BY <3>1, <2>1
  <2> DEFINE q == [i \in 1..m |-> IF i = 1 THEN seqs[i] ELSE h[i - 1] \o seqs[i]]
  <2>3. \A i \in 1..m - 1 : q[i] = h[i]
    <3> TAKE i \in 1..m - 1
    <3>1. h[i] = IF i = 1 THEN seqs[i] ELSE h[i - 1] \o seqs[i] BY <2>2
    <3>2. i \in 1..m BY <2>1
    <3> QED BY <3>1, <3>2
  <2>4. Flat(q, m)
    <3>1. \A i \in 1..m : (IF i = 1 THEN seqs[i] ELSE h[i - 1] \o seqs[i])
                           = (IF i = 1 THEN seqs[i] ELSE q[i - 1] \o seqs[i])
      <4> TAKE i \in 1..m
      <4>1. CASE i = 1 BY <4>1
      <4>2. CASE i # 1
        <5>1. i - 1 \in 1..m - 1 BY <4>2, <2>1
        <5>2. q[i - 1] = h[i - 1] BY <5>1, <2>3
        <5> HIDE DEF q
        <5> QED BY <5>2
      <4> QED BY <4>1, <4>2
    <3>2. q = [i \in 1..m |-> IF i = 1 THEN seqs[i] ELSE h[i - 1] \o seqs[i]] OBVIOUS
    <3> HIDE DEF q
    <3> QED BY <3>1, <3>2
  <2> HIDE DEF Flat, q
  <2> QED BY <2>4, <1>1
<1> QED BY <1>1, <1>2, <1>3

(* seqs are n sequences over X, of the lengths len, and all is seqs laid   *)
(* out one after another, seqs[i] ending at o[i].                          *)
Pieces(seqs, len, n, X) ==
  /\ seqs \in [1..n -> Seq(X)] /\ len \in [1..n -> Nat]
  /\ \A i \in 1..n : len[i] = Len(seqs[i])

LaidOut(all, seqs, len, o, n, X) ==
  /\ all \in Seq(X) /\ Len(all) = o[n]
  /\ \A i \in 1..n : \A k \in 1..len[i] : all[o[i - 1] + k] = seqs[i][k]

(* What FlattenSeq returns, place by place.                                *)
LEMMA Flattened ==
  ASSUME NEW X, NEW n \in Nat, NEW seqs, NEW len, Pieces(seqs, len, n, X),
         NEW o, IsOffsets(o, len, n)
  PROVE  LaidOut(FlattenSeq(seqs), seqs, len, o, n, X)
<1> SUFFICES ASSUME seqs \in [1..n -> Seq(X)], len \in [1..n -> Nat],
                    \A i \in 1..n : len[i] = Len(seqs[i])
             PROVE  /\ FlattenSeq(seqs) \in Seq(X)
                    /\ Len(FlattenSeq(seqs)) = o[n]
                    /\ \A i \in 1..n : \A k \in 1..Len(seqs[i]) :
                         FlattenSeq(seqs)[o[i - 1] + k] = seqs[i][k]
  BY DEF Pieces, LaidOut
<1>0. Len(seqs) = n /\ seqs \in Seq(Seq(X)) OBVIOUS
<1>1. CASE n = 0
  <2>1. seqs = <<>> BY <1>0, <1>1
  <2>2. FlattenSeq(seqs) = <<>> BY <1>0, <1>1, <2>1 DEF FlattenSeq
  <2> QED BY <2>2, <1>1 DEF IsOffsets
<1>2. CASE n # 0
  <2> DEFINE Flat(h) == h = [i \in 1..n |-> IF i = 1 THEN seqs[i] ELSE h[i - 1] \o seqs[i]]
  <2>1. PICK h : Flat(h) /\ FlattenSeq(seqs) = h[n]
    <3>1. \E h : Flat(h) BY FlattenExists
    <3>2. Flat(CHOOSE h : Flat(h)) BY <3>1
    <3>3. FlattenSeq(seqs) = (CHOOSE h : Flat(h))[n] BY <1>0, <1>2 DEF FlattenSeq
    <3> HIDE DEF Flat
    <3> QED BY <3>2, <3>3
  <2>2. /\ h[1] = seqs[1]
        /\ \A i \in 1..n : i # 1 => h[i] = h[i - 1] \o seqs[i]
    <3>1. \A i \in 1..n : h[i] = IF i = 1 THEN seqs[i] ELSE h[i - 1] \o seqs[i]
      BY <2>1
    <3> HIDE DEF Flat
    <3>2. 1 \in 1..n BY <1>2
    <3>3. h[1] = seqs[1] BY <3>1, <3>2
    <3> QED BY <3>1, <3>3
  <2> HIDE DEF Flat
  <2> DEFINE Good(m) == /\ h[m] \in Seq(X) /\ Len(h[m]) = o[m]
                        /\ \A i \in 1..m : \A k \in 1..Len(seqs[i]) :
                             h[m][o[i - 1] + k] = seqs[i][k]
             T == {m \in Nat : m \in 1..n /\ ~Good(m)}
  <2>3. T = {}
    <3> SUFFICES ASSUME T # {} PROVE FALSE OBVIOUS
    <3>1. PICK m \in T : \A k \in T : m <= k
      <4> HIDE DEF T
      <4>1. T \subseteq Nat BY DEF T
      <4> QED BY <4>1, NatLeast
    <3>2. m \in 1..n /\ ~Good(m) BY <3>1
    <3> HIDE DEF T
    <3>3. /\ o[0] = 0 /\ o[m - 1] \in Nat
          /\ o[m] = o[m - 1] + Len(seqs[m]) /\ seqs[m] \in Seq(X)
      <4>0. m \in 1..n /\ 0 \in 0..n /\ m - 1 \in 0..n BY <3>2
      <4>1. o[m] = o[m - 1] + len[m] /\ o[0] = 0 /\ o[m - 1] \in Nat BY <4>0 DEF IsOffsets
      <4>2. len[m] = Len(seqs[m]) /\ seqs[m] \in Seq(X) BY <3>2
      <4> QED BY <4>1, <4>2
    <3>4. CASE m = 1
      BY <3>2, <3>3, <3>4, <2>2
    <3>5. CASE m # 1
      <4>1. Good(m - 1)
        <5>1. m - 1 \notin T BY <3>1, <3>2
        <5> QED BY <5>1, <3>2, <3>5 DEF T
      <4>2. h[m] = h[m - 1] \o seqs[m] BY <2>2, <3>2, <3>5
      <4>3. /\ h[m] \in Seq(X) /\ Len(h[m]) = o[m]
            /\ \A j \in 1..o[m] : h[m][j] = IF j <= o[m - 1] THEN h[m - 1][j]
                                            ELSE seqs[m][j - o[m - 1]]
        <5>1. h[m - 1] \in Seq(X) /\ Len(h[m - 1]) = o[m - 1] BY <4>1
        <5> HIDE DEF Good
        <5>2. \A j \in 1..Len(h[m - 1]) + Len(seqs[m]) :
                (h[m - 1] \o seqs[m])[j] = IF j <= Len(h[m - 1]) THEN h[m - 1][j]
                                            ELSE seqs[m][j - Len(h[m - 1])]
          BY <5>1, <3>3, ConcatProperties
        <5>3. h[m] \in Seq(X) /\ Len(h[m]) = Len(h[m - 1]) + Len(seqs[m])
          <6>1. PICK u \in Seq(X), v \in Seq(X) : u = h[m - 1] /\ v = seqs[m] BY <5>1, <3>3
          <6>2. u \o v \in Seq(X) /\ Len(u \o v) = Len(u) + Len(v) BY ConcatProperties
          <6> QED BY <6>1, <6>2, <4>2
        <5> QED BY <5>1, <5>2, <5>3, <4>2, <3>3
      <4>4. ASSUME NEW i \in 1..m, NEW k \in 1..Len(seqs[i])
            PROVE  h[m][o[i - 1] + k] = seqs[i][k]
        <5>1. i \in 1..n /\ len[i] = Len(seqs[i]) BY <3>2
        <5>2. o[i - 1] \in Nat /\ o[i] = o[i - 1] + Len(seqs[i]) BY <5>1 DEF IsOffsets
        <5>3. i # m => o[i] <= o[m - 1]
          <6> SUFFICES ASSUME i # m PROVE o[i] <= o[m - 1] OBVIOUS
          <6>1. m - 1 \in i..n /\ i \in 0..n BY <5>1, <3>2
          <6> QED BY <6>1, <5>1, OffsetsMonotone
        <5>4. CASE i = m
          <6>1. o[m - 1] + k \in 1..o[m] /\ ~(o[m - 1] + k <= o[m - 1])
                /\ (o[m - 1] + k) - o[m - 1] = k
            BY <3>3, <5>4
          <6> QED BY <6>1, <4>3, <5>4
        <5>5. CASE i # m
          <6>1. o[i - 1] + k \in 1..o[m] /\ o[i - 1] + k <= o[m - 1]
            <7>1. o[i - 1] + k <= o[i] /\ o[i] \in Nat /\ o[i - 1] + k \in Nat /\ 1 <= o[i - 1] + k
              BY <5>2
            <7>2. o[i - 1] + k <= o[m - 1] BY <7>1, <5>3, <5>5, <3>3
            <7>3. o[m - 1] <= o[m] /\ o[m] \in Nat BY <3>3
            <7> QED BY <7>1, <7>2, <7>3, <3>3
          <6>2. i \in 1..m - 1 BY <5>5, <3>2
          <6>3. h[m][o[i - 1] + k] = h[m - 1][o[i - 1] + k] BY <6>1, <4>3
          <6> QED BY <6>2, <6>3, <4>1
        <5> QED BY <5>4, <5>5
      <4> QED BY <4>3, <4>4, <3>2
    <3> QED BY <3>4, <3>5
  <2>4. Good(n)
    <3> HIDE DEF Good
    <3>1. n \in Nat /\ n \in 1..n BY <1>2
    <3>2. n \notin T BY <2>3
    <3> QED BY <3>1, <3>2
  <2> QED BY <2>1, <2>4
<1> QED BY <1>1, <1>2

----------------------------------------------------------------------------
(* Among sets of elements of a finite set there is one that leaves the     *)
(* family with every element taken from it.                                *)
LEMMA LeastSet ==
  ASSUME NEW S, IsFiniteSet(S), NEW C \in SUBSET SUBSET S, C # {}
  PROVE  \E U \in C : \A x \in U : U \ {x} \notin C
<1> DEFINE Sizes == {Cardinality(U) : U \in C}
<1>1. \A U \in C : IsFiniteSet(U) /\ Cardinality(U) \in Nat
  BY FS_Subset, FS_CardinalityType
<1>2. Sizes \subseteq Nat /\ Sizes # {} BY <1>1
<1>3. PICK m \in Sizes : \A k \in Sizes : m <= k
  <2> HIDE DEF Sizes
  <2> QED BY <1>2, NatLeast
<1>4. PICK U \in C : Cardinality(U) = m BY <1>3
<1>5. ASSUME NEW x \in U, U \ {x} \in C PROVE FALSE
  <2>1. Cardinality(U \ {x}) = Cardinality(U) - 1 BY <1>1, FS_RemoveElement
  <2>2. Cardinality(U \ {x}) \in Sizes BY <1>5
  <2>3. m \in Nat /\ m <= Cardinality(U \ {x}) BY <1>2, <1>3, <2>2
  <2> QED BY <2>1, <2>3, <1>4
<1> QED BY <1>5

(* A function has a largest value on a finite set.                         *)
LEMMA Maximal ==
  ASSUME NEW S, IsFiniteSet(S), S # {}, NEW f \in [S -> Int]
  PROVE  \E m \in S : \A x \in S : f[x] <= f[m]
<1> DEFINE C == {U \in SUBSET S : U # {} /\ ~\E m \in U : \A x \in U : f[x] <= f[m]}
<1> SUFFICES ASSUME C # {} PROVE FALSE
  OBVIOUS
<1>1. PICK U \in C : \A x \in U : U \ {x} \notin C
  <2>1. C \in SUBSET SUBSET S OBVIOUS
  <2> HIDE DEF C
  <2> QED BY <2>1, LeastSet
<1>2. PICK u \in S : u \in U BY <1>1
<1>3. CASE U = {u} BY <1>1, <1>3
<1>4. CASE U # {u}
  <2>1. U \ {u} # {} /\ U \ {u} \in SUBSET S /\ U \ {u} \notin C BY <1>1, <1>2, <1>4
  <2>2. PICK m \in U \ {u} : \A x \in U \ {u} : f[x] <= f[m] BY <2>1
  <2>3. \A x \in U : f[x] \in Int BY <1>1
  <2>4. CASE f[u] <= f[m]
    <3>1. \A x \in U : f[x] <= f[m] BY <2>2, <2>4
    <3> QED BY <3>1, <1>1, <2>2
  <2>5. CASE ~(f[u] <= f[m])
    <3>1. \A x \in U : f[x] <= f[u] BY <2>2, <2>3, <2>5, <1>2
    <3> QED BY <3>1, <1>1, <1>2
  <2> QED BY <2>4, <2>5
<1> QED BY <1>3, <1>4

(* g is the sum of f over every subset of S, whatever element is added     *)
(* last.                                                                   *)
IsSum(g, f, S) ==
  /\ g \in [SUBSET S -> Int] /\ g[{}] = 0
  /\ \A T \in SUBSET S : \A x \in T : g[T] = f[x] + g[T \ {x}]

LEMMA SumExists ==
  ASSUME NEW S, IsFiniteSet(S), NEW f \in [S -> Int]
  PROVE  \E g : IsSum(g, f, S)
<1> DEFINE C == {U \in SUBSET S : ~\E g : IsSum(g, f, U)}
<1> SUFFICES ASSUME C # {} PROVE FALSE
  BY SMT
<1>1. PICK U \in C : \A x \in U : U \ {x} \notin C
  <2>1. C \in SUBSET SUBSET S OBVIOUS
  <2> HIDE DEF C
  <2> QED BY <2>1, LeastSet
<1>2. U \subseteq S BY <1>1
<1>3. CASE U = {}
  <2>1. IsSum([T \in {{}} |-> 0], f, {}) BY DEF IsSum
  <2> QED BY <2>1, <1>1, <1>3
<1>4. CASE U # {}
  <2>1. PICK u : u \in U BY <1>4
  <2>2. U \ {u} \in SUBSET S /\ U \ {u} \notin C BY <1>1, <2>1
  <2>3. PICK g : IsSum(g, f, U \ {u}) BY <2>2
  <2> DEFINE h == [T \in SUBSET U |-> IF u \in T THEN f[u] + g[T \ {u}] ELSE g[T]]
  <2>4. /\ g \in [SUBSET (U \ {u}) -> Int] /\ g[{}] = 0 /\ f[u] \in Int
        /\ \A T \in SUBSET (U \ {u}) : \A x \in T : g[T] = f[x] + g[T \ {x}]
    BY <2>3, <2>1, <1>2 DEF IsSum
  <2>5. h \in [SUBSET U -> Int]
    <3>1. ASSUME NEW T \in SUBSET U PROVE h[T] \in Int
      <4>1. CASE u \in T
        <5>1. T \ {u} \in SUBSET (U \ {u}) OBVIOUS
        <5> QED BY <5>1, <4>1, <2>4
      <4>2. CASE u \notin T
        <5>1. T \in SUBSET (U \ {u}) BY <4>2
        <5> QED BY <5>1, <4>2, <2>4
      <4> QED BY <4>1, <4>2
    <3> QED BY <3>1
  <2>6. h[{}] = 0 BY <2>4
  <2>7. ASSUME NEW T \in SUBSET U, NEW x \in T PROVE h[T] = f[x] + h[T \ {x}]
    <3>1. f[x] \in Int BY <1>2
    <3>2. T \ {x} \in SUBSET U OBVIOUS
    <3>3. CASE u \notin T
      <4>1. T \in SUBSET (U \ {u}) BY <3>3
      <4>2. h[T] = g[T] /\ h[T \ {x}] = g[T \ {x}] BY <3>2, <3>3
      <4> HIDE DEF h
      <4> QED BY <4>1, <4>2, <2>4
    <3>4. CASE u \in T /\ x = u
      <4>1. h[T] = f[u] + g[T \ {u}] /\ h[T \ {u}] = g[T \ {u}] BY <3>2, <3>4
      <4> HIDE DEF h
      <4> QED BY <4>1, <3>4
    <3>5. CASE u \in T /\ x # u
      <4>1. T \ {u} \in SUBSET (U \ {u}) /\ x \in T \ {u} BY <3>5
      <4>2. g[T \ {u}] = f[x] + g[(T \ {u}) \ {x}] BY <4>1, <2>4
      <4>3. (T \ {u}) \ {x} = (T \ {x}) \ {u} OBVIOUS
      <4>4. h[T] = f[u] + g[T \ {u}] /\ h[T \ {x}] = f[u] + g[(T \ {x}) \ {u}] BY <3>2, <3>5
      <4>5. (T \ {u}) \ {x} \in SUBSET (U \ {u}) OBVIOUS
      <4>6. g[(T \ {u}) \ {x}] \in Int BY <4>5, <2>4
      <4> HIDE DEF h
      <4>7. PICK z \in Int : z = g[(T \ {u}) \ {x}] BY <4>6
      <4>8. h[T] = f[u] + (f[x] + z) /\ h[T \ {x}] = f[u] + z
        BY <4>2, <4>3, <4>4, <4>7
      <4> QED BY <4>8, <3>1, <2>4
    <3> QED BY <3>3, <3>4, <3>5
  <2>8. IsSum(h, f, U)
    <3> HIDE DEF h
    <3> QED BY <2>5, <2>6, <2>7 DEF IsSum
  <2> HIDE DEF h
  <2> QED BY <2>8, <1>1
<1> QED BY <1>3, <1>4

LEMMA SumFunctionIs ==
  ASSUME NEW S, IsFiniteSet(S), NEW f \in [S -> Int], NEW g, IsSum(g, f, S)
  PROVE  SumFunction(f) = g[S]
<1> DEFINE Iter(h) == h = [s \in SUBSET S |-> IF s = {} THEN 0
                                             ELSE LET x == CHOOSE x \in s : TRUE
                                                  IN  f[x] + h[s \ {x}]]
<1>1. Iter(g)
  <2> DEFINE q == [s \in SUBSET S |-> IF s = {} THEN 0
                                      ELSE LET x == CHOOSE x \in s : TRUE IN f[x] + g[s \ {x}]]
  <2>1. ASSUME NEW s \in SUBSET S PROVE g[s] = q[s]
    <3>1. CASE s = {} BY <3>1 DEF IsSum
    <3>2. CASE s # {}
      <4>1. (CHOOSE x \in s : TRUE) \in s BY <3>2
      <4> QED BY <4>1, <3>2 DEF IsSum
    <3> QED BY <3>1, <3>2
  <2>2. DOMAIN g = SUBSET S /\ g = [s \in SUBSET S |-> g[s]] BY DEF IsSum
  <2>3. q = [s \in SUBSET S |-> q[s]] OBVIOUS
  <2>4. g = q
    <3> HIDE DEF q
    <3> QED BY <2>1, <2>2, <2>3
  <2> QED BY <2>4
<1>2. PICK h : Iter(h) /\ SumFunction(f) = h[S]
  <2>1. Iter(CHOOSE h : Iter(h)) BY <1>1
  <2>2. SumFunction(f) = (CHOOSE h : Iter(h))[S]
    BY DEF SumFunction, SumFunctionOnSet, FoldFunctionOnSet, MapThenFoldSet
  <2> HIDE DEF Iter
  <2> QED BY <2>1, <2>2
<1>3. /\ h[{}] = 0
      /\ \A s \in SUBSET S : s # {} =>
           \E x \in s : h[s] = f[x] + h[s \ {x}]
  <2>1. \A s \in SUBSET S : h[s] = IF s = {} THEN 0
                                      ELSE LET x == CHOOSE x \in s : TRUE IN f[x] + h[s \ {x}]
    BY <1>2
  <2> QED BY <2>1
<1> HIDE DEF Iter
<1> DEFINE C == {U \in SUBSET S : h[U] # g[U]}
<1>4. C = {}
  <2> SUFFICES ASSUME C # {} PROVE FALSE OBVIOUS
  <2>1. PICK U \in C : \A x \in U : U \ {x} \notin C
    <3>1. C \in SUBSET SUBSET S OBVIOUS
    <3> HIDE DEF C
    <3> QED BY <3>1, LeastSet
  <2>2. CASE U = {} BY <2>1, <2>2, <1>3 DEF IsSum
  <2>3. CASE U # {}
    <3>1. PICK x \in U : h[U] = f[x] + h[U \ {x}] BY <2>1, <2>3, <1>3
    <3>2. U \ {x} \in SUBSET S /\ h[U \ {x}] = g[U \ {x}] BY <2>1
    <3>3. g[U] = f[x] + g[U \ {x}] BY <2>1 DEF IsSum
    <3> QED BY <3>1, <3>2, <3>3, <2>1
  <2> QED BY <2>2, <2>3
<1> QED BY <1>2, <1>4

(* The facts about sums that the other proofs cite.                        *)
LEMMA SumInt ==
  ASSUME NEW S, IsFiniteSet(S), NEW f \in [S -> Int]
  PROVE  SumFunction(f) \in Int
<1>1. PICK g : IsSum(g, f, S) BY SumExists
<1>2. SumFunction(f) = g[S] BY <1>1, SumFunctionIs
<1> QED BY <1>1, <1>2 DEF IsSum

LEMMA SumEmpty ==
  ASSUME NEW f \in [{} -> Int]
  PROVE  SumFunction(f) = 0
<1>1. IsFiniteSet({}) BY FS_EmptySet
<1>2. PICK g : IsSum(g, f, {}) BY <1>1, SumExists
<1>3. SumFunction(f) = g[{}] BY <1>1, <1>2, SumFunctionIs
<1> QED BY <1>2, <1>3 DEF IsSum

(* Every subset of S has the sum that g gives it.                          *)
LEMMA SumOnSubset ==
  ASSUME NEW S, IsFiniteSet(S), NEW f \in [S -> Int], NEW g, IsSum(g, f, S),
         NEW T \in SUBSET S
  PROVE  SumFunction([y \in T |-> f[y]]) = g[T]
<1> DEFINE e == [y \in T |-> f[y]]
           k == [U \in SUBSET T |-> g[U]]
<1>1. IsFiniteSet(T) BY FS_Subset
<1>2. e \in [T -> Int] OBVIOUS
<1>3. IsSum(k, e, T)
  <2>1. k \in [SUBSET T -> Int] /\ k[{}] = 0 BY DEF IsSum
  <2>2. ASSUME NEW U \in SUBSET T, NEW x \in U PROVE k[U] = e[x] + k[U \ {x}]
    <3>1. k[U] = g[U] /\ k[U \ {x}] = g[U \ {x}] /\ e[x] = f[x] OBVIOUS
    <3>2. U \in SUBSET S OBVIOUS
    <3>3. g[U] = f[x] + g[U \ {x}] BY <3>2 DEF IsSum
    <3> HIDE DEF k, e
    <3> QED BY <3>1, <3>3
  <2> HIDE DEF k, e
  <2> QED BY <2>1, <2>2 DEF IsSum
<1>4. k[T] = g[T] OBVIOUS
<1> HIDE DEF k, e
<1>5. SumFunction(e) = k[T] BY <1>1, <1>2, <1>3, SumFunctionIs
<1> QED BY <1>4, <1>5 DEF e

(* One element more.                                                       *)
LEMMA SumAdd ==
  ASSUME NEW S, IsFiniteSet(S), NEW f \in [S -> Int], NEW T \in SUBSET S, NEW x \in T
  PROVE  /\ SumFunction([y \in T |-> f[y]]) = f[x] + SumFunction([y \in T \ {x} |-> f[y]])
         /\ SumFunction([y \in T \ {x} |-> f[y]]) \in Int
<1>1. PICK g : IsSum(g, f, S) BY SumExists
<1>2. T \ {x} \in SUBSET S OBVIOUS
<1>3. SumFunction([y \in T |-> f[y]]) = g[T] BY <1>1, SumOnSubset
<1>4. SumFunction([y \in T \ {x} |-> f[y]]) = g[T \ {x}] BY <1>1, <1>2, SumOnSubset
<1> QED BY <1>1, <1>2, <1>3, <1>4 DEF IsSum

(* The sum over two disjoint sets.                                         *)
LEMMA SumParts ==
  ASSUME NEW S, IsFiniteSet(S), NEW f \in [S -> Int], NEW g, IsSum(g, f, S),
         NEW A \in SUBSET S, NEW B \in SUBSET S, A \cap B = {}
  PROVE  g[A \cup B] = g[A] + g[B]
<1> DEFINE C == {U \in SUBSET B : g[A \cup U] # g[A] + g[U]}
<1>2. C = {}
  <2> SUFFICES ASSUME C # {} PROVE FALSE OBVIOUS
  <2>1. PICK U \in C : \A x \in U : U \ {x} \notin C
    <3>1. C \in SUBSET SUBSET B /\ IsFiniteSet(B) BY FS_Subset
    <3> HIDE DEF C
    <3> QED BY <3>1, LeastSet
  <2>2. U \in SUBSET B /\ U \in SUBSET S /\ A \cup U \in SUBSET S /\ g[A] \in Int
    BY <2>1 DEF IsSum
  <2>3. CASE U = {}
    <3>1. A \cup U = A BY <2>3
    <3> QED BY <3>1, <2>1, <2>2, <2>3 DEF IsSum
  <2>4. CASE U # {}
    <3>1. PICK x : x \in U BY <2>4
    <3>2. (A \cup U) \ {x} = A \cup (U \ {x}) BY <3>1, <2>2
    <3>3. U \ {x} \in SUBSET B /\ U \ {x} \notin C BY <3>1, <2>1, <2>2
    <3>4. g[A \cup (U \ {x})] = g[A] + g[U \ {x}] BY <3>3
    <3>5. g[A \cup U] = f[x] + g[(A \cup U) \ {x}] /\ g[U] = f[x] + g[U \ {x}]
      BY <3>1, <2>2 DEF IsSum
    <3>6. g[U \ {x}] \in Int /\ f[x] \in Int BY <3>1, <2>2 DEF IsSum
    <3>7. g[A \cup U] = g[A] + g[U]
      <4>1. g[A \cup U] = f[x] + (g[A] + g[U \ {x}]) BY <3>2, <3>4, <3>5
      <4> QED BY <4>1, <3>5, <3>6, <2>2
    <3> QED BY <3>7, <2>1
  <2> QED BY <2>3, <2>4
<1> QED BY <1>2

LEMMA SumUnion ==
  ASSUME NEW S, IsFiniteSet(S), NEW f \in [S -> Int],
         NEW A \in SUBSET S, NEW B \in SUBSET S, A \cap B = {},
         NEW D \in SUBSET S, D = A \cup B
  PROVE  SumFunction([y \in D |-> f[y]])
           = SumFunction([y \in A |-> f[y]]) + SumFunction([y \in B |-> f[y]])
<1>1. PICK g : IsSum(g, f, S) BY SumExists
<1>2. g[A \cup B] = g[A] + g[B] BY <1>1, SumParts
<1>3. SumFunction([y \in D |-> f[y]]) = g[D] BY <1>1, SumOnSubset
<1>4. SumFunction([y \in A |-> f[y]]) = g[A] BY <1>1, SumOnSubset
<1>5. SumFunction([y \in B |-> f[y]]) = g[B] BY <1>1, SumOnSubset
<1> QED BY <1>2, <1>3, <1>4, <1>5

LEMMA SumNonNegative ==
  ASSUME NEW S, IsFiniteSet(S), NEW f \in [S -> Int], \A x \in S : f[x] >= 0
  PROVE  SumFunction(f) >= 0
<1>1. PICK g : IsSum(g, f, S) BY SumExists
<1> DEFINE C == {U \in SUBSET S : ~(g[U] >= 0)}
<1>2. C = {}
  <2> SUFFICES ASSUME C # {} PROVE FALSE OBVIOUS
  <2>1. PICK U \in C : \A x \in U : U \ {x} \notin C
    <3>1. C \in SUBSET SUBSET S OBVIOUS
    <3> HIDE DEF C
    <3> QED BY <3>1, LeastSet
  <2>2. CASE U = {} BY <2>1, <2>2, <1>1 DEF IsSum
  <2>3. CASE U # {}
    <3>1. PICK x : x \in U BY <2>3
    <3>2. U \ {x} \in SUBSET S /\ g[U \ {x}] >= 0 BY <3>1, <2>1
    <3>3. g[U] = f[x] + g[U \ {x}] /\ g[U \ {x}] \in Int /\ f[x] \in Int /\ f[x] >= 0
      BY <3>1, <3>2, <2>1, <1>1 DEF IsSum
    <3> QED BY <3>2, <3>3, <2>1
  <2> QED BY <2>2, <2>3
<1> QED BY <1>1, <1>2, SumFunctionIs

(* The sum of naturals grows with the set.                                 *)
LEMMA SumMonotone ==
  ASSUME NEW S, IsFiniteSet(S), NEW f \in [S -> Int], \A x \in S : f[x] >= 0,
         NEW T \in SUBSET S, NEW U \in SUBSET T
  PROVE  SumFunction([y \in U |-> f[y]]) <= SumFunction([y \in T |-> f[y]])
<1> DEFINE R == T \ U
<1>1. U \in SUBSET S /\ R \in SUBSET S /\ U \cap R = {} /\ U \cup R = T OBVIOUS
<1>2. IsFiniteSet(U) /\ IsFiniteSet(R) BY <1>1, FS_Subset
<1>3. [y \in U |-> f[y]] \in [U -> Int] /\ [y \in R |-> f[y]] \in [R -> Int]
      /\ \A x \in R : [y \in R |-> f[y]][x] >= 0
  BY <1>1
<1>4. SumFunction([y \in U |-> f[y]]) \in Int BY <1>2, <1>3, SumInt
<1>5. SumFunction([y \in R |-> f[y]]) \in Int /\ SumFunction([y \in R |-> f[y]]) >= 0
  BY <1>2, <1>3, SumInt, SumNonNegative
<1>6. SumFunction([y \in T |-> f[y]])
        = SumFunction([y \in U |-> f[y]]) + SumFunction([y \in R |-> f[y]])
  <2> HIDE DEF R
  <2> QED BY <1>1, SumUnion
<1> QED BY <1>4, <1>5, <1>6

(* What members of S that own disjoint parts of P have, each at most what  *)
(* its part is worth, is together at most what all the parts are worth.    *)
LEMMA SumCover ==
  ASSUME NEW S, IsFiniteSet(S), NEW P, IsFiniteSet(P), NEW f \in [P -> Int],
         NEW owned \in [S -> SUBSET P],
         \A x, y \in S : x # y => owned[x] \cap owned[y] = {},
         NEW e \in [S -> Int],
         \A x \in S : e[x] <= SumFunction([p \in owned[x] |-> f[p]])
  PROVE  SumFunction(e) <= SumFunction([p \in UNION {owned[x] : x \in S} |-> f[p]])
<1>1. PICK g : IsSum(g, f, P) BY SumExists
<1>2. PICK h : IsSum(h, e, S) BY SumExists
<1> DEFINE All(U) == UNION {owned[x] : x \in U}
           C == {U \in SUBSET S : ~(h[U] <= g[All(U)])}
<1>3. C = {}
  <2> SUFFICES ASSUME C # {} PROVE FALSE OBVIOUS
  <2>1. PICK U \in C : \A x \in U : U \ {x} \notin C
    <3>1. C \in SUBSET SUBSET S OBVIOUS
    <3> HIDE DEF C
    <3> QED BY <3>1, LeastSet
  <2>2. U \in SUBSET S /\ ~(h[U] <= g[All(U)]) BY <2>1
  <2>3. CASE U = {}
    <3>1. All(U) = {} BY <2>3
    <3> HIDE DEF All
    <3> QED BY <3>1, <2>2, <2>3, <1>1, <1>2 DEF IsSum
  <2>4. CASE U # {}
    <3>1. PICK x \in S : x \in U BY <2>2, <2>4
    <3> DEFINE V == U \ {x}
    <3>2. V \in SUBSET S /\ h[V] <= g[All(V)] BY <3>1, <2>1, <2>2
    <3>3. /\ owned[x] \in SUBSET P /\ All(V) \in SUBSET P
          /\ owned[x] \cap All(V) = {} /\ All(U) = owned[x] \cup All(V)
      <4>1. \A y \in U : y \in S /\ owned[y] \in SUBSET P BY <2>2
      <4> QED BY <4>1, <3>1
    <3> HIDE DEF All
    <3>4. g[All(U)] = g[owned[x]] + g[All(V)]
      <4> DEFINE A == owned[x]
                 B == All(V)
      <4>1. A \in SUBSET P /\ B \in SUBSET P /\ A \cap B = {} BY <3>3
      <4>2. All(U) = A \cup B BY <3>3
      <4> HIDE DEF A, B
      <4>3. g[A \cup B] = g[A] + g[B] BY <4>1, <1>1, SumParts
      <4> QED BY <4>2, <4>3 DEF A, B
    <3>5. e[x] <= g[owned[x]]
      <4> DEFINE A == owned[x]
      <4>1. A \in SUBSET P /\ e[x] <= SumFunction([p \in A |-> f[p]]) BY <3>3
      <4> HIDE DEF A
      <4>2. SumFunction([p \in A |-> f[p]]) = g[A] BY <4>1, <1>1, SumOnSubset
      <4>3. e[x] <= g[A] BY <4>1, <4>2
      <4> QED BY <4>3 DEF A
    <3>6. h[U] = e[x] + h[V] BY <3>1, <2>2, <1>2 DEF IsSum
    <3>7. h[V] \in Int /\ e[x] \in Int /\ g[owned[x]] \in Int /\ g[All(V)] \in Int
      BY <3>2, <3>3, <1>1, <1>2 DEF IsSum
    <3> HIDE DEF V
    <3> QED BY <3>2, <3>4, <3>5, <3>6, <3>7, <2>2
  <2> QED BY <2>3, <2>4
<1>4. h[S] <= g[All(S)] BY <1>3
<1>5. All(S) \in SUBSET P OBVIOUS
<1>6. SumFunction(e) = h[S] BY <1>2, SumFunctionIs
<1>7. SumFunction([p \in All(S) |-> f[p]]) = g[All(S)]
  <2> HIDE DEF All
  <2> QED BY <1>1, <1>5, SumOnSubset
<1> QED BY <1>4, <1>6, <1>7

(* A sum of multiples is the multiple of the sum.                          *)
LEMMA SumScale ==
  ASSUME NEW S, IsFiniteSet(S), NEW f \in [S -> Int], NEW c \in Int,
         NEW e \in [S -> Int], \A x \in S : e[x] = c * f[x]
  PROVE  SumFunction(e) = c * SumFunction(f)
<1>1. PICK g : IsSum(g, f, S) BY SumExists
<1> DEFINE k == [T \in SUBSET S |-> c * g[T]]
<1>2. \A T \in SUBSET S : k[T] = c * g[T] /\ g[T] \in Int BY <1>1 DEF IsSum
<1>3. k \in [SUBSET S -> Int]
  <2>1. k = [T \in SUBSET S |-> k[T]] OBVIOUS
  <2> HIDE DEF k
  <2>2. ASSUME NEW T \in SUBSET S PROVE k[T] \in Int
    <3>1. PICK y \in Int : y = g[T] BY <1>2
    <3>2. c * y \in Int OBVIOUS
    <3> QED BY <3>1, <3>2, <1>2
  <2> QED BY <2>1, <2>2
<1> HIDE DEF k
<1>4. k[{}] = 0
  <2>1. g[{}] = 0 BY <1>1 DEF IsSum
  <2>2. c * 0 = 0 OBVIOUS
  <2> QED BY <2>1, <2>2, <1>2
<1>5. ASSUME NEW T \in SUBSET S, NEW x \in T PROVE k[T] = e[x] + k[T \ {x}]
  <2>1. g[T] = f[x] + g[T \ {x}] BY <1>1 DEF IsSum
  <2>2. PICK y \in Int : y = f[x] OBVIOUS
  <2>3. PICK z \in Int : z = g[T \ {x}] BY <1>2
  <2>4. c * (y + z) = c * y + c * z OBVIOUS
  <2>5. T \ {x} \in SUBSET S /\ e[x] = c * y BY <2>2
  <2> QED BY <2>1, <2>2, <2>3, <2>4, <2>5, <1>2
<1>6. SumFunction(e) = k[S]
  <2>1. IsSum(k, e, S) BY <1>3, <1>4, <1>5 DEF IsSum
  <2> QED BY <2>1, SumFunctionIs
<1> QED BY <1>1, <1>2, <1>6, SumFunctionIs

(* A sum of ones counts.                                                   *)
LEMMA SumOnes ==
  ASSUME NEW S, IsFiniteSet(S), NEW f \in [S -> Int], \A x \in S : f[x] = 1
  PROVE  SumFunction(f) = Cardinality(S)
<1>1. PICK g : IsSum(g, f, S) BY SumExists
<1> DEFINE C == {U \in SUBSET S : g[U] # Cardinality(U)}
<1>2. C = {}
  <2> SUFFICES ASSUME C # {} PROVE FALSE OBVIOUS
  <2>1. PICK U \in C : \A x \in U : U \ {x} \notin C
    <3>1. C \in SUBSET SUBSET S OBVIOUS
    <3> HIDE DEF C
    <3> QED BY <3>1, LeastSet
  <2>2. U \in SUBSET S /\ IsFiniteSet(U) /\ g[U] # Cardinality(U) BY <2>1, FS_Subset
  <2>3. CASE U = {} BY <2>2, <2>3, <1>1, FS_EmptySet DEF IsSum
  <2>4. CASE U # {}
    <3>1. PICK x : x \in U BY <2>4
    <3>2. g[U \ {x}] = Cardinality(U \ {x}) BY <3>1, <2>1
    <3>3. g[U] = f[x] + g[U \ {x}] /\ f[x] = 1 BY <3>1, <2>2, <1>1 DEF IsSum
    <3>4. Cardinality(U \ {x}) = Cardinality(U) - 1 /\ Cardinality(U) \in Nat
      BY <3>1, <2>2, FS_RemoveElement, FS_CardinalityType
    <3> QED BY <3>2, <3>3, <3>4, <2>2
  <2> QED BY <2>3, <2>4
<1> QED BY <1>1, <1>2, SumFunctionIs

(* Where f is zero it may be left out.                                     *)
LEMMA SumWhere ==
  ASSUME NEW S, IsFiniteSet(S), NEW f \in [S -> Int], NEW T \in SUBSET S,
         \A x \in S \ T : f[x] = 0
  PROVE  SumFunction(f) = SumFunction([y \in T |-> f[y]])
<1>1. PICK g : IsSum(g, f, S) BY SumExists
<1>2. PICK R \in SUBSET S : R = S \ T OBVIOUS
<1>3. PICK e : e = [y \in R |-> f[y]] OBVIOUS
<1>4. e \in [R -> Int] /\ IsFiniteSet(R) /\ \A x \in R : e[x] = 0 * e[x] BY <1>2, <1>3, FS_Subset
<1>5. SumFunction(e) = 0
  <2>1. SumFunction(e) = 0 * SumFunction(e) BY <1>4, SumScale
  <2>2. SumFunction(e) \in Int BY <1>4, SumInt
  <2> QED BY <2>1, <2>2
<1>6. g[R] = 0 BY <1>1, <1>3, <1>5, SumOnSubset
<1>7. g[T \cup R] = g[T] + g[R] BY <1>1, <1>2, SumParts
<1>8. T \cup R = S /\ g[T] \in Int BY <1>1, <1>2 DEF IsSum
<1>9. SumFunction(f) = g[S] BY <1>1, SumFunctionIs
<1>10. SumFunction([y \in T |-> f[y]]) = g[T] BY <1>1, SumOnSubset
<1>11. g[S] = g[T] + g[R] BY <1>7, <1>8, Zenon
<1>12. g[T] + g[R] = g[T] BY <1>6, <1>8
<1> QED BY <1>9, <1>10, <1>11, <1>12, Zenon

LEMMA SumSingle ==
  ASSUME NEW S, IsFiniteSet(S), NEW f \in [S -> Int], NEW x \in S, \A y \in S \ {x} : f[y] = 0
  PROVE  SumFunction(f) = f[x]
<1>1. PICK g : IsSum(g, f, S) BY SumExists
<1>2. PICK T \in SUBSET S : T = {x} OBVIOUS
<1>3. SumFunction(f) = SumFunction([y \in T |-> f[y]]) BY <1>2, SumWhere
<1>4. SumFunction([y \in T |-> f[y]]) = g[T] BY <1>1, SumOnSubset
<1>5. g[T] = f[x] + g[T \ {x}] /\ T \ {x} = {} /\ g[{}] = 0 BY <1>1, <1>2 DEF IsSum
<1>6. g[T \ {x}] = 0 BY <1>5, Zenon
<1>7. g[T] = f[x] BY <1>5, <1>6
<1> QED BY <1>3, <1>4, <1>7

(* A sum does not depend on what the summands are called.                  *)
LEMMA SumRenamed ==
  ASSUME NEW S, IsFiniteSet(S), NEW P, IsFiniteSet(P), NEW f \in [P -> Int],
         NEW h \in [S -> P], \A x, y \in S : h[x] = h[y] => x = y,
         NEW e \in [S -> Int], \A x \in S : e[x] = f[h[x]],
         NEW Q \in SUBSET P, Q = {h[x] : x \in S}
  PROVE  SumFunction(e) = SumFunction([p \in Q |-> f[p]])
<1>1. PICK g : IsSum(g, f, P) BY SumExists
<1> DEFINE Image(U) == {h[x] : x \in U}
           k == [U \in SUBSET S |-> g[Image(U)]]
<1>2. \A U \in SUBSET S : Image(U) \in SUBSET P
  <2> TAKE U \in SUBSET S
  <2>1. \A x \in U : h[x] \in P OBVIOUS
  <2> QED BY <2>1
<1>3. \A U \in SUBSET S : k[U] = g[Image(U)] OBVIOUS
<1>4. k \in [SUBSET S -> Int]
  <2>1. k = [T \in SUBSET S |-> k[T]] OBVIOUS
  <2> HIDE DEF k, Image
  <2>2. \A T \in SUBSET S : k[T] \in Int BY <1>1, <1>2, <1>3 DEF IsSum
  <2> QED BY <2>1, <2>2
<1> HIDE DEF k
<1>5. k[{}] = 0
  <2>1. Image({}) = {} OBVIOUS
  <2> HIDE DEF Image
  <2> QED BY <2>1, <1>1, <1>3 DEF IsSum
<1>6. ASSUME NEW U \in SUBSET S, NEW x \in U PROVE k[U] = e[x] + k[U \ {x}]
  <2>1. U \ {x} \in SUBSET S /\ h[x] \in Image(U) /\ h[x] \in P OBVIOUS
  <2>2. Image(U) \ {h[x]} = Image(U \ {x})
    <3>1. \A y \in U : y \in S /\ (h[y] = h[x] <=> y = x) OBVIOUS
    <3> QED BY <3>1
  <2>3. e[x] = f[h[x]] OBVIOUS
  <2> HIDE DEF Image
  <2>4. g[Image(U)] = f[h[x]] + g[Image(U) \ {h[x]}] BY <2>1, <1>1, <1>2 DEF IsSum
  <2>5. k[U] = g[Image(U)] /\ k[U \ {x}] = g[Image(U \ {x})] BY <2>1, <1>3
  <2> QED BY <2>2, <2>3, <2>4, <2>5
<1>7. SumFunction(e) = k[S]
  <2>1. IsSum(k, e, S) BY <1>4, <1>5, <1>6 DEF IsSum
  <2> QED BY <2>1, SumFunctionIs
<1>8. SumFunction([p \in Q |-> f[p]]) = g[Q] BY <1>1, SumOnSubset
<1> QED BY <1>3, <1>7, <1>8

----------------------------------------------------------------------------
(* The powers of c, up to the n-th.                                        *)
PowersUpTo(p, c, n) ==
  /\ p \in [0..n -> Int] /\ p[0] = 1
  /\ \A i \in 1..n : p[i] = c * p[i - 1]

LEMMA PowersUpToExist ==
  ASSUME NEW n \in Nat, NEW c \in Int
  PROVE  \E p : PowersUpTo(p, c, n)
<1> DEFINE T == {k \in Nat : k <= n /\ ~\E p : PowersUpTo(p, c, k)}
<1> SUFFICES ASSUME T # {} PROVE FALSE
  OBVIOUS
<1>1. PICK m \in T : \A k \in T : m <= k
  <2> HIDE DEF T
  <2>1. T \subseteq Nat BY DEF T
  <2> QED BY <2>1, NatLeast
<1>2. CASE m = 0
  <2>1. PowersUpTo([i \in 0..0 |-> 1], c, 0) BY DEF PowersUpTo
  <2> QED BY <2>1, <1>1, <1>2
<1>3. CASE m # 0
  <2>1. m \in Nat /\ m - 1 \in Nat BY <1>1, <1>3
  <2>2. PICK p : PowersUpTo(p, c, m - 1) BY <2>1, <1>1
  <2> DEFINE q == [i \in 0..m |-> IF i = m THEN c * p[m - 1] ELSE p[i]]
  <2>3. p \in [0..(m - 1) -> Int] /\ p[0] = 1 /\ \A i \in 1..(m - 1) : p[i] = c * p[i - 1]
    BY <2>2 DEF PowersUpTo
  <2>4. p[m - 1] \in Int /\ c * p[m - 1] \in Int
    <3>1. p[m - 1] \in Int BY <2>1, <2>3
    <3> QED BY <3>1
  <2>5. q \in [0..m -> Int]
    <3>1. \A i \in 0..m : i # m => i \in 0..(m - 1) BY <2>1
    <3> QED BY <3>1, <2>3, <2>4
  <2>6. q[0] = 1 BY <2>1, <2>3, <1>3
  <2>7. ASSUME NEW i \in 1..m PROVE q[i] = c * q[i - 1]
    <3>1. CASE i = m BY <3>1, <2>1
    <3>2. CASE i # m BY <3>2, <2>1, <2>3
    <3> QED BY <3>1, <3>2
  <2>8. PowersUpTo(q, c, m)
    <3> HIDE DEF q
    <3> QED BY <2>5, <2>6, <2>7 DEF PowersUpTo
  <2> HIDE DEF q
  <2> QED BY <2>8, <1>1
<1> QED BY <1>2, <1>3

LEMMA PowersUpToAgree ==
  ASSUME NEW n \in Nat, NEW c \in Int, NEW p, PowersUpTo(p, c, n), NEW q, PowersUpTo(q, c, n + 1)
  PROVE  q[n] = p[n]
<1> DEFINE T == {k \in Nat : k <= n /\ p[k] # q[k]}
<1>1. T = {}
  <2> SUFFICES ASSUME T # {} PROVE FALSE OBVIOUS
  <2>1. PICK m \in T : \A k \in T : m <= k
    <3> HIDE DEF T
    <3>1. T \subseteq Nat BY DEF T
    <3> QED BY <3>1, NatLeast
  <2>2. m # 0 BY <2>1 DEF PowersUpTo
  <2>3. m \in 1..n /\ m \in 1..(n + 1) /\ m - 1 \in Nat BY <2>1, <2>2
  <2>4. p[m - 1] = q[m - 1] BY <2>1, <2>3
  <2>5. p[m] = c * p[m - 1] /\ q[m] = c * q[m - 1] BY <2>3 DEF PowersUpTo
  <2> QED BY <2>1, <2>4, <2>5
<1> QED BY <1>1

(* The recursion that defines the powers of c has a solution.              *)
IsPowers(f, c) == f = [n \in Nat |-> IF n = 0 THEN 1 ELSE c * f[n - 1]]

LEMMA PowersExist ==
  ASSUME NEW c \in Int
  PROVE  \E f : IsPowers(f, c)
<1> DEFINE P(n) == CHOOSE p : PowersUpTo(p, c, n)
           f == [n \in Nat |-> P(n)[n]]
<1>1. \A n \in Nat : PowersUpTo(P(n), c, n) BY PowersUpToExist
<1> HIDE DEF P
<1>2. f[0] = 1 BY <1>1 DEF PowersUpTo
<1>3. ASSUME NEW n \in Nat, n # 0 PROVE f[n] = c * f[n - 1]
  <2>1. n - 1 \in Nat /\ n - 1 + 1 = n /\ n \in 1..n BY <1>3
  <2>2. PICK p, q : p = P(n - 1) /\ q = P(n) OBVIOUS
  <2>3. PowersUpTo(p, c, n - 1) /\ PowersUpTo(q, c, n) BY <1>1, <2>1, <2>2
  <2>4. q[n - 1] = p[n - 1]
    <3>1. PICK m \in Nat : m = n - 1 /\ n = m + 1 BY <2>1
    <3>2. PowersUpTo(p, c, m) /\ PowersUpTo(q, c, m + 1) BY <2>3, <3>1
    <3> QED BY <3>1, <3>2, PowersUpToAgree
  <2>5. q[n] = c * q[n - 1] BY <2>1, <2>3 DEF PowersUpTo
  <2> QED BY <2>1, <2>2, <2>4, <2>5
<1>4. f = [n \in Nat |-> f[n]] OBVIOUS
<1> HIDE DEF f
<1>5. f = [n \in Nat |-> IF n = 0 THEN 1 ELSE c * f[n - 1]]
  BY <1>2, <1>3, <1>4
<1> QED BY <1>5 DEF IsPowers

LEMMA PowersAre ==
  ASSUME NEW c \in Int, NEW f, IsPowers(f, c)
  PROVE  /\ f[0] = 1
         /\ \A n \in Nat : f[n] \in Int /\ f[n + 1] = c * f[n]
<1>1. \A n \in Nat : f[n] = IF n = 0 THEN 1 ELSE c * f[n - 1] BY DEF IsPowers
<1>2. f[0] = 1 BY <1>1
<1>3. ASSUME NEW n \in Nat PROVE f[n + 1] = c * f[n]
  <2>1. n + 1 \in Nat /\ n + 1 # 0 /\ n + 1 - 1 = n OBVIOUS
  <2> QED BY <2>1, <1>1
<1> DEFINE T == {k \in Nat : f[k] \notin Int}
<1>4. T = {}
  <2> SUFFICES ASSUME T # {} PROVE FALSE OBVIOUS
  <2>1. PICK m \in T : \A k \in T : m <= k
    <3> HIDE DEF T
    <3>1. T \subseteq Nat BY DEF T
    <3> QED BY <3>1, NatLeast
  <2>2. m # 0 BY <2>1, <1>2
  <2>3. m - 1 \in Nat /\ m = (m - 1) + 1 BY <2>1, <2>2
  <2>4. f[m - 1] \in Int BY <2>1, <2>3
  <2>5. f[m] = c * f[m - 1] BY <2>3, <1>3
  <2> QED BY <2>1, <2>4, <2>5
<1> QED BY <1>2, <1>3, <1>4

================================================================================
