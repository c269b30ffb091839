-------------------- MODULE CollectionChangeBuilder_proofs --------------------
(***************************************************************************)
(* What the operations of index sets and of CollectionChangeBuilder do,    *)
(* for sets and sequences of any size.                                     *)
(***************************************************************************)
EXTENDS CollectionChangeBuilder, FiniteSetTheorems, TLAPS

-----------------------------------------------------------------------------
(* Induction over numbers. The theorems of the library take a predicate;   *)
(* here the numbers it holds of are a set.                                 *)

LessThan == {p \in Nat \X Nat : p[1] < p[2]}

LEMMA LessThanWellFounded == IsWellFoundedOn(LessThan, Nat)
<1>1. LessThan = OpToRel(<, Nat)
  BY DEF LessThan, OpToRel
<1> QED
  BY <1>1, NatLessThanWellFounded

LEMMA Least ==
  ASSUME NEW T \in SUBSET Nat, T # {}
  PROVE  \E n \in T : \A m \in T : n <= m
<1>1. PICK n \in T : \A m \in T : ~(<<m, n>> \in LessThan)
  BY LessThanWellFounded, WFMin, Zenon
<1>2. ASSUME NEW m \in T
      PROVE  n <= m
  <2>1. m \in Nat /\ n \in Nat
    OBVIOUS
  <2>2. ~(m < n)
    BY <1>1, <2>1 DEF LessThan
  <2> QED
    BY <2>1, <2>2
<1> QED
  BY <1>2

LEMMA Induction ==
  ASSUME NEW N \in Nat, NEW S, 0 \in S, \A n \in 0 .. N - 1 : n \in S => n + 1 \in S
  PROVE  \A n \in 0 .. N : n \in S
<1> DEFINE T == {n \in 0 .. N : n \notin S}
<1>1. SUFFICES ASSUME T # {} PROVE FALSE
  OBVIOUS
<1>2. PICK n \in T : \A m \in T : n <= m
  <2>1. T \in SUBSET Nat
    OBVIOUS
  <2> HIDE DEF T
  <2> QED
    BY <1>1, <2>1, Least, Zenon
<1>3. n \in 1 .. N /\ n - 1 \in 0 .. N - 1 /\ n - 1 + 1 = n
  BY <1>2
<1>4. n - 1 \notin S
  BY <1>2, <1>3
<1>5. n - 1 \in T
  BY <1>3, <1>4
<1> QED
  BY <1>2, <1>3, <1>5

-----------------------------------------------------------------------------
(* The indices of a set before an index                                    *)

FiniteIndices == {S \in SUBSET Nat : IsFiniteSet(S)}

LEMMA BeforeFinite ==
  ASSUME NEW S \in FiniteIndices, NEW i \in Nat
  PROVE  IsFiniteSet({x \in S : x < i}) /\ Cardinality({x \in S : x < i}) <= Cardinality(S)
<1>1. IsFiniteSet(S) /\ {x \in S : x < i} \in SUBSET S
  BY DEF FiniteIndices
<1> HIDE DEF FiniteIndices
<1> QED
  BY <1>1, FS_Subset, Zenon

LEMMA BelowFinite ==
  ASSUME NEW S \in FiniteIndices, NEW i \in Nat
  PROVE  Below(S, i) \in Nat /\ Below(S, i) <= Cardinality(S) /\ Cardinality(S) \in Nat
<1>1. IsFiniteSet(S)
  BY DEF FiniteIndices
<1>2. IsFiniteSet({x \in S : x < i}) /\ Cardinality({x \in S : x < i}) <= Cardinality(S)
  BY BeforeFinite
<1> QED
  BY <1>1, <1>2, FS_CardinalityType DEF Below

LEMMA BelowZero == ASSUME NEW S \in FiniteIndices PROVE Below(S, 0) = 0
<1>1. \A x \in S : x \in Nat
  BY DEF FiniteIndices
<1>2. {x \in S : x < 0} = {}
  BY <1>1
<1> QED
  BY <1>2, FS_EmptySet DEF Below

LEMMA BelowNext ==
  ASSUME NEW S \in FiniteIndices, NEW i \in Nat
  PROVE  Below(S, i + 1) = IF i \in S THEN Below(S, i) + 1 ELSE Below(S, i)
<1> DEFINE B == {x \in S : x < i}
<1>0. \A x \in S : x \in Nat
  BY DEF FiniteIndices
<1>1. IsFiniteSet(B) /\ i \notin B
  BY BeforeFinite
<1>2. CASE i \in S
  <2>1. {x \in S : x < i + 1} = B \cup {i}
    <3>1. ASSUME NEW x
          PROVE  x \in {y \in S : y < i + 1} <=> x \in B \cup {i}
      <4>1. CASE x \in S
        <5>1. x \in Nat
          BY <1>0, <4>1
        <5> QED
          BY <1>2, <4>1, <5>1
      <4>2. CASE x \notin S
        BY <1>2, <4>2
      <4> QED
        BY <4>1, <4>2
    <3> HIDE DEF B
    <3> QED
      BY <3>1
  <2> HIDE DEF B
  <2> QED
    <3>1. Cardinality(B \cup {i}) = Cardinality(B) + 1
      BY <1>1, FS_AddElement
    <3> QED
      BY <1>2, <2>1, <3>1 DEF Below, B
<1>3. CASE i \notin S
  <2>1. {x \in S : x < i + 1} = B
    BY <1>0, <1>3
  <2> QED
    BY <1>3, <2>1 DEF Below
<1> QED
  BY <1>2, <1>3

LEMMA BelowGrows ==
  ASSUME NEW S \in FiniteIndices, NEW i \in Nat, NEW j \in Nat, i <= j
  PROVE  Below(S, i) <= Below(S, j) /\ Below(S, j) <= Below(S, i) + (j - i)
<1> DEFINE P == {d \in Nat : Below(S, i) <= Below(S, i + d)
                             /\ Below(S, i + d) <= Below(S, i) + d}
<1>1. 0 \in P
  <2>1. Below(S, i) \in Nat /\ i + 0 = i
    BY BelowFinite
  <2> QED
    BY <2>1
<1>2. ASSUME NEW d \in 0 .. (j - i) - 1, d \in P
      PROVE  d + 1 \in P
  <2>1. i + d \in Nat /\ i + (d + 1) = (i + d) + 1
    OBVIOUS
  <2>2. Below(S, i) \in Nat /\ Below(S, i + d) \in Nat
    BY <2>1, BelowFinite
  <2>3. Below(S, (i + d) + 1) = IF i + d \in S THEN Below(S, i + d) + 1 ELSE Below(S, i + d)
    BY <2>1, BelowNext
  <2> QED
    BY <1>2, <2>1, <2>2, <2>3
<1>3. j - i \in Nat /\ i + (j - i) = j
  OBVIOUS
<1>4. \A d \in 0 .. j - i : d \in P
  <2> HIDE DEF P
  <2> QED
    BY <1>1, <1>2, <1>3, Induction
<1>5. j - i \in P
  BY <1>3, <1>4
<1> QED
  BY <1>3, <1>5

LEMMA BelowBound ==
  ASSUME NEW S \in FiniteIndices, NEW i \in Nat
  PROVE  Below(S, i) <= i
  BY BelowGrows, BelowZero, BelowFinite

\* Beyond its last index a set has all its indices.
LEMMA BelowAll ==
  ASSUME NEW n \in Nat, NEW S \in SUBSET (0 .. n - 1)
  PROVE  S \in FiniteIndices /\ Below(S, n) = Cardinality(S)
<1>1. IsFiniteSet(0 .. n - 1)
  BY FS_Interval
<1>2. IsFiniteSet(S) /\ S \in SUBSET Nat
  <2>1. IsFiniteSet(S)
    BY <1>1, FS_Subset, Zenon
  <2>2. S \in SUBSET Nat
    OBVIOUS
  <2> QED
    BY <2>1, <2>2
<1>3. \A x \in S : x < n
  OBVIOUS
<1>4. {x \in S : x < n} = S
  BY <1>3
<1> QED
  BY <1>2, <1>4 DEF FiniteIndices, Below

LEMMA Finite ==
  /\ {} \in FiniteIndices
  /\ \A S, T \in FiniteIndices : S \cup T \in FiniteIndices
  /\ \A S \in FiniteIndices : \A T \in SUBSET S : T \in FiniteIndices
  /\ \A i \in Nat : {i} \in FiniteIndices
<1>1. ASSUME NEW S \in FiniteIndices, NEW T \in FiniteIndices
      PROVE  S \cup T \in FiniteIndices
  <2>1. S \in SUBSET Nat /\ T \in SUBSET Nat /\ IsFiniteSet(S) /\ IsFiniteSet(T)
    BY DEF FiniteIndices
  <2>2. IsFiniteSet(S \cup T)
    BY <2>1, FS_Union, Zenon
  <2> QED
    BY <2>1, <2>2 DEF FiniteIndices
<1>2. \A S \in FiniteIndices : \A T \in SUBSET S : T \in FiniteIndices
  <2>1. \A S : \A T \in SUBSET S : IsFiniteSet(S) => IsFiniteSet(T)
    BY FS_Subset, Zenon
  <2>2. \A S \in SUBSET Nat : \A T \in SUBSET S : T \in SUBSET Nat
    OBVIOUS
  <2> QED
    BY <2>1, <2>2 DEF FiniteIndices
<1>3. \A i \in Nat : {i} \in FiniteIndices
  BY FS_Singleton DEF FiniteIndices
<1> QED
  BY <1>1, <1>2, <1>3, FS_EmptySet DEF FiniteIndices

-----------------------------------------------------------------------------
(* unshift and shift: the indices outside a set, counted                   *)

LEMMA UnshiftNat ==
  ASSUME NEW S \in FiniteIndices, NEW i \in Nat
  PROVE  unshift(S, i) \in Nat /\ unshift(S, i) <= i
<1>1. Below(S, i) \in Nat /\ Below(S, i) <= i
  BY BelowBound, BelowFinite
<1> QED
  BY <1>1 DEF unshift

LEMMA UnshiftNext ==
  ASSUME NEW S \in FiniteIndices, NEW i \in Nat
  PROVE  unshift(S, i + 1) = IF i \in S THEN unshift(S, i) ELSE unshift(S, i) + 1
<1>1. Below(S, i) \in Nat /\ Below(S, i + 1) \in Nat
  BY BelowFinite
<1> QED
  BY <1>1, BelowNext DEF unshift

LEMMA UnshiftGrows ==
  ASSUME NEW S \in FiniteIndices, NEW i \in Nat, NEW j \in Nat, i <= j
  PROVE  unshift(S, i) <= unshift(S, j)
<1>1. Below(S, i) \in Nat /\ Below(S, j) \in Nat
  BY BelowFinite
<1>2. Below(S, j) <= Below(S, i) + (j - i)
  BY BelowGrows
<1> QED
  BY <1>1, <1>2 DEF unshift

LEMMA UnshiftLess ==
  ASSUME NEW S \in FiniteIndices, NEW i \in Nat \ S, NEW j \in Nat, i < j
  PROVE  unshift(S, i) < unshift(S, j)
<1>1. unshift(S, i + 1) = unshift(S, i) + 1
  BY UnshiftNext
<1>2. unshift(S, i + 1) <= unshift(S, j)
  BY UnshiftGrows
<1> QED
  BY <1>1, <1>2, UnshiftNat

LEMMA UnshiftOrder ==
  ASSUME NEW S \in FiniteIndices, NEW i \in Nat \ S, NEW j \in Nat \ S
  PROVE  /\ i < j <=> unshift(S, i) < unshift(S, j)
         /\ i = j <=> unshift(S, i) = unshift(S, j)
<1>1. unshift(S, i) \in Nat /\ unshift(S, j) \in Nat
  BY UnshiftNat
<1>2. i < j => unshift(S, i) < unshift(S, j)
  BY UnshiftLess
<1>3. j < i => unshift(S, j) < unshift(S, i)
  BY UnshiftLess
<1> QED
  BY <1>1, <1>2, <1>3

LEMMA ShiftExists ==
  ASSUME NEW S \in FiniteIndices, NEW r \in Nat
  PROVE  \E j \in r .. r + Cardinality(S) : j \notin S /\ j - Below(S, j) = r
<1> DEFINE T == {j \in Nat : r < unshift(S, j + 1)}
           N == r + Cardinality(S)
<1>1. N \in Nat /\ N + 1 \in Nat
  <2>1. Cardinality(S) \in Nat
    BY BelowFinite
  <2> QED
    BY <2>1
<1>2. N \in T
  <2>1. Below(S, N + 1) \in Nat /\ Below(S, N + 1) <= Cardinality(S) /\ Cardinality(S) \in Nat
    BY <1>1, BelowFinite
  <2> QED
    BY <1>1, <2>1 DEF unshift
<1>3. PICK j \in T : \A k \in T : j <= k
  <2>1. T \in SUBSET Nat /\ T # {}
    BY <1>2
  <2> HIDE DEF T
  <2> QED
    BY <2>1, Least, Zenon
<1>4. j \in Nat /\ j <= N /\ r < unshift(S, j + 1)
  BY <1>2, <1>3
<1>5. unshift(S, j) <= r
  <2>1. CASE j = 0
    BY <2>1, UnshiftNat
  <2>2. CASE j # 0
    <3>1. j - 1 \in Nat /\ j - 1 \notin T /\ (j - 1) + 1 = j
      BY <1>3, <1>4, <2>2
    <3> QED
      BY <3>1, <1>4, UnshiftNat
  <2> QED
    BY <2>1, <2>2
<1>6. j \notin S /\ unshift(S, j) = r
  BY <1>4, <1>5, UnshiftNext, UnshiftNat
<1>7. r <= j
  BY <1>4, <1>6, UnshiftNat
<1> QED
  BY <1>1, <1>4, <1>6, <1>7 DEF unshift

LEMMA ShiftUnshift ==
  ASSUME NEW S \in FiniteIndices, NEW r \in Nat
  PROVE  shift(S, r) \in Nat \ S /\ unshift(S, shift(S, r)) = r
<1> DEFINE P(j) == j \notin S /\ j - Below(S, j) = r
<1>1. \E j \in r .. r + Cardinality(S) : P(j)
  BY ShiftExists
<1>2. shift(S, r) = CHOOSE j \in r .. r + Cardinality(S) : P(j)
  BY DEF shift
<1>3. shift(S, r) \in r .. r + Cardinality(S) /\ P(shift(S, r))
  <2> HIDE DEF P
  <2> QED
    BY <1>1, <1>2
<1> QED
  BY <1>3, BelowFinite DEF unshift

LEMMA UnshiftShift ==
  ASSUME NEW S \in FiniteIndices, NEW i \in Nat \ S
  PROVE  shift(S, unshift(S, i)) = i
<1>1. unshift(S, i) \in Nat
  BY UnshiftNat
<1>2. /\ shift(S, unshift(S, i)) \in Nat \ S
      /\ unshift(S, shift(S, unshift(S, i))) = unshift(S, i)
  BY <1>1, ShiftUnshift
<1> QED
  BY <1>2, UnshiftOrder

LEMMA ShiftOrder ==
  ASSUME NEW S \in FiniteIndices, NEW a \in Nat, NEW b \in Nat
  PROVE  /\ a < b <=> shift(S, a) < shift(S, b)
         /\ a = b <=> shift(S, a) = shift(S, b)
  BY ShiftUnshift, UnshiftOrder

-----------------------------------------------------------------------------
(* What the operations do to unshift                                       *)

\* unshift counts the indices outside S: what counts them too is unshift.
LEMMA UnshiftIs ==
  ASSUME NEW S \in FiniteIndices, NEW N \in Nat, NEW f,
         f[0] = 0,
         \A x \in 0 .. N - 1 : f[x + 1] = IF x \in S THEN f[x] ELSE f[x] + 1
  PROVE  \A x \in 0 .. N : unshift(S, x) = f[x]
<1> DEFINE P == {x \in Nat : unshift(S, x) = f[x]}
<1>1. 0 \in P
  <2>1. unshift(S, 0) \in Nat /\ unshift(S, 0) <= 0
    BY UnshiftNat
  <2> QED
    BY <2>1
<1>2. ASSUME NEW x \in 0 .. N - 1, x \in P
      PROVE  x + 1 \in P
  <2>1. x \in Nat /\ x + 1 \in Nat /\ unshift(S, x) = f[x]
    BY <1>2
  <2>2. unshift(S, x + 1) = IF x \in S THEN unshift(S, x) ELSE unshift(S, x) + 1
    BY <2>1, UnshiftNext
  <2> QED
    BY <2>1, <2>2
<1>3. \A x \in 0 .. N : x \in P
  <2> HIDE DEF P
  <2> QED
    BY <1>1, <1>2, Induction
<1> QED
  BY <1>3

Intervals(n) == SUBSET (0 .. n - 1)

LEMMA IntervalsFinite ==
  ASSUME NEW n \in Nat, NEW S \in Intervals(n)
  PROVE  /\ S \in FiniteIndices /\ \A x \in S : x \in Nat /\ x < n
         /\ unshift(S, n) = n - Cardinality(S)
<1>1. S \in SUBSET (0 .. n - 1)
  BY DEF Intervals
<1>2. S \in FiniteIndices /\ Below(S, n) = Cardinality(S)
  BY <1>1, BelowAll
<1> QED
  BY <1>1, <1>2 DEF unshift

\* Every count below the number of indices is that of the ones before one.
LEMMA RankExists ==
  ASSUME NEW n \in Nat, NEW S \in Intervals(n), NEW r \in Nat, r < Cardinality(S)
  PROVE  \E x \in S : Below(S, x) = r
<1> DEFINE T == {j \in Nat : r < Below(S, j)}
<1>1. S \in FiniteIndices /\ Below(S, n) = Cardinality(S)
  BY BelowAll DEF Intervals
<1>2. PICK j \in T : \A k \in T : j <= k
  <2>1. T \in SUBSET Nat /\ T # {}
    BY <1>1
  <2> HIDE DEF T
  <2> QED
    BY <2>1, Least, Zenon
<1>3. j # 0
  BY <1>1, <1>2, BelowZero
<1>4. j - 1 \in Nat /\ j - 1 \notin T /\ (j - 1) + 1 = j
  BY <1>2, <1>3
<1>5. Below(S, j - 1) \in Nat /\ Below(S, j - 1) <= r
  BY <1>1, <1>4, BelowFinite
<1>6. Below(S, j) = IF j - 1 \in S THEN Below(S, j - 1) + 1 ELSE Below(S, j - 1)
  BY <1>1, <1>4, BelowNext
<1>7. r < Below(S, j)
  BY <1>2
<1> QED
  BY <1>5, <1>6, <1>7

\* And of that one only.
LEMMA RankOne ==
  ASSUME NEW n \in Nat, NEW S \in Intervals(n), NEW x \in S, NEW y \in S
  PROVE  /\ Below(S, x) \in Nat /\ Below(S, x) < Cardinality(S)
         /\ Below(S, x) = Below(S, y) => x = y
<1>1. S \in FiniteIndices /\ Below(S, n) = Cardinality(S)
  BY BelowAll DEF Intervals
<1>2. x \in Nat /\ x < n /\ y \in Nat /\ y < n
  BY DEF Intervals
<1>3. Below(S, x + 1) = Below(S, x) + 1 /\ Below(S, y + 1) = Below(S, y) + 1
  BY <1>1, <1>2, BelowNext
<1>4. Below(S, x) \in Nat /\ Below(S, y) \in Nat
  BY <1>1, <1>2, BelowFinite
<1>5. Below(S, x + 1) <= Below(S, n)
  BY <1>1, <1>2, BelowGrows
<1>6. x < y => Below(S, x + 1) <= Below(S, y)
  BY <1>1, <1>2, BelowGrows
<1>7. y < x => Below(S, y + 1) <= Below(S, x)
  BY <1>1, <1>2, BelowGrows
<1>8. Below(S, x) < Cardinality(S)
  BY ONLY <1>1, <1>3, <1>4, <1>5, BelowFinite, <1>2
<1>9. x < y \/ y < x \/ x = y
  BY <1>2
<1>10. Below(S, x) = Below(S, y) => x = y
  BY ONLY <1>3, <1>4, <1>6, <1>7, <1>9
<1> QED
  BY <1>4, <1>8, <1>10

LEMMA InsertAtSet ==
  ASSUME NEW n \in Nat, NEW S \in Intervals(n), NEW i \in 0 .. n
  PROVE  /\ insert_at(S, i, 1) \in Intervals(n + 1)
         /\ \A x \in Nat : x \in insert_at(S, i, 1)
              <=> IF x < i THEN x \in S ELSE IF x = i THEN TRUE ELSE x - 1 \in S
         /\ \A x \in Nat : unshift(insert_at(S, i, 1), x)
              = IF x <= i THEN unshift(S, x) ELSE unshift(S, x - 1)
<1> DEFINE T == insert_at(S, i, 1)
           f == [x \in Nat |-> IF x <= i THEN unshift(S, x) ELSE unshift(S, x - 1)]
<1>1. \A x \in S : x \in 0 .. n - 1
  BY DEF Intervals
<1>2. ASSUME NEW x \in Nat
      PROVE  x \in T <=> IF x < i THEN x \in S ELSE IF x = i THEN TRUE ELSE x - 1 \in S
  <2>1. x \in T <=> \/ x \in S /\ x < i
                    \/ x \in i .. i + 1 - 1
                    \/ \E y \in S : y >= i /\ x = y + 1
    BY DEF insert_at
  <2>2. (\E y \in S : y >= i /\ x = y + 1) <=> x - 1 \in S /\ x - 1 >= i
    BY <1>1
  <2> QED
    BY <2>1, <2>2
<1>3. T \in Intervals(n + 1)
  <2>1. ASSUME NEW x \in T
        PROVE  x \in 0 .. (n + 1) - 1
    <3>1. \/ x \in S /\ x < i
          \/ x \in i .. i + 1 - 1
          \/ \E y \in S : y >= i /\ x = y + 1
      BY DEF insert_at
    <3> QED
      BY <1>1, <3>1
  <2> QED
    BY <2>1 DEF Intervals
<1>4. ASSUME NEW x \in Nat
      PROVE  unshift(T, x) = f[x]
  <2>1. f[0] = 0
    <3>1. unshift(S, 0) \in Nat /\ unshift(S, 0) <= 0
      BY IntervalsFinite, UnshiftNat
    <3> QED
      BY <3>1
  <2>2. ASSUME NEW y \in 0 .. x - 1
        PROVE  f[y + 1] = IF y \in T THEN f[y] ELSE f[y] + 1
    <3>1. S \in FiniteIndices /\ y \in Nat
      BY IntervalsFinite
    <3>2. unshift(S, y + 1) = IF y \in S THEN unshift(S, y) ELSE unshift(S, y) + 1
      BY <3>1, UnshiftNext
    <3>3. y > i => unshift(S, y - 1 + 1) = IF y - 1 \in S THEN unshift(S, y - 1)
                                                          ELSE unshift(S, y - 1) + 1
      BY <3>1, UnshiftNext
    <3>4. y \in T <=> IF y < i THEN y \in S ELSE IF y = i THEN TRUE ELSE y - 1 \in S
      BY <1>2
    <3>5. f[y] = IF y <= i THEN unshift(S, y) ELSE unshift(S, y - 1)
      OBVIOUS
    <3>6. f[y + 1] = IF y + 1 <= i THEN unshift(S, y + 1) ELSE unshift(S, y)
      OBVIOUS
    <3> HIDE DEF f, T
    <3> QED
      BY <3>2, <3>3, <3>4, <3>5, <3>6
  <2>3. T \in FiniteIndices
    BY <1>3, IntervalsFinite
  <2> HIDE DEF f, T
  <2> QED
    BY <2>1, <2>2, <2>3, UnshiftIs
<1> QED
  BY <1>2, <1>3, <1>4

LEMMA EraseAtSet ==
  ASSUME NEW n \in Nat, NEW S \in Intervals(n), NEW i \in 0 .. n - 1
  PROVE  /\ erase_at(S, i) \in Intervals(n - 1)
         /\ \A x \in Nat : x \in erase_at(S, i) <=> IF x < i THEN x \in S ELSE x + 1 \in S
         /\ \A x \in Nat : unshift(erase_at(S, i), x)
              = IF x <= i THEN unshift(S, x)
                ELSE IF i \in S THEN unshift(S, x + 1) ELSE unshift(S, x + 1) - 1
<1> DEFINE T == erase_at(S, i)
           f == [x \in Nat |-> IF x <= i THEN unshift(S, x)
                               ELSE IF i \in S THEN unshift(S, x + 1)
                               ELSE unshift(S, x + 1) - 1]
<1>1. \A x \in S : x \in 0 .. n - 1
  BY DEF Intervals
<1>2. ASSUME NEW x \in Nat
      PROVE  x \in T <=> IF x < i THEN x \in S ELSE x + 1 \in S
  <2>1. x \in T <=> \/ x \in S /\ x < i
                    \/ \E y \in S : y > i /\ x = y - 1
    BY DEF erase_at
  <2>2. (\E y \in S : y > i /\ x = y - 1) <=> x + 1 \in S /\ x + 1 > i
    BY <1>1
  <2> QED
    BY <2>1, <2>2
<1>3. T \in Intervals(n - 1)
  <2>1. ASSUME NEW x \in T
        PROVE  x \in 0 .. (n - 1) - 1
    <3>1. \/ x \in S /\ x < i
          \/ \E y \in S : y > i /\ x = y - 1
      BY DEF erase_at
    <3> QED
      BY <1>1, <3>1
  <2> QED
    BY <2>1 DEF Intervals
<1>4. ASSUME NEW x \in Nat
      PROVE  unshift(T, x) = f[x]
  <2>1. f[0] = 0
    <3>1. unshift(S, 0) \in Nat /\ unshift(S, 0) <= 0
      BY IntervalsFinite, UnshiftNat
    <3> QED
      BY <3>1
  <2>2. ASSUME NEW y \in 0 .. x - 1
        PROVE  f[y + 1] = IF y \in T THEN f[y] ELSE f[y] + 1
    <3>1. S \in FiniteIndices /\ y \in Nat
      BY IntervalsFinite
    <3>2. unshift(S, y + 1) = IF y \in S THEN unshift(S, y) ELSE unshift(S, y) + 1
      BY <3>1, UnshiftNext
    <3>3. unshift(S, y + 1 + 1) = IF y + 1 \in S THEN unshift(S, y + 1)
                                                 ELSE unshift(S, y + 1) + 1
      BY <3>1, UnshiftNext
    <3>4. y \in T <=> IF y < i THEN y \in S ELSE y + 1 \in S
      BY <1>2
    <3>5. f[y] = IF y <= i THEN unshift(S, y)
                 ELSE IF i \in S THEN unshift(S, y + 1) ELSE unshift(S, y + 1) - 1
      OBVIOUS
    <3>6. f[y + 1] = IF y + 1 <= i THEN unshift(S, y + 1)
                     ELSE IF i \in S THEN unshift(S, y + 1 + 1) ELSE unshift(S, y + 1 + 1) - 1
      OBVIOUS
    <3>7. unshift(S, y) \in Nat /\ unshift(S, y + 1) \in Nat
      BY <3>1, UnshiftNat
    <3> HIDE DEF f, T
    <3> QED
      BY <3>2, <3>3, <3>4, <3>5, <3>6, <3>7
  <2>3. T \in FiniteIndices
    BY <1>3, IntervalsFinite
  <2> HIDE DEF f, T
  <2> QED
    BY <2>1, <2>2, <2>3, UnshiftIs
<1> QED
  BY <1>2, <1>3, <1>4

LEMMA AddedSet ==
  ASSUME NEW S \in FiniteIndices, NEW a \in Nat \ S
  PROVE  /\ S \cup {a} \in FiniteIndices
         /\ \A x \in Nat : unshift(S \cup {a}, x)
              = IF x <= a THEN unshift(S, x) ELSE unshift(S, x) - 1
<1> DEFINE T == S \cup {a}
           f == [x \in Nat |-> IF x <= a THEN unshift(S, x) ELSE unshift(S, x) - 1]
<1>1. T \in FiniteIndices
  BY Finite
<1>2. ASSUME NEW x \in Nat
      PROVE  unshift(T, x) = f[x]
  <2>1. f[0] = 0
    <3>1. unshift(S, 0) \in Nat /\ unshift(S, 0) <= 0
      BY UnshiftNat
    <3> QED
      BY <3>1
  <2>2. ASSUME NEW y \in 0 .. x - 1
        PROVE  f[y + 1] = IF y \in T THEN f[y] ELSE f[y] + 1
    <3>1. y \in Nat
      OBVIOUS
    <3>2. unshift(S, y + 1) = IF y \in S THEN unshift(S, y) ELSE unshift(S, y) + 1
      BY <3>1, UnshiftNext
    <3>3. unshift(S, y) \in Nat /\ unshift(S, y + 1) \in Nat
      BY <3>1, UnshiftNat
    <3>4. y \in T <=> y \in S \/ y = a
      OBVIOUS
    <3>5. f[y] = IF y <= a THEN unshift(S, y) ELSE unshift(S, y) - 1
      OBVIOUS
    <3>6. f[y + 1] = IF y + 1 <= a THEN unshift(S, y + 1) ELSE unshift(S, y + 1) - 1
      OBVIOUS
    <3> HIDE DEF f, T
    <3> QED
      BY <3>2, <3>3, <3>4, <3>5, <3>6
  <2> HIDE DEF f, T
  <2> QED
    BY <1>1, <2>1, <2>2, UnshiftIs
<1> QED
  BY <1>1, <1>2

LEMMA RemovedSet ==
  ASSUME NEW S \in FiniteIndices, NEW a \in S
  PROVE  /\ S \ {a} \in FiniteIndices
         /\ \A x \in Nat : unshift(S \ {a}, x)
              = IF x <= a THEN unshift(S, x) ELSE unshift(S, x) + 1
<1>1. S \ {a} \in FiniteIndices /\ a \in Nat \ (S \ {a}) /\ (S \ {a}) \cup {a} = S
  <2>1. a \in Nat
    BY DEF FiniteIndices
  <2> QED
    BY <2>1, Finite
<1>2. ASSUME NEW x \in Nat
      PROVE  unshift(S \ {a}, x) = IF x <= a THEN unshift(S, x) ELSE unshift(S, x) + 1
  <2> DEFINE T == S \ {a}
  <2>1. unshift(T \cup {a}, x) = IF x <= a THEN unshift(T, x) ELSE unshift(T, x) - 1
    BY <1>1, AddedSet
  <2>2. unshift(T, x) \in Nat /\ T \cup {a} = S
    BY <1>1, UnshiftNat
  <2> HIDE DEF T
  <2>3. unshift(T, x) = IF x <= a THEN unshift(S, x) ELSE unshift(S, x) + 1
    BY <2>1, <2>2
  <2> QED
    BY <2>3 DEF T
<1> QED
  BY <1>1, <1>2

\* The one way to take the indices outside one set to those outside another in
\* order: g does, and keeps what unshift counts.
LEMMA OrderKept ==
  ASSUME NEW A \in FiniteIndices, NEW B \in FiniteIndices,
         NEW g \in [Nat \ A -> Nat \ B],
         \A x, y \in Nat \ A : x < y => g[x] < g[y],
         \A z \in Nat \ B : \E x \in Nat \ A : g[x] = z
  PROVE  \A x \in Nat \ A : unshift(B, g[x]) = unshift(A, x)
<1> DEFINE T == {x \in Nat \ A : unshift(B, g[x]) # unshift(A, x)}
<1>1. SUFFICES ASSUME T # {} PROVE FALSE
  OBVIOUS
<1>2. PICK x \in T : \A y \in T : x <= y
  <2>1. T \in SUBSET Nat
    OBVIOUS
  <2> HIDE DEF T
  <2> QED
    BY <1>1, <2>1, Least, Zenon
<1>3. x \in Nat \ A /\ g[x] \in Nat \ B /\ unshift(B, g[x]) # unshift(A, x)
  BY <1>2
<1>4. unshift(A, x) \in Nat /\ unshift(B, g[x]) \in Nat
  BY <1>3, UnshiftNat
<1>5. \A y \in Nat \ A : y < x => unshift(B, g[y]) = unshift(A, y)
  BY <1>2, <1>3
<1>6. CASE unshift(B, g[x]) < unshift(A, x)
  <2>1. PICK y \in Nat \ A : unshift(A, y) = unshift(B, g[x])
    BY <1>4, ShiftUnshift
  <2>2. y < x
    BY <1>3, <1>6, <2>1, UnshiftOrder
  <2>3. g[y] \in Nat \ B /\ g[y] < g[x] /\ unshift(B, g[y]) = unshift(B, g[x])
    BY <1>3, <1>5, <2>1, <2>2
  <2>4. g[y] = g[x]
    BY <1>3, <2>3, UnshiftOrder
  <2> QED
    BY <1>3, <2>3, <2>4
<1>7. CASE unshift(A, x) < unshift(B, g[x])
  <2>1. PICK z \in Nat \ B : unshift(B, z) = unshift(A, x)
    BY <1>4, ShiftUnshift
  <2>2. z < g[x]
    BY <1>3, <1>7, <2>1, UnshiftOrder
  <2>3. PICK y \in Nat \ A : g[y] = z
    OBVIOUS
  <2>4. y < x
    <3>1. ~(x < y) /\ x # y
      BY <1>3, <2>2, <2>3
    <3> QED
      BY <1>3, <3>1
  <2>5. unshift(A, y) = unshift(A, x)
    BY <1>5, <2>1, <2>3, <2>4
  <2>6. x = y
    BY <1>3, <2>5, UnshiftOrder
  <2> QED
    BY <1>3, <2>4, <2>6
<1> QED
  BY <1>3, <1>4, <1>6, <1>7

-----------------------------------------------------------------------------
(* The elements of sequences                                               *)

LEMMA SeqSet ==
  ASSUME NEW V, NEW s \in Seq(V)
  PROVE  \A m : m \in ToSet(s) <=> \E k \in 1 .. Len(s) : s[k] = m
  BY DEF ToSet

LEMMA AppendSet ==
  ASSUME NEW V, NEW s \in Seq(V), NEW v \in V
  PROVE  Append(s, v) \in Seq(V) /\ ToSet(Append(s, v)) = ToSet(s) \cup {v}
<1>1. Append(s, v) \in Seq(V)
  OBVIOUS
<1>2. Len(Append(s, v)) = Len(s) + 1 /\ Len(s) \in Nat
  OBVIOUS
<1>3. \A k \in 1 .. Len(s) + 1 : Append(s, v)[k] = IF k = Len(s) + 1 THEN v ELSE s[k]
  OBVIOUS
<1>4. ASSUME NEW m
      PROVE  m \in ToSet(Append(s, v)) <=> m \in ToSet(s) \/ m = v
  <2>1. m \in ToSet(Append(s, v)) <=> \E k \in 1 .. Len(s) + 1 : Append(s, v)[k] = m
    BY <1>1, <1>2, SeqSet
  <2>2. m \in ToSet(s) <=> \E k \in 1 .. Len(s) : s[k] = m
    BY SeqSet
  <2> QED
    BY <1>2, <1>3, <2>1, <2>2
<1>5. ToSet(Append(s, v)) = ToSet(s) \cup {v}
  BY <1>4
<1> QED
  BY <1>1, <1>5

LEMMA ConcatSet ==
  ASSUME NEW V, NEW s \in Seq(V), NEW t \in Seq(V)
  PROVE  s \o t \in Seq(V) /\ ToSet(s \o t) = ToSet(s) \cup ToSet(t)
<1>1. s \o t \in Seq(V) /\ Len(s \o t) = Len(s) + Len(t) /\ Len(s) \in Nat /\ Len(t) \in Nat
  OBVIOUS
<1>2. \A k \in 1 .. Len(s) + Len(t) :
        (s \o t)[k] = IF k <= Len(s) THEN s[k] ELSE t[k - Len(s)]
  OBVIOUS
<1>3. ASSUME NEW m
      PROVE  m \in ToSet(s \o t) <=> m \in ToSet(s) \/ m \in ToSet(t)
  <2>1. m \in ToSet(s \o t) <=> \E k \in 1 .. Len(s) + Len(t) : (s \o t)[k] = m
    BY <1>1, SeqSet
  <2>2. m \in ToSet(s) <=> \E k \in 1 .. Len(s) : s[k] = m
    BY SeqSet
  <2>3. m \in ToSet(t) <=> \E k \in 1 .. Len(t) : t[k] = m
    BY SeqSet
  <2>4. ASSUME NEW k \in 1 .. Len(t), t[k] = m
        PROVE  \E j \in 1 .. Len(s) + Len(t) : (s \o t)[j] = m
    <3>1. k + Len(s) \in 1 .. Len(s) + Len(t) /\ ~(k + Len(s) <= Len(s))
          /\ (k + Len(s)) - Len(s) = k
      BY <1>1
    <3> QED
      BY <1>2, <2>4, <3>1
  <2> QED
    BY <1>1, <1>2, <2>1, <2>2, <2>3, <2>4
<1>4. ToSet(s \o t) = ToSet(s) \cup ToSet(t)
  BY <1>3
<1> QED
  BY <1>1, <1>4

-----------------------------------------------------------------------------
(* Recursion over a sequence, and the moves at some positions              *)

\* The functions over 0 .. N in which F gives a value from the one before and
\* from the index: there is one.
Recursive(N, V, b, F) ==
  {f \in [0 .. N -> V] : f[0] = b /\ \A k \in 1 .. N : f[k] = F[<<f[k - 1], k>>]}

LEMMA Recursion ==
  ASSUME NEW N \in Nat, NEW V, NEW b \in V, NEW F \in [V \X (1 .. N) -> V]
  PROVE  Recursive(N, V, b, F) # {}
<1> DEFINE Upto(n) == {f \in [0 .. n -> V] :
                        f[0] = b /\ \A k \in 1 .. n : f[k] = F[<<f[k - 1], k>>]}
           P == {n \in 0 .. N : Upto(n) # {}}
<1>1. 0 \in P
  <2> DEFINE f == [k \in 0 .. 0 |-> b]
  <2>1. f \in [0 .. 0 -> V] /\ f[0] = b /\ 1 .. 0 = {}
    OBVIOUS
  <2>2. f \in Upto(0)
    BY <2>1
  <2> QED
    BY <2>2
<1>2. ASSUME NEW n \in 0 .. N - 1, n \in P
      PROVE  n + 1 \in P
  <2>1. PICK f \in [0 .. n -> V] :
               f[0] = b /\ \A k \in 1 .. n : f[k] = F[<<f[k - 1], k>>]
    BY <1>2
  <2>2. PICK v \in V : v = F[<<f[n], n + 1>>]
    <3>1. f[n] \in V /\ n + 1 \in 1 .. N
      OBVIOUS
    <3>2. <<f[n], n + 1>> \in V \X (1 .. N)
      BY <3>1
    <3> QED
      BY <3>2
  <2> DEFINE g == [k \in 0 .. n + 1 |-> IF k <= n THEN f[k] ELSE v]
  <2>3. g \in [0 .. n + 1 -> V]
    OBVIOUS
  <2>4. g[0] = b /\ g[n + 1] = v /\ \A k \in 0 .. n : g[k] = f[k]
    BY <2>1
  <2>5. ASSUME NEW k \in 1 .. n + 1
        PROVE  g[k] = F[<<g[k - 1], k>>]
    <3> HIDE DEF g
    <3>1. k - 1 \in 0 .. n /\ g[k - 1] = f[k - 1]
      BY <2>4
    <3>2. CASE k <= n
      <4>1. k \in 1 .. n /\ g[k] = f[k]
        BY <2>4, <3>2
      <4> QED
        BY <2>1, <3>1, <4>1
    <3>3. CASE k = n + 1
      <4>1. g[k] = v /\ k - 1 = n
        BY <2>4, <3>3
      <4> QED
        BY <2>2, <3>1, <3>3, <4>1
    <3> QED
      BY <3>2, <3>3
  <2>6. g \in Upto(n + 1)
    <3> HIDE DEF g
    <3> QED
      BY <2>3, <2>4, <2>5
  <2> QED
    BY <2>6
<1>3. \A n \in 0 .. N : n \in P
  <2> HIDE DEF P
  <2> QED
    BY <1>1, <1>2, Induction
<1>4. Upto(N) # {}
  <2>1. N \in P
    <3> HIDE DEF P
    <3> QED
      BY <1>3
  <2> QED
    BY <2>1
<1> QED
  BY <1>4 DEF Recursive

Moves == [from : Nat, to : Nat]

LEMMA MovesAtSet ==
  ASSUME NEW moves \in Seq(Moves), NEW K
  PROVE  /\ MovesAt(moves, K) \in Seq(Moves)
         /\ \A m : m \in ToSet(MovesAt(moves, K))
                     <=> \E k \in DOMAIN moves : k \in K /\ moves[k] = m
<1> DEFINE N == Len(moves)
           V == Seq(Moves)
           none == <<>>
           F == [p \in V \X (1 .. N) |-> KeepMove(p[1], moves, K, p[2])]
           Rec(f) == f = [k \in 0 .. N |->
                           IF k = 0 THEN <<>> ELSE KeepMove(f[k - 1], moves, K, k)]
           kept == CHOOSE f : Rec(f)
<1>1. N \in Nat /\ none \in V /\ DOMAIN moves = 1 .. N /\ \A k \in 1 .. N : moves[k] \in Moves
  OBVIOUS
<1>2. ASSUME NEW s \in V, NEW k \in 1 .. N
      PROVE  /\ KeepMove(s, moves, K, k) \in V
             /\ \A m : m \in ToSet(KeepMove(s, moves, K, k))
                         <=> m \in ToSet(s) \/ (k \in K /\ m = moves[k])
  <2>1. moves[k] \in Moves
    BY <1>1
  <2>2. Append(s, moves[k]) \in V /\ ToSet(Append(s, moves[k])) = ToSet(s) \cup {moves[k]}
    BY <2>1, AppendSet
  <2>3. CASE k \in K
    <3>1. KeepMove(s, moves, K, k) = Append(s, moves[k])
      BY <2>3 DEF KeepMove
    <3> HIDE DEF V, N
    <3> QED
      BY <2>2, <2>3, <3>1
  <2>4. CASE k \notin K
    <3>1. KeepMove(s, moves, K, k) = s
      BY <2>4 DEF KeepMove
    <3> HIDE DEF V, N
    <3> QED
      BY <2>4, <3>1
  <2> QED
    BY <2>3, <2>4
<1>3. F \in [V \X (1 .. N) -> V]
  <2> HIDE DEF V, N
  <2> QED
    BY <1>2
<1>4. Recursive(N, V, none, F) # {}
  <2>1. N \in Nat /\ none \in V
    BY <1>1
  <2> HIDE DEF F, V, N, none
  <2> QED
    BY <2>1, <1>3, Recursion, Zenon
<1>5. PICK f \in [0 .. N -> V] :
             f[0] = none /\ \A k \in 1 .. N : f[k] = F[<<f[k - 1], k>>]
  <2> HIDE DEF F, V, N, none
  <2> QED
    BY <1>4 DEF Recursive
<1>6. Rec(f)
  <2>1. ASSUME NEW k \in 1 .. N
        PROVE  f[k] = KeepMove(f[k - 1], moves, K, k)
    <3>1. k - 1 \in 0 .. N
      BY <1>1
    <3>2. <<f[k - 1], k>> \in V \X (1 .. N)
      BY <3>1
    <3> HIDE DEF V, N
    <3> QED
      BY <1>5, <3>2
  <2> HIDE DEF V, F, N
  <2> QED
    BY <1>1, <1>5, <2>1
<1>7. Rec(kept)
  <2> HIDE DEF Rec
  <2> QED
    BY <1>6
<1>8. /\ kept[0] = none
      /\ \A k \in 1 .. N : kept[k] = KeepMove(kept[k - 1], moves, K, k)
  <2> HIDE DEF kept, N
  <2> QED
    BY <1>1, <1>7
<1>9. MovesAt(moves, K) = kept[N]
  BY DEF MovesAt
<1> HIDE DEF kept, N, none, V
<1> DEFINE P == {n \in 0 .. N :
                  /\ kept[n] \in V
                  /\ \A m : m \in ToSet(kept[n])
                              <=> \E k \in 1 .. n : k \in K /\ moves[k] = m}
<1>10. 0 \in P
  <2>1. \A m : m \notin ToSet(none)
    BY DEF ToSet, none
  <2> QED
    BY <1>1, <1>8, <2>1
<1>11. ASSUME NEW n \in 0 .. N - 1, n \in P
      PROVE  n + 1 \in P
  <2>1. n + 1 \in 1 .. N /\ n + 1 \in 0 .. N /\ (n + 1) - 1 = n
    BY <1>1
  <2>2. kept[n + 1] = KeepMove(kept[n], moves, K, n + 1)
    BY <1>8, <2>1
  <2>3. /\ kept[n + 1] \in V
        /\ \A m : m \in ToSet(kept[n + 1])
                    <=> m \in ToSet(kept[n]) \/ (n + 1 \in K /\ m = moves[n + 1])
    BY <1>2, <1>11, <2>1, <2>2
  <2>4. ASSUME NEW m
        PROVE  m \in ToSet(kept[n + 1]) <=> \E k \in 1 .. n + 1 : k \in K /\ moves[k] = m
    <3>1. m \in ToSet(kept[n]) <=> \E k \in 1 .. n : k \in K /\ moves[k] = m
      BY <1>11
    <3>2. \A k \in 1 .. n + 1 : k \in 1 .. n \/ k = n + 1
      OBVIOUS
    <3> QED
      BY <2>3, <3>1, <3>2
  <2> QED
    BY <2>1, <2>3, <2>4
<1>12. N \in P
  <2>1. \A n \in 0 .. N : n \in P
    <3> HIDE DEF P
    <3> QED
      BY <1>1, <1>10, <1>11, Induction
  <2> HIDE DEF P
  <2> QED
    BY <1>1, <2>1
<1>13. kept[N] \in V /\ \A m : m \in ToSet(kept[N]) <=> \E k \in 1 .. N : k \in K /\ moves[k] = m
  BY <1>12
<1> QED
  BY <1>1, <1>9, <1>13 DEF V

-----------------------------------------------------------------------------
(* What a builder tells. Its old collection has n rows and its new one p,  *)
(* and o[k] is the old index of the new row k, npos when it has none.      *)

Origins(n, p) ==
  {o \in [0 .. p - 1 -> npos .. n - 1] :
    \A j, k \in 0 .. p - 1 : o[j] = o[k] /\ j # k => o[j] = npos}

\* The rows that are neither deleted nor inserted are the same in order.
Kept(D, I, n, p, o) ==
  /\ D \in Intervals(n) /\ I \in Intervals(p)
  /\ unshift(D, n) = unshift(I, p)
  /\ \A k \in (0 .. p - 1) \ I : /\ o[k] \in (0 .. n - 1) \ D
                                 /\ unshift(D, o[k]) = unshift(I, k)

\* A move is one of a row deleted and inserted, and all these have one.
MovesTold(c, o) ==
  /\ c.moves \in Seq(Moves)
  /\ \A m \in ToSet(c.moves) :
       m.from \in c.deletions /\ m.to \in c.insertions /\ o[m.to] = m.from
  /\ \A k \in c.insertions : o[k] # npos => [from |-> o[k], to |-> k] \in ToSet(c.moves)

Builders ==
  [deletions : SUBSET Nat, insertions : SUBSET Nat, modifications : SUBSET Nat,
   moves : Seq(Moves), mapping : {<< >>}]

Told(c, n, p, o) ==
  /\ c \in Builders
  /\ o \in Origins(n, p)
  /\ Kept(c.deletions, c.insertions, n, p, o)
  /\ MovesTold(c, o)

Inserted(o, p, i) ==
  [k \in 0 .. p |-> IF k < i THEN o[k] ELSE IF k = i THEN npos ELSE o[k - 1]]

Removed(o, p, i) == [k \in 0 .. p - 2 |-> IF k < i THEN o[k] ELSE o[k + 1]]

MovedTo(o, p, i, j) ==
  [k \in 0 .. p - 1 |-> IF k = j THEN o[i] ELSE Inserted(Removed(o, p, i), p - 1, j)[k]]

LEMMA KeptShift ==
  ASSUME NEW n \in Nat, NEW p \in Nat, NEW D, NEW I, NEW o, Kept(D, I, n, p, o),
         NEW k \in (0 .. p - 1) \ I
  PROVE  shift(D, unshift(I, k)) = o[k]
<1>1. D \in FiniteIndices
  BY IntervalsFinite DEF Kept
<1>2. o[k] \in Nat \ D /\ unshift(D, o[k]) = unshift(I, k)
  BY DEF Kept
<1> QED
  BY <1>1, <1>2, UnshiftShift

LEMMA KeptInserted ==
  ASSUME NEW n \in Nat, NEW p \in Nat, NEW D, NEW I, NEW o, Kept(D, I, n, p, o),
         NEW i \in 0 .. p, NEW q,
         \A k \in 0 .. p : k # i => q[k] = IF k < i THEN o[k] ELSE o[k - 1]
  PROVE  Kept(D, insert_at(I, i, 1), n, p + 1, q)
<1>1. I \in Intervals(p)
  BY DEF Kept
<1> DEFINE J == insert_at(I, i, 1)
<1>2. /\ J \in Intervals(p + 1)
      /\ \A x \in Nat : x \in J <=> IF x < i THEN x \in I ELSE IF x = i THEN TRUE ELSE x - 1 \in I
      /\ \A x \in Nat : unshift(J, x) = IF x <= i THEN unshift(I, x) ELSE unshift(I, x - 1)
  BY <1>1, InsertAtSet
<1> HIDE DEF J
<1>3. unshift(J, p + 1) = unshift(I, p)
  BY <1>2
<1>4. ASSUME NEW k \in (0 .. (p + 1) - 1) \ J
      PROVE  q[k] \in (0 .. n - 1) \ D /\ unshift(D, q[k]) = unshift(J, k)
  <2>1. CASE k < i
    <3>1. k \in (0 .. p - 1) \ I /\ unshift(J, k) = unshift(I, k) /\ q[k] = o[k]
      BY <1>2, <2>1
    <3> QED
      BY <3>1 DEF Kept
  <2>2. CASE k > i
    <3>1. k - 1 \in (0 .. p - 1) \ I /\ unshift(J, k) = unshift(I, k - 1) /\ q[k] = o[k - 1]
      BY <1>2, <2>2
    <3> QED
      BY <3>1 DEF Kept
  <2>3. k # i
    BY <1>2
  <2> QED
    BY <2>1, <2>2, <2>3
<1>5. Kept(D, J, n, p + 1, q)
  BY <1>2, <1>3, <1>4 DEF Kept
<1> QED
  BY <1>5 DEF J

LEMMA KeptErased ==
  ASSUME NEW n \in Nat, NEW p \in Nat, NEW D, NEW I, NEW o, Kept(D, I, n, p, o),
         NEW i \in 0 .. p - 1
  PROVE  Kept(IF i \in I THEN D ELSE D \cup {o[i]}, erase_at(I, i), n, p - 1, Removed(o, p, i))
<1> DEFINE J == erase_at(I, i)
           E == IF i \in I THEN D ELSE D \cup {o[i]}
           q == Removed(o, p, i)
<1>1. I \in Intervals(p) /\ D \in Intervals(n)
  BY DEF Kept
<1>2. I \in FiniteIndices /\ D \in FiniteIndices
  BY <1>1, IntervalsFinite
<1>3. /\ J \in Intervals(p - 1)
      /\ \A x \in Nat : x \in J <=> IF x < i THEN x \in I ELSE x + 1 \in I
      /\ \A x \in Nat : unshift(J, x) = IF x <= i THEN unshift(I, x)
                          ELSE IF i \in I THEN unshift(I, x + 1) ELSE unshift(I, x + 1) - 1
  BY <1>1, EraseAtSet
<1>4. \A k \in 0 .. (p - 1) - 1 : q[k] = IF k < i THEN o[k] ELSE o[k + 1]
  BY DEF Removed
<1> HIDE DEF J, q
<1>5. unshift(D, n) = unshift(I, p)
  BY DEF Kept
<1>6. \A k \in (0 .. p - 1) \ I : o[k] \in (0 .. n - 1) \ D /\ unshift(D, o[k]) = unshift(I, k)
  BY DEF Kept
<1>7. unshift(J, p - 1) = IF i \in I THEN unshift(I, p) ELSE unshift(I, p) - 1
  <2>1. CASE p - 1 = i
    <3>1. unshift(I, i + 1) = IF i \in I THEN unshift(I, i) ELSE unshift(I, i) + 1
      BY <1>2, UnshiftNext
    <3>2. unshift(I, i) \in Nat /\ i + 1 = p /\ unshift(J, p - 1) = unshift(I, i)
      BY <1>2, <1>3, <2>1, UnshiftNat
    <3> QED
      BY <3>1, <3>2
  <2>2. CASE p - 1 # i
    BY <1>3, <2>2
  <2> QED
    BY <2>1, <2>2
<1>8. CASE i \in I
  <2>1. E = D
    BY <1>8
  <2>2. ASSUME NEW k \in (0 .. (p - 1) - 1) \ J
        PROVE  q[k] \in (0 .. n - 1) \ D /\ unshift(D, q[k]) = unshift(J, k)
    <3>1. CASE k < i
      <4>1. k \in (0 .. p - 1) \ I /\ unshift(J, k) = unshift(I, k) /\ q[k] = o[k]
        BY <1>3, <1>4, <3>1
      <4> QED
        BY <1>6, <4>1
    <3>2. CASE k >= i
      <4>1. k + 1 \in (0 .. p - 1) \ I /\ q[k] = o[k + 1]
        BY <1>3, <1>4, <3>2
      <4>2. unshift(J, k) = unshift(I, k + 1)
        <5>1. CASE k = i
          <6>1. unshift(I, k + 1) = unshift(I, k)
            BY <1>2, <1>8, <5>1, UnshiftNext
          <6> QED
            BY <1>3, <5>1, <6>1
        <5>2. CASE k > i
          BY <1>3, <1>8, <5>2
        <5> QED
          BY <3>2, <5>1, <5>2
      <4> QED
        BY <1>6, <4>1, <4>2
    <3> QED
      BY <3>1, <3>2
  <2>3. Kept(D, J, n, p - 1, q)
    BY <1>1, <1>3, <1>5, <1>7, <1>8, <2>2 DEF Kept
  <2> QED
    BY <2>1, <2>3 DEF J, q
<1>9. CASE i \notin I
  <2>1. E = D \cup {o[i]} /\ o[i] \in (0 .. n - 1) \ D /\ unshift(D, o[i]) = unshift(I, i)
    BY <1>6, <1>9
  <2>3. E \in Intervals(n)
    BY <1>1, <2>1 DEF Intervals
  <2> HIDE DEF E
  <2>2. \A x \in Nat : unshift(E, x) = IF x <= o[i] THEN unshift(D, x) ELSE unshift(D, x) - 1
    <3>1. o[i] \in Nat \ D
      BY <2>1
    <3>2. \A x \in Nat : unshift(D \cup {o[i]}, x)
                         = IF x <= o[i] THEN unshift(D, x) ELSE unshift(D, x) - 1
      BY <1>2, <3>1, AddedSet
    <3> QED
      BY <2>1, <3>2
  <2>4. ASSUME NEW k \in (0 .. (p - 1) - 1) \ J
        PROVE  q[k] \in (0 .. n - 1) \ E /\ unshift(E, q[k]) = unshift(J, k)
    <3>1. CASE k < i
      <4>1. k \in (0 .. p - 1) \ I /\ unshift(J, k) = unshift(I, k) /\ q[k] = o[k]
        BY <1>3, <1>4, <3>1
      <4>2. o[k] \in (0 .. n - 1) \ D /\ unshift(D, o[k]) = unshift(I, k)
        BY <1>6, <4>1
      <4>3. unshift(I, k) < unshift(I, i)
        BY <1>2, <3>1, <4>1, UnshiftLess
      <4>4. o[k] < o[i]
        BY <1>2, <2>1, <4>2, <4>3, UnshiftOrder
      <4> QED
        <5>1. o[k] \in Nat /\ o[i] \in Nat /\ o[k] \notin E
          BY <2>1, <4>2, <4>4
        <5>2. unshift(E, o[k]) = unshift(D, o[k])
          BY <2>2, <4>4, <5>1
        <5> QED
          BY <4>1, <4>2, <5>1, <5>2
    <3>2. CASE k >= i
      <4>1. k + 1 \in (0 .. p - 1) \ I /\ q[k] = o[k + 1]
        BY <1>3, <1>4, <3>2
      <4>2. o[k + 1] \in (0 .. n - 1) \ D /\ unshift(D, o[k + 1]) = unshift(I, k + 1)
        BY <1>6, <4>1
      <4>3. unshift(I, i) < unshift(I, k + 1)
        BY <1>2, <1>9, <3>2, UnshiftLess
      <4>4. o[i] < o[k + 1]
        BY <1>2, <2>1, <4>2, <4>3, UnshiftOrder
      <4>5. unshift(J, k) = unshift(I, k + 1) - 1
        <5>1. CASE k = i
          <6>1. unshift(I, k + 1) = unshift(I, k) + 1 /\ unshift(I, k) \in Nat
            BY <1>2, <1>9, <5>1, UnshiftNext, UnshiftNat
          <6> QED
            BY <1>3, <5>1, <6>1
        <5>2. CASE k > i
          BY <1>3, <1>9, <5>2
        <5> QED
          BY <3>2, <5>1, <5>2
      <4> QED
        <5>1. o[k + 1] \in Nat /\ o[i] \in Nat /\ o[k + 1] \notin E
          BY <2>1, <4>2, <4>4
        <5>2. unshift(E, o[k + 1]) = unshift(D, o[k + 1]) - 1
          BY <2>2, <4>4, <5>1
        <5> QED
          BY <4>1, <4>2, <4>5, <5>1, <5>2
    <3> QED
      BY <3>1, <3>2
  <2>5. unshift(E, n) = unshift(D, n) - 1
    BY <2>1, <2>2
  <2>6. Kept(E, J, n, p - 1, q)
    BY <1>3, <1>5, <1>7, <1>9, <2>3, <2>4, <2>5 DEF Kept
  <2> QED
    BY <2>6 DEF J, q, E
<1> QED
  BY <1>8, <1>9

-----------------------------------------------------------------------------
(* Inserting, erasing and moving a row of a list                           *)

\* What is known of the fields of a builder.
LEMMA BuilderFields ==
  ASSUME NEW c \in Builders
  PROVE  /\ c.deletions \in SUBSET Nat /\ c.insertions \in SUBSET Nat
         /\ c.modifications \in SUBSET Nat /\ c.moves \in Seq(Moves) /\ c.mapping = << >>
         /\ c = [deletions |-> c.deletions, insertions |-> c.insertions,
                 modifications |-> c.modifications, moves |-> c.moves,
                 mapping |-> c.mapping]
  BY DEF Builders

LEMMA SeqFunction ==
  ASSUME NEW V, NEW n \in Nat, NEW q, q \in [1 .. n -> V]
  PROVE  q \in Seq(V) /\ Len(q) = n /\ DOMAIN q = 1 .. n
  OBVIOUS

LEMMA SeqIndices ==
  ASSUME NEW V, NEW s \in Seq(V)
  PROVE  /\ Len(s) \in Nat /\ DOMAIN s = 1 .. Len(s)
         /\ \A k \in 1 .. Len(s) : s[k] \in V
  OBVIOUS

\* The moves of s, with their new indices where t takes them.
Retargeted(s, t) == [k \in DOMAIN s |-> [from |-> s[k].from, to |-> t[s[k].to]]]

LEMMA MovesMapped ==
  ASSUME NEW s \in Seq(Moves), NEW t \in [Nat -> Nat]
  PROVE  /\ Retargeted(s, t) \in Seq(Moves)
         /\ \A m : m \in ToSet(Retargeted(s, t))
                     <=> \E x \in ToSet(s) : m = [from |-> x.from, to |-> t[x.to]]
<1>0. PICK q : q = Retargeted(s, t) /\ q = [k \in DOMAIN s |-> [from |-> s[k].from, to |-> t[s[k].to]]]
  BY DEF Retargeted
<1>1. /\ Len(s) \in Nat /\ DOMAIN s = 1 .. Len(s)
      /\ \A k \in 1 .. Len(s) : s[k] \in Moves
  BY SeqIndices
<1>2. \A k \in 1 .. Len(s) : [from |-> s[k].from, to |-> t[s[k].to]] \in Moves
  BY <1>1 DEF Moves
<1>3. q \in [1 .. Len(s) -> Moves]
  BY <1>0, <1>1, <1>2
<1>4. q \in Seq(Moves) /\ Len(q) = Len(s) /\ DOMAIN q = 1 .. Len(s)
  BY <1>1, <1>3, SeqFunction
<1>5. ASSUME NEW m
      PROVE  m \in ToSet(q) <=> \E x \in ToSet(s) : m = [from |-> x.from, to |-> t[x.to]]
  <2>1. \A k \in 1 .. Len(s) : q[k] = [from |-> s[k].from, to |-> t[s[k].to]]
    BY <1>0, <1>1
  <2>2. ASSUME m \in ToSet(q)
        PROVE  \E x \in ToSet(s) : m = [from |-> x.from, to |-> t[x.to]]
    <3>1. PICK k \in 1 .. Len(s) : q[k] = m
      BY <1>4, <2>2 DEF ToSet
    <3>2. s[k] \in ToSet(s)
      BY <1>1 DEF ToSet
    <3>3. m = [from |-> s[k].from, to |-> t[s[k].to]]
      BY <2>1, <3>1
    <3> QED
      BY <3>2, <3>3, Zenon
  <2>3. ASSUME NEW x \in ToSet(s), m = [from |-> x.from, to |-> t[x.to]]
        PROVE  m \in ToSet(q)
    <3>1. PICK k \in 1 .. Len(s) : s[k] = x
      BY <1>1 DEF ToSet
    <3>2. q[k] = m
      BY <2>1, <2>3, <3>1
    <3> QED
      BY <1>4, <3>2 DEF ToSet
  <2> QED
    BY <2>2, <2>3
<1> QED
  BY <1>0, <1>4, <1>5

\* The new index of a row when one is inserted at i, when the one at i is
\* erased, and when that one moves to j.
InsertTo(i) == [x \in Nat |-> IF x >= i THEN x + 1 ELSE x]
EraseTo(i) == [x \in Nat |-> IF x > i THEN x - 1 ELSE x]
MoveTo(i, j) == [x \in Nat |-> IF x = i THEN j
                               ELSE IF x >= j /\ x < i THEN x + 1
                               ELSE IF x <= j /\ x > i THEN x - 1
                               ELSE x]

\* q has the moves of the set S with their new indices where t takes them.
AreTaken(q, S, t) ==
  /\ q \in Seq(Moves)
  /\ \A m : m \in ToSet(q) <=> \E x \in S : m = [from |-> x.from, to |-> t[x.to]]

LEMMA MovesInsertedSet ==
  ASSUME NEW s \in Seq(Moves), NEW i \in Nat
  PROVE  AreTaken(MovesInserted(s, i), ToSet(s), InsertTo(i))
<1>00. PICK t : t = InsertTo(i)
  OBVIOUS
<1>0. t = [x \in Nat |-> IF x >= i THEN x + 1 ELSE x]
  BY <1>00 DEF InsertTo
<1>1. t \in [Nat -> Nat]
  BY <1>0
<1>2. \A k \in DOMAIN s : s[k] \in [from : Nat, to : Nat]
  BY SeqIndices DEF Moves
<1>3. \A k \in DOMAIN s : [s[k] EXCEPT !.to = IF @ >= i THEN @ + 1 ELSE @]
                          = [from |-> s[k].from, to |-> t[s[k].to]]
  BY <1>0, <1>2
<1>4. MovesInserted(s, i) = Retargeted(s, t)
  BY <1>3 DEF MovesInserted, Retargeted
<1>5. /\ Retargeted(s, t) \in Seq(Moves)
      /\ \A m : m \in ToSet(Retargeted(s, t))
                  <=> \E x \in ToSet(s) : m = [from |-> x.from, to |-> t[x.to]]
  BY <1>1, MovesMapped, Zenon
<1> QED
  BY <1>00, <1>4, <1>5 DEF AreTaken

LEMMA MovesErasedSet ==
  ASSUME NEW s \in Seq(Moves), NEW i \in Nat
  PROVE  AreTaken(MovesErased(s, i), {x \in ToSet(s) : x.to # i}, EraseTo(i))
<1>00. PICK t : t = EraseTo(i)
  OBVIOUS
<1>0. t = [x \in Nat |-> IF x > i THEN x - 1 ELSE x]
  BY <1>00 DEF EraseTo
<1>1. t \in [Nat -> Nat]
  BY <1>0
<1> DEFINE kept == MovesAt(s, {k \in DOMAIN s : s[k].to # i})
<1>2. kept \in Seq(Moves) /\ \A m : m \in ToSet(kept) <=> m \in ToSet(s) /\ m.to # i
  <2>1. /\ kept \in Seq(Moves)
        /\ \A m : m \in ToSet(kept)
                    <=> \E k \in DOMAIN s : k \in {j \in DOMAIN s : s[j].to # i} /\ s[k] = m
    BY MovesAtSet
  <2>2. \A m : m \in ToSet(s) <=> \E k \in DOMAIN s : s[k] = m
    BY DEF ToSet
  <2> HIDE DEF kept
  <2> QED
    BY <2>1, <2>2
<1>3. MovesErased(s, i)
      = [k \in DOMAIN kept |-> [kept[k] EXCEPT !.to = IF @ > i THEN @ - 1 ELSE @]]
  BY DEF MovesErased
<1> HIDE DEF kept
<1>4. \A k \in DOMAIN kept : kept[k] \in [from : Nat, to : Nat]
  BY <1>2, SeqIndices DEF Moves
<1>5. \A k \in DOMAIN kept : [kept[k] EXCEPT !.to = IF @ > i THEN @ - 1 ELSE @]
                             = [from |-> kept[k].from, to |-> t[kept[k].to]]
  BY <1>0, <1>4
<1>6. MovesErased(s, i) = Retargeted(kept, t)
  BY <1>3, <1>5 DEF Retargeted
<1>7. /\ MovesErased(s, i) \in Seq(Moves)
      /\ \A m : m \in ToSet(MovesErased(s, i))
                  <=> \E x \in ToSet(kept) : m = [from |-> x.from, to |-> t[x.to]]
  <2>1. /\ Retargeted(kept, t) \in Seq(Moves)
        /\ \A m : m \in ToSet(Retargeted(kept, t))
                    <=> \E x \in ToSet(kept) : m = [from |-> x.from, to |-> t[x.to]]
    BY <1>1, <1>2, MovesMapped, Zenon
  <2> QED
    BY <1>6, <2>1, Zenon
<1>8. AreTaken(MovesErased(s, i), {x \in ToSet(s) : x.to # i}, t)
  BY <1>2, <1>7 DEF AreTaken
<1> QED
  BY <1>00, <1>8

LEMMA MovesPassedSet ==
  ASSUME NEW s \in Seq(Moves), NEW i \in Nat, NEW j \in Nat
  PROVE  AreTaken(MovesPassed(s, i, j), ToSet(s), MoveTo(i, j))
<1>00. PICK t : t = MoveTo(i, j)
  OBVIOUS
<1>0. t = [x \in Nat |-> IF x = i THEN j
                           ELSE IF x >= j /\ x < i THEN x + 1
                           ELSE IF x <= j /\ x > i THEN x - 1
                           ELSE x]
  BY <1>00 DEF MoveTo
<1>1. t \in [Nat -> Nat]
  BY <1>0
<1>2. \A k \in DOMAIN s : s[k] \in [from : Nat, to : Nat]
  BY SeqIndices DEF Moves
<1>3. ASSUME NEW m \in [from : Nat, to : Nat]
      PROVE  (IF m.to = i THEN [m EXCEPT !.to = j]
              ELSE IF m.to >= j /\ m.to < i THEN [m EXCEPT !.to = @ + 1]
              ELSE IF m.to <= j /\ m.to > i THEN [m EXCEPT !.to = @ - 1]
              ELSE m) = [from |-> m.from, to |-> t[m.to]]
  BY <1>0
<1>4. MovesPassed(s, i, j) = Retargeted(s, t)
  BY <1>2, <1>3 DEF MovesPassed, Retargeted
<1>5. /\ Retargeted(s, t) \in Seq(Moves)
      /\ \A m : m \in ToSet(Retargeted(s, t))
                  <=> \E x \in ToSet(s) : m = [from |-> x.from, to |-> t[x.to]]
  BY <1>1, MovesMapped, Zenon
<1> QED
  BY <1>00, <1>4, <1>5 DEF AreTaken

LEMMA InsertIs ==
  ASSUME NEW c \in Builders, NEW i \in Nat, NEW d, d = insert(c, i, 1, TRUE)
  PROVE  /\ d.deletions = c.deletions /\ d.insertions = insert_at(c.insertions, i, 1)
         /\ d.modifications = shift_for_insert_at(c.modifications, i, 1)
         /\ d.moves = MovesInserted(c.moves, i) /\ d.mapping = << >>
         /\ d = [deletions |-> d.deletions, insertions |-> d.insertions,
                 modifications |-> d.modifications, moves |-> d.moves, mapping |-> d.mapping]
<1>1. MappingInserted(c.mapping, i, 1) = << >>
  <2> DEFINE later(to) == IF to >= i THEN to + 1 ELSE to
  <2>1. c.mapping = << >> /\ DOMAIN c.mapping = {}
    BY BuilderFields
  <2>2. {later(x) : x \in DOMAIN c.mapping} = {}
    BY <2>1
  <2> DEFINE g(to) == c.mapping[CHOOSE x \in DOMAIN c.mapping : later(x) = to]
             S == {later(x) : x \in DOMAIN c.mapping}
  <2>3. MappingInserted(c.mapping, i, 1) = [to \in S |-> g(to)]
    BY DEF MappingInserted
  <2>4. S = {}
    BY <2>2
  <2> HIDE DEF S, g
  <2> QED
    BY <2>3, <2>4
<1>2. c = [deletions |-> c.deletions, insertions |-> c.insertions,
           modifications |-> c.modifications, moves |-> c.moves, mapping |-> c.mapping]
  BY BuilderFields
<1>3. d = [[c EXCEPT !.modifications = shift_for_insert_at(@, i, 1)] EXCEPT
            !.insertions = insert_at(@, i, 1), !.moves = MovesInserted(@, i),
            !.mapping = MappingInserted(@, i, 1)]
  BY DEF insert
<1> QED
  BY <1>1, <1>2, <1>3

LEMMA EraseIs ==
  ASSUME NEW c \in Builders, c.insertions \in FiniteIndices, NEW i \in Nat,
         NEW d, d = erase(c, i)
  PROVE  /\ d.deletions = IF i \in c.insertions THEN c.deletions
                          ELSE AddShifted(c.deletions, unshift(c.insertions, i))
         /\ d.insertions = erase_at(c.insertions, i)
         /\ d.modifications = erase_at(c.modifications, i)
         /\ d.moves = MovesErased(c.moves, i) /\ d.mapping = << >>
         /\ d = [deletions |-> d.deletions, insertions |-> d.insertions,
                 modifications |-> d.modifications, moves |-> d.moves, mapping |-> d.mapping]
<1>1. (erase_or_unshift(c.insertions, i) = npos) <=> i \in c.insertions
  <2>1. unshift(c.insertions, i) \in Nat
    BY UnshiftNat
  <2> QED
    BY <2>1 DEF erase_or_unshift, npos
<1>2. i \notin c.insertions => erase_or_unshift(c.insertions, i) = unshift(c.insertions, i)
  BY DEF erase_or_unshift
<1>3. c = [deletions |-> c.deletions, insertions |-> c.insertions,
           modifications |-> c.modifications, moves |-> c.moves, mapping |-> c.mapping]
  BY BuilderFields
<1> DEFINE u == erase_or_unshift(c.insertions, i)
           del == IF u = npos THEN c.deletions ELSE AddShifted(c.deletions, u)
           e == Erased(c, i)
<1>4. e = [[c EXCEPT !.insertions = erase_at(@, i)] EXCEPT !.deletions = del]
  BY <1>3 DEF Erased
<1>5. d = [e EXCEPT !.modifications = erase_at(@, i), !.moves = MovesErased(@, i)]
  BY DEF erase
<1> HIDE DEF u, del, e
<1>6. e = [deletions |-> del, insertions |-> erase_at(c.insertions, i),
           modifications |-> c.modifications, moves |-> c.moves, mapping |-> c.mapping]
  BY <1>3, <1>4
<1>7. d = [deletions |-> del, insertions |-> erase_at(c.insertions, i),
           modifications |-> erase_at(c.modifications, i),
           moves |-> MovesErased(c.moves, i), mapping |-> c.mapping]
  BY <1>5, <1>6
<1>8. c.mapping = << >>
  BY BuilderFields
<1>9. del = IF i \in c.insertions THEN c.deletions
            ELSE AddShifted(c.deletions, unshift(c.insertions, i))
  BY <1>1, <1>2 DEF u, del
<1> QED
  BY <1>7, <1>8, <1>9

\* A builder with what it must have.
LEMMA IsTold ==
  ASSUME NEW n \in Nat, NEW p \in Nat, NEW o \in Origins(n, p), NEW d,
         Kept(d.deletions, d.insertions, n, p, o), MovesTold(d, o),
         d.modifications \in SUBSET Nat, d.mapping = << >>,
         d = [deletions |-> d.deletions, insertions |-> d.insertions,
              modifications |-> d.modifications, moves |-> d.moves, mapping |-> d.mapping]
  PROVE  Told(d, n, p, o)
<1>1. d.deletions \in Intervals(n) /\ d.insertions \in Intervals(p) /\ d.moves \in Seq(Moves)
  BY DEF Kept, MovesTold
<1>2. d.deletions \in SUBSET Nat /\ d.insertions \in SUBSET Nat
  BY <1>1 DEF Intervals
<1>3. d \in Builders
  BY <1>1, <1>2 DEF Builders
<1> QED
  BY <1>3 DEF Told

LEMMA OriginsInserted ==
  ASSUME NEW n \in Nat, NEW p \in Nat, NEW o \in Origins(n, p), NEW i \in 0 .. p
  PROVE  Inserted(o, p, i) \in Origins(n, p + 1)
<1>1. /\ o \in [0 .. p - 1 -> npos .. n - 1]
      /\ \A j, k \in 0 .. p - 1 : o[j] = o[k] /\ j # k => o[j] = npos
  BY DEF Origins
<1>2. PICK q : q = Inserted(o, p, i)
  OBVIOUS
<1>3. \A k \in 0 .. p : q[k] = IF k < i THEN o[k] ELSE IF k = i THEN npos ELSE o[k - 1]
  BY <1>2 DEF Inserted
<1>4. ASSUME NEW k \in 0 .. p
      PROVE  q[k] \in npos .. n - 1
  <2>1. CASE k < i
    BY <1>1, <1>3, <2>1
  <2>2. CASE k = i
    BY <1>3, <2>2 DEF npos
  <2>3. CASE k > i
    <3>1. k - 1 \in 0 .. p - 1 /\ q[k] = o[k - 1]
      BY <1>3, <2>3
    <3> QED
      BY <1>1, <3>1
  <2> QED
    BY <2>1, <2>2, <2>3
<1>5. q \in [0 .. (p + 1) - 1 -> npos .. n - 1]
  BY <1>2, <1>4 DEF Inserted
<1>6. ASSUME NEW j \in 0 .. p, NEW k \in 0 .. p, q[j] = q[k], j # k
      PROVE  q[j] = npos
  BY <1>1, <1>3, <1>6
<1> QED
  BY <1>2, <1>5, <1>6 DEF Origins

LEMMA OriginsRemoved ==
  ASSUME NEW n \in Nat, NEW p \in Nat, NEW o \in Origins(n, p), NEW i \in 0 .. p - 1
  PROVE  Removed(o, p, i) \in Origins(n, p - 1)
<1>1. /\ o \in [0 .. p - 1 -> npos .. n - 1]
      /\ \A j, k \in 0 .. p - 1 : o[j] = o[k] /\ j # k => o[j] = npos
  BY DEF Origins
<1>2. PICK q : q = Removed(o, p, i)
  OBVIOUS
<1>3. \A k \in 0 .. p - 2 : q[k] = IF k < i THEN o[k] ELSE o[k + 1]
  BY <1>2 DEF Removed
<1>4. \A k \in 0 .. p - 2 : q[k] \in npos .. n - 1
  BY <1>1, <1>3 DEF npos
<1>5. q \in [0 .. (p - 1) - 1 -> npos .. n - 1]
  BY <1>2, <1>4 DEF Removed
<1>6. ASSUME NEW j \in 0 .. (p - 1) - 1, NEW k \in 0 .. (p - 1) - 1, q[j] = q[k], j # k
      PROVE  q[j] = npos
  <2> DEFINE old(x) == IF x < i THEN x ELSE x + 1
  <2>1. old(j) \in 0 .. p - 1 /\ old(k) \in 0 .. p - 1 /\ old(j) # old(k)
    BY <1>6
  <2>2. q[j] = o[old(j)] /\ q[k] = o[old(k)]
    BY <1>3
  <2> HIDE DEF old
  <2> QED
    BY <1>1, <1>6, <2>1, <2>2
<1> QED
  BY <1>2, <1>5, <1>6 DEF Origins

\* q is o with the row at i moved to j.
IsMovedTo(q, n, p, o, i, j) ==
  /\ q \in Origins(n, p)
  /\ \A k \in 0 .. p - 1 :
       q[k] = IF k = j THEN o[i]
              ELSE IF k < j THEN IF k < i THEN o[k] ELSE o[k + 1]
              ELSE IF k - 1 < i THEN o[k - 1] ELSE o[k]

LEMMA OriginsMoved ==
  ASSUME NEW n \in Nat, NEW p \in Nat, NEW o \in Origins(n, p),
         NEW i \in 0 .. p - 1, NEW j \in 0 .. p - 1
  PROVE  IsMovedTo(MovedTo(o, p, i, j), n, p, o, i, j)
<1>1. /\ o \in [0 .. p - 1 -> npos .. n - 1]
      /\ \A x, k \in 0 .. p - 1 : o[x] = o[k] /\ x # k => o[x] = npos
  BY DEF Origins
<1>2. PICK q : q = MovedTo(o, p, i, j)
  OBVIOUS
<1>3. \A k \in 0 .. p - 1 :
        q[k] = IF k = j THEN o[i]
               ELSE IF k < j THEN IF k < i THEN o[k] ELSE o[k + 1]
               ELSE IF k - 1 < i THEN o[k - 1] ELSE o[k]
  <2>1. \A k \in 0 .. p - 1 :
          q[k] = IF k = j THEN o[i] ELSE Inserted(Removed(o, p, i), p - 1, j)[k]
    BY <1>2 DEF MovedTo
  <2>2. \A k \in 0 .. p - 2 : Removed(o, p, i)[k] = IF k < i THEN o[k] ELSE o[k + 1]
    BY DEF Removed
  <2>3. \A k \in 0 .. p - 1 :
          Inserted(Removed(o, p, i), p - 1, j)[k]
          = IF k < j THEN Removed(o, p, i)[k]
            ELSE IF k = j THEN npos ELSE Removed(o, p, i)[k - 1]
    BY DEF Inserted
  <2>4. ASSUME NEW k \in 0 .. p - 1, k < j
        PROVE  Removed(o, p, i)[k] = IF k < i THEN o[k] ELSE o[k + 1]
    BY <2>2, <2>4
  <2>5. ASSUME NEW k \in 0 .. p - 1, k > j
        PROVE  Removed(o, p, i)[k - 1] = IF k - 1 < i THEN o[k - 1] ELSE o[k]
    BY <2>2, <2>5
  <2> QED
    BY <2>1, <2>3, <2>4, <2>5
<1>4. \A k \in 0 .. p - 1 : q[k] \in npos .. n - 1
  BY <1>1, <1>3 DEF npos
<1>5. q \in [0 .. p - 1 -> npos .. n - 1]
  BY <1>2, <1>4 DEF MovedTo
<1>6. ASSUME NEW x \in 0 .. p - 1, NEW k \in 0 .. p - 1, q[x] = q[k], x # k
      PROVE  q[x] = npos
  <2> DEFINE Source(y) == IF y = j THEN i
                          ELSE IF y < j THEN IF y < i THEN y ELSE y + 1
                          ELSE IF y - 1 < i THEN y - 1 ELSE y
  <2>1. \A y \in 0 .. p - 1 : Source(y) \in 0 .. p - 1
    OBVIOUS
  <2>2. \A y \in 0 .. p - 1 : q[y] = o[Source(y)]
    BY <1>3
  <2>3. Source(x) # Source(k)
    BY <1>6
  <2> HIDE DEF Source
  <2>4. PICK u \in 0 .. p - 1, v \in 0 .. p - 1 : u = Source(x) /\ v = Source(k)
    BY <2>1
  <2>5. o[u] = o[v] /\ u # v /\ q[x] = o[u]
    BY <1>6, <2>2, <2>3, <2>4
  <2> QED
    BY <1>1, <2>5
<1>7. q \in Origins(n, p)
  BY <1>5, <1>6 DEF Origins
<1>8. IsMovedTo(q, n, p, o, i, j)
  BY <1>3, <1>7 DEF IsMovedTo
<1> QED
  BY <1>2, <1>8

\* Inserting a row.
LEMMA InsertTold ==
  ASSUME NEW n \in Nat, NEW p \in Nat, NEW o, NEW c, Told(c, n, p, o), NEW i \in 0 .. p
  PROVE  Told(insert(c, i, 1, TRUE), n, p + 1, Inserted(o, p, i))
<1>1. PICK d : d = insert(c, i, 1, TRUE)
  OBVIOUS
<1>2. PICK q : q = Inserted(o, p, i)
  OBVIOUS
<1>3. c \in Builders /\ o \in Origins(n, p) /\ Kept(c.deletions, c.insertions, n, p, o)
      /\ c.insertions \in Intervals(p)
  BY DEF Told, Kept
<1>4. /\ d.deletions = c.deletions /\ d.insertions = insert_at(c.insertions, i, 1)
      /\ d.modifications = shift_for_insert_at(c.modifications, i, 1)
      /\ d.moves = MovesInserted(c.moves, i) /\ d.mapping = << >>
      /\ d = [deletions |-> d.deletions, insertions |-> d.insertions,
              modifications |-> d.modifications, moves |-> d.moves, mapping |-> d.mapping]
  <2>1. i \in Nat
    OBVIOUS
  <2> QED
    BY <1>1, <1>3, <2>1, InsertIs, Zenon
<1>5. \A k \in 0 .. p : q[k] = IF k < i THEN o[k] ELSE IF k = i THEN npos ELSE o[k - 1]
  BY <1>2 DEF Inserted
<1>6. Kept(d.deletions, d.insertions, n, p + 1, q)
  BY <1>3, <1>4, <1>5, KeptInserted
<1>7. q \in Origins(n, p + 1)
  BY <1>2, <1>3, OriginsInserted
<1>8. d.modifications \in SUBSET Nat
  <2>1. c.modifications \in SUBSET Nat
    BY <1>3, BuilderFields
  <2>2. \A x \in shift_for_insert_at(c.modifications, i, 1) : x \in Nat
    BY <2>1 DEF shift_for_insert_at
  <2> QED
    BY <1>4, <2>2
<1>9. MovesTold(d, q)
  <2>1. /\ c.moves \in Seq(Moves)
        /\ \A m \in ToSet(c.moves) :
             m.from \in c.deletions /\ m.to \in c.insertions /\ o[m.to] = m.from
        /\ \A k \in c.insertions : o[k] # npos => [from |-> o[k], to |-> k] \in ToSet(c.moves)
    BY DEF Told, MovesTold
<2>2. PICK t : t = InsertTo(i)
    OBVIOUS
  <2>3. /\ d.moves \in Seq(Moves)
        /\ \A m : m \in ToSet(d.moves)
                    <=> \E x \in ToSet(c.moves) : m = [from |-> x.from, to |-> t[x.to]]
    <3>1. AreTaken(MovesInserted(c.moves, i), ToSet(c.moves), InsertTo(i))
      BY <2>1, MovesInsertedSet
    <3>2. d.moves = MovesInserted(c.moves, i)
      BY <1>4
    <3> QED
      BY <2>2, <3>1, <3>2 DEF AreTaken
  <2>4. \A x \in Nat : t[x] = IF x >= i THEN x + 1 ELSE x
    BY <2>2 DEF InsertTo
  <2>5. \A x \in Nat : x \in d.insertions
          <=> IF x < i THEN x \in c.insertions ELSE IF x = i THEN TRUE ELSE x - 1 \in c.insertions
    BY <1>3, <1>4, InsertAtSet
  <2>6. \A k \in c.insertions : k \in 0 .. p - 1
    BY <1>3 DEF Intervals
  <2>7. ASSUME NEW m \in ToSet(d.moves)
        PROVE  m.from \in d.deletions /\ m.to \in d.insertions /\ q[m.to] = m.from
    <3>1. PICK x \in ToSet(c.moves) : m = [from |-> x.from, to |-> t[x.to]]
      BY <2>3
    <3>2. x.from \in c.deletions /\ x.to \in c.insertions /\ o[x.to] = x.from
          /\ x.to \in 0 .. p - 1
      BY <2>1, <2>6
    <3>3. m.from = x.from /\ m.to = IF x.to >= i THEN x.to + 1 ELSE x.to
      BY <2>4, <3>1, <3>2
    <3>4. m.to \in d.insertions
      BY <2>5, <3>2, <3>3
    <3>5. q[m.to] = o[x.to]
      BY <1>5, <3>2, <3>3
    <3> QED
      BY <1>4, <3>2, <3>3, <3>4, <3>5
  <2>8. ASSUME NEW k \in d.insertions, q[k] # npos
        PROVE  [from |-> q[k], to |-> k] \in ToSet(d.moves)
    <3>1. k \in 0 .. p /\ k # i
      <4>1. d.insertions \in Intervals(p + 1)
        BY <1>6 DEF Kept
      <4> QED
        BY <1>5, <2>8, <4>1 DEF Intervals
    <3>2. PICK x \in c.insertions : k = t[x] /\ q[k] = o[x]
      <4>1. CASE k < i
        <5>1. k \in c.insertions /\ q[k] = o[k] /\ t[k] = k
          BY <1>5, <2>4, <2>5, <3>1, <4>1
        <5> QED
          BY <5>1
      <4>2. CASE k > i
        <5>1. k - 1 \in c.insertions /\ q[k] = o[k - 1] /\ t[k - 1] = k
          BY <1>5, <2>4, <2>5, <3>1, <4>2
        <5> QED
          BY <5>1
      <4> QED
        BY <3>1, <4>1, <4>2
    <3>3. [from |-> o[x], to |-> x] \in ToSet(c.moves)
      BY <2>1, <2>8, <3>2
    <3>4. \E y \in ToSet(c.moves) : [from |-> q[k], to |-> k] = [from |-> y.from, to |-> t[y.to]]
      BY <3>2, <3>3
    <3> QED
      BY <2>3, <3>4
  <2> QED
    BY <2>3, <2>7, <2>8 DEF MovesTold
<1>10. p + 1 \in Nat
  OBVIOUS
<1>11. Told(d, n, p + 1, q)
  BY <1>4, <1>6, <1>7, <1>8, <1>9, <1>10, IsTold, Zenon
<1> QED
  BY <1>1, <1>2, <1>11

\* Erasing a row.
LEMMA EraseTold ==
  ASSUME NEW n \in Nat, NEW p \in Nat, NEW o, NEW c, Told(c, n, p, o), NEW i \in 0 .. p - 1
  PROVE  Told(erase(c, i), n, p - 1, Removed(o, p, i))
<1>1. PICK d : d = erase(c, i)
  OBVIOUS
<1>2. PICK q : q = Removed(o, p, i)
  OBVIOUS
<1>3. c \in Builders /\ o \in Origins(n, p) /\ Kept(c.deletions, c.insertions, n, p, o)
      /\ c.insertions \in Intervals(p) /\ c.deletions \in Intervals(n)
  BY DEF Told, Kept
<1>4. c.insertions \in FiniteIndices /\ c.deletions \in FiniteIndices
      /\ i \in Nat /\ p - 1 \in Nat
  <2>1. i \in Nat /\ p - 1 \in Nat
    OBVIOUS
  <2> QED
    BY <1>3, <2>1, IntervalsFinite
<1>5. /\ d.deletions = IF i \in c.insertions THEN c.deletions
                       ELSE AddShifted(c.deletions, unshift(c.insertions, i))
      /\ d.insertions = erase_at(c.insertions, i)
      /\ d.modifications = erase_at(c.modifications, i)
      /\ d.moves = MovesErased(c.moves, i) /\ d.mapping = << >>
      /\ d = [deletions |-> d.deletions, insertions |-> d.insertions,
              modifications |-> d.modifications, moves |-> d.moves, mapping |-> d.mapping]
  BY <1>1, <1>3, <1>4, EraseIs, Zenon
<1>6. d.deletions = IF i \in c.insertions THEN c.deletions ELSE c.deletions \cup {o[i]}
  <2>1. CASE i \in c.insertions
    BY <1>5, <2>1
  <2>2. CASE i \notin c.insertions
    <3>1. shift(c.deletions, unshift(c.insertions, i)) = o[i]
      BY <1>3, <2>2, KeptShift
    <3> QED
      BY <1>5, <2>2, <3>1 DEF AddShifted
  <2> QED
    BY <2>1, <2>2
<1>7. \A k \in 0 .. p - 2 : q[k] = IF k < i THEN o[k] ELSE o[k + 1]
  BY <1>2 DEF Removed
<1>8. Kept(d.deletions, d.insertions, n, p - 1, q)
  <2>1. Kept(IF i \in c.insertions THEN c.deletions ELSE c.deletions \cup {o[i]},
             erase_at(c.insertions, i), n, p - 1, Removed(o, p, i))
    BY <1>3, KeptErased, Zenon
  <2> QED
    BY <1>2, <1>5, <1>6, <2>1, Zenon
<1>9. q \in Origins(n, p - 1)
  BY <1>2, <1>3, OriginsRemoved
<1>10. d.modifications \in SUBSET Nat
  <2>1. c.modifications \in SUBSET Nat
    BY <1>3, BuilderFields
  <2>2. ASSUME NEW x \in erase_at(c.modifications, i)
        PROVE  x \in Nat
    <3>1. (x \in c.modifications /\ x < i) \/ \E y \in c.modifications : y > i /\ x = y - 1
      BY DEF erase_at
    <3> QED
      BY <1>4, <2>1, <3>1
  <2> QED
    BY <1>5, <2>2
<1>11. MovesTold(d, q)
  <2>1. /\ c.moves \in Seq(Moves)
        /\ \A m \in ToSet(c.moves) :
             m.from \in c.deletions /\ m.to \in c.insertions /\ o[m.to] = m.from
        /\ \A k \in c.insertions : o[k] # npos => [from |-> o[k], to |-> k] \in ToSet(c.moves)
    BY DEF Told, MovesTold
  <2>2. PICK t : t = EraseTo(i)
    OBVIOUS
  <2>3. /\ d.moves \in Seq(Moves)
        /\ \A m : m \in ToSet(d.moves)
                    <=> \E x \in ToSet(c.moves) :
                          x.to # i /\ m = [from |-> x.from, to |-> t[x.to]]
    <3>1. AreTaken(MovesErased(c.moves, i), {x \in ToSet(c.moves) : x.to # i}, EraseTo(i))
      BY <1>4, <2>1, MovesErasedSet
    <3>2. d.moves = MovesErased(c.moves, i)
      BY <1>5
    <3>3. PICK S : S = {x \in ToSet(c.moves) : x.to # i}
      OBVIOUS
    <3>4. AreTaken(d.moves, S, t) /\ \A x : x \in S <=> x \in ToSet(c.moves) /\ x.to # i
      BY <2>2, <3>1, <3>2, <3>3
    <3> QED
      BY <3>4 DEF AreTaken
  <2>4. \A x \in Nat : t[x] = IF x > i THEN x - 1 ELSE x
    BY <2>2 DEF EraseTo
  <2>5. \A x \in Nat : x \in d.insertions
          <=> IF x < i THEN x \in c.insertions ELSE x + 1 \in c.insertions
    BY <1>3, <1>5, EraseAtSet
  <2>6. \A k \in c.insertions : k \in 0 .. p - 1
    BY <1>3 DEF Intervals
  <2>7. c.deletions \subseteq d.deletions
    BY <1>6
  <2>8. ASSUME NEW m \in ToSet(d.moves)
        PROVE  m.from \in d.deletions /\ m.to \in d.insertions /\ q[m.to] = m.from
    <3>1. PICK x \in ToSet(c.moves) : x.to # i /\ m = [from |-> x.from, to |-> t[x.to]]
      BY <2>3
    <3>2. x.from \in c.deletions /\ x.to \in c.insertions /\ o[x.to] = x.from
          /\ x.to \in 0 .. p - 1
      BY <2>1, <2>6
    <3>3. m.from = x.from /\ m.to = IF x.to > i THEN x.to - 1 ELSE x.to
      BY <2>4, <3>1, <3>2
    <3>4. m.to \in d.insertions
      BY <2>5, <3>1, <3>2, <3>3
    <3>5. q[m.to] = o[x.to]
      BY <1>7, <3>1, <3>2, <3>3
    <3> QED
      BY <2>7, <3>2, <3>3, <3>4, <3>5
  <2>9. ASSUME NEW k \in d.insertions, q[k] # npos
        PROVE  [from |-> q[k], to |-> k] \in ToSet(d.moves)
    <3>1. k \in 0 .. p - 2
      <4>1. d.insertions \in Intervals(p - 1)
        BY <1>8 DEF Kept
      <4> QED
        BY <4>1 DEF Intervals
    <3>2. PICK x \in c.insertions : x # i /\ k = t[x] /\ q[k] = o[x]
      <4>1. CASE k < i
        <5>1. k \in c.insertions /\ q[k] = o[k] /\ t[k] = k /\ k # i
          BY <1>7, <2>4, <2>5, <3>1, <4>1
        <5> QED
          BY <5>1
      <4>2. CASE k >= i
        <5>1. k + 1 \in c.insertions /\ q[k] = o[k + 1] /\ t[k + 1] = k /\ k + 1 # i
          BY <1>7, <2>4, <2>5, <3>1, <4>2
        <5> QED
          BY <5>1
      <4> QED
        BY <3>1, <4>1, <4>2
    <3>3. [from |-> o[x], to |-> x] \in ToSet(c.moves)
      BY <2>1, <2>9, <3>2
    <3>4. \E y \in ToSet(c.moves) :
            y.to # i /\ [from |-> q[k], to |-> k] = [from |-> y.from, to |-> t[y.to]]
      BY <3>2, <3>3
    <3> QED
      BY <2>3, <3>4
  <2> QED
    BY <2>3, <2>8, <2>9 DEF MovesTold
<1>12. Told(d, n, p - 1, q)
  BY <1>4, <1>5, <1>8, <1>9, <1>10, <1>11, IsTold, Zenon
<1> QED
  BY <1>1, <1>2, <1>12

\* Moving a row: as erasing and inserting it, but the row is the same.
IsMoved(d, c, i, j) ==
  /\ d.deletions = IF i \in c.insertions THEN c.deletions
                   ELSE c.deletions
                        \cup {shift(c.deletions, unshift(c.insertions, i))}
  /\ d.insertions = insert_at(erase_at(c.insertions, i), j, 1)
  /\ d.modifications = Moved(c.modifications, i, j)
  /\ d.moves = IF i \in c.insertions THEN MovesPassed(c.moves, i, j)
               ELSE Append(MovesPassed(c.moves, i, j),
                           [from |-> shift(c.deletions, unshift(c.insertions, i)),
                            to |-> j])
  /\ d.mapping = << >>
  /\ d = [deletions |-> d.deletions, insertions |-> d.insertions,
          modifications |-> d.modifications, moves |-> d.moves, mapping |-> d.mapping]

LEMMA MoveIs ==
  ASSUME NEW c \in Builders, NEW i \in Nat, NEW j \in Nat, NEW d, d = move(c, i, j),
         c.insertions \in FiniteIndices,
         \A m \in ToSet(c.moves) : m.to \in c.insertions
  PROVE  IsMoved(d, c, i, j)
<1>0. PICK a : a = shift(c.deletions, unshift(c.insertions, i))
  OBVIOUS
<1> DEFINE u == erase_or_unshift(c.insertions, i)
           new == MovesTo(c, i) = {} /\ u # npos
           passed == MovesPassed(c.moves, i, j)
           moves == IF new THEN Append(passed, [from |-> shift(c.deletions, u), to |-> j])
                    ELSE passed
           del == IF new THEN c.deletions \cup {shift(c.deletions, u)} ELSE c.deletions
<1>1. new <=> i \notin c.insertions
  <2>1. u # npos <=> i \notin c.insertions
    <3>1. unshift(c.insertions, i) \in Nat
      BY UnshiftNat
    <3> QED
      BY <3>1 DEF erase_or_unshift, npos
  <2>2. i \notin c.insertions => MovesTo(c, i) = {}
    <3>1. \A k \in DOMAIN c.moves : c.moves[k] \in ToSet(c.moves)
      BY DEF ToSet
    <3> QED
      BY <3>1 DEF MovesTo
  <2> HIDE DEF u
  <2> QED
    BY <2>1, <2>2
<1>2. i \notin c.insertions => shift(c.deletions, u) = a
  BY <1>0 DEF erase_or_unshift
<1>3. c = [deletions |-> c.deletions, insertions |-> c.insertions,
           modifications |-> c.modifications, moves |-> c.moves, mapping |-> c.mapping]
  BY BuilderFields
<1>4. d = [c EXCEPT !.moves = moves, !.deletions = del,
                    !.insertions = insert_at(erase_at(@, i), j, 1),
                    !.modifications = Moved(@, i, j)]
  BY DEF move
<1>5. del = IF i \in c.insertions THEN c.deletions ELSE c.deletions \cup {a}
  <2> HIDE DEF u, new
  <2> QED
    BY <1>1, <1>2
<1>6. moves = IF i \in c.insertions THEN passed ELSE Append(passed, [from |-> a, to |-> j])
  <2> HIDE DEF u, new, passed
  <2> QED
    BY <1>1, <1>2
<1> HIDE DEF moves, del
<1>7. d = [deletions |-> del, insertions |-> insert_at(erase_at(c.insertions, i), j, 1),
           modifications |-> Moved(c.modifications, i, j), moves |-> moves,
           mapping |-> c.mapping]
  BY <1>3, <1>4
<1>8. c.mapping = << >>
  BY BuilderFields
<1> HIDE DEF passed
<1> QED
  BY <1>0, <1>5, <1>6, <1>7, <1>8 DEF passed, IsMoved

LEMMA MoveTold ==
  ASSUME NEW n \in Nat, NEW p \in Nat, NEW o, NEW c, Told(c, n, p, o),
         NEW i \in 0 .. p - 1, NEW j \in 0 .. p - 1
  PROVE  Told(move(c, i, j), n, p, MovedTo(o, p, i, j))
<1>1. PICK d : d = move(c, i, j)
  OBVIOUS
<1>2. PICK q : q = MovedTo(o, p, i, j)
  OBVIOUS
<1>3. c \in Builders /\ o \in Origins(n, p) /\ Kept(c.deletions, c.insertions, n, p, o)
      /\ c.insertions \in Intervals(p) /\ c.deletions \in Intervals(n)
  BY DEF Told, Kept
<1>4. c.insertions \in FiniteIndices /\ i \in Nat /\ j \in Nat /\ p - 1 \in Nat
      /\ p - 1 + 1 = p /\ j \in 0 .. p - 1
  <2>1. i \in Nat /\ j \in Nat /\ p - 1 \in Nat /\ p - 1 + 1 = p
    OBVIOUS
  <2> QED
    BY <1>3, <2>1, IntervalsFinite
<1>5. /\ c.moves \in Seq(Moves)
      /\ \A m \in ToSet(c.moves) :
           m.from \in c.deletions /\ m.to \in c.insertions /\ o[m.to] = m.from
      /\ \A k \in c.insertions : o[k] # npos => [from |-> o[k], to |-> k] \in ToSet(c.moves)
  BY DEF Told, MovesTold
<1>6. PICK a : a = shift(c.deletions, unshift(c.insertions, i))
  OBVIOUS
<1>7. i \notin c.insertions => a = o[i]
  BY <1>3, <1>6, KeptShift
<1>8. /\ d.deletions = IF i \in c.insertions THEN c.deletions ELSE c.deletions \cup {a}
      /\ d.insertions = insert_at(erase_at(c.insertions, i), j, 1)
      /\ d.modifications = Moved(c.modifications, i, j)
      /\ d.moves = IF i \in c.insertions THEN MovesPassed(c.moves, i, j)
                   ELSE Append(MovesPassed(c.moves, i, j), [from |-> a, to |-> j])
      /\ d.mapping = << >>
      /\ d = [deletions |-> d.deletions, insertions |-> d.insertions,
              modifications |-> d.modifications, moves |-> d.moves, mapping |-> d.mapping]
  <2>1. \A m \in ToSet(c.moves) : m.to \in c.insertions
    BY <1>5
  <2> QED
    <3>1. c \in Builders /\ i \in Nat /\ j \in Nat /\ c.insertions \in FiniteIndices
      BY <1>3, <1>4
    <3> QED
      <4>1. IsMoved(d, c, i, j)
        BY <1>1, <2>1, <3>1, MoveIs
      <4> QED
        BY <1>6, <4>1 DEF IsMoved
<1>9. q \in Origins(n, p)
      /\ \A k \in 0 .. p - 1 :
           q[k] = IF k = j THEN o[i]
                  ELSE IF k < j THEN IF k < i THEN o[k] ELSE o[k + 1]
                  ELSE IF k - 1 < i THEN o[k - 1] ELSE o[k]
  <2>1. IsMovedTo(q, n, p, o, i, j)
    BY <1>2, <1>3, OriginsMoved
  <2> QED
    BY <2>1 DEF IsMovedTo
<1>10. Kept(d.deletions, d.insertions, n, p, q)
  <2>1. PICK e : e = IF i \in c.insertions THEN c.deletions ELSE c.deletions \cup {o[i]}
    OBVIOUS
  <2>2. Kept(e, erase_at(c.insertions, i), n, p - 1, Removed(o, p, i))
    BY <1>3, <2>1, KeptErased, Zenon
  <2>3. \A k \in 0 .. p - 1 : k # j => q[k] = IF k < j THEN Removed(o, p, i)[k]
                                              ELSE Removed(o, p, i)[k - 1]
    <3>1. \A k \in 0 .. p - 2 : Removed(o, p, i)[k] = IF k < i THEN o[k] ELSE o[k + 1]
      BY DEF Removed
    <3>2. ASSUME NEW k \in 0 .. p - 1, k < j
          PROVE  q[k] = Removed(o, p, i)[k]
      BY <1>9, <3>1, <3>2
    <3>3. ASSUME NEW k \in 0 .. p - 1, k > j
          PROVE  q[k] = Removed(o, p, i)[k - 1]
      <4>1. k - 1 \in 0 .. p - 2
        BY <3>3
      <4>2. Removed(o, p, i)[k - 1] = IF k - 1 < i THEN o[k - 1] ELSE o[k - 1 + 1]
        BY <3>1, <4>1
      <4> QED
        BY <1>9, <3>3, <4>2
    <3> QED
      BY <3>2, <3>3
  <2>4. Kept(e, insert_at(erase_at(c.insertions, i), j, 1), n, p - 1 + 1, q)
    <3>1. PICK r : r = Removed(o, p, i)
      OBVIOUS
    <3>2. PICK J : J = erase_at(c.insertions, i)
      OBVIOUS
    <3>3. \A k \in 0 .. p - 1 : k # j => q[k] = IF k < j THEN r[k] ELSE r[k - 1]
      BY <2>3, <3>1
    <3>4. Kept(e, J, n, p - 1, r) /\ p - 1 \in Nat /\ j \in 0 .. p - 1
      BY <1>4, <2>2, <3>1, <3>2
    <3>5. Kept(e, insert_at(J, j, 1), n, p - 1 + 1, q)
      BY <3>3, <3>4, KeptInserted, Zenon
    <3> QED
      BY <3>2, <3>5
  <2>5. e = d.deletions
    BY <1>7, <1>8, <2>1
  <2> QED
    BY <1>4, <1>8, <2>4, <2>5
<1>11. \A x \in Nat : x \in d.insertions
         <=> IF x < j THEN IF x < i THEN x \in c.insertions ELSE x + 1 \in c.insertions
             ELSE IF x = j THEN TRUE
             ELSE IF x - 1 < i THEN x - 1 \in c.insertions ELSE x \in c.insertions
  <2>1. /\ erase_at(c.insertions, i) \in Intervals(p - 1)
        /\ \A x \in Nat : x \in erase_at(c.insertions, i)
             <=> IF x < i THEN x \in c.insertions ELSE x + 1 \in c.insertions
    BY <1>3, EraseAtSet
  <2>2. PICK J : J = erase_at(c.insertions, i)
    OBVIOUS
  <2>3. \A x \in Nat : x \in insert_at(J, j, 1)
          <=> IF x < j THEN x \in J ELSE IF x = j THEN TRUE ELSE x - 1 \in J
    BY <1>4, <2>1, <2>2, InsertAtSet
  <2>4. \A x \in Nat : x \in J
          <=> IF x < i THEN x \in c.insertions ELSE x + 1 \in c.insertions
    BY <2>1, <2>2
  <2>5. ASSUME NEW x \in Nat
        PROVE  x \in d.insertions
         <=> IF x < j THEN IF x < i THEN x \in c.insertions ELSE x + 1 \in c.insertions
             ELSE IF x = j THEN TRUE
             ELSE IF x - 1 < i THEN x - 1 \in c.insertions ELSE x \in c.insertions
    <3>1. x \in d.insertions
          <=> IF x < j THEN x \in J ELSE IF x = j THEN TRUE ELSE x - 1 \in J
      BY <1>8, <2>2, <2>3
    <3>2. CASE x <= j
      BY <2>4, <3>1, <3>2
    <3>3. CASE x > j
      <4>1. x - 1 \in Nat /\ x - 1 + 1 = x
        BY <3>3
      <4>2. x - 1 \in J <=> IF x - 1 < i THEN x - 1 \in c.insertions ELSE x \in c.insertions
        BY <2>4, <4>1
      <4> QED
        BY <3>1, <3>3, <4>2
    <3> QED
      BY <3>2, <3>3
  <2> QED
    BY <2>5
<1>12. d.modifications \in SUBSET Nat
  <2>1. c.modifications \in SUBSET Nat
    BY <1>3, BuilderFields
  <2>2. ASSUME NEW x \in erase_at(c.modifications, i)
        PROVE  x \in Nat
    <3>1. (x \in c.modifications /\ x < i) \/ \E y \in c.modifications : y > i /\ x = y - 1
      BY DEF erase_at
    <3> QED
      BY <1>4, <2>1, <3>1
  <2>3. ASSUME NEW S \in SUBSET Nat
        PROVE  insert_at(S, j, 1) \in SUBSET Nat /\ shift_for_insert_at(S, j, 1) \in SUBSET Nat
    <3>1. ASSUME NEW x \in insert_at(S, j, 1)
          PROVE  x \in Nat
      <4>1. x \in S \/ x \in j .. j + 1 - 1 \/ \E y \in S : x = y + 1
        BY DEF insert_at
      <4>2. \A y \in S : y \in Nat
        OBVIOUS
      <4>3. ASSUME NEW y \in S, x = y + 1
            PROVE  x \in Nat
        <5>1. y \in Nat
          BY <4>2
        <5> QED
          BY <4>3, <5>1
      <4>4. x \in j .. j + 1 - 1 => x \in Nat
        BY <1>4
      <4>5. x \in S => x \in Nat
        BY <4>2
      <4> QED
        BY <4>1, <4>3, <4>4, <4>5
    <3>2. ASSUME NEW x \in shift_for_insert_at(S, j, 1)
          PROVE  x \in Nat
      <4>1. x \in S \/ \E y \in S : x = y + 1
        BY DEF shift_for_insert_at
      <4>2. \A y \in S : y \in Nat
        OBVIOUS
      <4>3. ASSUME NEW y \in S, x = y + 1
            PROVE  x \in Nat
        <5>1. y \in Nat
          BY <4>2
        <5> QED
          BY <4>3, <5>1
      <4> QED
        BY <4>1, <4>2, <4>3
    <3> QED
      BY <3>1, <3>2
  <2>4. erase_at(c.modifications, i) \in SUBSET Nat
    BY <2>2
  <2>5. Moved(c.modifications, i, j) \in SUBSET Nat
    BY <2>3, <2>4 DEF Moved
  <2> QED
    BY <1>8, <2>5

<1>13. MovesTold(d, q)
  <2>1. PICK t : t = MoveTo(i, j)
    OBVIOUS
  <2>2. \A x \in Nat : t[x] = IF x = i THEN j
                              ELSE IF x >= j /\ x < i THEN x + 1
                              ELSE IF x <= j /\ x > i THEN x - 1
                              ELSE x
    BY <2>1 DEF MoveTo
  <2>3. PICK s : s = MovesPassed(c.moves, i, j)
    OBVIOUS
  <2>4. /\ s \in Seq(Moves)
        /\ \A m : m \in ToSet(s)
                    <=> \E x \in ToSet(c.moves) : m = [from |-> x.from, to |-> t[x.to]]
    <3>1. AreTaken(MovesPassed(c.moves, i, j), ToSet(c.moves), MoveTo(i, j))
      BY <1>4, <1>5, MovesPassedSet
    <3> QED
      BY <2>1, <2>3, <3>1 DEF AreTaken
  <2>5. /\ d.moves \in Seq(Moves)
        /\ \A m : m \in ToSet(d.moves)
                    <=> m \in ToSet(s) \/ (i \notin c.insertions /\ m = [from |-> o[i], to |-> j])
    <3>1. CASE i \in c.insertions
      BY <1>8, <2>3, <2>4, <3>1
    <3>2. CASE i \notin c.insertions
      <4>1. [from |-> o[i], to |-> j] \in Moves
        <5>1. o[i] \in Nat
          BY <1>3, <3>2 DEF Kept
        <5> QED
          BY <1>4, <5>1 DEF Moves
      <4>2. d.moves = Append(s, [from |-> o[i], to |-> j])
        BY <1>7, <1>8, <2>3, <3>2
      <4>3. /\ Append(s, [from |-> o[i], to |-> j]) \in Seq(Moves)
            /\ ToSet(Append(s, [from |-> o[i], to |-> j])) = ToSet(s) \cup {[from |-> o[i], to |-> j]}
        BY <2>4, <4>1, AppendSet
      <4> QED
        BY <3>2, <4>2, <4>3
    <3> QED
      BY <3>1, <3>2
  <2>6. ASSUME NEW x \in 0 .. p - 1
        PROVE  /\ t[x] \in 0 .. p - 1 /\ q[t[x]] = o[x]
               /\ x \in c.insertions => t[x] \in d.insertions
    <3>1. CASE x = i
      <4>1. t[x] = j
        BY <2>2, <3>1
      <4> QED
        BY <1>9, <1>11, <3>1, <4>1
    <3>2. CASE x < i
      <4>1. t[x] = IF x >= j THEN x + 1 ELSE x
        BY <2>2, <3>2
      <4> QED
        BY <1>9, <1>11, <3>2, <4>1
    <3>3. CASE x > i
      <4>1. t[x] = IF x <= j THEN x - 1 ELSE x
        BY <2>2, <3>3
      <4> QED
        BY <1>9, <1>11, <3>3, <4>1
    <3> QED
      BY <3>1, <3>2, <3>3
  <2>7. \A k \in c.insertions : k \in 0 .. p - 1
    BY <1>3 DEF Intervals
  <2>8. c.deletions \subseteq d.deletions
    BY <1>8
  <2>9. ASSUME NEW m \in ToSet(d.moves)
        PROVE  m.from \in d.deletions /\ m.to \in d.insertions /\ q[m.to] = m.from
    <3>1. CASE m \in ToSet(s)
      <4>1. PICK x \in ToSet(c.moves) : m = [from |-> x.from, to |-> t[x.to]]
        BY <2>4, <3>1
      <4>2. x.from \in c.deletions /\ x.to \in c.insertions /\ o[x.to] = x.from
            /\ x.to \in 0 .. p - 1
        BY <1>5, <2>7
      <4>3. m.from = x.from /\ m.to = t[x.to]
        BY <4>1
      <4> QED
        BY <2>6, <2>8, <4>2, <4>3
    <3>2. CASE i \notin c.insertions /\ m = [from |-> o[i], to |-> j]
      <4>1. m.from = o[i] /\ m.to = j /\ o[i] \in d.deletions
        BY <1>7, <1>8, <3>2
      <4>2. j \in d.insertions /\ q[j] = o[i]
        BY <1>4, <1>9, <1>11
      <4> QED
        BY <4>1, <4>2
    <3> QED
      BY <2>5, <3>1, <3>2
  <2>10. ASSUME NEW k \in d.insertions, q[k] # npos
         PROVE  [from |-> q[k], to |-> k] \in ToSet(d.moves)
    <3>1. k \in 0 .. p - 1
      <4>1. d.insertions \in Intervals(p)
        BY <1>10 DEF Kept
      <4> QED
        BY <4>1 DEF Intervals
    <3>2. CASE k = j /\ i \notin c.insertions
      <4>1. q[k] = o[i]
        BY <1>4, <1>9, <3>2
      <4> QED
        BY <2>5, <3>2, <4>1
    <3>3. CASE ~(k = j /\ i \notin c.insertions)
      <4>1. PICK x \in c.insertions : k = t[x] /\ q[k] = o[x]
        <5>1. CASE k = j
          <6>1. t[i] = j /\ q[j] = o[i] /\ i \in c.insertions
            BY <1>4, <1>9, <2>2, <3>3, <5>1
          <6> QED
            BY <5>1, <6>1
        <5>2. CASE k < j
          <6>1. CASE k < i
            <7>1. k \in c.insertions /\ t[k] = k /\ q[k] = o[k]
              BY <1>9, <1>11, <2>2, <3>1, <5>2, <6>1
            <7> QED
              BY <7>1
          <6>2. CASE k >= i
            <7>1. k + 1 \in c.insertions /\ t[k + 1] = k /\ q[k] = o[k + 1]
              BY <1>9, <1>11, <2>2, <3>1, <5>2, <6>2
            <7> QED
              BY <7>1
          <6> QED
            BY <3>1, <6>1, <6>2
        <5>3. CASE k > j
          <6>1. CASE k - 1 < i
            <7>1. k - 1 \in c.insertions /\ t[k - 1] = k /\ q[k] = o[k - 1]
              BY <1>9, <1>11, <2>2, <3>1, <5>3, <6>1
            <7> QED
              BY <7>1
          <6>2. CASE k - 1 >= i
            <7>1. k \in c.insertions /\ t[k] = k /\ q[k] = o[k]
              BY <1>9, <1>11, <2>2, <3>1, <5>3, <6>2
            <7> QED
              BY <7>1
          <6> QED
            BY <3>1, <6>1, <6>2
        <5> QED
          BY <3>1, <5>1, <5>2, <5>3
      <4>2. [from |-> o[x], to |-> x] \in ToSet(c.moves)
        BY <1>5, <2>10, <4>1
      <4>3. \E y \in ToSet(c.moves) :
              [from |-> q[k], to |-> k] = [from |-> y.from, to |-> t[y.to]]
        BY <4>1, <4>2
      <4>4. [from |-> q[k], to |-> k] \in ToSet(s)
        BY <2>4, <4>3
      <4> QED
        BY <2>5, <4>4
    <3> QED
      BY <3>2, <3>3
  <2> QED
    BY <2>5, <2>9, <2>10 DEF MovesTold
<1>14. Told(d, n, p, q)
  BY <1>8, <1>9, <1>10, <1>12, <1>13, IsTold, Zenon
<1> QED
  BY <1>1, <1>2, <1>14

\* Nothing is changed.
LEMMA UnshiftNone == ASSUME NEW i \in Nat PROVE unshift({}, i) = i
<1>1. {x \in {} : x < i} = {}
  OBVIOUS
<1>2. Below({}, i) = 0
  BY <1>1, FS_EmptySet DEF Below
<1> QED
  BY <1>2 DEF unshift

LEMMA NoMoves == <<>> \in Seq(Moves) /\ ToSet(<<>>) = {}
  BY DEF ToSet

LEMMA NoChangesTold ==
  ASSUME NEW n \in Nat, NEW o, o = [k \in 0 .. n - 1 |-> k]
  PROVE  Told(NoChanges, n, n, o)
<1>1. o \in Origins(n, n)
  <2>1. \A k \in 0 .. n - 1 : k \in npos .. n - 1
    BY DEF npos
  <2> QED
    BY <2>1 DEF Origins
<1>2. Kept({}, {}, n, n, o)
  <2>1. {} \in Intervals(n)
    BY DEF Intervals
  <2>2. \A k \in 0 .. n - 1 : unshift({}, k) = k
    BY UnshiftNone
  <2> QED
    BY <2>1, <2>2 DEF Kept
<1>3. /\ NoChanges.deletions = {} /\ NoChanges.insertions = {} /\ NoChanges.modifications = {}
      /\ NoChanges.moves = <<>> /\ NoChanges.mapping = << >>
  BY DEF NoChanges
<1>4. MovesTold(NoChanges, o)
  BY <1>3, NoMoves DEF MovesTold
<1>5. NoChanges \in Builders
  BY NoMoves DEF Builders, NoChanges
<1> QED
  BY <1>1, <1>2, <1>3, <1>4, <1>5 DEF Told

LEMMA ToldNoChanges ==
  ASSUME NEW n \in Nat, NEW p \in Nat, NEW o, NEW c, Told(c, n, p, o),
         c.deletions = {}, c.insertions = {}
  PROVE  p = n /\ \A k \in 0 .. n - 1 : o[k] = k
<1>1. Kept({}, {}, n, p, o)
  BY DEF Told
<1>2. p = n
  <2>1. unshift({}, n) = n /\ unshift({}, p) = p
    BY UnshiftNone
  <2> QED
    BY <1>1, <2>1 DEF Kept
<1>3. ASSUME NEW k \in 0 .. n - 1
      PROVE  o[k] = k
  <2>1. o[k] \in Nat /\ unshift({}, o[k]) = unshift({}, k)
    BY <1>1, <1>2 DEF Kept
  <2>2. unshift({}, k) = k /\ unshift({}, o[k]) = o[k]
    BY <2>1, UnshiftNone
  <2> QED
    BY <2>1, <2>2
<1> QED
  BY <1>2, <1>3

\* Setting a row.
LEMMA ModifyTold ==
  ASSUME NEW n \in Nat, NEW p \in Nat, NEW o, NEW c, Told(c, n, p, o), NEW i \in 0 .. p - 1
  PROVE  Told(modify(c, i), n, p, o) /\ modify(c, i).modifications = c.modifications \cup {i}
<1>1. c \in Builders /\ o \in Origins(n, p) /\ Kept(c.deletions, c.insertions, n, p, o)
      /\ MovesTold(c, o)
  BY DEF Told
<1>2. PICK d : d = modify(c, i)
  OBVIOUS
<1>3. c = [deletions |-> c.deletions, insertions |-> c.insertions,
           modifications |-> c.modifications, moves |-> c.moves, mapping |-> c.mapping]
  BY <1>1, BuilderFields
<1>4. d = [c EXCEPT !.modifications = @ \cup {i}]
  BY <1>2 DEF modify
<1>5. /\ d.deletions = c.deletions /\ d.insertions = c.insertions
      /\ d.modifications = c.modifications \cup {i}
      /\ d.moves = c.moves /\ d.mapping = c.mapping
      /\ d = [deletions |-> d.deletions, insertions |-> d.insertions,
              modifications |-> d.modifications, moves |-> d.moves, mapping |-> d.mapping]
  BY <1>3, <1>4
<1>6. c.mapping = << >> /\ d.modifications \in SUBSET Nat
  <2>1. c.mapping = << >> /\ c.modifications \in SUBSET Nat
    BY <1>1, BuilderFields
  <2>2. i \in Nat
    OBVIOUS
  <2> QED
    BY <1>5, <2>1, <2>2
<1>7. MovesTold(d, o)
  BY <1>1, <1>5 DEF MovesTold
<1>8. Kept(d.deletions, d.insertions, n, p, o)
  BY <1>1, <1>5
<1>9. Told(d, n, p, o)
  BY <1>1, <1>5, <1>6, <1>7, <1>8, IsTold
<1> QED
  BY <1>2, <1>5, <1>9

\* Clearing the list.
LEMMA ClearTold ==
  ASSUME NEW n \in Nat, NEW p \in Nat, NEW o, NEW c, Told(c, n, p, o),
         NEW q, q = [k \in 0 .. 0 - 1 |-> npos]
  PROVE  Told(clear(c, p), n, 0, q)
<1>1. c.deletions \in Intervals(n) /\ c.insertions \in Intervals(p)
      /\ unshift(c.deletions, n) = unshift(c.insertions, p)
  BY DEF Told, Kept
<1>2. Cardinality(c.deletions) \in Nat /\ Cardinality(c.insertions) \in Nat
  <2>1. c.deletions \in FiniteIndices /\ c.insertions \in FiniteIndices
    BY <1>1, IntervalsFinite
  <2>2. 0 \in Nat
    OBVIOUS
  <2> QED
    BY <2>1, <2>2, BelowFinite
<1>3. p + Cardinality(c.deletions) - Cardinality(c.insertions) - 1 = n - 1
  <2>1. unshift(c.deletions, n) = n - Cardinality(c.deletions)
        /\ unshift(c.insertions, p) = p - Cardinality(c.insertions)
    BY <1>1, IntervalsFinite
  <2>2. n - Cardinality(c.deletions) = p - Cardinality(c.insertions)
    BY ONLY <1>1, <2>1
  <2> QED
    BY ONLY n \in Nat, p \in Nat, <1>2, <2>2
<1>4. PICK d : d = clear(c, p)
  OBVIOUS
<1>5. d = [deletions |-> 0 .. n - 1, insertions |-> {}, modifications |-> {}, moves |-> <<>>,
           mapping |-> << >>]
  <2>1. clear(c, p) = [NoChanges EXCEPT !.deletions = 0 .. n - 1]
    BY <1>3 DEF clear
  <2> QED
    BY <1>4, <2>1 DEF NoChanges
<1>6. /\ d.deletions = 0 .. n - 1 /\ d.insertions = {} /\ d.modifications = {}
      /\ d.moves = <<>> /\ d.mapping = << >>
      /\ d = [deletions |-> d.deletions, insertions |-> d.insertions,
              modifications |-> d.modifications, moves |-> d.moves, mapping |-> d.mapping]
  BY <1>5
<1>7. q \in Origins(n, 0)
  <2>1. 0 .. 0 - 1 = {}
    OBVIOUS
  <2> QED
    BY <2>1 DEF Origins
<1>8. Kept(d.deletions, d.insertions, n, 0, q)
  <2>1. 0 .. n - 1 \in Intervals(n) /\ {} \in Intervals(0)
    BY DEF Intervals
  <2>2. unshift(0 .. n - 1, n) = n - Cardinality(0 .. n - 1)
    BY <2>1, IntervalsFinite
  <2>3. Cardinality(0 .. n - 1) = n
    <3>1. 0 \in Int /\ n - 1 \in Int
      OBVIOUS
    <3>2. Cardinality(0 .. n - 1) = IF 0 > n - 1 THEN 0 ELSE n - 1 - 0 + 1
      BY <3>1, FS_Interval
    <3> QED
      BY <3>2
  <2>4. unshift({}, 0) = 0
    BY UnshiftNone
  <2>5. 0 .. 0 - 1 = {}
    OBVIOUS
  <2> QED
    BY <1>6, <2>1, <2>2, <2>3, <2>4, <2>5 DEF Kept
<1>9. MovesTold(d, q)
  BY <1>6, NoMoves DEF MovesTold
<1>10. d.modifications \in SUBSET Nat /\ 0 \in Nat
  BY <1>6
<1> QED
  BY <1>4, <1>6, <1>7, <1>8, <1>9, <1>10, IsTold

\* Where the modifications go.
LEMMA ShiftForInsertAtSet ==
  ASSUME NEW n \in Nat, NEW S \in Intervals(n), NEW i \in 0 .. n
  PROVE  /\ shift_for_insert_at(S, i, 1) \in Intervals(n + 1)
         /\ \A x \in Nat : x \in shift_for_insert_at(S, i, 1)
              <=> IF x < i THEN x \in S ELSE x # i /\ x - 1 \in S
<1> DEFINE T == shift_for_insert_at(S, i, 1)
<1>1. \A x \in S : x \in 0 .. n - 1
  BY DEF Intervals
<1>2. ASSUME NEW x
      PROVE  x \in T <=> (x \in S /\ x < i) \/ \E y \in S : y >= i /\ x = y + 1
  BY DEF shift_for_insert_at
<1>3. ASSUME NEW x \in Nat
      PROVE  x \in T <=> IF x < i THEN x \in S ELSE x # i /\ x - 1 \in S
  <2>1. (\E y \in S : y >= i /\ x = y + 1) <=> x - 1 \in S /\ x - 1 >= i
    BY <1>1
  <2> QED
    BY <1>2, <2>1
<1>4. T \in Intervals(n + 1)
  <2>1. ASSUME NEW x \in T
        PROVE  x \in 0 .. (n + 1) - 1
    BY <1>1, <1>2
  <2> QED
    BY <2>1 DEF Intervals
<1> QED
  BY <1>3, <1>4

LEMMA MovedSet ==
  ASSUME NEW n \in Nat, NEW S \in Intervals(n), NEW i \in 0 .. n - 1, NEW j \in 0 .. n - 1
  PROVE  /\ Moved(S, i, j) \in Intervals(n)
         /\ \A x \in 0 .. n - 1 : x \in Moved(S, i, j)
              <=> IF x = j THEN i \in S
                  ELSE IF x < j THEN IF x < i THEN x \in S ELSE x + 1 \in S
                  ELSE IF x - 1 < i THEN x - 1 \in S ELSE x \in S
<1>1. PICK E : E = erase_at(S, i)
  OBVIOUS
<1>2. /\ E \in Intervals(n - 1)
      /\ \A x \in Nat : x \in E <=> IF x < i THEN x \in S ELSE x + 1 \in S
  BY <1>1, EraseAtSet
<1>3. n - 1 \in Nat /\ j \in 0 .. n - 1 /\ n - 1 + 1 = n
  OBVIOUS
<1>4. PICK M : M = Moved(S, i, j)
  OBVIOUS
<1>5. /\ M \in Intervals(n)
      /\ \A x \in Nat : x \in M <=> IF x < j THEN x \in E
                                    ELSE IF x = j THEN i \in S ELSE x - 1 \in E
  <2>1. CASE i \in S
    <3>1. M = insert_at(E, j, 1)
      BY <1>1, <1>4, <2>1 DEF Moved
    <3>2. /\ insert_at(E, j, 1) \in Intervals(n - 1 + 1)
          /\ \A x \in Nat : x \in insert_at(E, j, 1)
               <=> IF x < j THEN x \in E ELSE IF x = j THEN TRUE ELSE x - 1 \in E
      BY <1>2, <1>3, InsertAtSet
    <3> QED
      BY <1>3, <2>1, <3>1, <3>2
  <2>2. CASE i \notin S
    <3>1. M = shift_for_insert_at(E, j, 1)
      BY <1>1, <1>4, <2>2 DEF Moved
    <3>2. /\ shift_for_insert_at(E, j, 1) \in Intervals(n - 1 + 1)
          /\ \A x \in Nat : x \in shift_for_insert_at(E, j, 1)
               <=> IF x < j THEN x \in E ELSE x # j /\ x - 1 \in E
      BY <1>2, <1>3, ShiftForInsertAtSet
    <3> QED
      BY <1>3, <2>2, <3>1, <3>2
  <2> QED
    BY <2>1, <2>2
<1>6. ASSUME NEW x \in 0 .. n - 1
      PROVE  x \in M <=> IF x = j THEN i \in S
                         ELSE IF x < j THEN IF x < i THEN x \in S ELSE x + 1 \in S
                         ELSE IF x - 1 < i THEN x - 1 \in S ELSE x \in S
  <2>3. x \in Nat
    OBVIOUS
  <2>4. x \in M <=> IF x < j THEN x \in E ELSE IF x = j THEN i \in S ELSE x - 1 \in E
    BY <1>5, <2>3
  <2>5. x \in E <=> IF x < i THEN x \in S ELSE x + 1 \in S
    BY <1>2, <2>3
  <2>1. CASE x <= j
    BY <2>1, <2>3, <2>4, <2>5
  <2>2. CASE x > j
    <3>1. x - 1 \in Nat /\ x - 1 + 1 = x
      BY <2>2
    <3>2. x - 1 \in E <=> IF x - 1 < i THEN x - 1 \in S ELSE x \in S
      BY <1>2, <3>1
    <3> QED
      BY <2>2, <2>4, <3>2
  <2> QED
    BY <2>1, <2>2, <2>3
<1> QED
  BY <1>4, <1>5, <1>6

-----------------------------------------------------------------------------
(* Stale moves                                                             *)

\* No move from E to J is stale that was not with D and I.
StillMoves(D, I, E, J) ==
  \A a \in E, b \in J : unshift(D, a) # unshift(I, b) => unshift(E, a) # unshift(J, b)

\* A row whose move leaves it where it was is told as kept, and no other move
\* becomes stale by that.
LEMMA StaleDropped ==
  ASSUME NEW n \in Nat, NEW p \in Nat, NEW D, NEW I, NEW o \in Origins(n, p),
         Kept(D, I, n, p, o),
         NEW f \in D, NEW t \in I, o[t] = f, unshift(D, f) = unshift(I, t)
  PROVE  /\ Kept(D \ {f}, I \ {t}, n, p, o)
         /\ StillMoves(D, I, D \ {f}, I \ {t})
<1>1. /\ D \in Intervals(n) /\ I \in Intervals(p) /\ unshift(D, n) = unshift(I, p)
      /\ \A k \in (0 .. p - 1) \ I : /\ o[k] \in (0 .. n - 1) \ D
                                     /\ unshift(D, o[k]) = unshift(I, k)
  BY DEF Kept
<1>2. /\ D \in FiniteIndices /\ \A x \in D : x \in Nat /\ x < n
      /\ I \in FiniteIndices /\ \A x \in I : x \in Nat /\ x < p
  BY <1>1, IntervalsFinite
<1>3. f \in Nat /\ f < n /\ t \in Nat /\ t < p
  BY <1>2
<1>4. PICK E : E = D \ {f}
  OBVIOUS
<1>5. PICK J : J = I \ {t}
  OBVIOUS
<1>6. \A x \in Nat : unshift(E, x) = IF x <= f THEN unshift(D, x) ELSE unshift(D, x) + 1
  BY <1>2, <1>4, RemovedSet
<1>7. \A x \in Nat : unshift(J, x) = IF x <= t THEN unshift(I, x) ELSE unshift(I, x) + 1
  BY <1>2, <1>5, RemovedSet
<1>8. E \in Intervals(n) /\ J \in Intervals(p)
  BY <1>1, <1>4, <1>5 DEF Intervals
<1>9. unshift(E, n) = unshift(J, p)
  BY <1>1, <1>3, <1>6, <1>7
<1>10. \A x \in Nat : unshift(D, x) \in Nat /\ unshift(I, x) \in Nat
  BY <1>2, UnshiftNat
<1>11. ASSUME NEW k \in (0 .. p - 1) \ J
       PROVE  o[k] \in (0 .. n - 1) \ E /\ unshift(E, o[k]) = unshift(J, k)
  <2>1. CASE k = t
    <3>1. unshift(E, f) = unshift(D, f) /\ unshift(J, t) = unshift(I, t)
      BY <1>3, <1>6, <1>7
    <3>2. f \in 0 .. n - 1 /\ f \notin E
      BY <1>3, <1>4
    <3> QED
      BY <2>1, <3>1, <3>2
  <2>2. CASE k # t
    <3>1. k \in (0 .. p - 1) \ I
      BY <1>5, <2>2
    <3>2. o[k] \in (0 .. n - 1) \ D /\ unshift(D, o[k]) = unshift(I, k)
      BY <1>1, <3>1
    <3>3. PICK a : a = o[k]
      OBVIOUS
    <3>4. a \in Nat \ D /\ k \in Nat \ I /\ a # f
      BY <3>1, <3>2, <3>3
    <3>5. f < a => unshift(D, f) <= unshift(D, a)
      BY <1>2, <1>3, <3>4, UnshiftGrows
    <3>6. t < k => unshift(I, t) <= unshift(I, k)
      BY <1>2, <1>3, <3>4, UnshiftGrows
    <3>7. a < f => unshift(D, a) < unshift(D, f)
      BY <1>2, <1>3, <3>4, UnshiftLess
    <3>8. k < t => unshift(I, k) < unshift(I, t)
      BY <1>2, <1>3, <3>4, UnshiftLess
    <3>9. unshift(D, a) = unshift(I, k) /\ unshift(D, a) \in Nat /\ unshift(D, f) \in Nat
      BY <1>3, <1>10, <3>2, <3>3, <3>4
    <3>10. f < a <=> t < k
      BY <1>3, <2>2, <3>4, <3>5, <3>6, <3>7, <3>8, <3>9
    <3>11. unshift(E, a) = unshift(J, k)
      BY <1>3, <1>6, <1>7, <2>2, <3>4, <3>9, <3>10
    <3> QED
      BY <1>4, <3>2, <3>3, <3>11
  <2> QED
    BY <2>1, <2>2
<1>12. ASSUME NEW a \in D, NEW b \in I, a # f, b # t, unshift(D, a) # unshift(I, b)
       PROVE  unshift(E, a) # unshift(J, b)
  <2>1. a \in Nat /\ b \in Nat
    BY <1>2
  <2>2. f < a => unshift(D, f) <= unshift(D, a)
    BY <1>2, <1>3, <2>1, UnshiftGrows
  <2>3. t < b => unshift(I, t) <= unshift(I, b)
    BY <1>2, <1>3, <2>1, UnshiftGrows
  <2>4. a < f => unshift(D, a) <= unshift(D, f)
    BY <1>2, <1>3, <2>1, UnshiftGrows
  <2>5. b < t => unshift(I, b) <= unshift(I, t)
    BY <1>2, <1>3, <2>1, UnshiftGrows
  <2>6. unshift(D, a) \in Nat /\ unshift(D, f) \in Nat /\ unshift(I, b) \in Nat
    BY <1>3, <1>10, <2>1
  <2>7. unshift(E, a) = (IF a <= f THEN unshift(D, a) ELSE unshift(D, a) + 1)
        /\ unshift(J, b) = (IF b <= t THEN unshift(I, b) ELSE unshift(I, b) + 1)
    BY <1>6, <1>7, <2>1
  <2> QED
    BY <1>3, <1>12, <2>1, <2>2, <2>3, <2>4, <2>5, <2>6, <2>7
<1>13. Kept(E, J, n, p, o)
  BY <1>8, <1>9, <1>11 DEF Kept
<1>14. StillMoves(D, I, E, J)
  BY <1>4, <1>5, <1>12 DEF StillMoves
<1> QED
  BY <1>4, <1>5, <1>13, <1>14

\* What a move leads to, when it is a move of a row deleted and inserted and
\* when the row was found where it was already.
LEMMA CleanUpIs ==
  ASSUME NEW s \in Builders, NEW m \in Moves, NEW d, d = CleanUp(s, m)
  PROVE  /\ d \in Builders /\ d.modifications = s.modifications
         /\ IF unshift(s.deletions, m.from) # unshift(s.insertions, m.to)
            THEN /\ d.deletions = s.deletions /\ d.insertions = s.insertions
                 /\ ToSet(d.moves) = ToSet(s.moves) \cup {m}
            ELSE /\ d.deletions = s.deletions \ {m.from}
                 /\ d.insertions = s.insertions \ {m.to}
                 /\ d.moves = s.moves
<1>1. /\ s.deletions \in SUBSET Nat /\ s.insertions \in SUBSET Nat
      /\ s.modifications \in SUBSET Nat /\ s.moves \in Seq(Moves) /\ s.mapping = << >>
      /\ s = [deletions |-> s.deletions, insertions |-> s.insertions,
              modifications |-> s.modifications, moves |-> s.moves,
              mapping |-> s.mapping]
  BY BuilderFields
<1>2. CASE unshift(s.deletions, m.from) # unshift(s.insertions, m.to)
  <2>1. m.from - Below(s.deletions, m.from) # m.to - Below(s.insertions, m.to)
    BY <1>2 DEF unshift
  <2>2. d = [s EXCEPT !.moves = Append(@, m)]
    BY <2>1 DEF CleanUp
  <2>3. PICK q : q = Append(s.moves, m)
    OBVIOUS
  <2>4. q \in Seq(Moves) /\ ToSet(q) = ToSet(s.moves) \cup {m}
    BY <1>1, <2>3, AppendSet
  <2>5. d = [deletions |-> s.deletions, insertions |-> s.insertions,
             modifications |-> s.modifications, moves |-> q, mapping |-> << >>]
    BY <1>1, <2>2, <2>3
  <2>6. d \in Builders
    BY <1>1, <2>4, <2>5 DEF Builders
  <2> QED
    BY <1>2, <2>4, <2>5, <2>6
<1>3. CASE unshift(s.deletions, m.from) = unshift(s.insertions, m.to)
  <2>1. ~(m.from - Below(s.deletions, m.from) # m.to - Below(s.insertions, m.to))
    BY <1>3 DEF unshift
  <2>2. d = [s EXCEPT !.deletions = @ \ {m.from}, !.insertions = @ \ {m.to}]
    BY <2>1 DEF CleanUp
  <2>3. PICK E : E = s.deletions \ {m.from}
    OBVIOUS
  <2>4. PICK J : J = s.insertions \ {m.to}
    OBVIOUS
  <2>5. d = [deletions |-> E, insertions |-> J,
             modifications |-> s.modifications, moves |-> s.moves, mapping |-> << >>]
    BY <1>1, <2>2, <2>3, <2>4
  <2>6. E \in SUBSET Nat /\ J \in SUBSET Nat
    BY <1>1, <2>3, <2>4
  <2>7. d \in Builders
    BY <1>1, <2>5, <2>6 DEF Builders
  <2> QED
    BY <1>3, <2>3, <2>4, <2>5, <2>7
<1> QED
  BY <1>2, <1>3

\* The moves kept so far move their rows, and those from j on are to come.
CleanedTo(s, c, n, p, o, j) ==
  /\ s \in Builders /\ s.modifications = c.modifications
  /\ Kept(s.deletions, s.insertions, n, p, o)
  /\ \A m \in ToSet(s.moves) :
       /\ m.from \in s.deletions /\ m.to \in s.insertions /\ o[m.to] = m.from
       /\ unshift(s.deletions, m.from) # unshift(s.insertions, m.to)
  /\ \A k \in j + 1 .. Len(c.moves) :
       c.moves[k].from \in s.deletions <=> c.moves[k].to \in s.insertions
  /\ \A t \in s.insertions :
       o[t] # npos => \/ [from |-> o[t], to |-> t] \in ToSet(s.moves)
                      \/ \E k \in j + 1 .. Len(c.moves) : c.moves[k] = [from |-> o[t], to |-> t]

LEMMA CleanUpStep ==
  ASSUME NEW n \in Nat, NEW p \in Nat, NEW o, NEW c, Told(c, n, p, o),
         NEW j \in 0 .. Len(c.moves) - 1, NEW s, CleanedTo(s, c, n, p, o, j)
  PROVE  CleanedTo(CleanUp(s, c.moves[j + 1]), c, n, p, o, j + 1)
<1>1. /\ c \in Builders /\ o \in Origins(n, p) /\ MovesTold(c, o)
      /\ c.insertions \in Intervals(p) /\ c.deletions \in Intervals(n)
  BY DEF Told, Kept
<1>2. /\ c.moves \in Seq(Moves) /\ Len(c.moves) \in Nat /\ DOMAIN c.moves = 1 .. Len(c.moves)
      /\ \A k \in 1 .. Len(c.moves) : c.moves[k] \in Moves
  <2>1. c.moves \in Seq(Moves)
    BY <1>1, BuilderFields
  <2> QED
    BY <2>1, SeqIndices
<1>3. \A k \in 1 .. Len(c.moves) :
        /\ c.moves[k].to \in 0 .. p - 1 /\ c.moves[k].from \in 0 .. n - 1
        /\ o[c.moves[k].to] = c.moves[k].from
  <2>1. ASSUME NEW k \in 1 .. Len(c.moves)
        PROVE  /\ c.moves[k].to \in 0 .. p - 1 /\ c.moves[k].from \in 0 .. n - 1
               /\ o[c.moves[k].to] = c.moves[k].from
    <3>1. c.moves[k] \in ToSet(c.moves)
      BY <1>2, SeqSet
    <3>2. /\ c.moves[k].from \in c.deletions /\ c.moves[k].to \in c.insertions
          /\ o[c.moves[k].to] = c.moves[k].from
      BY <1>1, <3>1 DEF MovesTold
    <3> QED
      BY <1>1, <3>2 DEF Intervals
  <2> QED
    BY <2>1
<1>4. PICK m : m = c.moves[j + 1]
  OBVIOUS
<1>5. j + 1 \in 1 .. Len(c.moves)
  BY <1>2
<1>6. /\ m \in Moves /\ m.to \in 0 .. p - 1 /\ m.from \in 0 .. n - 1 /\ o[m.to] = m.from
  BY <1>2, <1>3, <1>4, <1>5
<1>7. PICK d : d = CleanUp(s, m)
  OBVIOUS
<1>8. /\ s \in Builders /\ s.modifications = c.modifications
      /\ Kept(s.deletions, s.insertions, n, p, o)
  BY DEF CleanedTo
<1>9. \A x \in ToSet(s.moves) :
        /\ x.from \in s.deletions /\ x.to \in s.insertions /\ o[x.to] = x.from
        /\ unshift(s.deletions, x.from) # unshift(s.insertions, x.to)
  BY DEF CleanedTo
<1>10. \A k \in j + 1 .. Len(c.moves) :
         c.moves[k].from \in s.deletions <=> c.moves[k].to \in s.insertions
  BY DEF CleanedTo
<1>11. \A t \in s.insertions :
         o[t] # npos => \/ [from |-> o[t], to |-> t] \in ToSet(s.moves)
                        \/ \E k \in j + 1 .. Len(c.moves) : c.moves[k] = [from |-> o[t], to |-> t]
  BY DEF CleanedTo
<1>12. /\ d \in Builders /\ d.modifications = s.modifications
       /\ IF unshift(s.deletions, m.from) # unshift(s.insertions, m.to)
          THEN /\ d.deletions = s.deletions /\ d.insertions = s.insertions
               /\ ToSet(d.moves) = ToSet(s.moves) \cup {m}
          ELSE /\ d.deletions = s.deletions \ {m.from}
               /\ d.insertions = s.insertions \ {m.to}
               /\ d.moves = s.moves
  BY <1>6, <1>7, <1>8, CleanUpIs
<1>13. m.from \in s.deletions <=> m.to \in s.insertions
  BY <1>2, <1>4, <1>5, <1>10
<1>14. \A x, y \in 0 .. p - 1 : o[x] = o[y] /\ o[x] \in Nat => x = y
  BY <1>1 DEF Origins, npos
<1>15. \A k \in j + 2 .. Len(c.moves) : k \in j + 1 .. Len(c.moves) /\ k \in 1 .. Len(c.moves)
  BY <1>2
<1>16. \A k \in j + 1 .. Len(c.moves) : k = j + 1 \/ k \in j + 2 .. Len(c.moves)
  BY <1>2
<1>17. j + 1 + 1 = j + 2
  OBVIOUS
<1>18. CASE unshift(s.deletions, m.from) # unshift(s.insertions, m.to)
  <2>1. m.from \in s.deletions /\ m.to \in s.insertions
    <3>1. ASSUME m.to \notin s.insertions
          PROVE  FALSE
      <4>1. unshift(s.deletions, o[m.to]) = unshift(s.insertions, m.to)
        BY <1>6, <1>8, <3>1 DEF Kept
      <4> QED
        BY <1>6, <1>18, <4>1
    <3> QED
      BY <1>13, <3>1
  <2>2. /\ d.deletions = s.deletions /\ d.insertions = s.insertions
        /\ ToSet(d.moves) = ToSet(s.moves) \cup {m}
    BY <1>12, <1>18
  <2>3. Kept(d.deletions, d.insertions, n, p, o)
    BY <1>8, <2>2
  <2>4. \A x \in ToSet(d.moves) :
          /\ x.from \in d.deletions /\ x.to \in d.insertions /\ o[x.to] = x.from
          /\ unshift(d.deletions, x.from) # unshift(d.insertions, x.to)
    BY <1>6, <1>9, <1>18, <2>1, <2>2
  <2>5. \A k \in j + 2 .. Len(c.moves) :
          c.moves[k].from \in d.deletions <=> c.moves[k].to \in d.insertions
    BY <1>10, <1>15, <2>2
  <2>6. ASSUME NEW t \in d.insertions, o[t] # npos
        PROVE  \/ [from |-> o[t], to |-> t] \in ToSet(d.moves)
               \/ \E k \in j + 2 .. Len(c.moves) : c.moves[k] = [from |-> o[t], to |-> t]
    <3>1. PICK x : x = [from |-> o[t], to |-> t]
      OBVIOUS
    <3>2. x \in ToSet(s.moves) \/ \E k \in j + 1 .. Len(c.moves) : c.moves[k] = x
      BY <1>11, <2>2, <2>6, <3>1
    <3>3. x \in ToSet(d.moves) \/ \E k \in j + 2 .. Len(c.moves) : c.moves[k] = x
      BY <1>4, <1>16, <2>2, <3>2
    <3> QED
      BY <3>1, <3>3
  <2>7. CleanedTo(d, c, n, p, o, j + 1)
    BY <1>8, <1>12, <1>17, <2>3, <2>4, <2>5, <2>6 DEF CleanedTo
  <2> QED
    BY <1>4, <1>7, <2>7
<1>19. CASE unshift(s.deletions, m.from) = unshift(s.insertions, m.to)
  <2>1. /\ d.deletions = s.deletions \ {m.from} /\ d.insertions = s.insertions \ {m.to}
        /\ d.moves = s.moves
    BY <1>12, <1>19
  <2>2. /\ Kept(d.deletions, d.insertions, n, p, o)
        /\ \A a \in d.deletions, b \in d.insertions :
             unshift(s.deletions, a) # unshift(s.insertions, b)
               => unshift(d.deletions, a) # unshift(d.insertions, b)
    <3>1. CASE m.from \in s.deletions
      <4>1. m.to \in s.insertions
        BY <1>13, <3>1
      <4> QED
        <5>1. PICK f \in s.deletions : f = m.from
          BY <3>1
        <5>2. PICK t \in s.insertions : t = m.to
          BY <4>1
        <5>3. /\ o \in Origins(n, p) /\ Kept(s.deletions, s.insertions, n, p, o)
              /\ o[t] = f /\ unshift(s.deletions, f) = unshift(s.insertions, t)
          BY <1>1, <1>6, <1>8, <1>19, <5>1, <5>2
        <5>4. /\ Kept(s.deletions \ {f}, s.insertions \ {t}, n, p, o)
              /\ StillMoves(s.deletions, s.insertions,
                            s.deletions \ {f}, s.insertions \ {t})
          BY <5>3, StaleDropped
        <5> QED
          BY <2>1, <5>1, <5>2, <5>4 DEF StillMoves
    <3>2. CASE m.from \notin s.deletions
      <4>1. d.deletions = s.deletions /\ d.insertions = s.insertions
        BY <1>13, <2>1, <3>2
      <4> QED
        BY <1>8, <4>1
    <3> QED
      BY <3>1, <3>2
  <2>3. ASSUME NEW x \in ToSet(d.moves)
        PROVE  /\ x.from \in d.deletions /\ x.to \in d.insertions /\ o[x.to] = x.from
               /\ unshift(d.deletions, x.from) # unshift(d.insertions, x.to)
    <3>1. /\ x.from \in s.deletions /\ x.to \in s.insertions /\ o[x.to] = x.from
          /\ unshift(s.deletions, x.from) # unshift(s.insertions, x.to)
      BY <1>9, <2>1
    <3>2. x.from \in 0 .. n - 1 /\ x.to \in 0 .. p - 1
      BY <1>8, <3>1 DEF Kept, Intervals
    <3>3. x.from = m.from <=> x.to = m.to
      <4>1. x.from = m.from => o[x.to] = o[m.to] /\ o[x.to] \in Nat
        BY <1>6, <3>1, <3>2
      <4>2. x.from = m.from => x.to = m.to
        BY <1>6, <1>14, <3>2, <4>1
      <4> QED
        BY <1>6, <3>1, <4>2
    <3>4. x.from # m.from /\ x.to # m.to
      BY <1>19, <3>1, <3>3
    <3> QED
      BY <2>1, <2>2, <3>1, <3>4
  <2>4. ASSUME NEW k \in j + 2 .. Len(c.moves)
        PROVE  c.moves[k].from \in d.deletions <=> c.moves[k].to \in d.insertions
    <3>1. PICK x : x = c.moves[k]
      OBVIOUS
    <3>2. /\ x.to \in 0 .. p - 1 /\ x.from \in 0 .. n - 1 /\ o[x.to] = x.from
          /\ x.from \in s.deletions <=> x.to \in s.insertions
      BY <1>3, <1>10, <1>15, <3>1
    <3>3. x.from = m.from <=> x.to = m.to
      <4>1. x.from = m.from => o[x.to] = o[m.to] /\ o[x.to] \in Nat
        BY <1>6, <3>2
      <4>2. x.from = m.from => x.to = m.to
        BY <1>6, <1>14, <3>2, <4>1
      <4> QED
        BY <1>6, <3>2, <4>2
    <3> QED
      BY <2>1, <3>1, <3>2, <3>3
  <2>5. ASSUME NEW t \in d.insertions, o[t] # npos
        PROVE  \/ [from |-> o[t], to |-> t] \in ToSet(d.moves)
               \/ \E k \in j + 2 .. Len(c.moves) : c.moves[k] = [from |-> o[t], to |-> t]
    <3>1. PICK x : x = [from |-> o[t], to |-> t]
      OBVIOUS
    <3>2. x \in ToSet(s.moves) \/ \E k \in j + 1 .. Len(c.moves) : c.moves[k] = x
      BY <1>11, <2>1, <2>5, <3>1
    <3>3. x # m
      <4>1. t # m.to
        BY <2>1
      <4> QED
        BY <3>1, <4>1
    <3>4. x \in ToSet(d.moves) \/ \E k \in j + 2 .. Len(c.moves) : c.moves[k] = x
      BY <1>4, <1>16, <2>1, <3>2, <3>3
    <3> QED
      BY <3>1, <3>4
  <2>6. CleanedTo(d, c, n, p, o, j + 1)
    BY <1>8, <1>12, <1>17, <2>2, <2>3, <2>4, <2>5 DEF CleanedTo
  <2> QED
    BY <1>4, <1>7, <2>6
<1> QED
  BY <1>18, <1>19

LEMMA CleanedUpSteps ==
  ASSUME NEW c \in Builders
  PROVE  /\ CleanedUp(c)[0] = [c EXCEPT !.moves = <<>>]
         /\ \A k \in 1 .. Len(c.moves) :
              CleanedUp(c)[k] = CleanUp(CleanedUp(c)[k - 1], c.moves[k])
<1> DEFINE N == Len(c.moves)
           V == Builders
           unmoved == [c EXCEPT !.moves = <<>>]
           F == [p \in V \X (1 .. N) |-> CleanUp(p[1], c.moves[p[2]])]
           Rec(f) == f = [k \in 0 .. N |->
                           IF k = 0 THEN [c EXCEPT !.moves = <<>>]
                           ELSE CleanUp(f[k - 1], c.moves[k])]
           s == CHOOSE f : Rec(f)
<1>1. N \in Nat /\ \A k \in 1 .. N : c.moves[k] \in Moves
  BY BuilderFields, SeqIndices
<1>2. unmoved \in V
  <2>1. unmoved = [deletions |-> c.deletions, insertions |-> c.insertions,
                   modifications |-> c.modifications, moves |-> <<>>,
                   mapping |-> << >>]
    BY BuilderFields
  <2> HIDE DEF unmoved
  <2> QED
    BY <2>1, BuilderFields, NoMoves DEF Builders
<1>3. F \in [V \X (1 .. N) -> V]
  <2>1. ASSUME NEW d \in V, NEW k \in 1 .. N
        PROVE  CleanUp(d, c.moves[k]) \in V
    BY <1>1, CleanUpIs
  <2> HIDE DEF V, N
  <2> QED
    BY <2>1
<1>4. Recursive(N, V, unmoved, F) # {}
  <2>1. N \in Nat
    BY <1>1
  <2> HIDE DEF F, V, N, unmoved
  <2> QED
    BY <2>1, <1>2, <1>3, Recursion, Zenon
<1>5. PICK f \in [0 .. N -> V] :
             f[0] = unmoved /\ \A k \in 1 .. N : f[k] = F[<<f[k - 1], k>>]
  <2> HIDE DEF F, V, N, unmoved
  <2> QED
    BY <1>4 DEF Recursive
<1>6. Rec(f)
  <2>1. ASSUME NEW k \in 1 .. N
        PROVE  f[k] = CleanUp(f[k - 1], c.moves[k])
    <3>1. k - 1 \in 0 .. N
      BY <1>1
    <3>2. <<f[k - 1], k>> \in V \X (1 .. N)
      BY <3>1
    <3> HIDE DEF V, N
    <3> QED
      BY <1>5, <3>2
  <2>2. f[0] = [c EXCEPT !.moves = <<>>]
    BY <1>5
  <2> HIDE DEF V, F, N, unmoved
  <2> QED
    BY <1>1, <1>5, <2>1, <2>2
<1>7. Rec(s)
  <2> HIDE DEF Rec
  <2> QED
    BY <1>6
<1>8. /\ s[0] = [c EXCEPT !.moves = <<>>]
      /\ \A k \in 1 .. N : s[k] = CleanUp(s[k - 1], c.moves[k])
  <2> HIDE DEF s, N
  <2>1. s = [k \in 0 .. N |-> IF k = 0 THEN [c EXCEPT !.moves = <<>>]
                             ELSE CleanUp(s[k - 1], c.moves[k])]
    BY <1>7
  <2>2. ASSUME NEW k \in 0 .. N
        PROVE  s[k] = IF k = 0 THEN [c EXCEPT !.moves = <<>>]
                      ELSE CleanUp(s[k - 1], c.moves[k])
    BY <2>1, Zenon
  <2>3. 0 \in 0 .. N /\ \A k \in 1 .. N : k \in 0 .. N /\ k # 0
    BY <1>1
  <2> QED
    BY <2>2, <2>3
<1>9. CleanedUp(c) = s
  BY DEF CleanedUp
<1> HIDE DEF s
<1> QED
  BY <1>8, <1>9

\* No move leaves its row where it was among the rows that stay.
NonStale(c) ==
  \A m \in ToSet(c.moves) : unshift(c.deletions, m.from) # unshift(c.insertions, m.to)

\* Without its stale moves a builder tells the same, and no move is stale.
LEMMA CleanUpTold ==
  ASSUME NEW n \in Nat, NEW p \in Nat, NEW o, NEW c, Told(c, n, p, o),
         NEW d, d = clean_up_stale_moves(c)
  PROVE  /\ Told(d, n, p, o) /\ NonStale(d)
         /\ d.modifications = c.modifications
<1>1. /\ c \in Builders /\ o \in Origins(n, p) /\ MovesTold(c, o)
      /\ Kept(c.deletions, c.insertions, n, p, o)
  BY DEF Told
<1>2. /\ c.moves \in Seq(Moves) /\ Len(c.moves) \in Nat /\ DOMAIN c.moves = 1 .. Len(c.moves)
      /\ \A k \in 1 .. Len(c.moves) : c.moves[k] \in Moves
  <2>1. c.moves \in Seq(Moves)
    BY <1>1, BuilderFields
  <2> QED
    BY <2>1, SeqIndices
<1>3. PICK s : s = CleanedUp(c)
  OBVIOUS
<1>4. PICK N : N = Len(c.moves)
  OBVIOUS
<1>5. /\ s[0] = [c EXCEPT !.moves = <<>>]
      /\ \A k \in 1 .. N : s[k] = CleanUp(s[k - 1], c.moves[k])
  BY <1>1, <1>3, <1>4, CleanedUpSteps
<1>6. CleanedTo(s[0], c, n, p, o, 0)
  <2>1. PICK b : b = s[0]
    OBVIOUS
  <2>2. b = [deletions |-> c.deletions, insertions |-> c.insertions,
             modifications |-> c.modifications, moves |-> <<>>, mapping |-> << >>]
    BY <1>1, <1>5, <2>1, BuilderFields
  <2>3. b \in Builders
    BY <1>1, <2>2, BuilderFields, NoMoves DEF Builders
  <2>4. /\ b.deletions = c.deletions /\ b.insertions = c.insertions
        /\ b.modifications = c.modifications /\ b.moves = <<>>
    BY <2>2
  <2>5. ASSUME NEW k \in 0 + 1 .. Len(c.moves)
        PROVE  c.moves[k].from \in b.deletions <=> c.moves[k].to \in b.insertions
    <3>1. c.moves[k] \in ToSet(c.moves)
      BY <1>2, SeqSet
    <3> QED
      BY <1>1, <2>4, <3>1 DEF MovesTold
  <2>6. ASSUME NEW t \in b.insertions, o[t] # npos
        PROVE  \E k \in 0 + 1 .. Len(c.moves) : c.moves[k] = [from |-> o[t], to |-> t]
    <3>1. PICK x : x = [from |-> o[t], to |-> t]
      OBVIOUS
    <3>2. x \in ToSet(c.moves)
      BY <1>1, <2>4, <2>6, <3>1 DEF MovesTold
    <3>3. \E k \in 0 + 1 .. Len(c.moves) : c.moves[k] = x
      BY <1>2, <3>2, SeqSet
    <3> QED
      BY <3>1, <3>3
  <2>7. CleanedTo(b, c, n, p, o, 0)
    BY <1>1, <2>3, <2>4, <2>5, <2>6, NoMoves DEF CleanedTo
  <2> QED
    BY <2>1, <2>7
<1> DEFINE P == {k \in 0 .. N : CleanedTo(s[k], c, n, p, o, k)}
<1>7. 0 \in P
  BY <1>2, <1>4, <1>6
<1>8. ASSUME NEW k \in 0 .. N - 1, k \in P
      PROVE  k + 1 \in P
  <2>1. k \in 0 .. Len(c.moves) - 1 /\ k + 1 \in 0 .. N /\ k + 1 \in 1 .. N /\ k + 1 - 1 = k
    BY <1>2, <1>4
  <2>2. s[k + 1] = CleanUp(s[k], c.moves[k + 1])
    BY <1>5, <2>1
  <2>3. PICK b : b = s[k]
    OBVIOUS
  <2>4. CleanedTo(b, c, n, p, o, k)
    BY <1>8, <2>3
  <2>5. CleanedTo(CleanUp(b, c.moves[k + 1]), c, n, p, o, k + 1)
    BY <2>1, <2>4, CleanUpStep
  <2> QED
    BY <2>1, <2>2, <2>3, <2>5
<1>9. CleanedTo(s[N], c, n, p, o, N)
  <2>1. N \in Nat
    BY <1>2, <1>4
  <2>2. \A k \in 0 .. N : k \in P
    <3> HIDE DEF P
    <3> QED
      BY <1>7, <1>8, <2>1, Induction
  <2>3. N \in P
    <3> HIDE DEF P
    <3> QED
      BY <2>1, <2>2
  <2> QED
    BY <2>3
<1>10. d = s[N]
  BY <1>3, <1>4 DEF clean_up_stale_moves
<1>11. CleanedTo(d, c, n, p, o, N)
  BY <1>9, <1>10
<1>12. \A k \in N + 1 .. Len(c.moves) : FALSE
  BY <1>2, <1>4
<1>13. d \in Builders /\ Kept(d.deletions, d.insertions, n, p, o)
       /\ d.modifications = c.modifications
  BY <1>11 DEF CleanedTo
<1>14. MovesTold(d, o)
  <2>1. d.moves \in Seq(Moves)
    BY <1>13, BuilderFields
  <2>2. \A m \in ToSet(d.moves) :
          m.from \in d.deletions /\ m.to \in d.insertions /\ o[m.to] = m.from
    BY <1>11 DEF CleanedTo
  <2>3. \A t \in d.insertions : o[t] # npos => [from |-> o[t], to |-> t] \in ToSet(d.moves)
    BY <1>11, <1>12 DEF CleanedTo
  <2> QED
    BY <2>1, <2>2, <2>3 DEF MovesTold
<1>15. NonStale(d)
  BY <1>11 DEF CleanedTo, NonStale
<1> QED
  BY <1>1, <1>13, <1>14, <1>15 DEF Told

-----------------------------------------------------------------------------
(* Merging: the rows deleted and inserted                                  *)

\* An old row that is not deleted is the new row of its rank.
LEMMA KeptBack ==
  ASSUME NEW n \in Nat, NEW p \in Nat, NEW D, NEW I, NEW o, Kept(D, I, n, p, o),
         NEW x \in (0 .. n - 1) \ D
  PROVE  /\ shift(I, unshift(D, x)) \in (0 .. p - 1) \ I
         /\ o[shift(I, unshift(D, x))] = x
<1>1. /\ D \in Intervals(n) /\ I \in Intervals(p) /\ unshift(D, n) = unshift(I, p)
      /\ \A k \in (0 .. p - 1) \ I : /\ o[k] \in (0 .. n - 1) \ D
                                     /\ unshift(D, o[k]) = unshift(I, k)
  BY DEF Kept
<1>2. D \in FiniteIndices /\ I \in FiniteIndices
  BY <1>1, IntervalsFinite
<1>3. x \in Nat \ D /\ x < n
  OBVIOUS
<1>4. PICK r : r = unshift(D, x)
  OBVIOUS
<1>5. r \in Nat /\ r < unshift(D, n)
  BY <1>2, <1>3, <1>4, UnshiftNat, UnshiftLess
<1>6. PICK y : y = shift(I, r)
  OBVIOUS
<1>7. y \in Nat \ I /\ unshift(I, y) = r
  BY <1>2, <1>5, <1>6, ShiftUnshift
<1>8. y < p
  <2>1. ASSUME p <= y
        PROVE  FALSE
    <3>1. unshift(I, p) <= unshift(I, y)
      BY <1>2, <1>7, <2>1, UnshiftGrows
    <3>2. unshift(I, p) \in Nat
      BY <1>2, UnshiftNat
    <3> QED
      BY <1>1, <1>5, <1>7, <3>1, <3>2
  <2> QED
    BY <1>7, <2>1
<1>9. y \in (0 .. p - 1) \ I
  BY <1>7, <1>8
<1>10. o[y] \in (0 .. n - 1) \ D /\ unshift(D, o[y]) = unshift(I, y)
  BY <1>1, <1>9
<1>11. PICK z : z = o[y]
  OBVIOUS
<1>12. z \in Nat \ D /\ unshift(D, z) = unshift(D, x)
  BY <1>4, <1>7, <1>10, <1>11
<1>13. z = x
  BY <1>2, <1>3, <1>12, UnshiftOrder
<1> QED
  BY <1>4, <1>6, <1>9, <1>11, <1>13

\* The rows S of the old collection in the new one: those that are kept.
Carried(S, D, I, p, o) == {k \in (0 .. p - 1) \ I : o[k] \in S}

LEMMA CarriedSet ==
  ASSUME NEW n \in Nat, NEW p \in Nat, NEW D, NEW I, NEW o, Kept(D, I, n, p, o),
         NEW S \in Intervals(n)
  PROVE  shift_for_insert_all_at(erase_all_at(S, D), I) = Carried(S, D, I, p, o)
<1> DEFINE E == erase_all_at(S, D)
<1>1. /\ D \in Intervals(n) /\ I \in Intervals(p)
      /\ \A k \in (0 .. p - 1) \ I : o[k] \in (0 .. n - 1) \ D
  BY DEF Kept
<1>2. \A r : r \in E <=> \E x \in S \ D : r = unshift(D, x)
  BY DEF erase_all_at
<1>3. \A k : k \in shift_for_insert_all_at(E, I) <=> \E r \in E : k = shift(I, r)
  BY DEF shift_for_insert_all_at
<1> HIDE DEF E
<1>4. ASSUME NEW k
      PROVE  k \in shift_for_insert_all_at(E, I) <=> k \in Carried(S, D, I, p, o)
  <2>1. ASSUME k \in shift_for_insert_all_at(E, I)
        PROVE  k \in Carried(S, D, I, p, o)
    <3>1. PICK x \in S \ D : k = shift(I, unshift(D, x))
      BY <1>2, <1>3, <2>1
    <3>2. x \in (0 .. n - 1) \ D
      BY DEF Intervals
    <3>3. k \in (0 .. p - 1) \ I /\ o[k] = x
      BY <3>1, <3>2, KeptBack
    <3> QED
      BY <3>3 DEF Carried
  <2>2. ASSUME k \in Carried(S, D, I, p, o)
        PROVE  k \in shift_for_insert_all_at(E, I)
    <3>1. k \in (0 .. p - 1) \ I /\ o[k] \in S
      BY <2>2 DEF Carried
    <3>2. o[k] \in S \ D
      BY <1>1, <3>1
    <3>3. shift(I, unshift(D, o[k])) = k
      <4>1. unshift(D, o[k]) = unshift(I, k)
        BY <3>1 DEF Kept
      <4>2. I \in FiniteIndices /\ k \in Nat \ I
        BY <1>1, <3>1, IntervalsFinite
      <4>3. shift(I, unshift(I, k)) = k
        BY <4>2, UnshiftShift
      <4> QED
        BY <4>1, <4>3
    <3> QED
      BY <1>2, <1>3, <3>2, <3>3
  <2> QED
    BY <2>1, <2>2
<1> QED
  BY <1>4 DEF E

\* The indices before both changes, of the rows after the second.
Composed(o1, o2, q) == [k \in 0 .. q - 1 |-> IF o2[k] = npos THEN npos ELSE o1[o2[k]]]

LEMMA OriginsComposed ==
  ASSUME NEW n \in Nat, NEW p \in Nat, NEW q \in Nat,
         NEW o1 \in Origins(n, p), NEW o2 \in Origins(p, q)
  PROVE  Composed(o1, o2, q) \in Origins(n, q)
<1>1. /\ o1 \in [0 .. p - 1 -> npos .. n - 1]
      /\ \A j, k \in 0 .. p - 1 : o1[j] = o1[k] /\ j # k => o1[j] = npos
  BY DEF Origins
<1>2. /\ o2 \in [0 .. q - 1 -> npos .. p - 1]
      /\ \A j, k \in 0 .. q - 1 : o2[j] = o2[k] /\ j # k => o2[j] = npos
  BY DEF Origins
<1>3. PICK o : o = Composed(o1, o2, q)
  OBVIOUS
<1>4. o = [k \in 0 .. q - 1 |-> IF o2[k] = npos THEN npos ELSE o1[o2[k]]]
  BY <1>3 DEF Composed
<1>5. \A k \in 0 .. q - 1 : o2[k] # npos => o2[k] \in 0 .. p - 1
  BY <1>2 DEF npos
<1>6. npos \in npos .. n - 1
  BY DEF npos
<1>7. \A k \in 0 .. q - 1 :
        /\ o[k] = (IF o2[k] = npos THEN npos ELSE o1[o2[k]])
        /\ o[k] \in npos .. n - 1
  BY <1>1, <1>4, <1>5, <1>6
<1>8. o \in [0 .. q - 1 -> npos .. n - 1]
  BY <1>4, <1>7
<1>9. ASSUME NEW j \in 0 .. q - 1, NEW k \in 0 .. q - 1, o[j] = o[k], j # k
      PROVE  o[j] = npos
  <2>1. ASSUME o[j] # npos
        PROVE  FALSE
    <3>1. o2[j] # npos /\ o2[k] # npos /\ o1[o2[j]] = o1[o2[k]] /\ o1[o2[j]] # npos
      BY <1>7, <1>9, <2>1
    <3>2. o2[j] \in 0 .. p - 1 /\ o2[k] \in 0 .. p - 1
      BY <1>5, <3>1
    <3>3. o2[j] = o2[k]
      BY <1>1, <3>1, <3>2
    <3> QED
      BY <1>2, <1>9, <3>1, <3>3
  <2> QED
    BY <2>1
<1> QED
  BY <1>3, <1>8, <1>9 DEF Origins

\* The deletions and the insertions of two builders that follow each other.
MergedDeletions(D1, I1, D2, o1) == D1 \cup {o1[v] : v \in D2 \ I1}
MergedInsertions(I1, D2, I2, q, o2) == I2 \cup Carried(I1, D2, I2, q, o2)

LEMMA MergedDeletionsSet ==
  ASSUME NEW n \in Nat, NEW p \in Nat, NEW D1, NEW I1, NEW o1, Kept(D1, I1, n, p, o1),
         NEW D2 \in Intervals(p)
  PROVE  /\ add_shifted_by(D1, I1, D2) = MergedDeletions(D1, I1, D2, o1)
         /\ MergedDeletions(D1, I1, D2, o1) \in Intervals(n)
<1>1. \A v \in D2 \ I1 : v \in (0 .. p - 1) \ I1
  BY DEF Intervals
<1>2. \A v \in D2 \ I1 : o1[v] \in 0 .. n - 1
  BY <1>1 DEF Kept
<1>3. D1 \in SUBSET (0 .. n - 1)
  BY DEF Kept, Intervals
<1>4. ASSUME NEW x
      PROVE  x \in add_shifted_by(D1, I1, D2) <=> x \in MergedDeletions(D1, I1, D2, o1)
  <2>1. x \in add_shifted_by(D1, I1, D2)
          <=> x \in D1 \/ \E v \in D2 \ I1 : x = shift(D1, unshift(I1, v))
    BY DEF add_shifted_by
  <2>2. \A v \in D2 \ I1 : shift(D1, unshift(I1, v)) = o1[v]
    BY <1>1, KeptShift
  <2>3. x \in MergedDeletions(D1, I1, D2, o1)
          <=> x \in D1 \/ \E v \in D2 \ I1 : x = o1[v]
    BY DEF MergedDeletions
  <2> QED
    BY <2>1, <2>2, <2>3
<1>5. MergedDeletions(D1, I1, D2, o1) \in Intervals(n)
  BY <1>2, <1>3 DEF MergedDeletions, Intervals
<1> QED
  BY <1>4, <1>5

LEMMA MergedInsertionsSet ==
  ASSUME NEW p \in Nat, NEW q \in Nat, NEW D2, NEW I2, NEW o2, Kept(D2, I2, p, q, o2),
         NEW I1 \in Intervals(p)
  PROVE  /\ insert_all_at(erase_all_at(I1, D2), I2) = MergedInsertions(I1, D2, I2, q, o2)
         /\ MergedInsertions(I1, D2, I2, q, o2) \in Intervals(q)
<1>1. shift_for_insert_all_at(erase_all_at(I1, D2), I2) = Carried(I1, D2, I2, q, o2)
  BY CarriedSet
<1>2. insert_all_at(erase_all_at(I1, D2), I2)
        = I2 \cup shift_for_insert_all_at(erase_all_at(I1, D2), I2)
  BY DEF insert_all_at, shift_for_insert_all_at
<1>3. I2 \in SUBSET (0 .. q - 1)
  BY DEF Kept, Intervals
<1>4. MergedInsertions(I1, D2, I2, q, o2) \in Intervals(q)
  BY <1>3 DEF MergedInsertions, Carried, Intervals
<1> QED
  BY <1>1, <1>2, <1>4 DEF MergedInsertions

\* The rows that both keep are the rows that the two keep together, in order.
LEMMA MergedKept ==
  ASSUME NEW n \in Nat, NEW p \in Nat, NEW q \in Nat,
         NEW o1 \in Origins(n, p), NEW o2 \in Origins(p, q),
         NEW D1, NEW I1, Kept(D1, I1, n, p, o1),
         NEW D2, NEW I2, Kept(D2, I2, p, q, o2)
  PROVE  Kept(MergedDeletions(D1, I1, D2, o1), MergedInsertions(I1, D2, I2, q, o2),
              n, q, Composed(o1, o2, q))
<1>1. /\ D1 \in Intervals(n) /\ I1 \in Intervals(p)
      /\ \A k \in (0 .. p - 1) \ I1 : /\ o1[k] \in (0 .. n - 1) \ D1
                                      /\ unshift(D1, o1[k]) = unshift(I1, k)
  BY DEF Kept
<1>2. /\ D2 \in Intervals(p) /\ I2 \in Intervals(q)
      /\ \A k \in (0 .. q - 1) \ I2 : /\ o2[k] \in (0 .. p - 1) \ D2
                                      /\ unshift(D2, o2[k]) = unshift(I2, k)
  BY DEF Kept
<1>3. /\ D1 \in FiniteIndices /\ I1 \in FiniteIndices
      /\ D2 \in FiniteIndices /\ I2 \in FiniteIndices
  BY <1>1, <1>2, IntervalsFinite
<1>4. PICK D : D = MergedDeletions(D1, I1, D2, o1)
  OBVIOUS
<1>5. PICK I : I = MergedInsertions(I1, D2, I2, q, o2)
  OBVIOUS
<1>6. D \in Intervals(n) /\ I \in Intervals(q)
  BY <1>1, <1>2, <1>4, <1>5, MergedDeletionsSet, MergedInsertionsSet
<1>7. D \in FiniteIndices /\ I \in FiniteIndices
  BY <1>6, IntervalsFinite
<1>8. PICK o : o = Composed(o1, o2, q)
  OBVIOUS
<1>9. \A k \in 0 .. q - 1 : o[k] = IF o2[k] = npos THEN npos ELSE o1[o2[k]]
  BY <1>8 DEF Composed
<1>10. \A x, y \in 0 .. p - 1 : o1[x] = o1[y] /\ o1[x] # npos => x = y
  BY DEF Origins
\* What is kept by both.
<1>11. ASSUME NEW k \in (0 .. q - 1) \ I
       PROVE  /\ k \in (0 .. q - 1) \ I2 /\ o2[k] \in (0 .. p - 1) \ I1
              /\ o[k] = o1[o2[k]] /\ o[k] \in (0 .. n - 1) \ D
  <2>1. k \in (0 .. q - 1) \ I2 /\ k \notin Carried(I1, D2, I2, q, o2)
    BY <1>5 DEF MergedInsertions
  <2>2. o2[k] \notin I1
    BY <2>1 DEF Carried
  <2>3. o2[k] \in (0 .. p - 1) \ D2
    BY <1>2, <2>1
  <2>4. o[k] = o1[o2[k]]
    BY <1>9, <2>3 DEF npos
  <2>5. o1[o2[k]] \in (0 .. n - 1) \ D1
    BY <1>1, <2>2, <2>3
  <2>6. ASSUME NEW v \in D2 \ I1
        PROVE  o1[v] # o1[o2[k]]
    <3>1. v \in 0 .. p - 1 /\ v # o2[k] /\ o1[o2[k]] # npos
      BY <1>2, <2>3, <2>5 DEF Intervals, npos
    <3> QED
      BY <1>10, <2>3, <3>1
  <2>7. o1[o2[k]] \notin D
    BY <1>4, <2>5, <2>6 DEF MergedDeletions
  <2> QED
    BY <2>1, <2>2, <2>3, <2>4, <2>5, <2>7
<1>12. PICK g : g = [x \in Nat \ I |-> IF x < q THEN o[x] ELSE x - q + n]
  OBVIOUS
<1>13. \A x \in Nat \ I : /\ x < q => g[x] = o[x] /\ g[x] \in (0 .. n - 1) \ D
                          /\ x >= q => g[x] = x - q + n
  <2>1. ASSUME NEW x \in Nat \ I
        PROVE  /\ x < q => g[x] = o[x] /\ g[x] \in (0 .. n - 1) \ D
               /\ x >= q => g[x] = x - q + n
    <3>1. g[x] = IF x < q THEN o[x] ELSE x - q + n
      BY <1>12
    <3>2. x < q => x \in (0 .. q - 1) \ I
      OBVIOUS
    <3> QED
      BY <1>11, <3>1, <3>2
  <2> QED
    BY <2>1
<1>14. g \in [Nat \ I -> Nat \ D]
  <2>1. ASSUME NEW x \in Nat \ I
        PROVE  g[x] \in Nat \ D
    <3>1. CASE x < q
      BY <1>13, <3>1
    <3>2. CASE x >= q
      <4>1. g[x] = x - q + n /\ x - q + n \in Nat /\ x - q + n >= n
        BY <1>13, <3>2
      <4>2. \A y \in D : y < n
        BY <1>6, IntervalsFinite
      <4> QED
        BY <4>1, <4>2
    <3> QED
      BY <3>1, <3>2
  <2> QED
    BY <1>12, <2>1
<1>15. ASSUME NEW x \in Nat \ I, NEW y \in Nat \ I, x < y
       PROVE  g[x] < g[y]
  <2>1. CASE y < q
    <3>1. x \in (0 .. q - 1) \ I /\ y \in (0 .. q - 1) \ I
      BY <1>15, <2>1
    <3>2. /\ x \in (0 .. q - 1) \ I2 /\ o2[x] \in (0 .. p - 1) \ I1 /\ o[x] = o1[o2[x]]
          /\ y \in (0 .. q - 1) \ I2 /\ o2[y] \in (0 .. p - 1) \ I1 /\ o[y] = o1[o2[y]]
      BY <1>11, <3>1
    <3>3. PICK a : a = o2[x]
      OBVIOUS
    <3>4. PICK b : b = o2[y]
      OBVIOUS
    <3>5. /\ a \in (0 .. p - 1) \ D2 /\ unshift(D2, a) = unshift(I2, x)
          /\ b \in (0 .. p - 1) \ D2 /\ unshift(D2, b) = unshift(I2, y)
      BY <1>2, <3>2, <3>3, <3>4
    <3>6. a \in Nat \ D2 /\ b \in Nat \ D2 /\ x \in Nat \ I2 /\ y \in Nat \ I2
      BY <3>2, <3>5
    <3>7. unshift(I2, x) < unshift(I2, y)
      BY <1>3, <1>15, <3>6, UnshiftOrder
    <3>8. a < b
      BY <1>3, <3>5, <3>6, <3>7, UnshiftOrder
    <3>9. a \in (0 .. p - 1) \ I1 /\ b \in (0 .. p - 1) \ I1
      BY <3>2, <3>3, <3>4
    <3>10. PICK c : c = o1[a]
      OBVIOUS
    <3>11. PICK d : d = o1[b]
      OBVIOUS
    <3>12. /\ c \in Nat \ D1 /\ unshift(D1, c) = unshift(I1, a)
           /\ d \in Nat \ D1 /\ unshift(D1, d) = unshift(I1, b)
      BY <1>1, <3>9, <3>10, <3>11
    <3>13. a \in Nat \ I1 /\ b \in Nat \ I1
      BY <3>9
    <3>14. unshift(I1, a) < unshift(I1, b)
      BY <1>3, <3>8, <3>13, UnshiftOrder
    <3>15. c < d
      BY <1>3, <3>12, <3>14, UnshiftOrder
    <3>16. g[x] = c /\ g[y] = d
      BY <1>13, <1>15, <2>1, <3>2, <3>3, <3>4, <3>10, <3>11
    <3> QED
      BY <3>15, <3>16
  <2>2. CASE x < q /\ y >= q
    <3>1. g[x] \in (0 .. n - 1) \ D /\ g[y] = y - q + n
      BY <1>13, <2>2
    <3> QED
      BY <2>2, <3>1
  <2>3. CASE x >= q
    <3>1. g[x] = x - q + n /\ g[y] = y - q + n
      BY <1>13, <1>15, <2>3
    <3> QED
      BY <1>15, <3>1
  <2> QED
    BY <2>1, <2>2, <2>3
<1>16. ASSUME NEW z \in Nat \ D
       PROVE  \E x \in Nat \ I : g[x] = z
  <2>1. CASE z >= n
    <3>1. z - n + q \in Nat /\ z - n + q >= q
      BY <2>1
    <3>2. z - n + q \notin I
      BY <1>6, <3>1, IntervalsFinite
    <3>3. g[z - n + q] = z - n + q - q + n
      BY <1>13, <3>1, <3>2
    <3> QED
      BY <3>1, <3>2, <3>3
  <2>2. CASE z < n
    <3>1. z \in (0 .. n - 1) \ D1 /\ z \notin {o1[v] : v \in D2 \ I1}
      BY <1>4, <2>2 DEF MergedDeletions
    <3>2. PICK x : x = shift(I1, unshift(D1, z))
      OBVIOUS
    <3>3. x \in (0 .. p - 1) \ I1 /\ o1[x] = z
      BY <3>1, <3>2, KeptBack
    <3>4. x \in (0 .. p - 1) \ D2
      BY <3>1, <3>3
    <3>5. PICK y : y = shift(I2, unshift(D2, x))
      OBVIOUS
    <3>6. y \in (0 .. q - 1) \ I2 /\ o2[y] = x
      BY <3>4, <3>5, KeptBack
    <3>7. y \notin I
      BY <1>5, <3>3, <3>6 DEF MergedInsertions, Carried
    <3>8. y \in (0 .. q - 1) \ I /\ y \in Nat \ I /\ y < q
      BY <3>6, <3>7
    <3>9. g[y] = o[y] /\ o[y] = o1[o2[y]]
      BY <1>11, <1>13, <3>8
    <3> QED
      BY <3>3, <3>6, <3>8, <3>9
  <2> QED
    BY <2>1, <2>2
<1>17. \A x \in Nat \ I : unshift(D, g[x]) = unshift(I, x)
  BY <1>7, <1>14, <1>15, <1>16, OrderKept
<1>18. ASSUME NEW k \in (0 .. q - 1) \ I
       PROVE  o[k] \in (0 .. n - 1) \ D /\ unshift(D, o[k]) = unshift(I, k)
  <2>1. k \in Nat \ I /\ k < q
    OBVIOUS
  <2> QED
    BY <1>11, <1>13, <1>17, <2>1
<1>19. unshift(D, n) = unshift(I, q)
  <2>1. q \in Nat \ I
    BY <1>6, IntervalsFinite
  <2>2. g[q] = n
    BY <1>13, <2>1
  <2> QED
    BY <1>17, <2>1, <2>2
<1> QED
  BY <1>4, <1>5, <1>6, <1>8, <1>18, <1>19 DEF Kept

-----------------------------------------------------------------------------
(* Merging: the moves                                                      *)

\* Overwriting a move with the last one, which goes: no other is lost.
Overwritten(s, k) == Front([s EXCEPT ![k] = Last(s)])

LEMMA OverwrittenSet ==
  ASSUME NEW s \in Seq(Moves), NEW k \in DOMAIN s
  PROVE  /\ Overwritten(s, k) \in Seq(Moves)
         /\ \A x \in ToSet(Overwritten(s, k)) : x \in ToSet(s)
         /\ \A x \in ToSet(s) : x \in ToSet(Overwritten(s, k)) \/ x = s[k]
<1>1. PICK N : N = Len(s)
  OBVIOUS
<1>2. /\ N \in Nat /\ k \in 1 .. N /\ DOMAIN s = 1 .. N
      /\ \A i \in 1 .. N : s[i] \in Moves
  BY <1>1
<1>3. PICK q : q = Overwritten(s, k)
  OBVIOUS
<1>4. PICK r : r = [s EXCEPT ![k] = s[N]]
  OBVIOUS
<1>5. r \in Seq(Moves) /\ Len(r) = N /\ \A i \in 1 .. N : r[i] = IF i = k THEN s[N] ELSE s[i]
  BY <1>1, <1>2, <1>4
<1>6. q = SubSeq(r, 1, N - 1)
  BY <1>1, <1>3, <1>4, <1>5 DEF Overwritten, Front, Last
<1>7. /\ q \in Seq(Moves) /\ Len(q) = N - 1 /\ DOMAIN q = 1 .. N - 1
      /\ \A i \in 1 .. N - 1 : q[i] = r[i]
  BY <1>2, <1>5, <1>6
<1>8. \A i \in 1 .. N - 1 : q[i] = IF i = k THEN s[N] ELSE s[i]
  BY <1>2, <1>5, <1>7
<1>9. ASSUME NEW x \in ToSet(q)
      PROVE  x \in ToSet(s)
  <2>1. PICK i \in 1 .. N - 1 : q[i] = x
    BY <1>7, SeqSet
  <2>2. N \in 1 .. Len(s) /\ i \in 1 .. Len(s)
    BY <1>1, <1>2
  <2>3. s[N] = x \/ s[i] = x
    BY <1>8, <2>1
  <2> QED
    BY <2>2, <2>3, SeqSet
<1>10. ASSUME NEW x \in ToSet(s)
       PROVE  x \in ToSet(q) \/ x = s[k]
  <2>1. PICK i \in 1 .. N : s[i] = x
    BY <1>1, SeqSet
  <2>2. ASSUME i # k
        PROVE  \E j \in 1 .. Len(q) : q[j] = x
    <3>1. CASE i = N
      <4>1. k \in 1 .. N - 1
        BY <1>2, <2>2, <3>1
      <4>2. q[k] = x
        BY <1>8, <2>1, <3>1, <4>1
      <4> QED
        BY <1>7, <4>1, <4>2
    <3>2. CASE i # N
      <4>1. i \in 1 .. N - 1
        BY <1>2, <3>2
      <4>2. q[i] = x
        BY <1>8, <2>1, <2>2, <4>1
      <4> QED
        BY <1>7, <4>1, <4>2
    <3> QED
      BY <3>1, <3>2
  <2>3. i # k => x \in ToSet(q)
    BY <1>7, <2>2, SeqSet
  <2> QED
    BY <2>1, <2>3
<1> QED
  BY <1>3, <1>7, <1>9, <1>10

\* The states of the loop over the old moves.
OldStates == [old : Seq(Moves), new : Seq(Moves), modified : SUBSET Nat]

\* A move of the second goes on the move m of the first: they become one.
MovesOn(d, s, m, M1) ==
  \E x \in ToSet(s.new) :
    /\ x.from = m.to
    /\ ToSet(d.old) = ToSet(s.old) \cup {[from |-> m.from, to |-> x.to]}
    /\ \A y \in ToSet(d.new) : y \in ToSet(s.new)
    /\ \A y \in ToSet(s.new) : y \in ToSet(d.new) \/ y = x
    /\ d.modified = IF m.to \in M1 THEN s.modified \cup {x.to} ELSE s.modified

\* No move goes on it: it is deleted, or it goes where the second shifts it.
MovesNotOn(d, s, m, D2, I2) ==
  /\ \A x \in ToSet(s.new) : x.from # m.to
  /\ d.new = s.new /\ d.modified = s.modified
  /\ ToSet(d.old) =
       IF m.to \in D2 THEN ToSet(s.old)
       ELSE ToSet(s.old) \cup {[from |-> m.from, to |-> shift(I2, unshift(D2, m.to))]}

LEMMA OldMoveIs ==
  ASSUME NEW c1, NEW c2, c2.deletions \in FiniteIndices, c2.insertions \in FiniteIndices,
         NEW s \in OldStates, NEW m \in Moves, NEW d, d = OldMove(c1, c2, s, m)
  PROVE  /\ d \in OldStates
         /\ MovesOn(d, s, m, c1.modifications)
              \/ MovesNotOn(d, s, m, c2.deletions, c2.insertions)
<1>1. /\ s.old \in Seq(Moves) /\ s.new \in Seq(Moves) /\ s.modified \in SUBSET Nat
      /\ s = [old |-> s.old, new |-> s.new, modified |-> s.modified]
  BY DEF OldStates
<1>2. /\ Len(s.new) \in Nat /\ DOMAIN s.new = 1 .. Len(s.new)
      /\ \A k \in 1 .. Len(s.new) : s.new[k] \in Moves
  BY <1>1, SeqIndices
<1>3. PICK again : again = {k \in DOMAIN s.new : s.new[k].from = m.to}
  OBVIOUS
<1>4. m.from \in Nat /\ m.to \in Nat /\ m = [from |-> m.from, to |-> m.to]
  BY DEF Moves
<1>5. CASE again # {}
  <2>1. again \in SUBSET Nat
    BY <1>2, <1>3
  <2>2. \E j \in again : \A i \in again : j <= i
    BY <1>5, <2>1, Least
  <2>3. PICK k : k = CHOOSE j \in again : \A i \in again : j <= i
    OBVIOUS
  <2>4. k \in DOMAIN s.new /\ s.new[k].from = m.to
    <3>1. k \in again
      BY <2>2, <2>3
    <3> QED
      BY <1>3, <3>1
  <2>5. PICK x : x = s.new[k]
    OBVIOUS
  <2>6. x \in Moves /\ x \in ToSet(s.new) /\ x.from = m.to /\ x.to \in Nat
    <3>1. x \in Moves
      BY <1>2, <2>4, <2>5
    <3>2. x \in ToSet(s.new)
      BY <1>1, <1>2, <2>4, <2>5, SeqSet
    <3> QED
      BY <2>4, <2>5, <3>1, <3>2 DEF Moves
  <2>7. PICK e : e = [from |-> m.from, to |-> x.to]
    OBVIOUS
  <2>8. e \in Moves
    BY <1>4, <2>6, <2>7 DEF Moves
  <2>9. PICK q : q = Append(s.old, e)
    OBVIOUS
  <2>10. q \in Seq(Moves) /\ ToSet(q) = ToSet(s.old) \cup {e}
    BY <1>1, <2>8, <2>9, AppendSet
  <2>11. PICK r : r = Overwritten(s.new, k)
    OBVIOUS
  <2>12. /\ r \in Seq(Moves)
         /\ \A y \in ToSet(r) : y \in ToSet(s.new)
         /\ \A y \in ToSet(s.new) : y \in ToSet(r) \/ y = x
    BY <1>1, <2>4, <2>5, <2>11, OverwrittenSet
  <2>13. PICK M : M = IF m.to \in c1.modifications THEN s.modified \cup {x.to} ELSE s.modified
    OBVIOUS
  <2>14. M \in SUBSET Nat
    BY <1>1, <2>6, <2>13
  <2>15. d = [old |-> q, new |-> r, modified |-> M]
    <3>1. [m EXCEPT !.to = x.to] = e
      BY <1>4, <2>7
    <3>2. d = [old |-> Append(s.old, [m EXCEPT !.to = x.to]),
               new |-> Front([s.new EXCEPT ![k] = Last(s.new)]),
               modified |-> IF m.to \in c1.modifications THEN s.modified \cup {x.to}
                                                         ELSE s.modified]
      BY <1>3, <1>5, <2>3, <2>5 DEF OldMove
    <3>3. r = Front([s.new EXCEPT ![k] = Last(s.new)])
      BY <2>11 DEF Overwritten
    <3> QED
      BY <2>9, <2>13, <3>1, <3>2, <3>3
  <2>16. d.old = q /\ d.new = r /\ d.modified = M /\ d \in OldStates
    BY <2>10, <2>12, <2>14, <2>15 DEF OldStates
  <2>17. MovesOn(d, s, m, c1.modifications)
    BY <2>6, <2>7, <2>10, <2>12, <2>13, <2>16 DEF MovesOn
  <2> QED
    BY <2>16, <2>17
<1>6. CASE again = {}
  <2>1. \A x \in ToSet(s.new) : x.from # m.to
    <3>1. ASSUME NEW x \in ToSet(s.new)
          PROVE  x.from # m.to
      <4>1. PICK k \in 1 .. Len(s.new) : s.new[k] = x
        BY <1>1, SeqSet
      <4> QED
        BY <1>2, <1>3, <1>6, <4>1
    <3> QED
      BY <3>1
  <2>2. CASE m.to \in c2.deletions
    <3>1. d = s
      BY <1>3, <1>6, <2>2 DEF OldMove
    <3> QED
      BY <2>1, <2>2, <3>1 DEF MovesNotOn
  <2>3. CASE m.to \notin c2.deletions
    <3>1. PICK t : t = shift(c2.insertions, unshift(c2.deletions, m.to))
      OBVIOUS
    <3>2. t \in Nat
      <4>1. unshift(c2.deletions, m.to) \in Nat
        BY <1>4, UnshiftNat
      <4> QED
        BY <3>1, <4>1, ShiftUnshift
    <3>3. PICK e : e = [from |-> m.from, to |-> t]
      OBVIOUS
    <3>4. e \in Moves
      BY <1>4, <3>2, <3>3 DEF Moves
    <3>5. PICK q : q = Append(s.old, e)
      OBVIOUS
    <3>6. q \in Seq(Moves) /\ ToSet(q) = ToSet(s.old) \cup {e}
      BY <1>1, <3>4, <3>5, AppendSet
    <3>7. [m EXCEPT !.to = shift(c2.insertions, unshift(c2.deletions, @))] = e
      BY <1>4, <3>1, <3>3
    <3>8. d = [s EXCEPT !.old =
                 Append(@, [m EXCEPT !.to = shift(c2.insertions, unshift(c2.deletions, @))])]
      BY <1>3, <1>6, <2>3 DEF OldMove
    <3>9. d = [old |-> q, new |-> s.new, modified |-> s.modified]
      BY <1>1, <3>5, <3>7, <3>8
    <3>10. d.old = q /\ d.new = s.new /\ d.modified = s.modified /\ d \in OldStates
      BY <1>1, <3>6, <3>9 DEF OldStates
    <3>11. MovesNotOn(d, s, m, c2.deletions, c2.insertions)
      BY <2>1, <2>3, <3>1, <3>3, <3>6, <3>10 DEF MovesNotOn
    <3> QED
      BY <3>10, <3>11
  <2> QED
    BY <2>2, <2>3
<1> QED
  BY <1>5, <1>6

\* The old moves up to j went on, or were dropped with their rows; what the
\* second moved of rows that the first moved is modified when the row was.
OldMovesTo(s, c1, c2, q, o1, o2, j) ==
  /\ s \in OldStates
  /\ \A x \in ToSet(s.new) : x \in ToSet(c2.moves)
  /\ \A x \in ToSet(c2.moves) :
       x \in ToSet(s.new) \/ \E i \in 1 .. j : c1.moves[i].to = x.from
  /\ \A e \in ToSet(s.old) :
       /\ e.from \in c1.deletions
       /\ e.to \in MergedInsertions(c1.insertions, c2.deletions, c2.insertions, q, o2)
       /\ o2[e.to] # npos /\ o1[o2[e.to]] = e.from
  /\ \A i \in 1 .. j : \A x \in ToSet(c2.moves) :
       x.from = c1.moves[i].to =>
         /\ [from |-> c1.moves[i].from, to |-> x.to] \in ToSet(s.old)
         /\ c1.moves[i].to \in c1.modifications => x.to \in s.modified
  /\ \A i \in 1 .. j : \A k \in (0 .. q - 1) \ c2.insertions :
       o2[k] = c1.moves[i].to => [from |-> c1.moves[i].from, to |-> k] \in ToSet(s.old)
  /\ \A k \in c2.modifications : k \in s.modified
  /\ \A k \in s.modified :
       \/ k \in c2.modifications
       \/ k \in 0 .. q - 1 /\ o2[k] # npos /\ o2[k] \in c1.modifications

\* What the moves of two builders that follow each other have.
MovesOfBoth(n, p, q, c1, c2, o1, o2) ==
  /\ \A m \in ToSet(c1.moves) : /\ m \in Moves
                                /\ m.from \in c1.deletions /\ m.to \in c1.insertions
                                /\ m.from \in 0 .. n - 1 /\ m.to \in 0 .. p - 1
                                /\ o1[m.to] = m.from
  /\ \A x \in ToSet(c2.moves) : /\ x \in Moves
                                /\ x.from \in c2.deletions /\ x.to \in c2.insertions
                                /\ x.from \in 0 .. p - 1 /\ x.to \in 0 .. q - 1
                                /\ o2[x.to] = x.from
  /\ \A x, y \in ToSet(c2.moves) : x.from = y.from => x.to = y.to
  /\ c1.moves \in Seq(Moves) /\ c2.moves \in Seq(Moves)

LEMMA BothTold ==
  ASSUME NEW n \in Nat, NEW p \in Nat, NEW q \in Nat, NEW c1, NEW c2, NEW o1, NEW o2,
         Told(c1, n, p, o1), Told(c2, p, q, o2)
  PROVE  MovesOfBoth(n, p, q, c1, c2, o1, o2)
<1>1. /\ Kept(c1.deletions, c1.insertions, n, p, o1) /\ MovesTold(c1, o1)
      /\ Kept(c2.deletions, c2.insertions, p, q, o2) /\ MovesTold(c2, o2)
      /\ o2 \in Origins(p, q)
  BY DEF Told
<1>2. /\ \A x \in c1.deletions : x \in 0 .. n - 1
      /\ \A x \in c1.insertions : x \in 0 .. p - 1
      /\ \A x \in c2.deletions : x \in 0 .. p - 1
      /\ \A x \in c2.insertions : x \in 0 .. q - 1
  BY <1>1 DEF Kept, Intervals
<1>3. c1.moves \in Seq(Moves) /\ c2.moves \in Seq(Moves)
  BY <1>1 DEF MovesTold
<1>4. /\ \A m \in ToSet(c1.moves) :
           m.from \in c1.deletions /\ m.to \in c1.insertions /\ o1[m.to] = m.from
      /\ \A x \in ToSet(c2.moves) :
           x.from \in c2.deletions /\ x.to \in c2.insertions /\ o2[x.to] = x.from
  BY <1>1 DEF MovesTold
<1>5. \A s \in Seq(Moves) : \A m \in ToSet(s) : m \in Moves
  <2>1. ASSUME NEW s \in Seq(Moves), NEW m \in ToSet(s)
        PROVE  m \in Moves
    BY SeqSet, SeqIndices
  <2> QED
    BY <2>1
<1>6. ASSUME NEW x \in ToSet(c2.moves), NEW y \in ToSet(c2.moves), x.from = y.from
      PROVE  x.to = y.to
  <2>1. /\ x.to \in 0 .. q - 1 /\ y.to \in 0 .. q - 1 /\ o2[x.to] = o2[y.to]
        /\ o2[x.to] \in 0 .. p - 1
    BY <1>2, <1>4, <1>6
  <2>2. o2[x.to] # npos
    BY <2>1 DEF npos
  <2> QED
    BY <1>1, <2>1, <2>2 DEF Origins
<1>7. /\ \A m \in ToSet(c1.moves) : m \in Moves
      /\ \A x \in ToSet(c2.moves) : x \in Moves
  BY <1>3, <1>5
<1> QED
  BY <1>2, <1>3, <1>4, <1>6, <1>7 DEF MovesOfBoth

LEMMA OldMoveStep ==
  ASSUME NEW n \in Nat, NEW p \in Nat, NEW q \in Nat, NEW c1, NEW c2, NEW o1, NEW o2,
         Told(c1, n, p, o1), Told(c2, p, q, o2),
         NEW j \in 0 .. Len(c1.moves) - 1, NEW s, OldMovesTo(s, c1, c2, q, o1, o2, j)
  PROVE  OldMovesTo(OldMove(c1, c2, s, c1.moves[j + 1]), c1, c2, q, o1, o2, j + 1)
<1>1. /\ \A m \in ToSet(c1.moves) : /\ m \in Moves
                                    /\ m.from \in c1.deletions /\ m.to \in c1.insertions
                                    /\ m.from \in 0 .. n - 1 /\ m.to \in 0 .. p - 1
                                    /\ o1[m.to] = m.from
      /\ \A x \in ToSet(c2.moves) : /\ x \in Moves
                                    /\ x.from \in c2.deletions /\ x.to \in c2.insertions
                                    /\ x.from \in 0 .. p - 1 /\ x.to \in 0 .. q - 1
                                    /\ o2[x.to] = x.from
      /\ \A x, y \in ToSet(c2.moves) : x.from = y.from => x.to = y.to
      /\ c1.moves \in Seq(Moves)
  <2>1. MovesOfBoth(n, p, q, c1, c2, o1, o2)
    BY BothTold
  <2> QED
    BY ONLY <2>1 DEF MovesOfBoth
<1>2. /\ Kept(c2.deletions, c2.insertions, p, q, o2)
      /\ c2.deletions \in FiniteIndices /\ c2.insertions \in FiniteIndices
  BY IntervalsFinite DEF Told, Kept
<1>3. PICK m : m = c1.moves[j + 1]
  OBVIOUS
<1>4. \A i \in 1 .. j + 1 : c1.moves[i] \in ToSet(c1.moves)
  <2>1. Len(c1.moves) \in Nat
    BY <1>1, SeqIndices
  <2>2. \A i \in 1 .. j + 1 : i \in 1 .. Len(c1.moves)
    BY <2>1
  <2> QED
    BY <1>1, <2>2, SeqSet
<1>5. /\ m \in Moves /\ m.from \in c1.deletions /\ m.to \in c1.insertions
      /\ m.from \in 0 .. n - 1 /\ m.to \in 0 .. p - 1 /\ o1[m.to] = m.from
  BY <1>1, <1>3, <1>4
<1>6. PICK d : d = OldMove(c1, c2, s, m)
  OBVIOUS
<1>7. s \in OldStates /\ \A x \in ToSet(s.new) : x \in ToSet(c2.moves)
  BY DEF OldMovesTo
<1>8. /\ d \in OldStates
      /\ MovesOn(d, s, m, c1.modifications)
           \/ MovesNotOn(d, s, m, c2.deletions, c2.insertions)
  BY <1>2, <1>5, <1>6, <1>7, OldMoveIs
<1>9. \A x \in ToSet(c2.moves) :
        x \in ToSet(s.new) \/ \E i \in 1 .. j : c1.moves[i].to = x.from
  BY DEF OldMovesTo
<1>10. \A e \in ToSet(s.old) :
         /\ e.from \in c1.deletions
         /\ e.to \in MergedInsertions(c1.insertions, c2.deletions, c2.insertions, q, o2)
         /\ o2[e.to] # npos /\ o1[o2[e.to]] = e.from
  BY DEF OldMovesTo
<1>11. \A i \in 1 .. j : \A x \in ToSet(c2.moves) :
         x.from = c1.moves[i].to =>
           /\ [from |-> c1.moves[i].from, to |-> x.to] \in ToSet(s.old)
           /\ c1.moves[i].to \in c1.modifications => x.to \in s.modified
  BY DEF OldMovesTo
<1>12. \A i \in 1 .. j : \A k \in (0 .. q - 1) \ c2.insertions :
         o2[k] = c1.moves[i].to => [from |-> c1.moves[i].from, to |-> k] \in ToSet(s.old)
  BY DEF OldMovesTo
<1>13. /\ \A k \in c2.modifications : k \in s.modified
       /\ \A k \in s.modified :
            \/ k \in c2.modifications
            \/ k \in 0 .. q - 1 /\ o2[k] # npos /\ o2[k] \in c1.modifications
  BY DEF OldMovesTo
<1>14. \A i \in 1 .. j + 1 : i \in 1 .. j \/ i = j + 1
  OBVIOUS
<1>15. j + 1 \in 1 .. j + 1 /\ \A i \in 1 .. j : i \in 1 .. j + 1
  OBVIOUS
<1>16. \A k \in (0 .. q - 1) \ c2.insertions : o2[k] \notin c2.deletions
  BY <1>2 DEF Kept
<1>17. CASE MovesOn(d, s, m, c1.modifications)
  <2>1. PICK x \in ToSet(s.new) :
          /\ x.from = m.to
          /\ ToSet(d.old) = ToSet(s.old) \cup {[from |-> m.from, to |-> x.to]}
          /\ \A y \in ToSet(d.new) : y \in ToSet(s.new)
          /\ \A y \in ToSet(s.new) : y \in ToSet(d.new) \/ y = x
          /\ d.modified = IF m.to \in c1.modifications THEN s.modified \cup {x.to}
                                                       ELSE s.modified
    BY <1>17 DEF MovesOn
  <2>2. /\ x \in ToSet(c2.moves) /\ x.from \in c2.deletions /\ x.to \in c2.insertions
        /\ x.to \in 0 .. q - 1 /\ o2[x.to] = m.to
    BY <1>1, <1>7, <2>1
  <2>3. \A y \in ToSet(d.new) : y \in ToSet(c2.moves)
    BY <1>7, <2>1
  <2>4. \A y \in ToSet(c2.moves) :
          y \in ToSet(d.new) \/ \E i \in 1 .. j + 1 : c1.moves[i].to = y.from
    BY <1>3, <1>9, <1>15, <2>1
  <2>5. ASSUME NEW e \in ToSet(d.old)
        PROVE  /\ e.from \in c1.deletions
               /\ e.to \in MergedInsertions(c1.insertions, c2.deletions, c2.insertions, q, o2)
               /\ o2[e.to] # npos /\ o1[o2[e.to]] = e.from
    <3>1. CASE e \in ToSet(s.old)
      BY <1>10, <3>1
    <3>2. CASE e = [from |-> m.from, to |-> x.to]
      <4>1. e.from = m.from /\ e.to = x.to
        BY <3>2
      <4>2. x.to \in MergedInsertions(c1.insertions, c2.deletions, c2.insertions, q, o2)
        BY <2>2 DEF MergedInsertions
      <4>3. m.to # npos
        BY <1>5 DEF npos
      <4> QED
        BY <1>5, <2>2, <4>1, <4>2, <4>3
    <3> QED
      BY <2>1, <3>1, <3>2
  <2>6. ASSUME NEW i \in 1 .. j + 1, NEW y \in ToSet(c2.moves), y.from = c1.moves[i].to
        PROVE  /\ [from |-> c1.moves[i].from, to |-> y.to] \in ToSet(d.old)
               /\ c1.moves[i].to \in c1.modifications => y.to \in d.modified
    <3>1. CASE i \in 1 .. j
      BY <1>11, <2>1, <2>6, <3>1
    <3>2. CASE i = j + 1
      <4>1. y.from = m.to /\ c1.moves[i] = m
        BY <1>3, <2>6, <3>2
      <4>2. y.to = x.to
        BY <1>1, <2>1, <2>2, <4>1
      <4> QED
        BY <2>1, <4>1, <4>2
    <3> QED
      BY <1>14, <3>1, <3>2
  <2>7. ASSUME NEW i \in 1 .. j + 1, NEW k \in (0 .. q - 1) \ c2.insertions,
               o2[k] = c1.moves[i].to
        PROVE  [from |-> c1.moves[i].from, to |-> k] \in ToSet(d.old)
    <3>1. CASE i \in 1 .. j
      BY <1>12, <2>1, <2>7, <3>1
    <3>2. CASE i = j + 1
      BY <1>3, <1>16, <2>1, <2>2, <2>7, <3>2
    <3> QED
      BY <1>14, <3>1, <3>2
  <2>8. \A k \in c2.modifications : k \in d.modified
    BY <1>13, <2>1
  <2>9. \A k \in d.modified :
          \/ k \in c2.modifications
          \/ k \in 0 .. q - 1 /\ o2[k] # npos /\ o2[k] \in c1.modifications
    <3>1. m.to # npos
      BY <1>5 DEF npos
    <3> QED
      BY <1>13, <2>1, <2>2, <3>1
  <2>10. OldMovesTo(d, c1, c2, q, o1, o2, j + 1)
    BY <1>8, <2>3, <2>4, <2>5, <2>6, <2>7, <2>8, <2>9 DEF OldMovesTo
  <2> QED
    BY <1>3, <1>6, <2>10
<1>18. CASE MovesNotOn(d, s, m, c2.deletions, c2.insertions)
  <2>1. /\ \A x \in ToSet(s.new) : x.from # m.to
        /\ d.new = s.new /\ d.modified = s.modified
        /\ ToSet(d.old) =
             IF m.to \in c2.deletions THEN ToSet(s.old)
             ELSE ToSet(s.old)
                    \cup {[from |-> m.from,
                           to |-> shift(c2.insertions, unshift(c2.deletions, m.to))]}
    BY <1>18 DEF MovesNotOn
  <2>2. \A y \in ToSet(c2.moves) :
          y \in ToSet(d.new) \/ \E i \in 1 .. j + 1 : c1.moves[i].to = y.from
    BY <1>9, <1>15, <2>1
  <2>3. PICK t : t = shift(c2.insertions, unshift(c2.deletions, m.to))
    OBVIOUS
  <2>4. m.to \notin c2.deletions => t \in (0 .. q - 1) \ c2.insertions /\ o2[t] = m.to
    <3>1. ASSUME m.to \notin c2.deletions
          PROVE  t \in (0 .. q - 1) \ c2.insertions /\ o2[t] = m.to
      <4>1. m.to \in (0 .. p - 1) \ c2.deletions
        BY <1>5, <3>1
      <4> QED
        BY <1>2, <2>3, <4>1, KeptBack
    <3> QED
      BY <3>1
  <2>5. ASSUME NEW e \in ToSet(d.old)
        PROVE  /\ e.from \in c1.deletions
               /\ e.to \in MergedInsertions(c1.insertions, c2.deletions, c2.insertions, q, o2)
               /\ o2[e.to] # npos /\ o1[o2[e.to]] = e.from
    <3>1. CASE e \in ToSet(s.old)
      BY <1>10, <3>1
    <3>2. CASE m.to \notin c2.deletions /\ e = [from |-> m.from, to |-> t]
      <4>1. e.from = m.from /\ e.to = t
        BY <3>2
      <4>2. t \in MergedInsertions(c1.insertions, c2.deletions, c2.insertions, q, o2)
        BY <1>5, <2>4, <3>2 DEF MergedInsertions, Carried
      <4>3. m.to # npos
        BY <1>5 DEF npos
      <4> QED
        BY <1>5, <2>4, <3>2, <4>1, <4>2, <4>3
    <3> QED
      BY <2>1, <2>3, <3>1, <3>2
  <2>6. ASSUME NEW i \in 1 .. j + 1, NEW y \in ToSet(c2.moves), y.from = c1.moves[i].to
        PROVE  /\ [from |-> c1.moves[i].from, to |-> y.to] \in ToSet(d.old)
               /\ c1.moves[i].to \in c1.modifications => y.to \in d.modified
    <3>1. CASE i \in 1 .. j
      BY <1>11, <2>1, <2>6, <3>1
    <3>2. CASE i = j + 1
      <4>1. y.from = m.to /\ c1.moves[i] = m
        BY <1>3, <2>6, <3>2
      <4>2. PICK h \in 1 .. j : c1.moves[h].to = y.from
        BY <1>9, <2>1, <4>1
      <4>3. c1.moves[h].from = m.from /\ c1.moves[h].to = m.to
        <5>1. o1[c1.moves[h].to] = c1.moves[h].from
          BY <1>1, <1>4, <1>15
        <5> QED
          BY <1>5, <4>1, <4>2, <5>1
      <4>4. /\ [from |-> c1.moves[h].from, to |-> y.to] \in ToSet(s.old)
            /\ c1.moves[h].to \in c1.modifications => y.to \in s.modified
        BY <1>11, <4>2
      <4> QED
        BY <2>1, <4>1, <4>3, <4>4
    <3> QED
      BY <1>14, <3>1, <3>2
  <2>7. ASSUME NEW i \in 1 .. j + 1, NEW k \in (0 .. q - 1) \ c2.insertions,
               o2[k] = c1.moves[i].to
        PROVE  [from |-> c1.moves[i].from, to |-> k] \in ToSet(d.old)
    <3>1. CASE i \in 1 .. j
      BY <1>12, <2>1, <2>7, <3>1
    <3>2. CASE i = j + 1
      <4>1. o2[k] = m.to /\ c1.moves[i] = m /\ m.to \notin c2.deletions
        BY <1>3, <1>16, <2>7, <3>2
      <4>2. t = k
        <5>1. unshift(c2.deletions, o2[k]) = unshift(c2.insertions, k)
          BY <1>2 DEF Kept
        <5>2. k \in Nat \ c2.insertions
          OBVIOUS
        <5>3. shift(c2.insertions, unshift(c2.insertions, k)) = k
          BY <1>2, <5>2, UnshiftShift
        <5> QED
          BY <2>3, <4>1, <5>1, <5>3
      <4> QED
        BY <2>1, <2>3, <4>1, <4>2
    <3> QED
      BY <1>14, <3>1, <3>2
  <2>8. OldMovesTo(d, c1, c2, q, o1, o2, j + 1)
    BY <1>7, <1>8, <1>13, <2>1, <2>2, <2>5, <2>6, <2>7 DEF OldMovesTo
  <2> QED
    BY <1>3, <1>6, <2>8
<1> QED
  BY <1>8, <1>17, <1>18

LEMMA OldMovesSteps ==
  ASSUME NEW c1 \in Builders, NEW c2 \in Builders,
         c2.deletions \in FiniteIndices, c2.insertions \in FiniteIndices
  PROVE  /\ OldMoves(c1, c2)[0]
              = [old |-> <<>>, new |-> c2.moves, modified |-> c2.modifications]
         /\ \A k \in 1 .. Len(c1.moves) :
              OldMoves(c1, c2)[k] = OldMove(c1, c2, OldMoves(c1, c2)[k - 1], c1.moves[k])
<1> DEFINE N == Len(c1.moves)
           V == OldStates
           b == [old |-> <<>>, new |-> c2.moves, modified |-> c2.modifications]
           F == [p \in V \X (1 .. N) |-> OldMove(c1, c2, p[1], c1.moves[p[2]])]
           Rec(f) == f = [k \in 0 .. N |->
                           IF k = 0 THEN [old |-> <<>>, new |-> c2.moves,
                                          modified |-> c2.modifications]
                           ELSE OldMove(c1, c2, f[k - 1], c1.moves[k])]
           s == CHOOSE f : Rec(f)
<1>1. N \in Nat /\ \A k \in 1 .. N : c1.moves[k] \in Moves
  BY BuilderFields, SeqIndices
<1>2. b \in V
  BY BuilderFields, NoMoves DEF OldStates
<1>3. F \in [V \X (1 .. N) -> V]
  <2>1. ASSUME NEW d \in V, NEW k \in 1 .. N
        PROVE  OldMove(c1, c2, d, c1.moves[k]) \in V
    <3>1. PICK m \in Moves : m = c1.moves[k]
      BY <1>1
    <3>2. OldMove(c1, c2, d, m) \in V
      BY OldMoveIs
    <3> QED
      BY <3>1, <3>2
  <2> HIDE DEF V, N
  <2> QED
    BY <2>1
<1>4. Recursive(N, V, b, F) # {}
  <2>1. N \in Nat
    BY <1>1
  <2> HIDE DEF F, V, N, b
  <2> QED
    BY <2>1, <1>2, <1>3, Recursion, Zenon
<1>5. PICK f \in [0 .. N -> V] :
             f[0] = b /\ \A k \in 1 .. N : f[k] = F[<<f[k - 1], k>>]
  <2> HIDE DEF F, V, N, b
  <2> QED
    BY <1>4 DEF Recursive
<1>6. Rec(f)
  <2>1. ASSUME NEW k \in 1 .. N
        PROVE  f[k] = OldMove(c1, c2, f[k - 1], c1.moves[k])
    <3>1. k - 1 \in 0 .. N
      BY <1>1
    <3>2. <<f[k - 1], k>> \in V \X (1 .. N)
      BY <3>1
    <3> HIDE DEF V, N, b
    <3> QED
      BY <1>5, <3>2
  <2>2. f[0] = [old |-> <<>>, new |-> c2.moves, modified |-> c2.modifications]
    BY <1>5
  <2> HIDE DEF V, F, N, b
  <2> QED
    BY <1>1, <1>5, <2>1, <2>2
<1>7. Rec(s)
  <2> HIDE DEF Rec
  <2> QED
    BY <1>6
<1>8. /\ s[0] = [old |-> <<>>, new |-> c2.moves, modified |-> c2.modifications]
      /\ \A k \in 1 .. N : s[k] = OldMove(c1, c2, s[k - 1], c1.moves[k])
  <2> HIDE DEF s, N
  <2>1. s = [k \in 0 .. N |-> IF k = 0 THEN [old |-> <<>>, new |-> c2.moves,
                                             modified |-> c2.modifications]
                              ELSE OldMove(c1, c2, s[k - 1], c1.moves[k])]
    BY <1>7
  <2>2. ASSUME NEW k \in 0 .. N
        PROVE  s[k] = IF k = 0 THEN [old |-> <<>>, new |-> c2.moves,
                                     modified |-> c2.modifications]
                      ELSE OldMove(c1, c2, s[k - 1], c1.moves[k])
    BY <2>1, Zenon
  <2>3. 0 \in 0 .. N /\ \A k \in 1 .. N : k \in 0 .. N /\ k # 0
    BY <1>1
  <2> QED
    BY <2>2, <2>3
<1>9. OldMoves(c1, c2) = s
  BY DEF OldMoves
<1> HIDE DEF s
<1> QED
  BY <1>8, <1>9

LEMMA OldMovesTold ==
  ASSUME NEW n \in Nat, NEW p \in Nat, NEW q \in Nat, NEW c1, NEW c2, NEW o1, NEW o2,
         Told(c1, n, p, o1), Told(c2, p, q, o2)
  PROVE  OldMovesTo(OldMoves(c1, c2)[Len(c1.moves)], c1, c2, q, o1, o2, Len(c1.moves))
<1>1. /\ c1 \in Builders /\ c2 \in Builders
      /\ c2.deletions \in FiniteIndices /\ c2.insertions \in FiniteIndices
  BY IntervalsFinite DEF Told, Kept
<1>2. PICK N : N = Len(c1.moves)
  OBVIOUS
<1>3. N \in Nat
  BY <1>1, <1>2, BuilderFields, SeqIndices
<1>4. PICK s : s = OldMoves(c1, c2)
  OBVIOUS
<1>5. /\ s[0] = [old |-> <<>>, new |-> c2.moves, modified |-> c2.modifications]
      /\ \A k \in 1 .. N : s[k] = OldMove(c1, c2, s[k - 1], c1.moves[k])
  BY <1>1, <1>2, <1>4, OldMovesSteps
<1>6. OldMovesTo(s[0], c1, c2, q, o1, o2, 0)
  <2>1. PICK b : b = s[0]
    OBVIOUS
  <2>2. b = [old |-> <<>>, new |-> c2.moves, modified |-> c2.modifications]
    BY <1>5, <2>1
  <2>3. b \in OldStates
    BY <1>1, <2>2, BuilderFields, NoMoves DEF OldStates
  <2>4. b.old = <<>> /\ b.new = c2.moves /\ b.modified = c2.modifications
    BY <2>2
  <2>5. 1 .. 0 = {}
    OBVIOUS
  <2>6. OldMovesTo(b, c1, c2, q, o1, o2, 0)
    BY <2>3, <2>4, <2>5, NoMoves DEF OldMovesTo
  <2> QED
    BY <2>1, <2>6
<1> DEFINE P == {k \in 0 .. N : OldMovesTo(s[k], c1, c2, q, o1, o2, k)}
<1>7. 0 \in P
  BY <1>3, <1>6
<1>8. ASSUME NEW k \in 0 .. N - 1, k \in P
      PROVE  k + 1 \in P
  <2>1. k \in 0 .. Len(c1.moves) - 1 /\ k + 1 \in 0 .. N /\ k + 1 \in 1 .. N /\ k + 1 - 1 = k
    BY <1>2, <1>3
  <2>2. s[k + 1] = OldMove(c1, c2, s[k], c1.moves[k + 1])
    BY <1>5, <2>1
  <2>3. PICK b : b = s[k]
    OBVIOUS
  <2>4. OldMovesTo(b, c1, c2, q, o1, o2, k)
    BY <1>8, <2>3
  <2>5. OldMovesTo(OldMove(c1, c2, b, c1.moves[k + 1]), c1, c2, q, o1, o2, k + 1)
    BY <2>1, <2>4, OldMoveStep
  <2> QED
    BY <2>1, <2>2, <2>3, <2>5
<1>9. N \in P
  <2>1. \A k \in 0 .. N : k \in P
    <3> HIDE DEF P
    <3> QED
      BY <1>3, <1>7, <1>8, Induction
  <2> HIDE DEF P
  <2> QED
    BY <1>3, <2>1
<1>10. OldMovesTo(s[N], c1, c2, q, o1, o2, N)
  BY <1>9
<1> QED
  BY <1>2, <1>4, <1>10

\* The moves of the second that no move of the first leads to.
LEMMA NewMovesSet ==
  ASSUME NEW n \in Nat, NEW p \in Nat, NEW c1, NEW o1, Told(c1, n, p, o1),
         NEW moves \in Seq(Moves), \A x \in ToSet(moves) : x.from \in 0 .. p - 1
  PROVE  /\ NewMoves(c1, moves) \in Seq(Moves)
         /\ \A e : e \in ToSet(NewMoves(c1, moves))
              <=> \E x \in ToSet(moves) : /\ x.from \notin c1.insertions
                                          /\ e = [from |-> o1[x.from], to |-> x.to]
<1>1. Kept(c1.deletions, c1.insertions, n, p, o1)
  BY DEF Told
<1>2. PICK kept : kept = MovesAt(moves, {k \in DOMAIN moves : moves[k].from \notin c1.insertions})
  OBVIOUS
<1>3. kept \in Seq(Moves)
  BY <1>2, MovesAtSet
<1>4. ASSUME NEW x
      PROVE  x \in ToSet(kept) <=> x \in ToSet(moves) /\ x.from \notin c1.insertions
  <2>1. PICK K : K = {k \in DOMAIN moves : moves[k].from \notin c1.insertions}
    OBVIOUS
  <2>2. x \in ToSet(kept) <=> \E k \in DOMAIN moves : k \in K /\ moves[k] = x
    BY <1>2, <2>1, MovesAtSet
  <2>3. x \in ToSet(moves) <=> \E k \in DOMAIN moves : moves[k] = x
    BY SeqSet, SeqIndices
  <2> QED
    BY <2>1, <2>2, <2>3
<1>5. Len(kept) \in Nat /\ DOMAIN kept = 1 .. Len(kept)
      /\ \A k \in 1 .. Len(kept) : kept[k] \in Moves /\ kept[k] \in ToSet(kept)
  BY <1>3, SeqSet, SeqIndices
<1>6. \A k \in 1 .. Len(kept) : kept[k].from \in (0 .. p - 1) \ c1.insertions
  BY <1>4, <1>5
<1>7. PICK r : r = NewMoves(c1, moves)
  OBVIOUS
<1>8. r = [k \in DOMAIN kept |->
            [kept[k] EXCEPT !.from = shift(c1.deletions, unshift(c1.insertions, @))]]
  BY <1>2, <1>7 DEF NewMoves
<1>9. ASSUME NEW k \in 1 .. Len(kept)
      PROVE  r[k] = [from |-> o1[kept[k].from], to |-> kept[k].to] /\ r[k] \in Moves
  <2>1. PICK x : x = kept[k]
    OBVIOUS
  <2>2. /\ x = [from |-> x.from, to |-> x.to] /\ x.to \in Nat
        /\ x.from \in (0 .. p - 1) \ c1.insertions
    BY <1>5, <1>6, <2>1 DEF Moves
  <2>3. PICK y : y = o1[x.from]
    OBVIOUS
  <2>4. shift(c1.deletions, unshift(c1.insertions, x.from)) = y
    BY <1>1, <2>2, <2>3, KeptShift
  <2>5. y \in Nat
    BY <1>1, <2>2, <2>3 DEF Kept
  <2>6. r[k] = [x EXCEPT !.from = shift(c1.deletions, unshift(c1.insertions, @))]
    BY <1>5, <1>8, <2>1
  <2>7. r[k] = [from |-> y, to |-> x.to]
    BY <2>2, <2>4, <2>6
  <2>8. r[k] \in Moves
    BY <2>2, <2>5, <2>7 DEF Moves
  <2> QED
    BY <2>1, <2>3, <2>7, <2>8
<1>10. r \in [1 .. Len(kept) -> Moves]
  BY <1>5, <1>8, <1>9
<1>11. r \in Seq(Moves) /\ Len(r) = Len(kept)
  BY <1>5, <1>10, SeqFunction
<1>12. ASSUME NEW e
       PROVE  e \in ToSet(r)
                <=> \E x \in ToSet(moves) : /\ x.from \notin c1.insertions
                                            /\ e = [from |-> o1[x.from], to |-> x.to]
  <2>1. e \in ToSet(r) <=> \E k \in 1 .. Len(kept) : r[k] = e
    BY <1>11, SeqSet
  <2>2. e \in ToSet(r)
          <=> \E k \in 1 .. Len(kept) : e = [from |-> o1[kept[k].from], to |-> kept[k].to]
    BY <1>9, <2>1
  <2>3. \A x : x \in ToSet(kept) <=> \E k \in 1 .. Len(kept) : kept[k] = x
    BY <1>3, SeqSet
  <2>4. e \in ToSet(r) <=> \E x \in ToSet(kept) : e = [from |-> o1[x.from], to |-> x.to]
    BY <2>2, <2>3
  <2> QED
    BY <1>4, <2>4
<1> QED
  BY <1>7, <1>11, <1>12

\* A row that both collections have is told as modified when it was by one.
ModifiedByEither(d, c1, c2, q, o1, o2) ==
  /\ d.modifications \in Intervals(q)
  /\ \A k \in 0 .. q - 1 :
       Composed(o1, o2, q)[k] # npos =>
         (k \in d.modifications <=> o2[k] \in c1.modifications \/ k \in c2.modifications)

\* What is left for the clean-up tells both changes, as one.
LEMMA MergedTold ==
  ASSUME NEW n \in Nat, NEW p \in Nat, NEW q \in Nat, NEW c1, NEW c2, NEW o1, NEW o2,
         Told(c1, n, p, o1), Told(c2, p, q, o2),
         c1.modifications \in Intervals(p), c2.modifications \in Intervals(q),
         NEW d, d = Merged(c1, c2)
  PROVE  /\ Told(d, n, q, Composed(o1, o2, q))
         /\ ModifiedByEither(d, c1, c2, q, o1, o2)
<1>1. /\ c1 \in Builders /\ o1 \in Origins(n, p)
      /\ Kept(c1.deletions, c1.insertions, n, p, o1) /\ MovesTold(c1, o1)
      /\ c2 \in Builders /\ o2 \in Origins(p, q)
      /\ Kept(c2.deletions, c2.insertions, p, q, o2) /\ MovesTold(c2, o2)
  BY DEF Told
<1>2. /\ c1.insertions \in Intervals(p) /\ c2.deletions \in Intervals(p)
  BY <1>1 DEF Kept
<1>3. PICK D : D = MergedDeletions(c1.deletions, c1.insertions, c2.deletions, o1)
  OBVIOUS
<1>4. PICK I : I = MergedInsertions(c1.insertions, c2.deletions, c2.insertions, q, o2)
  OBVIOUS
<1>5. /\ D \in Intervals(n)
      /\ add_shifted_by(c1.deletions, c1.insertions, c2.deletions) = D
  BY <1>1, <1>2, <1>3, MergedDeletionsSet
<1>6. /\ I \in Intervals(q)
      /\ insert_all_at(erase_all_at(c1.insertions, c2.deletions), c2.insertions) = I
  BY <1>1, <1>2, <1>4, MergedInsertionsSet
<1>7. PICK C : C = Carried(c1.modifications, c2.deletions, c2.insertions, q, o2)
  OBVIOUS
<1>8. shift_for_insert_all_at(erase_all_at(c1.modifications, c2.deletions), c2.insertions) = C
  BY <1>1, <1>7, CarriedSet
<1>9. PICK s : s = OldMoves(c1, c2)[Len(c1.moves)]
  OBVIOUS
<1>10. OldMovesTo(s, c1, c2, q, o1, o2, Len(c1.moves))
  BY <1>9, OldMovesTold
<1>11. /\ s.old \in Seq(Moves) /\ s.new \in Seq(Moves) /\ s.modified \in SUBSET Nat
       /\ \A x \in ToSet(s.new) : x \in ToSet(c2.moves)
  BY <1>10 DEF OldMovesTo, OldStates
<1>12. /\ \A m \in ToSet(c1.moves) : /\ m \in Moves
                                     /\ m.from \in c1.deletions /\ m.to \in c1.insertions
                                     /\ m.from \in 0 .. n - 1 /\ m.to \in 0 .. p - 1
                                     /\ o1[m.to] = m.from
       /\ \A x \in ToSet(c2.moves) : /\ x \in Moves
                                     /\ x.from \in c2.deletions /\ x.to \in c2.insertions
                                     /\ x.from \in 0 .. p - 1 /\ x.to \in 0 .. q - 1
                                     /\ o2[x.to] = x.from
       /\ c1.moves \in Seq(Moves)
  <2>1. MovesOfBoth(n, p, q, c1, c2, o1, o2)
    BY BothTold
  <2> QED
    BY ONLY <2>1 DEF MovesOfBoth
<1>13. PICK r : r = NewMoves(c1, s.new)
  OBVIOUS
<1>14. /\ r \in Seq(Moves)
       /\ \A e : e \in ToSet(r)
            <=> \E x \in ToSet(s.new) : /\ x.from \notin c1.insertions
                                        /\ e = [from |-> o1[x.from], to |-> x.to]
  <2>1. \A x \in ToSet(s.new) : x.from \in 0 .. p - 1
    BY <1>11, <1>12
  <2> QED
    BY <1>11, <1>13, <2>1, NewMovesSet
<1>15. PICK v : v = s.old \o r
  OBVIOUS
<1>16. v \in Seq(Moves) /\ ToSet(v) = ToSet(s.old) \cup ToSet(r)
  BY <1>11, <1>14, <1>15, ConcatSet
<1>17. PICK A : A = {m.to : m \in {x \in ToSet(s.new) : /\ x.from \notin c1.insertions
                                                       /\ x.from \in c1.modifications}}
  OBVIOUS
<1>18. PICK M : M = C \cup s.modified \cup A
  OBVIOUS
<1>19. d = [deletions |-> D, insertions |-> I, modifications |-> M, moves |-> v,
            mapping |-> << >>]
  <2>1. c1.mapping = << >>
    BY <1>1, BuilderFields
  <2>2. d = [deletions |-> D, insertions |-> I, modifications |-> C \cup s.modified \cup A,
             moves |-> s.old \o NewMoves(c1, s.new), mapping |-> c1.mapping]
    BY <1>5, <1>6, <1>8, <1>9, <1>17 DEF Merged
  <2> QED
    BY <1>13, <1>15, <1>18, <2>1, <2>2
<1>20. PICK o : o = Composed(o1, o2, q)
  OBVIOUS
<1>21. \A k \in 0 .. q - 1 : o[k] = IF o2[k] = npos THEN npos ELSE o1[o2[k]]
  BY <1>20 DEF Composed
<1>22. o \in Origins(n, q) /\ Kept(D, I, n, q, o)
  BY <1>1, <1>3, <1>4, <1>20, OriginsComposed, MergedKept
<1>23. \A x \in 0 .. p - 1 : x # npos
  BY DEF npos
\* The moves told are moves.
<1>24. ASSUME NEW e \in ToSet(v)
       PROVE  e.from \in D /\ e.to \in I /\ o[e.to] = e.from
  <2>1. CASE e \in ToSet(s.old)
    <3>1. /\ e.from \in c1.deletions /\ e.to \in I
          /\ o2[e.to] # npos /\ o1[o2[e.to]] = e.from
      BY <1>4, <1>10, <2>1 DEF OldMovesTo
    <3>2. e.from \in D
      BY <1>3, <3>1 DEF MergedDeletions
    <3>3. e.to \in 0 .. q - 1
      BY <1>6, <3>1 DEF Intervals
    <3> QED
      BY <1>21, <3>1, <3>2, <3>3
  <2>2. CASE e \in ToSet(r)
    <3>1. PICK x \in ToSet(s.new) : /\ x.from \notin c1.insertions
                                    /\ e = [from |-> o1[x.from], to |-> x.to]
      BY <1>14, <2>2
    <3>2. /\ x.from \in c2.deletions /\ x.to \in c2.insertions /\ x.from \in 0 .. p - 1
          /\ x.to \in 0 .. q - 1 /\ o2[x.to] = x.from
      BY <1>11, <1>12
    <3>3. e.from = o1[x.from] /\ e.to = x.to
      BY <3>1
    <3>4. e.from \in D
      BY <1>3, <3>1, <3>2, <3>3 DEF MergedDeletions
    <3>5. e.to \in I
      BY <1>4, <3>2, <3>3 DEF MergedInsertions
    <3> QED
      BY <1>21, <1>23, <3>2, <3>3, <3>4, <3>5
  <2> QED
    BY <1>16, <2>1, <2>2
\* Of a row moved by the first, and inserted for the second.
<1>25. ASSUME NEW x \in c1.insertions, o1[x] # npos
       PROVE  \E i \in 1 .. Len(c1.moves) : c1.moves[i] = [from |-> o1[x], to |-> x]
  <2>1. PICK m : m = [from |-> o1[x], to |-> x]
    OBVIOUS
  <2>2. m \in ToSet(c1.moves)
    BY <1>1, <1>25, <2>1 DEF MovesTold
  <2>3. \E i \in 1 .. Len(c1.moves) : c1.moves[i] = m
    BY <1>12, <2>2, SeqSet
  <2> QED
    BY <2>1, <2>3
\* The rows moved by the second.
<1>26. ASSUME NEW k \in c2.insertions, o2[k] # npos
       PROVE  /\ [from |-> o2[k], to |-> k] \in ToSet(c2.moves)
              /\ o2[k] \notin c1.insertions => [from |-> o2[k], to |-> k] \in ToSet(s.new)
  <2>1. PICK x : x = [from |-> o2[k], to |-> k]
    OBVIOUS
  <2>2. x \in ToSet(c2.moves) /\ x.from = o2[k]
    BY <1>1, <1>26, <2>1 DEF MovesTold
  <2>3. ASSUME o2[k] \notin c1.insertions
        PROVE  x \in ToSet(s.new)
    <3>1. x \in ToSet(s.new) \/ \E i \in 1 .. Len(c1.moves) : c1.moves[i].to = x.from
      BY <1>10, <2>2 DEF OldMovesTo
    <3>2. \A i \in 1 .. Len(c1.moves) : c1.moves[i].to \in c1.insertions
      BY <1>12, SeqSet
    <3> QED
      BY <2>2, <2>3, <3>1, <3>2
  <2> QED
    BY <2>1, <2>2, <2>3
<1>27. ASSUME NEW k \in I, o[k] # npos
       PROVE  [from |-> o[k], to |-> k] \in ToSet(v)
  <2>1. k \in 0 .. q - 1
    BY <1>6 DEF Intervals
  <2>2. o2[k] # npos /\ o[k] = o1[o2[k]] /\ o1[o2[k]] # npos
    BY <1>21, <1>27, <2>1
  <2>3. PICK x : x = o2[k]
    OBVIOUS
  <2>4. CASE k \in c2.insertions /\ x \notin c1.insertions
    <3>1. PICK y : y = [from |-> x, to |-> k]
      OBVIOUS
    <3>2. y \in ToSet(s.new) /\ y.from = x /\ y.to = k
      BY <1>26, <2>2, <2>3, <2>4, <3>1
    <3>3. [from |-> o1[x], to |-> k] \in ToSet(r)
      BY <1>14, <2>4, <3>2
    <3> QED
      BY <1>16, <2>2, <2>3, <3>3
  <2>5. CASE k \in c2.insertions /\ x \in c1.insertions
    <3>1. PICK y : y = [from |-> x, to |-> k]
      OBVIOUS
    <3>2. y \in ToSet(c2.moves) /\ y.from = x /\ y.to = k
      BY <1>26, <2>2, <2>3, <2>5, <3>1
    <3>3. PICK i \in 1 .. Len(c1.moves) : c1.moves[i] = [from |-> o1[x], to |-> x]
      BY <1>25, <2>2, <2>3, <2>5
    <3>4. c1.moves[i].from = o1[x] /\ c1.moves[i].to = x
      BY <3>3
    <3>5. [from |-> c1.moves[i].from, to |-> y.to] \in ToSet(s.old)
      BY <1>10, <3>2, <3>4 DEF OldMovesTo
    <3> QED
      BY <1>16, <2>2, <2>3, <3>2, <3>4, <3>5
  <2>6. CASE k \notin c2.insertions
    <3>1. x \in c1.insertions
      BY <1>4, <2>3, <2>6 DEF MergedInsertions, Carried
    <3>2. PICK i \in 1 .. Len(c1.moves) : c1.moves[i] = [from |-> o1[x], to |-> x]
      BY <1>25, <2>2, <2>3, <3>1
    <3>3. c1.moves[i].from = o1[x] /\ c1.moves[i].to = x
      BY <3>2
    <3>4. [from |-> c1.moves[i].from, to |-> k] \in ToSet(s.old)
      BY <1>10, <2>1, <2>3, <2>6, <3>3 DEF OldMovesTo
    <3> QED
      BY <1>16, <2>2, <2>3, <3>3, <3>4
  <2> QED
    BY <2>4, <2>5, <2>6
<1>28. M \in Intervals(q)
  <2>1. C \in Intervals(q)
    BY <1>7 DEF Carried, Intervals
  <2>2. \A k \in s.modified : k \in 0 .. q - 1
    BY <1>10 DEF OldMovesTo, Intervals
  <2>3. \A k \in A : k \in 0 .. q - 1
    BY <1>11, <1>12, <1>17
  <2> QED
    BY <1>18, <2>1, <2>2, <2>3 DEF Intervals
<1>29. ASSUME NEW k \in 0 .. q - 1, o[k] # npos
       PROVE  k \in M <=> o2[k] \in c1.modifications \/ k \in c2.modifications
  <2>1. o2[k] # npos /\ o1[o2[k]] # npos
    BY <1>21, <1>29
  <2>2. PICK x : x = o2[k]
    OBVIOUS
  <2>3. ASSUME k \in M
        PROVE  x \in c1.modifications \/ k \in c2.modifications
    <3>1. CASE k \in C
      BY <1>7, <2>2, <3>1 DEF Carried
    <3>2. CASE k \in s.modified
      BY <1>10, <2>2, <3>2 DEF OldMovesTo
    <3>3. CASE k \in A
      <4>1. PICK m \in ToSet(s.new) : m.to = k /\ m.from \in c1.modifications
        BY <1>17, <3>3
      <4> QED
        BY <1>11, <1>12, <2>2, <4>1
    <3> QED
      BY <1>18, <2>3, <3>1, <3>2, <3>3
  <2>4. ASSUME k \in c2.modifications
        PROVE  k \in M
    BY <1>10, <1>18, <2>4 DEF OldMovesTo
  <2>5. ASSUME x \in c1.modifications
        PROVE  k \in M
    <3>1. CASE k \notin c2.insertions
      BY <1>7, <1>18, <2>2, <2>5, <3>1 DEF Carried
    <3>2. CASE k \in c2.insertions
      <4>1. PICK y : y = [from |-> x, to |-> k]
        OBVIOUS
      <4>2. /\ y \in ToSet(c2.moves)
            /\ x \notin c1.insertions => y \in ToSet(s.new)
            /\ y.from = x /\ y.to = k
        BY <1>26, <2>1, <2>2, <3>2, <4>1
      <4>3. CASE x \notin c1.insertions
        <5>1. k \in A
          BY <1>17, <2>5, <4>2, <4>3
        <5> QED
          BY <1>18, <5>1
      <4>4. CASE x \in c1.insertions
        <5>1. PICK i \in 1 .. Len(c1.moves) : c1.moves[i] = [from |-> o1[x], to |-> x]
          BY <1>25, <2>1, <2>2, <4>4
        <5>2. c1.moves[i].to = x
          BY <5>1
        <5>3. k \in s.modified
          BY <1>10, <2>5, <4>2, <5>2 DEF OldMovesTo
        <5> QED
          BY <1>18, <5>3
      <4> QED
        BY <4>3, <4>4
    <3> QED
      BY <3>1, <3>2
  <2> QED
    BY <2>2, <2>3, <2>4, <2>5
<1>30. /\ d.deletions = D /\ d.insertions = I /\ d.modifications = M /\ d.moves = v
       /\ d.mapping = << >>
       /\ d = [deletions |-> d.deletions, insertions |-> d.insertions,
               modifications |-> d.modifications, moves |-> d.moves, mapping |-> d.mapping]
  BY <1>19
<1>31. MovesTold(d, o)
  BY <1>16, <1>24, <1>27, <1>30 DEF MovesTold
<1>32. d.modifications \in SUBSET Nat
  BY <1>28, <1>30 DEF Intervals
<1>33. Told(d, n, q, o)
  BY <1>22, <1>30, <1>31, <1>32, IsTold
<1>34. ModifiedByEither(d, c1, c2, q, o1, o2)
  BY <1>20, <1>28, <1>29, <1>30 DEF ModifiedByEither
<1> QED
  BY <1>20, <1>33, <1>34

\* A builder of which nothing is left in the sets tells that nothing changed.
LEMMA ToldEmpty ==
  ASSUME NEW n \in Nat, NEW p \in Nat, NEW o, NEW c, Told(c, n, p, o), empty(c)
  PROVE  p = n /\ o = [k \in 0 .. n - 1 |-> k] /\ c.modifications = {}
<1>1. c.deletions = {} /\ c.insertions = {} /\ c.modifications = {}
  BY DEF empty
<1>2. p = n /\ \A k \in 0 .. n - 1 : o[k] = k
  BY <1>1, ToldNoChanges
<1>3. o \in [0 .. p - 1 -> npos .. n - 1]
  BY DEF Told, Origins
<1>4. o = [k \in 0 .. n - 1 |-> k]
  BY <1>2, <1>3
<1> QED
  BY <1>1, <1>2, <1>4

\* The merged changes tell what both told, one after the other.
LEMMA MergeTells ==
  ASSUME NEW n \in Nat, NEW p \in Nat, NEW q \in Nat, NEW c1, NEW c2, NEW o1, NEW o2,
         Told(c1, n, p, o1), Told(c2, p, q, o2),
         c1.modifications \in Intervals(p), c2.modifications \in Intervals(q),
         NEW d, d = merge(c1, c2)
  PROVE  /\ Told(d, n, q, Composed(o1, o2, q))
         /\ ModifiedByEither(d, c1, c2, q, o1, o2)
<1>1. PICK o : o = Composed(o1, o2, q)
  OBVIOUS
<1>2. o = [k \in 0 .. q - 1 |-> IF o2[k] = npos THEN npos ELSE o1[o2[k]]]
  BY <1>1 DEF Composed
<1>3. o1 \in [0 .. p - 1 -> npos .. n - 1] /\ o2 \in [0 .. q - 1 -> npos .. p - 1]
  BY DEF Told, Origins
<1>4. CASE empty(c2)
  <2>1. q = p /\ o2 = [k \in 0 .. p - 1 |-> k] /\ c2.modifications = {}
    BY <1>4, ToldEmpty
  <2>2. \A k \in 0 .. q - 1 : o2[k] = k /\ o2[k] # npos
    BY <2>1 DEF npos
  <2>3. o = o1
    BY <1>2, <1>3, <2>1, <2>2
  <2>4. d = c1
    BY <1>4 DEF merge
  <2>5. ModifiedByEither(d, c1, c2, q, o1, o2)
    BY <2>1, <2>2, <2>4 DEF ModifiedByEither
  <2> QED
    BY <1>1, <2>1, <2>3, <2>4, <2>5
<1>5. CASE ~empty(c2) /\ empty(c1)
  <2>1. p = n /\ o1 = [k \in 0 .. n - 1 |-> k] /\ c1.modifications = {}
    BY <1>5, ToldEmpty
  <2>2. \A k \in 0 .. q - 1 : o2[k] # npos => o2[k] \in 0 .. n - 1
    BY <1>3, <2>1 DEF npos
  <2>3. \A k \in 0 .. q - 1 : o[k] = o2[k]
    BY <1>2, <2>1, <2>2
  <2>4. o = o2
    BY <1>2, <1>3, <2>3
  <2>5. d = c2
    BY <1>5 DEF merge
  <2>6. ModifiedByEither(d, c1, c2, q, o1, o2)
    BY <2>1, <2>5 DEF ModifiedByEither
  <2> QED
    BY <1>1, <2>1, <2>4, <2>5, <2>6
<1>6. CASE ~empty(c2) /\ ~empty(c1)
  <2>1. PICK e : e = Merged(c1, c2)
    OBVIOUS
  <2>2. d = clean_up_stale_moves(e)
    BY <1>6, <2>1 DEF merge
  <2>3. Told(e, n, q, o) /\ ModifiedByEither(e, c1, c2, q, o1, o2)
    BY <1>1, <2>1, MergedTold
  <2>4. Told(d, n, q, o) /\ d.modifications = e.modifications
    BY <2>2, <2>3, CleanUpTold
  <2>5. ModifiedByEither(d, c1, c2, q, o1, o2)
    BY <2>3, <2>4 DEF ModifiedByEither
  <2> QED
    BY <1>1, <2>4, <2>5
<1> QED
  BY <1>4, <1>5, <1>6

\* Nor is a move of theirs stale, when none was.
LEMMA MergedChangesTold ==
  ASSUME NEW n \in Nat, NEW p \in Nat, NEW q \in Nat, NEW c1, NEW c2, NEW o1, NEW o2,
         Told(c1, n, p, o1), Told(c2, p, q, o2), NonStale(c1), NonStale(c2),
         c1.modifications \in Intervals(p), c2.modifications \in Intervals(q),
         NEW d, d = merge(c1, c2)
  PROVE  /\ Told(d, n, q, Composed(o1, o2, q)) /\ NonStale(d)
         /\ ModifiedByEither(d, c1, c2, q, o1, o2)
<1>1. /\ Told(d, n, q, Composed(o1, o2, q))
      /\ ModifiedByEither(d, c1, c2, q, o1, o2)
  BY MergeTells
<1>2. CASE empty(c2) \/ empty(c1)
  <2>1. d = c1 \/ d = c2
    BY <1>2 DEF merge
  <2> QED
    BY <1>1, <2>1
<1>3. CASE ~empty(c2) /\ ~empty(c1)
  <2>1. PICK e : e = Merged(c1, c2)
    OBVIOUS
  <2>2. d = clean_up_stale_moves(e)
    BY <1>3, <2>1 DEF merge
  <2>3. Told(e, n, q, Composed(o1, o2, q))
    BY <2>1, MergedTold
  <2>4. NonStale(d)
    BY <2>2, <2>3, CleanUpTold
  <2> QED
    BY <1>1, <2>4
<1> QED
  BY <1>2, <1>3
===============================================================================
