---------------------------- MODULE IndexSet_proofs ----------------------------
(***************************************************************************)
(* Every method of an IndexSet leaves the ranges in order and apart, and   *)
(* the cached begin, end and number of indices of each chunk right.        *)
(*                                                                         *)
(* First numbers and loops, sequences of ranges, and chunks; then what     *)
(* each method of an iterator does to the order; then the methods of the   *)
(* set, those that change it in place and those that build it anew.        *)
(***************************************************************************)
EXTENDS IndexSet, SequenceTheorems, WellFoundedInduction, NaturalsInduction, TLAPS

-----------------------------------------------------------------------------
(* Induction over numbers, and the loops: what k rounds leave              *)

LessThan == {p \in Nat \X Nat : p[1] < p[2]}

LEMMA LessThanWellFounded == IsWellFoundedOn(LessThan, Nat)
<1>1. LessThan = OpToRel(<, Nat)
  BY DEF LessThan, OpToRel
<1> QED
  BY <1>1, NatLessThanWellFounded

LEMMA Least ==
  ASSUME NEW T \in SUBSET Nat, T # {}
  PROVE  \E n \in T : \A m \in T : n <= m
<1>1. PICK n \in T : \A m \in T : ~(<<m, n>> \in LessThan)
  BY LessThanWellFounded, WFMin, Zenon
<1>2. ASSUME NEW m \in T
      PROVE  n <= m
  <2>1. m \in Nat /\ n \in Nat
    OBVIOUS
  <2>2. ~(m < n)
    BY <1>1, <2>1 DEF LessThan
  <2> QED
    BY <2>1, <2>2
<1> QED
  BY <1>2

LEMMA Induction ==
  ASSUME NEW N \in Nat, NEW S, 0 \in S, \A n \in 0 .. N - 1 : n \in S => n + 1 \in S
  PROVE  \A n \in 0 .. N : n \in S
<1> DEFINE T == {n \in 0 .. N : n \notin S}
<1>1. SUFFICES ASSUME T # {} PROVE FALSE
  OBVIOUS
<1>2. PICK n \in T : \A m \in T : n <= m
  <2>1. T \in SUBSET Nat
    OBVIOUS
  <2> HIDE DEF T
  <2> QED
    BY <1>1, <2>1, Least, Zenon
<1>3. n \in 1 .. N /\ n - 1 \in 0 .. N - 1 /\ n - 1 + 1 = n
  BY <1>2
<1>4. n - 1 \notin S
  BY <1>2, <1>3
<1>5. n - 1 \in T
  BY <1>3, <1>4
<1> QED
  BY <1>2, <1>3, <1>5

\* What the rounds of a loop leave: b at first, then what F makes of the
\* number of rounds so far and what they left.
LedBy(N, b, F, f) ==
  /\ f = [k \in 0 .. N |-> f[k]] /\ f[0] = b
  /\ \A k \in 1 .. N : f[k] = F[<<k - 1, f[k - 1]>>]

Within(N, I, f) == \A k \in 0 .. N : <<k, f[k]>> \in I

\* A loop whose rounds stay within I.
LEMMA Rounds ==
  ASSUME NEW N \in Nat, NEW I, NEW b, <<0, b>> \in I, NEW F,
         \A k \in 1 .. N : \A v : <<k - 1, v>> \in I => <<k, F[<<k - 1, v>>]>> \in I
  PROVE  \E f : LedBy(N, b, F, f) /\ Within(N, I, f)
<1> DEFINE P == {n \in 0 .. N : \E f : LedBy(n, b, F, f) /\ Within(n, I, f)}
<1>1. 0 \in P
  <2> DEFINE f == [k \in 0 .. 0 |-> b]
  <2>1. LedBy(0, b, F, f) /\ Within(0, I, f)
    BY DEF LedBy, Within
  <2> HIDE DEF f
  <2> QED
    BY <2>1
<1>2. ASSUME NEW n \in 0 .. N - 1, n \in P
      PROVE  n + 1 \in P
  <2>1. PICK f : LedBy(n, b, F, f) /\ Within(n, I, f)
    BY <1>2
  <2> DEFINE v == F[<<n, f[n]>>]
             g == [k \in 0 .. n + 1 |-> IF k <= n THEN f[k] ELSE v]
  <2>2. <<n + 1, v>> \in I
    <3>1. n + 1 \in 1 .. N /\ n + 1 - 1 = n /\ <<n, f[n]>> \in I
      BY <2>1 DEF Within
    <3> QED
      BY <3>1
  <2>3. f[0] = b /\ \A k \in 1 .. n : f[k] = F[<<k - 1, f[k - 1]>>]
    BY <2>1 DEF LedBy
  <2>4. g[n + 1] = v /\ (\A k \in 0 .. n : g[k] = f[k]) /\ g = [k \in 0 .. n + 1 |-> g[k]]
    OBVIOUS
  <2> HIDE DEF g
  <2>5. ASSUME NEW k \in 1 .. n + 1
        PROVE  g[k] = F[<<k - 1, g[k - 1]>>]
    <3>1. CASE k <= n
      <4>1. k \in 1 .. n /\ k \in 0 .. n /\ k - 1 \in 0 .. n
        BY <3>1
      <4>2. g[k] = f[k] /\ g[k - 1] = f[k - 1]
        BY <2>4, <4>1
      <4> QED
        BY <2>3, <4>1, <4>2
    <3>2. CASE k = n + 1
      <4>1. k - 1 = n /\ g[k - 1] = f[n]
        BY <2>4, <3>2
      <4> QED
        BY <2>4, <3>2, <4>1
    <3> QED
      BY <3>1, <3>2
  <2>6. ASSUME NEW k \in 0 .. n + 1
        PROVE  <<k, g[k]>> \in I
    <3>1. CASE k <= n
      <4>1. k \in 0 .. n
        BY <3>1
      <4> QED
        BY <2>1, <2>4, <4>1 DEF Within
    <3>2. CASE k = n + 1
      BY <2>2, <2>4, <3>2
    <3> QED
      BY <3>1, <3>2
  <2>7. LedBy(n + 1, b, F, g)
    <3>1. 0 \in 0 .. n
      OBVIOUS
    <3>2. g[0] = b
      BY <2>3, <2>4, <3>1, Zenon
    <3> QED
      BY <2>4, <2>5, <3>2, Zenon DEF LedBy
  <2>8. Within(n + 1, I, g)
    BY <2>6 DEF Within
  <2> QED
    BY <2>7, <2>8
<1>3. \A n \in 0 .. N : n \in P
  <2> HIDE DEF P
  <2> QED
    BY <1>1, <1>2, Induction
<1>4. N \in P
  <2> HIDE DEF P
  <2> QED
    BY <1>3
<1> QED
  BY <1>4

LEMMA EveryRound ==
  ASSUME NEW N \in Nat, NEW I, NEW f, <<0, f[0]>> \in I,
         \A k \in 1 .. N : <<k - 1, f[k - 1]>> \in I => <<k, f[k]>> \in I
  PROVE  Within(N, I, f)
<1> DEFINE P == {n \in 0 .. N : <<n, f[n]>> \in I}
<1>1. 0 \in P
  OBVIOUS
<1>2. ASSUME NEW n \in 0 .. N - 1, n \in P
      PROVE  n + 1 \in P
  <2>1. n + 1 \in 1 .. N /\ n + 1 - 1 = n
    OBVIOUS
  <2> QED
    BY <1>2, <2>1
<1>3. \A n \in 0 .. N : n \in P
  <2> HIDE DEF P
  <2> QED
    BY <1>1, <1>2, Induction
<1> QED
  BY <1>3 DEF Within

-----------------------------------------------------------------------------
(* The number of indices in ranges                                         *)

Span == Int \X Int

\* f gives the sums of the sizes of the first ranges.
Sums(s, f) == /\ f \in [0 .. Len(s) -> Int] /\ f[0] = 0
              /\ \A k \in 1 .. Len(s) : f[k] = f[k - 1] + Size(s[k])

LEMMA SizesAre ==
  ASSUME NEW s \in Seq(Span)
  PROVE  \E f : Sums(s, f) /\ Sizes(s) = f[Len(s)]
<1> DEFINE N == Len(s)
           I == (0 .. N) \X Int
           F == [p \in I |-> p[2] + Size(s[p[1] + 1])]
           Eq(f) == f = [k \in 0 .. N |-> IF k = 0 THEN 0 ELSE f[k - 1] + Size(s[k])]
           upto == CHOOSE f : Eq(f)
<1>1. N \in Nat /\ \A k \in 1 .. N : Size(s[k]) \in Int
  BY DEF Size, Span
<1>2. ASSUME NEW k \in 1 .. N, NEW v, <<k - 1, v>> \in I
      PROVE  /\ F[<<k - 1, v>>] = v + Size(s[k])
             /\ <<k, F[<<k - 1, v>>]>> \in I
  <2>1. v \in Int /\ k - 1 + 1 = k /\ k \in 0 .. N
    BY <1>1, <1>2
  <2>2. F[<<k - 1, v>>] = v + Size(s[k])
    BY <1>2, <2>1
  <2> QED
    BY <1>1, <2>1, <2>2
<1>3. PICK f : LedBy(N, 0, F, f) /\ Within(N, I, f)
  <2>1. N \in Nat /\ <<0, 0>> \in I
    BY <1>1
  <2>2. \A k \in 1 .. N : \A v : <<k - 1, v>> \in I => <<k, F[<<k - 1, v>>]>> \in I
    BY <1>2
  <2> HIDE DEF N, I, F
  <2> QED
    BY <2>1, <2>2, Rounds, Zenon
<1>4. Eq(f)
  <2>1. ASSUME NEW k \in 1 .. N
        PROVE  f[k] = f[k - 1] + Size(s[k])
    <3>1. k - 1 \in 0 .. N
      BY <1>1
    <3>2. <<k - 1, f[k - 1]>> \in I /\ f[k] = F[<<k - 1, f[k - 1]>>]
      BY <1>3, <3>1 DEF LedBy, Within
    <3> HIDE DEF F, I, N
    <3> QED
      BY <1>2, <3>2
  <2>2. f = [k \in 0 .. N |-> f[k]] /\ f[0] = 0
    BY <1>3 DEF LedBy
  <2> DEFINE h == [k \in 0 .. N |-> IF k = 0 THEN 0 ELSE f[k - 1] + Size(s[k])]
  <2> HIDE DEF F, I, N
  <2>3. ASSUME NEW k \in 0 .. N
        PROVE  h[k] = f[k]
    <3>1. k = 0 \/ k \in 1 .. N
      BY <1>1
    <3> QED
      BY <2>1, <2>2, <3>1
  <2>4. h = [k \in 0 .. N |-> h[k]]
    OBVIOUS
  <2>5. h = f
    <3> HIDE DEF h
    <3> QED
      BY <2>2, <2>3, <2>4
  <2> QED
    BY <2>5
<1>5. Eq(upto)
  <2> HIDE DEF Eq
  <2> QED
    BY <1>4
<1>6. Sizes(s) = upto[N]
  BY DEF Sizes
<1> HIDE DEF upto
<1>7. Sums(s, upto)
  <2>1. upto[0] = 0 /\ \A k \in 1 .. N : upto[k] = upto[k - 1] + Size(s[k])
    <3> HIDE DEF N
    <3> QED
      BY <1>1, <1>5
  <2>2. Within(N, I, upto)
    <3>1. <<0, upto[0]>> \in I
      BY <1>1, <2>1
    <3>2. ASSUME NEW k \in 1 .. N, <<k - 1, upto[k - 1]>> \in I
          PROVE  <<k, upto[k]>> \in I
      BY <1>1, <2>1, <3>2
    <3> HIDE DEF I, N
    <3> QED
      BY <1>1, <3>1, <3>2, EveryRound
  <2>3. upto \in [0 .. N -> Int]
    <3>1. upto = [k \in 0 .. N |-> upto[k]]
      <4> HIDE DEF N
      <4> QED
        BY <1>5
    <3>2. \A k \in 0 .. N : upto[k] \in Int
      BY <2>2 DEF Within
    <3> QED
      BY <3>1, <3>2
  <2> QED
    BY <2>1, <2>3 DEF Sums
<1> QED
  BY <1>6, <1>7

LEMMA SumsInt ==
  ASSUME NEW s, NEW f, Sums(s, f), NEW k \in 0 .. Len(s)
  PROVE  f[k] \in Int
BY DEF Sums

LEMMA SizeInt == ASSUME NEW r \in Span PROVE Size(r) \in Int
BY DEF Size, Span

LEMMA SizesInt == ASSUME NEW s \in Seq(Span) PROVE Sizes(s) \in Int
BY SizesAre DEF Sums

LEMMA SizesConcat ==
  ASSUME NEW s \in Seq(Span), NEW t \in Seq(Span)
  PROVE  Sizes(s \o t) = Sizes(s) + Sizes(t) /\ Sizes(s \o t) \in Int
<1> DEFINE n == Len(s)
           u == s \o t
<1>1. /\ u \in Seq(Span) /\ Len(u) = n + Len(t) /\ n \in Nat /\ Len(t) \in Nat
      /\ \A k \in 1 .. n : u[k] = s[k]
      /\ \A k \in 1 .. Len(t) : u[n + k] = t[k]
  OBVIOUS
<1>2. PICK f : Sums(s, f) /\ Sizes(s) = f[n]
  BY SizesAre
<1>3. PICK g : Sums(t, g) /\ Sizes(t) = g[Len(t)]
  BY SizesAre
<1>4. PICK h : Sums(u, h) /\ Sizes(u) = h[Len(u)]
  BY <1>1, SizesAre
<1> HIDE DEF u, n
<1> DEFINE A == {k \in 0 .. n : h[k] = f[k]}
           B == {k \in 0 .. Len(t) : h[n + k] = f[n] + g[k]}
<1>5. \A k \in 0 .. n : k \in A
  <2>1. 0 \in A
    BY <1>1, <1>2, <1>4 DEF Sums
  <2>2. ASSUME NEW k \in 0 .. n - 1, k \in A
        PROVE  k + 1 \in A
    <3>1. k + 1 \in 1 .. n /\ k + 1 \in 1 .. Len(u) /\ k + 1 - 1 = k
      BY <1>1
    <3>2. h[k + 1] = h[k] + Size(u[k + 1]) /\ f[k + 1] = f[k] + Size(s[k + 1])
      BY <1>2, <1>4, <3>1 DEF Sums, n
    <3> QED
      BY <1>1, <2>2, <3>1, <3>2
  <2> HIDE DEF A
  <2> QED
    BY <1>1, <2>1, <2>2, Induction
<1>6. \A k \in 0 .. Len(t) : k \in B
  <2>1. 0 \in B
    <3>1. n \in 0 .. n /\ f[n] \in Int /\ g[0] = 0
      BY <1>1, <1>2, <1>3 DEF Sums, n
    <3> QED
      BY <1>1, <1>5, <3>1
  <2>2. ASSUME NEW k \in 0 .. Len(t) - 1, k \in B
        PROVE  k + 1 \in B
    <3>1. /\ k + 1 \in 1 .. Len(t) /\ n + (k + 1) \in 1 .. Len(u)
          /\ k + 1 - 1 = k /\ n + (k + 1) - 1 = n + k
      BY <1>1
    <3>2. h[n + (k + 1)] = h[n + k] + Size(u[n + (k + 1)]) /\ g[k + 1] = g[k] + Size(t[k + 1])
      <4>0. \A j \in 1 .. Len(u) : h[j] = h[j - 1] + Size(u[j])
        BY <1>4 DEF Sums
      <4> DEFINE j == n + (k + 1)
      <4>1. j \in 1 .. Len(u) /\ j - 1 = n + k
        BY <1>1, <3>1
      <4> HIDE DEF j
      <4>2. h[j] = h[j - 1] + Size(u[j])
        BY <4>0, <4>1
      <4>3. h[n + (k + 1)] = h[n + k] + Size(u[n + (k + 1)])
        BY <4>1, <4>2 DEF j
      <4>4. g[k + 1] = g[k + 1 - 1] + Size(t[k + 1])
        BY <1>3, <3>1 DEF Sums
      <4> QED
        BY <3>1, <4>3, <4>4
    <3>3. Size(t[k + 1]) \in Int /\ f[n] \in Int /\ g[k] \in Int
      <4>1. t[k + 1] \in Span
        BY <3>1
      <4>2. n \in 0 .. n /\ k \in 0 .. Len(t)
        BY <1>1
      <4>3. f[n] \in Int
        BY <1>2, <4>2, SumsInt DEF n
      <4>4. g[k] \in Int
        BY <1>3, <4>2, SumsInt
      <4> QED
        BY <4>1, <4>3, <4>4, SizeInt
    <3>4. u[n + (k + 1)] = t[k + 1]
      BY <1>1, <3>1
    <3>5. h[n + k] = f[n] + g[k]
      BY <2>2
    <3>6. h[n + (k + 1)] = f[n] + g[k + 1]
      BY <3>2, <3>3, <3>4, <3>5
    <3> QED
      BY <3>1, <3>6
  <2> HIDE DEF B
  <2> QED
    BY <1>1, <2>1, <2>2, Induction
<1>7. Len(t) \in B
  <2> HIDE DEF B
  <2> QED
    BY <1>1, <1>6
<1>8. Sizes(u) = Sizes(s) + Sizes(t)
  BY <1>1, <1>2, <1>3, <1>4, <1>7
<1> QED
  BY <1>1, <1>8, SizesInt DEF u

LEMMA SizesOne ==
  ASSUME NEW r \in Span
  PROVE  Sizes(<<r>>) = Size(r) /\ <<r>> \in Seq(Span) /\ Len(<<r>>) = 1 /\ Size(r) \in Int
<1>1. <<r>> \in Seq(Span) /\ Len(<<r>>) = 1 /\ <<r>>[1] = r /\ Size(r) \in Int
  BY DEF Size, Span
<1>2. PICK f : Sums(<<r>>, f) /\ Sizes(<<r>>) = f[1]
  BY <1>1, SizesAre
<1>3. f[1] = f[1 - 1] + Size(r) /\ f[0] = 0
  BY <1>1, <1>2 DEF Sums
<1> QED
  BY <1>1, <1>2, <1>3

LEMMA SizesNone == Sizes(<<>>) = 0
<1>1. <<>> \in Seq(Span) /\ Len(<<>>) = 0
  OBVIOUS
<1> QED
  BY <1>1, SizesAre DEF Sums

\* The same sizes in the same order have the same sum.
LEMMA SizesSame ==
  ASSUME NEW s \in Seq(Span), NEW t \in Seq(Span), Len(s) = Len(t),
         \A k \in 1 .. Len(s) : Size(s[k]) = Size(t[k])
  PROVE  Sizes(s) = Sizes(t)
<1>0. Len(s) \in Nat
  OBVIOUS
<1>1. PICK f : Sums(s, f) /\ Sizes(s) = f[Len(s)]
  BY SizesAre
<1>2. PICK g : Sums(t, g) /\ Sizes(t) = g[Len(t)]
  BY SizesAre
<1> DEFINE A == {k \in 0 .. Len(s) : f[k] = g[k]}
<1>3. 0 \in A
  BY <1>0, <1>1, <1>2 DEF Sums
<1>4. ASSUME NEW k \in 0 .. Len(s) - 1, k \in A
      PROVE  k + 1 \in A
  <2>1. k + 1 \in 1 .. Len(s) /\ k + 1 - 1 = k
    BY <1>0
  <2>2. f[k + 1] = f[k] + Size(s[k + 1]) /\ g[k + 1] = g[k] + Size(t[k + 1])
    BY <1>1, <1>2, <2>1 DEF Sums
  <2> QED
    BY <1>4, <2>1, <2>2
<1>5. \A k \in 0 .. Len(s) : k \in A
  <2> HIDE DEF A
  <2> QED
    BY <1>0, <1>3, <1>4, Induction
<1> QED
  BY <1>0, <1>1, <1>2, <1>5

LEMMA SizesNotNegative ==
  ASSUME NEW s \in Seq(Span), \A k \in 1 .. Len(s) : Size(s[k]) >= 0
  PROVE  Sizes(s) >= 0
<1>0. Len(s) \in Nat
  OBVIOUS
<1>1. PICK f : Sums(s, f) /\ Sizes(s) = f[Len(s)]
  BY SizesAre
<1> DEFINE A == {k \in 0 .. Len(s) : f[k] >= 0}
<1>2. 0 \in A
  BY <1>0, <1>1 DEF Sums
<1>3. ASSUME NEW k \in 0 .. Len(s) - 1, k \in A
      PROVE  k + 1 \in A
  <2>1. k + 1 \in 1 .. Len(s) /\ k + 1 - 1 = k
    BY <1>0
  <2>2. f[k + 1] = f[k] + Size(s[k + 1])
    BY <1>1, <2>1 DEF Sums
  <2>3. f[k] \in Int /\ Size(s[k + 1]) \in Int
    <3>1. s[k + 1] \in Span
      BY <2>1
    <3> QED
      BY <1>0, <1>1, <3>1, SumsInt, SizeInt
  <2> QED
    BY <1>3, <2>1, <2>2, <2>3
<1>4. \A k \in 0 .. Len(s) : k \in A
  <2> HIDE DEF A
  <2> QED
    BY <1>0, <1>2, <1>3, Induction
<1> QED
  BY <1>0, <1>1, <1>4

-----------------------------------------------------------------------------
(* A range put into a sequence of ranges, taken out of it or replaced      *)

LEMMA PartOf ==
  ASSUME NEW V, NEW s \in Seq(V), NEW i \in 1 .. Len(s) + 1, NEW j \in i - 1 .. Len(s)
  PROVE  /\ SubSeq(s, i, j) \in Seq(V) /\ Len(SubSeq(s, i, j)) = j + 1 - i
         /\ \A k \in 1 .. j + 1 - i : SubSeq(s, i, j)[k] = s[i + k - 1]
<1>1. \A k \in i .. j : s[k] \in V
  OBVIOUS
<1>2. (i <= j + 1 => Len(SubSeq(s, i, j)) = j - i + 1) /\ j - i + 1 = j + 1 - i
  BY <1>1, SubSeqProperties
<1> QED
  BY <1>1, <1>2, SubSeqProperties

LEMMA Split ==
  ASSUME NEW s \in Seq(Span), NEW n \in 0 .. Len(s)
  PROVE  Sizes(s) = Sizes(SubSeq(s, 1, n)) + Sizes(SubSeq(s, n + 1, Len(s)))
<1> DEFINE a == SubSeq(s, 1, n)
           b == SubSeq(s, n + 1, Len(s))
<1>0. Len(s) \in Nat /\ n \in Nat /\ n <= Len(s)
  OBVIOUS
<1>1. /\ a \in Seq(Span) /\ Len(a) = n /\ b \in Seq(Span) /\ Len(b) = Len(s) - n
      /\ (\A k \in 1 .. n : a[k] = s[k]) /\ \A k \in 1 .. Len(s) - n : b[k] = s[n + k]
  <2>1. /\ a \in Seq(Span) /\ Len(a) = n + 1 - 1 /\ \A k \in 1 .. n + 1 - 1 : a[k] = s[1 + k - 1]
    BY <1>0, PartOf
  <2>2. /\ b \in Seq(Span) /\ Len(b) = Len(s) + 1 - (n + 1)
        /\ \A k \in 1 .. Len(s) + 1 - (n + 1) : b[k] = s[n + 1 + k - 1]
    BY <1>0, PartOf
  <2> HIDE DEF a, b
  <2> QED
    BY <1>0, <2>1, <2>2
<1> HIDE DEF a, b
<1>2. s = a \o b
  <2>1. a \o b \in Seq(Span) /\ Len(a \o b) = Len(s)
    BY <1>0, <1>1
  <2>2. ASSUME NEW k \in 1 .. Len(s)
        PROVE  (a \o b)[k] = s[k]
    <3>1. CASE k <= n
      BY <1>0, <1>1, <3>1
    <3>2. CASE k > n
      <4>1. k - n \in 1 .. Len(s) - n /\ n + (k - n) = k
        BY <1>0, <3>2
      <4>2. (a \o b)[k] = b[k - n]
        BY <1>0, <1>1, <3>2
      <4> QED
        BY <1>1, <4>1, <4>2
    <3>3. k <= n \/ k > n
      BY <1>0
    <3> QED
      BY <3>1, <3>2, <3>3, Zenon
  <2> QED
    BY <2>1, <2>2, SeqEqual
<1>3. Sizes(a \o b) = Sizes(a) + Sizes(b)
  BY <1>1, SizesConcat
<1> QED
  BY <1>2, <1>3 DEF a, b

LEMMA Inserted ==
  ASSUME NEW s \in Seq(Span), NEW i \in 1 .. Len(s) + 1, NEW r \in Span
  PROVE  /\ InsertAt(s, i, r) \in Seq(Span) /\ Len(InsertAt(s, i, r)) = Len(s) + 1
         /\ \A k \in 1 .. Len(s) + 1 :
              InsertAt(s, i, r)[k] = IF k < i THEN s[k] ELSE IF k = i THEN r ELSE s[k - 1]
         /\ Sizes(InsertAt(s, i, r)) = Sizes(s) + Size(r)
<1> DEFINE a == SubSeq(s, 1, i - 1)
           b == SubSeq(s, i, Len(s))
<1>0. Len(s) \in Nat /\ i \in Nat /\ i - 1 \in 0 .. Len(s) /\ i - 1 + 1 = i
  OBVIOUS
<1>1. /\ a \in Seq(Span) /\ Len(a) = i - 1 /\ b \in Seq(Span) /\ Len(b) = Len(s) + 1 - i
      /\ (\A k \in 1 .. i - 1 : a[k] = s[k])
      /\ \A k \in 1 .. Len(s) + 1 - i : b[k] = s[i + k - 1]
  <2>1. /\ a \in Seq(Span) /\ Len(a) = (i - 1) + 1 - 1
        /\ \A k \in 1 .. (i - 1) + 1 - 1 : a[k] = s[1 + k - 1]
    BY <1>0, PartOf
  <2>2. /\ b \in Seq(Span) /\ Len(b) = Len(s) + 1 - i
        /\ \A k \in 1 .. Len(s) + 1 - i : b[k] = s[i + k - 1]
    BY <1>0, PartOf
  <2> HIDE DEF a, b
  <2> QED
    BY <1>0, <2>1, <2>2
<1>2. InsertAt(s, i, r) = (a \o <<r>>) \o b
  BY DEF InsertAt
<1>3. Sizes(s) = Sizes(a) + Sizes(b)
  BY <1>0, Split
<1> HIDE DEF a, b
<1> DEFINE u == a \o <<r>>
<1>4. /\ u \in Seq(Span) /\ Len(u) = i /\ u[i] = r /\ \A k \in 1 .. i - 1 : u[k] = s[k]
  <2>1. <<r>> \in Seq(Span) /\ Len(<<r>>) = 1 /\ <<r>>[1] = r
    OBVIOUS
  <2>2. u \in Seq(Span) /\ Len(u) = i /\ u[i] = r
    BY <1>0, <1>1, <2>1
  <2>3. \A k \in 1 .. i - 1 : u[k] = a[k]
    BY <1>0, <1>1, <2>1
  <2> QED
    BY <1>1, <2>2, <2>3
<1>5. Sizes(u) = Sizes(a) + Size(r)
  BY <1>1, SizesOne, SizesConcat
<1> HIDE DEF u
<1>6. Sizes(u \o b) = Sizes(u) + Sizes(b)
  BY <1>1, <1>4, SizesConcat
<1>7. u \o b \in Seq(Span) /\ Len(u \o b) = Len(s) + 1
  <2>1. u \in Seq(Span) /\ b \in Seq(Span)
    BY <1>1, <1>4
  <2>2. u \o b \in Seq(Span) /\ Len(u \o b) = Len(u) + Len(b)
    BY <2>1, ConcatProperties
  <2>3. Len(u) = i /\ Len(b) = Len(s) + 1 - i /\ i \in Nat /\ Len(s) \in Nat
    BY <1>0, <1>1, <1>4
  <2> QED
    BY <2>2, <2>3
<1>8. ASSUME NEW k \in 1 .. Len(s) + 1
      PROVE  (u \o b)[k] = IF k < i THEN s[k] ELSE IF k = i THEN r ELSE s[k - 1]
  <2>1. CASE k <= i
    BY <1>0, <1>1, <1>4, <2>1
  <2>2. CASE k > i
    <3>1. (u \o b)[k] = b[k - i] /\ k - i \in 1 .. Len(s) + 1 - i /\ i + (k - i) - 1 = k - 1
      BY <1>0, <1>1, <1>4, <2>2
    <3> QED
      BY <1>0, <1>1, <2>2, <3>1
  <2>3. k <= i \/ k > i
    BY <1>0
  <2> QED
    BY <2>1, <2>2, <2>3, Zenon
<1>9. Sizes(a) \in Int /\ Sizes(b) \in Int /\ Size(r) \in Int
  BY <1>1, SizesInt, SizeInt
<1>10. Sizes(u \o b) = Sizes(s) + Size(r)
  BY <1>3, <1>5, <1>6, <1>9
<1> QED
  BY <1>2, <1>7, <1>8, <1>10 DEF u

LEMMA Removed ==
  ASSUME NEW s \in Seq(Span), NEW i \in 1 .. Len(s)
  PROVE  /\ RemoveAt(s, i) \in Seq(Span) /\ Len(RemoveAt(s, i)) = Len(s) - 1
         /\ \A k \in 1 .. Len(s) - 1 : RemoveAt(s, i)[k] = IF k < i THEN s[k] ELSE s[k + 1]
         /\ Sizes(RemoveAt(s, i)) = Sizes(s) - Size(s[i])
<1> DEFINE t == RemoveAt(s, i)
           a == SubSeq(s, 1, i - 1)
           b == SubSeq(s, i + 1, Len(s))
<1>0. Len(s) \in Nat /\ i \in Nat /\ i - 1 \in 0 .. Len(s) /\ i - 1 + 1 = i /\ s[i] \in Span
  OBVIOUS
<1>1. /\ a \in Seq(Span) /\ Len(a) = i - 1 /\ b \in Seq(Span) /\ Len(b) = Len(s) - i
      /\ (\A k \in 1 .. i - 1 : a[k] = s[k])
      /\ \A k \in 1 .. Len(s) - i : b[k] = s[i + k]
  <2>1. /\ a \in Seq(Span) /\ Len(a) = (i - 1) + 1 - 1
        /\ \A k \in 1 .. (i - 1) + 1 - 1 : a[k] = s[1 + k - 1]
    BY <1>0, PartOf
  <2>2. /\ b \in Seq(Span) /\ Len(b) = Len(s) + 1 - (i + 1)
        /\ \A k \in 1 .. Len(s) + 1 - (i + 1) : b[k] = s[i + 1 + k - 1]
    BY <1>0, PartOf
  <2> HIDE DEF a, b
  <2> QED
    BY <1>0, <2>1, <2>2
<1>2. t = a \o b
  BY DEF RemoveAt
<1> HIDE DEF a, b, t
<1>3. t \in Seq(Span) /\ Len(t) = Len(s) - 1
  <2>1. a \in Seq(Span) /\ b \in Seq(Span)
    BY <1>1
  <2>2. a \o b \in Seq(Span) /\ Len(a \o b) = Len(a) + Len(b)
    BY <2>1
  <2>3. Len(a) = i - 1 /\ Len(b) = Len(s) - i
    BY <1>1
  <2> QED
    BY <1>0, <1>2, <2>2, <2>3
<1>4. ASSUME NEW k \in 1 .. Len(s) - 1
      PROVE  t[k] = IF k < i THEN s[k] ELSE s[k + 1]
  <2>1. CASE k < i
    BY <1>0, <1>1, <1>2, <2>1
  <2>2. CASE k >= i
    <3>1. t[k] = b[k - (i - 1)] /\ k - (i - 1) \in 1 .. Len(s) - i /\ i + (k - (i - 1)) = k + 1
      BY <1>0, <1>1, <1>2, <2>2
    <3> QED
      BY <1>0, <1>1, <2>2, <3>1
  <2> QED
    BY <1>0, <2>1, <2>2
<1>5. Sizes(t) = Sizes(s) - Size(s[i])
  <2>1. s = InsertAt(t, i, s[i])
    <3>1. i \in 1 .. Len(t) + 1 /\ Len(t) + 1 = Len(s)
      BY <1>0, <1>3
    <3>2. /\ InsertAt(t, i, s[i]) \in Seq(Span) /\ Len(InsertAt(t, i, s[i])) = Len(s)
          /\ \A k \in 1 .. Len(s) : InsertAt(t, i, s[i])[k]
                                     = IF k < i THEN t[k] ELSE IF k = i THEN s[i] ELSE t[k - 1]
      <4> DEFINE v == s[i]
      <4>1. v \in Span
        BY <1>0
      <4> HIDE DEF v
      <4>2. /\ InsertAt(t, i, v) \in Seq(Span) /\ Len(InsertAt(t, i, v)) = Len(t) + 1
            /\ \A k \in 1 .. Len(t) + 1 :
                 InsertAt(t, i, v)[k] = IF k < i THEN t[k] ELSE IF k = i THEN v ELSE t[k - 1]
        BY <1>3, <3>1, <4>1, Inserted
      <4> QED
        BY <3>1, <4>2 DEF v
    <3>3. ASSUME NEW k \in 1 .. Len(s)
          PROVE  InsertAt(t, i, s[i])[k] = s[k]
      <4>1. CASE k < i
        BY <1>0, <1>4, <3>2, <4>1
      <4>2. CASE k > i
        <5>1. k - 1 \in 1 .. Len(s) - 1 /\ ~(k - 1 < i) /\ k - 1 + 1 = k
          BY <1>0, <4>2
        <5> QED
          BY <1>0, <1>4, <3>2, <4>2, <5>1
      <4> QED
        BY <1>0, <3>2, <4>1, <4>2
    <3> QED
      BY <3>2, <3>3, SeqEqual
  <2>2. Sizes(InsertAt(t, i, s[i])) = Sizes(t) + Size(s[i])
    BY <1>0, <1>3, Inserted
  <2>3. Sizes(t) \in Int /\ Size(s[i]) \in Int
    BY <1>0, <1>3, SizesInt, SizeInt
  <2> QED
    BY <2>1, <2>2, <2>3
<1> QED
  BY <1>3, <1>4, <1>5 DEF t

LEMMA Replaced ==
  ASSUME NEW s \in Seq(Span), NEW i \in 1 .. Len(s), NEW r \in Span
  PROVE  /\ [s EXCEPT ![i] = r] \in Seq(Span) /\ Len([s EXCEPT ![i] = r]) = Len(s)
         /\ \A k \in 1 .. Len(s) : [s EXCEPT ![i] = r][k] = IF k = i THEN r ELSE s[k]
         /\ Sizes([s EXCEPT ![i] = r]) = Sizes(s) - Size(s[i]) + Size(r)
<1> DEFINE t == [s EXCEPT ![i] = r]
<1>0. Len(s) \in Nat /\ i \in 1 .. Len(s) /\ s[i] \in Span /\ i \in Nat
  OBVIOUS
<1>1. t \in Seq(Span) /\ Len(t) = Len(s) /\ \A k \in 1 .. Len(s) : t[k] = IF k = i THEN r ELSE s[k]
  BY <1>0
<1> HIDE DEF t
<1>2. /\ RemoveAt(s, i) \in Seq(Span) /\ Len(RemoveAt(s, i)) = Len(s) - 1
      /\ \A k \in 1 .. Len(s) - 1 : RemoveAt(s, i)[k] = IF k < i THEN s[k] ELSE s[k + 1]
      /\ Sizes(RemoveAt(s, i)) = Sizes(s) - Size(s[i])
  BY Removed
<1>3. /\ RemoveAt(t, i) \in Seq(Span) /\ Len(RemoveAt(t, i)) = Len(s) - 1
      /\ \A k \in 1 .. Len(s) - 1 : RemoveAt(t, i)[k] = IF k < i THEN t[k] ELSE t[k + 1]
      /\ Sizes(RemoveAt(t, i)) = Sizes(t) - Size(r)
  <2>1. i \in 1 .. Len(t) /\ t[i] = r
    BY <1>0, <1>1
  <2>2. /\ RemoveAt(t, i) \in Seq(Span) /\ Len(RemoveAt(t, i)) = Len(t) - 1
        /\ \A k \in 1 .. Len(t) - 1 : RemoveAt(t, i)[k] = IF k < i THEN t[k] ELSE t[k + 1]
        /\ Sizes(RemoveAt(t, i)) = Sizes(t) - Size(t[i])
    BY <1>1, <2>1, Removed
  <2> QED
    BY <1>1, <2>1, <2>2
<1>4. RemoveAt(s, i) = RemoveAt(t, i)
  <2>1. ASSUME NEW k \in 1 .. Len(s) - 1
        PROVE  RemoveAt(s, i)[k] = RemoveAt(t, i)[k]
    <3>1. k \in 1 .. Len(s) /\ k + 1 \in 1 .. Len(s) /\ (k < i => k # i) /\ (~(k < i) => k + 1 # i)
      BY <1>0
    <3> QED
      BY <1>1, <1>2, <1>3, <3>1
  <2> QED
    BY <1>2, <1>3, <2>1, SeqEqual
<1>5. Sizes(s) \in Int /\ Sizes(t) \in Int /\ Size(r) \in Int /\ Size(s[i]) \in Int
  BY <1>0, <1>1, SizesInt, SizeInt
<1>6. Sizes(t) = Sizes(s) - Size(s[i]) + Size(r)
  BY <1>2, <1>3, <1>4, <1>5
<1> QED
  BY <1>1, <1>6 DEF t

-----------------------------------------------------------------------------
(* Chunks whose cached values are right, iterators, and their order        *)

Chunk == [data : Seq(Span), begin : Int, end : Int, count : Int]

Right(c) ==
  /\ c.data # <<>> /\ Len(c.data) <= MaxSize
  /\ c.begin = c.data[1][1] /\ c.end = c.data[Len(c.data)][2] /\ c.count = Sizes(c.data)

Chunks == {c \in Chunk : Right(c)}
Vectors == Seq(Chunks)

\* The ranges are not empty and each stops before the next one starts.
Apart(m, its) ==
  /\ \A p \in its : At(m, p)[1] < At(m, p)[2]
  /\ \A p, q \in its : Before(p, q) => At(m, p)[2] < At(m, q)[1]

InOrder(m) == Apart(m, Iterators(m))

IndexSets == {m \in Vectors : InOrder(m)}

Positions == Nat \X Nat

LEMMA ChunkOfVector ==
  ASSUME NEW m \in Vectors, NEW o \in 1 .. Len(m)
  PROVE  /\ m[o] \in Chunks /\ m[o].data \in Seq(Span) /\ Len(m[o].data) \in 1 .. MaxSize
         /\ m[o].begin \in Int /\ m[o].end \in Int /\ m[o].count \in Int
<1>1. m[o] \in Chunks
  BY DEF Vectors
<1>2. m[o] \in Chunk /\ Right(m[o])
  BY <1>1 DEF Chunks
<1>3. m[o].data \in Seq(Span) /\ m[o].data # <<>> /\ Len(m[o].data) <= MaxSize
  BY <1>2 DEF Chunk, Right
<1>4. Len(m[o].data) \in Nat /\ Len(m[o].data) # 0
  BY <1>3
<1>5. m[o].begin \in Int /\ m[o].end \in Int /\ m[o].count \in Int
  BY <1>2 DEF Chunk
<1>6. MaxSize \in Nat
  BY SetAssumption
<1> QED
  BY <1>1, <1>3, <1>4, <1>5, <1>6

LEMMA IteratorsAre ==
  ASSUME NEW m, Len(m) \in Nat, DOMAIN m = 1 .. Len(m), NEW p
  PROVE  p \in Iterators(m) <=> /\ p = <<p[1], p[2]>> /\ p[1] \in 1 .. Len(m)
                                /\ p[2] \in 1 .. Len(m[p[1]].data)
BY DEF Iterators

LEMMA VectorLen ==
  ASSUME NEW m \in Vectors
  PROVE  Len(m) \in Nat /\ DOMAIN m = 1 .. Len(m) /\ (m = <<>> <=> Len(m) = 0)
BY DEF Vectors

LEMMA IteratorFacts ==
  ASSUME NEW m \in Vectors, NEW p \in Iterators(m)
  PROVE  /\ p = <<p[1], p[2]>> /\ p[1] \in 1 .. Len(m) /\ p[2] \in 1 .. Len(m[p[1]].data)
         /\ p \in Positions /\ p[1] \in Nat /\ p[2] \in Nat
         /\ At(m, p) \in Span /\ At(m, p)[1] \in Int /\ At(m, p)[2] \in Int
         /\ At(m, p) = <<At(m, p)[1], At(m, p)[2]>>
<1>1. Len(m) \in Nat /\ DOMAIN m = 1 .. Len(m)
  BY VectorLen
<1>2. p = <<p[1], p[2]>> /\ p[1] \in 1 .. Len(m) /\ p[2] \in 1 .. Len(m[p[1]].data)
  BY <1>1, IteratorsAre
<1>3. m[p[1]].data \in Seq(Span)
  BY <1>2, ChunkOfVector
<1>4. m[p[1]].data[p[2]] \in Span
  BY <1>2, <1>3
<1>5. p[1] \in Nat /\ p[2] \in Nat
  <2>1. Len(m[p[1]].data) \in Nat
    BY <1>3
  <2> QED
    BY <1>1, <1>2, <2>1
<1>6. At(m, p) \in Span
  BY <1>4 DEF At
<1>7. /\ At(m, p)[1] \in Int /\ At(m, p)[2] \in Int
      /\ At(m, p) = <<At(m, p)[1], At(m, p)[2]>>
  BY <1>6 DEF Span
<1>8. p \in Positions
  BY <1>2, <1>5 DEF Positions
<1> QED
  BY <1>2, <1>5, <1>6, <1>7, <1>8

LEMMA IteratorAt ==
  ASSUME NEW m \in Vectors, NEW o \in 1 .. Len(m), NEW k \in 1 .. Len(m[o].data)
  PROVE  <<o, k>> \in Iterators(m) /\ At(m, <<o, k>>) = m[o].data[k]
<1>1. Len(m) \in Nat /\ DOMAIN m = 1 .. Len(m)
  BY VectorLen
<1> QED
  BY <1>1, IteratorsAre DEF At

LEMMA Order ==
  ASSUME NEW p \in Positions, NEW q \in Positions
  PROVE  /\ ~Before(p, p) /\ (p = q \/ Before(p, q) \/ Before(q, p))
         /\ (Before(p, q) => ~Before(q, p) /\ p # q)
         /\ \A r \in Positions : Before(p, q) /\ Before(q, r) => Before(p, r)
<1>1. /\ p = <<p[1], p[2]>> /\ p[1] \in Nat /\ p[2] \in Nat
      /\ q = <<q[1], q[2]>> /\ q[1] \in Nat /\ q[2] \in Nat
  BY DEF Positions
<1>2. ~Before(p, p) /\ (Before(p, q) => ~Before(q, p) /\ p # q)
  BY <1>1 DEF Before
<1>3. p[1] = q[1] /\ p[2] = q[2] => p = q
  BY <1>1
<1>4. p = q \/ Before(p, q) \/ Before(q, p)
  BY <1>1, <1>3 DEF Before
<1>5. ASSUME NEW r \in Positions, Before(p, q), Before(q, r)
      PROVE  Before(p, r)
  <2>1. r[1] \in Nat /\ r[2] \in Nat
    BY DEF Positions
  <2> QED
    BY <1>1, <1>5, <2>1 DEF Before
<1> QED
  BY <1>2, <1>4, <1>5

LEMMA EndFacts ==
  ASSUME NEW m \in Vectors
  PROVE  /\ End(m) \in Positions /\ End(m) \notin Iterators(m)
         /\ \A p \in Iterators(m) : Before(p, End(m))
<1>1. Len(m) \in Nat
  BY VectorLen
<1>2. End(m) = <<Len(m) + 1, 0>> /\ End(m)[1] = Len(m) + 1 /\ End(m)[2] = 0
  BY DEF End
<1>3. \A p \in Iterators(m) : p[1] \in 1 .. Len(m)
  BY IteratorFacts
<1> QED
  BY <1>1, <1>2, <1>3 DEF Positions, Before

LEMMA BeginFacts ==
  ASSUME NEW m \in Vectors
  PROVE  /\ m # <<>> => Begin(m) = <<1, 1>> /\ Begin(m) \in Iterators(m)
         /\ m = <<>> => Begin(m) = End(m) /\ Iterators(m) = {}
         /\ \A p \in Iterators(m) : ~Before(p, Begin(m))
<1>1. Len(m) \in Nat /\ (m = <<>> <=> Len(m) = 0)
  BY VectorLen
<1>2. CASE m # <<>>
  <2>1. 1 \in 1 .. Len(m) /\ Begin(m) = <<1, 1>>
    BY <1>1, <1>2 DEF Begin
  <2>2. 1 \in 1 .. Len(m[1].data)
    BY <2>1, ChunkOfVector
  <2>3. <<1, 1>> \in Iterators(m)
    BY <2>1, <2>2, IteratorAt
  <2>4. ASSUME NEW p \in Iterators(m)
        PROVE  ~Before(p, <<1, 1>>)
    <3>1. p[1] \in 1 .. Len(m) /\ p[2] \in 1 .. Len(m[p[1]].data)
      BY IteratorFacts
    <3>2. p[1] >= 1 /\ p[2] >= 1 /\ p[1] \in Nat /\ p[2] \in Nat
      BY <3>1, IteratorFacts
    <3> QED
      BY <3>2 DEF Before
  <2> QED
    BY <1>2, <2>1, <2>3, <2>4
<1>3. CASE m = <<>>
  <2>1. \A p \in Iterators(m) : p[1] \in 1 .. 0
    BY <1>1, <1>3, IteratorFacts
  <2>2. Iterators(m) = {}
    BY <2>1
  <2> QED
    BY <1>3, <2>2 DEF Begin
<1> QED
  BY <1>2, <1>3

LEMMA SuccFacts ==
  ASSUME NEW m \in Vectors, NEW it \in Iterators(m)
  PROVE  /\ Succ(m, it) \in Iterators(m) \cup {End(m)} /\ Succ(m, it) \in Positions
         /\ \A p \in Iterators(m) : Before(p, Succ(m, it)) <=> p = it \/ Before(p, it)
<1> DEFINE o == it[1]
           k == it[2]
           n == Len(m[o].data)
           s == Succ(m, it)
<1>1. /\ Len(m) \in Nat /\ it = <<o, k>> /\ o \in 1 .. Len(m) /\ k \in 1 .. n
      /\ o \in Nat /\ k \in Nat
  BY VectorLen, IteratorFacts
<1>2. n \in Nat /\ n >= 1
  BY <1>1, ChunkOfVector
<1>3. \A p \in Iterators(m) : /\ p = <<p[1], p[2]>> /\ p[1] \in Nat /\ p[2] \in Nat
                              /\ p[1] \in 1 .. Len(m) /\ p[2] >= 1
                              /\ (p[1] = o => p[2] <= n)
  <2>1. ASSUME NEW p \in Iterators(m)
        PROVE  /\ p = <<p[1], p[2]>> /\ p[1] \in Nat /\ p[2] \in Nat
               /\ p[1] \in 1 .. Len(m) /\ p[2] >= 1
               /\ (p[1] = o => p[2] <= n)
    <3>1. /\ p = <<p[1], p[2]>> /\ p[1] \in 1 .. Len(m) /\ p[2] \in 1 .. Len(m[p[1]].data)
          /\ p[1] \in Nat /\ p[2] \in Nat
      BY IteratorFacts
    <3> QED
      BY <1>2, <3>1
  <2> QED
    BY <2>1
<1>4. CASE k < n
  <2>1. s = <<o, k + 1>> /\ k + 1 \in 1 .. n
    BY <1>1, <1>2, <1>4 DEF Succ
  <2>2. s \in Iterators(m)
    BY <1>1, <2>1, IteratorAt
  <2>3. s[1] = o /\ s[2] = k + 1
    BY <2>1
  <2> HIDE DEF s, n, o, k
  <2>4. ASSUME NEW p \in Iterators(m)
        PROVE  Before(p, s) <=> p = it \/ Before(p, it)
    <3>1. p = <<p[1], p[2]>> /\ p[1] \in Nat /\ p[2] \in Nat
      BY <1>3
    <3>2. p = it <=> p[1] = o /\ p[2] = k
      BY <1>1, <3>1
    <3>3. it[1] = o /\ it[2] = k
      BY DEF o, k
    <3> QED
      BY <1>1, <2>3, <3>1, <3>2, <3>3 DEF Before
  <2> QED
    BY <2>2, <2>4, IteratorFacts DEF s
<1>5. CASE ~(k < n) /\ o < Len(m)
  <2>1. s = <<o + 1, 1>> /\ o + 1 \in 1 .. Len(m) /\ k = n
    BY <1>1, <1>2, <1>5 DEF Succ, next_chunk
  <2>2. 1 \in 1 .. Len(m[o + 1].data)
    BY <2>1, ChunkOfVector
  <2>3. s \in Iterators(m)
    BY <2>1, <2>2, IteratorAt
  <2>4. s[1] = o + 1 /\ s[2] = 1
    BY <2>1
  <2> HIDE DEF s, n, o, k
  <2>5. ASSUME NEW p \in Iterators(m)
        PROVE  Before(p, s) <=> p = it \/ Before(p, it)
    <3>1. /\ p = <<p[1], p[2]>> /\ p[1] \in Nat /\ p[2] \in Nat /\ p[2] >= 1
          /\ (p[1] = o => p[2] <= n)
      BY <1>3
    <3>2. p = it <=> p[1] = o /\ p[2] = k
      BY <1>1, <3>1
    <3>3. it[1] = o /\ it[2] = k
      BY DEF o, k
    <3> QED
      BY <1>1, <1>2, <2>1, <2>4, <3>1, <3>2, <3>3 DEF Before
  <2> QED
    BY <2>3, <2>5, IteratorFacts DEF s
<1>6. CASE ~(k < n) /\ o = Len(m)
  <2>1. s = End(m) /\ k = n
    BY <1>1, <1>2, <1>6 DEF Succ, next_chunk
  <2> HIDE DEF s, n, o, k
  <2>2. ASSUME NEW p \in Iterators(m)
        PROVE  p = it \/ Before(p, it)
    <3>1. /\ p = <<p[1], p[2]>> /\ p[1] \in Nat /\ p[2] \in Nat /\ p[1] \in 1 .. Len(m)
          /\ (p[1] = o => p[2] <= n)
      BY <1>3
    <3>2. p = it <=> p[1] = o /\ p[2] = k
      BY <1>1, <3>1
    <3>3. it[1] = o /\ it[2] = k
      BY DEF o, k
    <3> QED
      BY <1>1, <1>2, <1>6, <2>1, <3>1, <3>2, <3>3 DEF Before
  <2> QED
    BY <2>1, <2>2, EndFacts DEF s
<1>7. o < Len(m) \/ o = Len(m)
  BY <1>1
<1> QED
  BY <1>4, <1>5, <1>6, <1>7, Zenon

LEMMA PredFacts ==
  ASSUME NEW m \in Vectors, NEW it \in Iterators(m) \cup {End(m)}, it # Begin(m)
  PROVE  /\ Pred(m, it) \in Iterators(m) /\ Before(Pred(m, it), it)
         /\ \A p \in Iterators(m) : Before(p, it) => p = Pred(m, it) \/ Before(p, Pred(m, it))
<1> DEFINE o == it[1]
           k == it[2]
           s == Pred(m, it)
<1>1. Len(m) \in Nat /\ (m = <<>> <=> Len(m) = 0)
  BY VectorLen
<1>2. m # <<>> /\ Begin(m) = <<1, 1>>
  <2>1. m # <<>>
    BY BeginFacts
  <2> QED
    BY <2>1, BeginFacts
<1>3. /\ it = <<o, k>> /\ o \in 1 .. Len(m) + 1 /\ k \in Nat
      /\ (k <= 1 => o > 1) /\ (o <= Len(m) => k \in 1 .. Len(m[o].data)) /\ (o = Len(m) + 1 => k = 0)
  <2>1. CASE it \in Iterators(m)
    <3>1. it = <<o, k>> /\ o \in 1 .. Len(m) /\ k \in 1 .. Len(m[o].data) /\ k \in Nat /\ o \in Nat
      BY <2>1, IteratorFacts
    <3>2. ~(o = 1 /\ k = 1)
      BY <1>2, <3>1
    <3>3. k >= 1
      BY <2>1, <3>1
    <3> QED
      BY <1>1, <3>1, <3>2, <3>3
  <2>2. CASE it = End(m)
    <3>1. it = <<Len(m) + 1, 0>> /\ o = Len(m) + 1 /\ k = 0
      BY <2>2 DEF End
    <3> QED
      BY <1>1, <1>2, <3>1
  <2> QED
    BY <2>1, <2>2
<1>4. \A p \in Iterators(m) : /\ p = <<p[1], p[2]>> /\ p[1] \in Nat /\ p[2] \in Nat
                              /\ p[1] \in 1 .. Len(m) /\ p[2] >= 1
                              /\ p[2] \in 1 .. Len(m[p[1]].data)
  <2>1. ASSUME NEW p \in Iterators(m)
        PROVE  /\ p = <<p[1], p[2]>> /\ p[1] \in Nat /\ p[2] \in Nat
               /\ p[1] \in 1 .. Len(m) /\ p[2] >= 1
               /\ p[2] \in 1 .. Len(m[p[1]].data)
    <3>1. /\ p = <<p[1], p[2]>> /\ p[1] \in 1 .. Len(m) /\ p[2] \in 1 .. Len(m[p[1]].data)
          /\ p[1] \in Nat /\ p[2] \in Nat
      BY IteratorFacts
    <3> QED
      BY <3>1
  <2> QED
    BY <2>1
<1>5. CASE k > 1
  <2>1. s = <<o, k - 1>> /\ o \in 1 .. Len(m) /\ k - 1 \in 1 .. Len(m[o].data)
    <3>1. o # Len(m) + 1
      BY <1>3, <1>5
    <3>2. o \in 1 .. Len(m) /\ k \in 1 .. Len(m[o].data)
      BY <1>1, <1>3, <3>1
    <3>3. Len(m[o].data) \in Nat
      BY <3>2, ChunkOfVector
    <3> QED
      BY <1>5, <3>2, <3>3 DEF Pred
  <2>2. s \in Iterators(m)
    BY <2>1, IteratorAt
  <2>3. s[1] = o /\ s[2] = k - 1
    BY <2>1
  <2>4. o \in Nat
    BY <1>1, <1>3
  <2> HIDE DEF s
  <2>5. ASSUME NEW p \in Iterators(m), Before(p, it)
        PROVE  p = s \/ Before(p, s)
    <3>1. p = <<p[1], p[2]>> /\ p[1] \in Nat /\ p[2] \in Nat
      BY <1>4
    <3>2. p[1] = o /\ p[2] = k - 1 => p = s
      BY <2>1, <3>1
    <3> QED
      BY <1>3, <1>5, <2>3, <2>4, <2>5, <3>1, <3>2 DEF Before
  <2>6. Before(s, it)
    BY <1>3, <1>5, <2>3, <2>4 DEF Before
  <2> QED
    BY <2>2, <2>5, <2>6 DEF s
<1>6. CASE k <= 1
  <2> DEFINE n == Len(m[o - 1].data)
  <2>1. s = <<o - 1, n>> /\ o - 1 \in 1 .. Len(m) /\ o \in Nat
    <3>1. ~(it[2] > 1)
      BY <1>3, <1>6
    <3> QED
      BY <1>1, <1>3, <1>6, <3>1 DEF Pred
  <2>2. n \in Nat /\ n \in 1 .. n
    BY <2>1, ChunkOfVector
  <2>3. s \in Iterators(m)
    BY <2>1, <2>2, IteratorAt
  <2>4. s[1] = o - 1 /\ s[2] = n
    BY <2>1
  <2> HIDE DEF s
  <2>5. ASSUME NEW p \in Iterators(m), Before(p, it)
        PROVE  p = s \/ Before(p, s)
    <3>1. /\ p = <<p[1], p[2]>> /\ p[1] \in Nat /\ p[2] \in Nat /\ p[2] >= 1
          /\ p[2] \in 1 .. Len(m[p[1]].data)
      BY <1>4
    <3>2. p[1] = o - 1 => p[2] <= n
      BY <2>2, <3>1
    <3>3. p[1] = o - 1 /\ p[2] = n => p = s
      BY <2>1, <3>1
    <3>4. p[1] <= o - 1
      BY <1>3, <1>6, <2>1, <2>5, <3>1 DEF Before
    <3> HIDE DEF n
    <3> QED
      BY <2>1, <2>2, <2>4, <3>1, <3>2, <3>3, <3>4 DEF Before
  <2>6. Before(s, it)
    BY <1>3, <2>1, <2>4 DEF Before
  <2> QED
    BY <2>3, <2>5, <2>6 DEF s
<1>7. k > 1 \/ k <= 1
  BY <1>3
<1> QED
  BY <1>5, <1>6, <1>7, Zenon

-----------------------------------------------------------------------------
(* The methods of iterators: a range is changed, or all from one on        *)

LEMMA ChunkSet ==
  ASSUME NEW m \in Vectors, NEW o \in 1 .. Len(m), NEW c \in Chunks
  PROVE  /\ [m EXCEPT ![o] = c] \in Vectors /\ Len([m EXCEPT ![o] = c]) = Len(m)
         /\ \A k \in 1 .. Len(m) : [m EXCEPT ![o] = c][k] = IF k = o THEN c ELSE m[k]
BY DEF Vectors

LEMMA IsChunk ==
  ASSUME NEW d \in Seq(Span), Len(d) \in 1 .. MaxSize, NEW b, b = d[1][1],
         NEW e, e = d[Len(d)][2], NEW n, n = Sizes(d)
  PROVE  [data |-> d, begin |-> b, end |-> e, count |-> n] \in Chunks
<1> DEFINE c == [data |-> d, begin |-> b, end |-> e, count |-> n]
<1>1. Len(d) \in Nat /\ 1 \in 1 .. Len(d) /\ Len(d) \in 1 .. Len(d) /\ d # <<>> /\ Len(d) <= MaxSize
  BY SetAssumption
<1>2. d[1] \in Span /\ d[Len(d)] \in Span
  BY <1>1
<1>3. b \in Int /\ e \in Int /\ n \in Int
  <2>1. b \in Int /\ e \in Int
    BY <1>2 DEF Span
  <2> QED
    BY <2>1, SizesInt
<1>4. c \in Chunk
  BY <1>3 DEF Chunk
<1>5. Right(c)
  BY <1>1 DEF Right
<1> QED
  BY <1>4, <1>5 DEF Chunks

SameShape(m, n) == Len(n) = Len(m) /\ \A o \in 1 .. Len(m) : Len(n[o].data) = Len(m[o].data)

LEMMA ShapeFacts ==
  ASSUME NEW m \in Vectors, NEW n \in Vectors, SameShape(m, n)
  PROVE  /\ Iterators(n) = Iterators(m) /\ End(n) = End(m) /\ Begin(n) = Begin(m)
         /\ \A p \in Iterators(m) : Succ(n, p) = Succ(m, p)
<1>1. /\ Len(m) \in Nat /\ DOMAIN m = 1 .. Len(m) /\ (m = <<>> <=> Len(m) = 0)
      /\ Len(n) \in Nat /\ DOMAIN n = 1 .. Len(n) /\ (n = <<>> <=> Len(n) = 0)
  BY VectorLen
<1>2. Len(n) = Len(m)
  BY DEF SameShape
<1>3. ASSUME NEW p
      PROVE  p \in Iterators(n) <=> p \in Iterators(m)
  BY <1>1, <1>2, IteratorsAre DEF SameShape
<1>4. End(n) = End(m) /\ Begin(n) = Begin(m)
  BY <1>1, <1>2 DEF End, Begin
<1>5. ASSUME NEW p \in Iterators(m)
      PROVE  Succ(n, p) = Succ(m, p)
  <2>1. p[1] \in 1 .. Len(m)
    BY IteratorFacts
  <2>2. Len(n[p[1]].data) = Len(m[p[1]].data)
    BY <2>1 DEF SameShape
  <2> QED
    BY <1>2, <1>4, <2>2 DEF Succ, next_chunk
<1>6. Iterators(n) = Iterators(m)
  BY <1>3
<1> QED
  BY <1>4, <1>5, <1>6

LEMMA Adjusted ==
  ASSUME NEW m \in Vectors, NEW it \in Iterators(m), NEW front \in Int, NEW back \in Int
  PROVE  LET n == adjust(m, it, front, back)
         IN /\ n \in Vectors /\ SameShape(m, n)
            /\ \A p \in Iterators(m) :
                 At(n, p) = IF p = it THEN <<At(m, it)[1] + front, At(m, it)[2] + back>>
                            ELSE At(m, p)
<1> DEFINE o == it[1]
           k == it[2]
           c == m[o]
           d == c.data
           r == <<d[k][1] + front, d[k][2] + back>>
           e == [d EXCEPT ![k] = r]
           b == IF k = 1 THEN c.begin + front ELSE c.begin
           z == IF k = Len(d) THEN c.end + back ELSE c.end
           ch == [data |-> e, begin |-> b, end |-> z, count |-> c.count - front + back]
           n == adjust(m, it, front, back)
<1>1. /\ it = <<o, k>> /\ o \in 1 .. Len(m) /\ k \in 1 .. Len(d) /\ d[k] \in Span
      /\ d[k][1] \in Int /\ d[k][2] \in Int
  BY IteratorFacts DEF At
<1>2. /\ c \in Chunks /\ d \in Seq(Span) /\ Len(d) \in 1 .. MaxSize
      /\ c.begin \in Int /\ c.end \in Int /\ c.count \in Int
  BY <1>1, ChunkOfVector
<1>3. r \in Span /\ r[1] = d[k][1] + front /\ r[2] = d[k][2] + back
  BY <1>1 DEF Span
<1>4. Right(c)
  BY <1>2 DEF Chunks
<1>5. n = [m EXCEPT ![o] = ch]
  BY DEF adjust
<1> HIDE DEF r, c
<1>6. /\ e \in Seq(Span) /\ Len(e) = Len(d) /\ Sizes(e) = Sizes(d) - Size(d[k]) + Size(r)
      /\ \A j \in 1 .. Len(d) : e[j] = IF j = k THEN r ELSE d[j]
  BY <1>1, <1>2, <1>3, Replaced
<1> HIDE DEF d
<1>7. ch \in Chunks
  <2>1. Len(d) \in Nat /\ 1 \in 1 .. Len(d) /\ Len(d) \in 1 .. Len(d)
    BY <1>2, SetAssumption
  <2>2. c.begin = d[1][1] /\ c.end = d[Len(d)][2] /\ c.count = Sizes(d)
    BY <1>4 DEF Right, d
  <2>3. b = e[1][1]
    BY <1>3, <1>6, <2>1, <2>2
  <2>4. z = e[Len(e)][2]
    BY <1>3, <1>6, <2>1, <2>2
  <2>5. c.count - front + back = Sizes(e)
    <3>1. Size(r) = r[2] - r[1] /\ Size(d[k]) = d[k][2] - d[k][1]
      BY DEF Size
    <3>2. Sizes(d) \in Int
      BY <1>2, <2>2
    <3> QED
      BY <1>1, <1>3, <1>6, <2>2, <3>1, <3>2
  <2> HIDE DEF e, b, z
  <2> QED
    BY <1>2, <1>6, <2>3, <2>4, <2>5, IsChunk
<1> HIDE DEF ch, n
<1>8. /\ n \in Vectors /\ Len(n) = Len(m)
      /\ \A j \in 1 .. Len(m) : n[j] = IF j = o THEN ch ELSE m[j]
  <2>1. o \in 1 .. Len(m)
    BY <1>1
  <2> HIDE DEF o
  <2>2. /\ [m EXCEPT ![o] = ch] \in Vectors /\ Len([m EXCEPT ![o] = ch]) = Len(m)
        /\ \A j \in 1 .. Len(m) : [m EXCEPT ![o] = ch][j] = IF j = o THEN ch ELSE m[j]
    BY <1>7, <2>1, ChunkSet
  <2> QED
    BY <1>5, <2>2, Zenon
<1>9. ch.data = e
  BY DEF ch
<1>10. SameShape(m, n)
  BY <1>6, <1>8, <1>9 DEF SameShape, c, d
<1>11. ASSUME NEW p \in Iterators(m)
       PROVE  At(n, p) = IF p = it THEN <<At(m, it)[1] + front, At(m, it)[2] + back>>
                         ELSE At(m, p)
  <2>1. p = <<p[1], p[2]>> /\ p[1] \in 1 .. Len(m) /\ p[2] \in 1 .. Len(m[p[1]].data)
    BY IteratorFacts
  <2>2. CASE p = it
    <3>1. n[o].data[k] = r
      BY <1>1, <1>6, <1>8, <1>9
    <3> QED
      BY <2>2, <3>1 DEF At, r, d, c
  <2>3. CASE p # it /\ p[1] = o
    <3>1. p[2] # k /\ p[2] \in 1 .. Len(d)
      BY <1>1, <2>1, <2>3 DEF c, d
    <3>2. n[o].data[p[2]] = d[p[2]]
      BY <1>1, <1>6, <1>8, <1>9, <3>1
    <3> QED
      BY <2>3, <3>2 DEF At, d, c
  <2>4. CASE p[1] # o
    <3>1. p # it
      BY <2>4
    <3>2. n[p[1]] = m[p[1]]
      BY <1>8, <2>1, <2>4
    <3> QED
      BY <3>1, <3>2 DEF At
  <2> QED
    BY <2>2, <2>3, <2>4
<1> QED
  BY <1>8, <1>10, <1>11 DEF n

LEMMA SetTo ==
  ASSUME NEW m \in Vectors, NEW it \in Iterators(m), NEW front \in Int, NEW back \in Int
  PROVE  LET n == SetRange(m, it, front, back)
         IN /\ n \in Vectors /\ SameShape(m, n)
            /\ \A p \in Iterators(m) :
                 At(n, p) = IF p = it THEN <<front, back>> ELSE At(m, p)
<1> DEFINE f == front - At(m, it)[1]
           b == back - At(m, it)[2]
           n == adjust(m, it, f, b)
<1>1. At(m, it)[1] \in Int /\ At(m, it)[2] \in Int
  BY IteratorFacts
<1>2. f \in Int /\ b \in Int /\ At(m, it)[1] + f = front /\ At(m, it)[2] + b = back
  BY <1>1
<1>3. SetRange(m, it, front, back) = n
  BY DEF SetRange
<1> HIDE DEF f, b
<1>4. /\ n \in Vectors /\ SameShape(m, n)
      /\ \A p \in Iterators(m) :
           At(n, p) = IF p = it THEN <<At(m, it)[1] + f, At(m, it)[2] + b>> ELSE At(m, p)
  BY <1>2, Adjusted
<1> QED
  BY <1>2, <1>3, <1>4

Moved(r, distance) == <<r[1] + distance, r[2] + distance>>

LEMMA MovedFacts ==
  ASSUME NEW r \in Span, NEW distance \in Int
  PROVE  /\ Moved(r, distance) \in Span /\ Size(Moved(r, distance)) = Size(r)
         /\ Moved(r, distance)[1] = r[1] + distance /\ Moved(r, distance)[2] = r[2] + distance
BY DEF Moved, Span, Size

LEMMA ShiftedRanges ==
  ASSUME NEW c \in Chunks, NEW n \in Nat, n < Len(c.data), NEW distance \in Int
  PROVE  LET s == ShiftRanges(c, n, distance)
         IN /\ s \in Chunks /\ Len(s.data) = Len(c.data)
            /\ \A k \in 1 .. Len(c.data) :
                 s.data[k] = IF k <= n THEN c.data[k] ELSE Moved(c.data[k], distance)
<1> DEFINE d == c.data
           a == SubSeq(d, 1, n)
           b == [k \in 1 .. Len(d) - n |-> Moved(d[n + k], distance)]
           e == a \o b
           s == ShiftRanges(c, n, distance)
<1>1. /\ d \in Seq(Span) /\ Len(d) \in Nat /\ Len(d) <= MaxSize /\ Right(c)
      /\ c.begin \in Int /\ c.end \in Int
  BY DEF Chunks, Chunk, Right
<1>2. s = [data |-> e, begin |-> IF n = 0 THEN c.begin + distance ELSE c.begin,
           end |-> c.end + distance, count |-> c.count]
  BY DEF ShiftRanges, Moved
<1>3. c.begin = d[1][1] /\ c.end = d[Len(d)][2] /\ c.count = Sizes(d)
  BY <1>1 DEF Right
<1> HIDE DEF d, s
<1>4. a \in Seq(Span) /\ Len(a) = n /\ \A k \in 1 .. n : a[k] = d[k]
  <2>1. /\ a \in Seq(Span) /\ Len(a) = n + 1 - 1 /\ \A k \in 1 .. n + 1 - 1 : a[k] = d[1 + k - 1]
    <3>1. n < Len(d)
      BY DEF d
    <3> QED
      BY <1>1, <3>1, PartOf
  <2> QED
    BY <2>1
<1>5. n < Len(d)
  BY DEF d
<1>6. b \in Seq(Span) /\ Len(b) = Len(d) - n
  <2>1. \A k \in 1 .. Len(d) - n : n + k \in 1 .. Len(d)
    BY <1>1
  <2>2. ASSUME NEW k \in 1 .. Len(d) - n
        PROVE  Moved(d[n + k], distance) \in Span
    <3>1. d[n + k] \in Span
      BY <1>1, <2>1
    <3> QED
      BY <3>1, MovedFacts
  <2>3. Len(d) - n \in Nat
    BY <1>1, <1>5
  <2> QED
    BY <2>2, <2>3
<1>7. \A k \in 1 .. Len(d) - n : b[k] = Moved(d[n + k], distance)
  OBVIOUS
<1> HIDE DEF a, b
<1>8. e \in Seq(Span) /\ Len(e) = Len(d)
  BY <1>1, <1>4, <1>6
<1>9. ASSUME NEW k \in 1 .. Len(d)
      PROVE  e[k] = IF k <= n THEN d[k] ELSE Moved(d[k], distance)
  <2>1. CASE k <= n
    BY <1>4, <1>6, <2>1
  <2>2. CASE ~(k <= n)
    <3>1. k - n \in 1 .. Len(d) - n /\ n + (k - n) = k
      BY <1>1, <2>2
    <3>2. e[k] = b[k - n]
      BY <1>1, <1>4, <1>6, <2>2
    <3> QED
      BY <1>7, <2>2, <3>1, <3>2
  <2> QED
    BY <2>1, <2>2
<1> HIDE DEF e
<1>10. ASSUME NEW k \in 1 .. Len(d)
       PROVE  Size(e[k]) = Size(d[k])
  <2>1. d[k] \in Span
    BY <1>1
  <2> QED
    BY <1>9, <2>1, MovedFacts
<1>11. Sizes(e) = Sizes(d)
  BY <1>1, <1>8, <1>10, SizesSame
<1>12. s \in Chunks
  <2>1. 1 \in 1 .. Len(d) /\ Len(d) \in 1 .. Len(d) /\ Len(d) \in 1 .. MaxSize
    BY <1>1, <1>5, SetAssumption
  <2>2. d[1] \in Span /\ d[Len(d)] \in Span
    BY <1>1, <2>1
  <2>3. (IF n = 0 THEN c.begin + distance ELSE c.begin) = e[1][1]
    <3>1. CASE n = 0
      <4>1. e[1] = Moved(d[1], distance)
        BY <1>9, <2>1, <3>1
      <4> QED
        BY <1>3, <2>2, <3>1, <4>1, MovedFacts
    <3>2. CASE n # 0
      <4>1. e[1] = d[1]
        BY <1>9, <2>1, <3>2
      <4> QED
        BY <1>3, <3>2, <4>1
    <3> QED
      BY <3>1, <3>2
  <2>4. c.end + distance = e[Len(e)][2]
    <3>1. e[Len(e)] = Moved(d[Len(d)], distance)
      BY <1>1, <1>5, <1>8, <1>9, <2>1
    <3> QED
      BY <1>3, <2>2, <3>1, MovedFacts
  <2>5. c.count = Sizes(e)
    BY <1>3, <1>11
  <2> QED
    BY <1>2, <1>8, <2>1, <2>3, <2>4, <2>5, IsChunk
<1>13. s.data = e
  BY <1>2
<1> QED
  BY <1>8, <1>9, <1>12, <1>13 DEF d, s

LEMMA ShiftedToEnd ==
  ASSUME NEW m \in Vectors, NEW it \in Iterators(m) \cup {End(m)}, NEW distance \in Int
  PROVE  LET n == ShiftToEnd(m, it, distance)
         IN /\ n \in Vectors /\ SameShape(m, n)
            /\ \A p \in Iterators(m) :
                 At(n, p) = IF Before(p, it) THEN At(m, p) ELSE Moved(At(m, p), distance)
<1> DEFINE o == it[1]
           a == SubSeq(m, 1, o - 1)
           L == Len(m) + 1 - o
           first(k) == IF k = 1 THEN it[2] - 1 ELSE 0
           b == [k \in 1 .. L |-> ShiftRanges(m[o + k - 1], first(k), distance)]
           n == ShiftToEnd(m, it, distance)
<1>1. /\ Len(m) \in Nat /\ o \in 1 .. Len(m) + 1 /\ o \in Nat /\ it[2] \in Nat
      /\ (o <= Len(m) => it[2] \in 1 .. Len(m[o].data)) /\ (o = Len(m) + 1 => it[2] = 0)
  <2>1. Len(m) \in Nat
    BY VectorLen
  <2>2. CASE it \in Iterators(m)
    <3>1. o \in 1 .. Len(m) /\ it[2] \in 1 .. Len(m[o].data) /\ o \in Nat /\ it[2] \in Nat
      BY <2>2, IteratorFacts
    <3> QED
      BY <2>1, <3>1
  <2>3. CASE it = End(m)
    BY <2>1, <2>3 DEF End
  <2> QED
    BY <2>2, <2>3
<1>2. n = a \o b
  BY DEF ShiftToEnd
<1>3. /\ m \in Seq(Chunks) /\ \A j \in 1 .. Len(m) : m[j] \in Chunks
  BY DEF Vectors
<1>4. a \in Seq(Chunks) /\ Len(a) = o - 1 /\ \A k \in 1 .. o - 1 : a[k] = m[k]
  <2>1. o - 1 \in 1 - 1 .. Len(m) /\ 1 \in 1 .. Len(m) + 1
    BY <1>1
  <2>2. /\ a \in Seq(Chunks) /\ Len(a) = o - 1 + 1 - 1
        /\ \A k \in 1 .. o - 1 + 1 - 1 : a[k] = m[1 + k - 1]
    BY <1>3, <2>1, PartOf
  <2> HIDE DEF a, o
  <2> QED
    BY <1>1, <2>2
<1> HIDE DEF o
<1>5. ASSUME NEW k \in 1 .. L
      PROVE  /\ b[k] \in Chunks /\ Len(b[k].data) = Len(m[o + k - 1].data)
             /\ \A j \in 1 .. Len(m[o + k - 1].data) :
                  b[k].data[j] = IF j <= first(k) THEN m[o + k - 1].data[j]
                                 ELSE Moved(m[o + k - 1].data[j], distance)
  <2> DEFINE c == m[o + k - 1]
  <2>1. o + k - 1 \in 1 .. Len(m)
    BY <1>1
  <2>2. c \in Chunks /\ Len(c.data) \in Nat /\ Len(c.data) >= 1
    BY <2>1, ChunkOfVector, SetAssumption
  <2>3. first(k) \in Nat /\ first(k) < Len(c.data)
    <3>1. CASE k = 1
      <4>1. c = m[o] /\ o <= Len(m)
        BY <1>1, <2>1, <3>1
      <4>2. it[2] \in 1 .. Len(c.data)
        BY <1>1, <4>1
      <4> QED
        BY <2>2, <3>1, <4>2
    <3>2. CASE k # 1
      BY <2>2, <3>2
    <3> QED
      BY <3>1, <3>2
  <2>4. b[k] = ShiftRanges(c, first(k), distance)
    OBVIOUS
  <2> HIDE DEF c, first, b
  <2> QED
    BY <2>2, <2>3, <2>4, ShiftedRanges DEF c
<1>6. b \in Seq(Chunks) /\ Len(b) = L
  <2>1. L \in Nat
    BY <1>1
  <2>2. b = [k \in 1 .. L |-> b[k]]
    OBVIOUS
  <2> HIDE DEF b, L
  <2> QED
    BY <1>5, <2>1, <2>2
<1> HIDE DEF a, b
<1>7. n \in Vectors /\ Len(n) = Len(m)
  BY <1>1, <1>2, <1>4, <1>6 DEF Vectors
<1>8. ASSUME NEW j \in 1 .. Len(m)
      PROVE  IF j < o THEN n[j] = m[j] ELSE j + 1 - o \in 1 .. L /\ n[j] = b[j + 1 - o]
  <2>1. CASE j < o
    <3>1. n[j] = a[j]
      BY <1>1, <1>2, <1>4, <1>6, <2>1
    <3> QED
      BY <1>1, <1>4, <2>1, <3>1
  <2>2. CASE ~(j < o)
    <3>1. j + 1 - o \in 1 .. L /\ j - (o - 1) = j + 1 - o
      BY <1>1, <2>2
    <3>2. n[j] = b[j - (o - 1)]
      BY <1>1, <1>2, <1>4, <1>6, <2>2
    <3> QED
      BY <2>2, <3>1, <3>2
  <2> QED
    BY <2>1, <2>2
<1> HIDE DEF n
<1>9. ASSUME NEW j \in 1 .. Len(m)
      PROVE  /\ Len(n[j].data) = Len(m[j].data)
             /\ \A k \in 1 .. Len(m[j].data) :
                  n[j].data[k] = IF j < o \/ (j = o /\ k < it[2]) THEN m[j].data[k]
                                 ELSE Moved(m[j].data[k], distance)
  <2>1. CASE j < o
    BY <1>8, <2>1
  <2>2. CASE ~(j < o)
    <3> DEFINE k == j + 1 - o
    <3>1. n[j] = b[k] /\ k \in 1 .. L /\ o + k - 1 = j /\ (k = 1 <=> j = o)
      <4>1. n[j] = b[k] /\ k \in 1 .. L
        BY <1>8, <2>2, Zenon
      <4> QED
        BY <1>1, <2>2, <4>1
    <3>2. /\ Len(n[j].data) = Len(m[j].data)
          /\ \A i \in 1 .. Len(m[j].data) :
               n[j].data[i] = IF i <= first(k) THEN m[j].data[i]
                              ELSE Moved(m[j].data[i], distance)
      <4> HIDE DEF k, first, L
      <4> QED
        BY <1>5, <3>1
    <3>3. ASSUME NEW i \in 1 .. Len(m[j].data)
          PROVE  i <= first(k) <=> j = o /\ i < it[2]
      <4>1. i \in Nat /\ i >= 1
        BY ChunkOfVector
      <4> HIDE DEF k
      <4> QED
        BY <1>1, <3>1, <4>1
    <3> HIDE DEF first, k
    <3> QED
      BY <2>2, <3>2, <3>3
  <2> QED
    BY <2>1, <2>2
<1>10. SameShape(m, n)
  BY <1>7, <1>9 DEF SameShape
<1>11. ASSUME NEW p \in Iterators(m)
       PROVE  At(n, p) = IF Before(p, it) THEN At(m, p) ELSE Moved(At(m, p), distance)
  <2>1. p[1] \in 1 .. Len(m) /\ p[2] \in 1 .. Len(m[p[1]].data)
    BY IteratorFacts
  <2>2. Before(p, it) <=> p[1] < o \/ (p[1] = o /\ p[2] < it[2])
    BY DEF Before, o
  <2> QED
    BY <1>9, <2>1, <2>2 DEF At
<1> QED
  BY <1>7, <1>10, <1>11 DEF n

-----------------------------------------------------------------------------
(* erase, push_back and insert: the iterators after it and the ones before *)

LEMMA TakenOut ==
  ASSUME NEW V, NEW s \in Seq(V), NEW i \in 1 .. Len(s)
  PROVE  /\ RemoveAt(s, i) \in Seq(V) /\ Len(RemoveAt(s, i)) = Len(s) - 1
         /\ \A k \in 1 .. Len(s) - 1 : RemoveAt(s, i)[k] = IF k < i THEN s[k] ELSE s[k + 1]
<1> DEFINE t == RemoveAt(s, i)
           a == SubSeq(s, 1, i - 1)
           b == SubSeq(s, i + 1, Len(s))
<1>0. Len(s) \in Nat /\ i \in Nat /\ i - 1 \in 0 .. Len(s) /\ i - 1 + 1 = i
  OBVIOUS
<1>1. /\ a \in Seq(V) /\ Len(a) = i - 1 /\ b \in Seq(V) /\ Len(b) = Len(s) - i
      /\ (\A k \in 1 .. i - 1 : a[k] = s[k])
      /\ \A k \in 1 .. Len(s) - i : b[k] = s[i + k]
  <2>1. /\ a \in Seq(V) /\ Len(a) = (i - 1) + 1 - 1
        /\ \A k \in 1 .. (i - 1) + 1 - 1 : a[k] = s[1 + k - 1]
    BY <1>0, PartOf
  <2>2. /\ b \in Seq(V) /\ Len(b) = Len(s) + 1 - (i + 1)
        /\ \A k \in 1 .. Len(s) + 1 - (i + 1) : b[k] = s[i + 1 + k - 1]
    BY <1>0, PartOf
  <2> HIDE DEF a, b
  <2> QED
    BY <1>0, <2>1, <2>2
<1>2. t = a \o b
  BY DEF RemoveAt
<1> HIDE DEF a, b, t
<1>3. t \in Seq(V) /\ Len(t) = Len(s) - 1
  <2>1. a \in Seq(V) /\ b \in Seq(V)
    BY <1>1
  <2>2. a \o b \in Seq(V) /\ Len(a \o b) = Len(a) + Len(b)
    BY <2>1
  <2>3. Len(a) = i - 1 /\ Len(b) = Len(s) - i
    BY <1>1
  <2> QED
    BY <1>0, <1>2, <2>2, <2>3
<1>4. ASSUME NEW k \in 1 .. Len(s) - 1
      PROVE  t[k] = IF k < i THEN s[k] ELSE s[k + 1]
  <2>1. CASE k < i
    BY <1>0, <1>1, <1>2, <2>1
  <2>2. CASE k >= i
    <3>1. t[k] = b[k - (i - 1)] /\ k - (i - 1) \in 1 .. Len(s) - i /\ i + (k - (i - 1)) = k + 1
      BY <1>0, <1>1, <1>2, <2>2
    <3> QED
      BY <1>0, <1>1, <2>2, <3>1
  <2> QED
    BY <1>0, <2>1, <2>2
<1> QED
  BY <1>3, <1>4 DEF t

\* w is s with r before what was at i.
PutAt(w, V, s, i, r) ==
  /\ w \in Seq(V) /\ Len(w) = Len(s) + 1
  /\ \A k \in 1 .. Len(s) + 1 : w[k] = IF k < i THEN s[k] ELSE IF k = i THEN r ELSE s[k - 1]

LEMMA PutIn ==
  ASSUME NEW V, NEW s \in Seq(V), NEW i \in 1 .. Len(s) + 1, NEW r \in V
  PROVE  PutAt(InsertAt(s, i, r), V, s, i, r)
<1> DEFINE a == SubSeq(s, 1, i - 1)
           b == SubSeq(s, i, Len(s))
<1>0. Len(s) \in Nat /\ i \in Nat /\ i - 1 \in 0 .. Len(s) /\ i - 1 + 1 = i
  OBVIOUS
<1>1. /\ a \in Seq(V) /\ Len(a) = i - 1 /\ b \in Seq(V) /\ Len(b) = Len(s) + 1 - i
      /\ (\A k \in 1 .. i - 1 : a[k] = s[k])
      /\ \A k \in 1 .. Len(s) + 1 - i : b[k] = s[i + k - 1]
  <2>1. /\ a \in Seq(V) /\ Len(a) = (i - 1) + 1 - 1
        /\ \A k \in 1 .. (i - 1) + 1 - 1 : a[k] = s[1 + k - 1]
    BY <1>0, PartOf
  <2>2. /\ b \in Seq(V) /\ Len(b) = Len(s) + 1 - i
        /\ \A k \in 1 .. Len(s) + 1 - i : b[k] = s[i + k - 1]
    BY <1>0, PartOf
  <2> HIDE DEF a, b
  <2> QED
    BY <1>0, <2>1, <2>2
<1>2. InsertAt(s, i, r) = (a \o <<r>>) \o b
  BY DEF InsertAt
<1> HIDE DEF a, b
<1> DEFINE u == a \o <<r>>
<1>4. /\ u \in Seq(V) /\ Len(u) = i /\ u[i] = r /\ \A k \in 1 .. i - 1 : u[k] = s[k]
  <2>1. <<r>> \in Seq(V) /\ Len(<<r>>) = 1 /\ <<r>>[1] = r
    OBVIOUS
  <2>2. u \in Seq(V) /\ Len(u) = i /\ u[i] = r
    BY <1>0, <1>1, <2>1
  <2>3. \A k \in 1 .. i - 1 : u[k] = a[k]
    BY <1>0, <1>1, <2>1
  <2> QED
    BY <1>1, <2>2, <2>3
<1> HIDE DEF u
<1>7. u \o b \in Seq(V) /\ Len(u \o b) = Len(s) + 1
  <2>1. u \in Seq(V) /\ b \in Seq(V)
    BY <1>1, <1>4
  <2>2. u \o b \in Seq(V) /\ Len(u \o b) = Len(u) + Len(b)
    BY <2>1, ConcatProperties
  <2>3. Len(u) = i /\ Len(b) = Len(s) + 1 - i /\ i \in Nat /\ Len(s) \in Nat
    BY <1>0, <1>1, <1>4
  <2> QED
    BY <2>2, <2>3
<1>8. ASSUME NEW k \in 1 .. Len(s) + 1
      PROVE  (u \o b)[k] = IF k < i THEN s[k] ELSE IF k = i THEN r ELSE s[k - 1]
  <2>1. CASE k <= i
    BY <1>0, <1>1, <1>4, <2>1
  <2>2. CASE k > i
    <3>1. (u \o b)[k] = b[k - i] /\ k - i \in 1 .. Len(s) + 1 - i /\ i + (k - i) - 1 = k - 1
      BY <1>0, <1>1, <1>4, <2>2
    <3> QED
      BY <1>0, <1>1, <2>2, <3>1
  <2>3. k <= i \/ k > i
    BY <1>0
  <2> QED
    BY <2>1, <2>2, <2>3, Zenon
<1> QED
  BY <1>2, <1>7, <1>8 DEF u, PutAt

\* Each iterator of n stands where the iterator g gives it stood in m.
Follows(n, m, g) ==
  /\ \A p \in DOMAIN g : g[p] \in Iterators(m) /\ At(n, p) = At(m, g[p])
  /\ \A p, q \in DOMAIN g : Before(p, q) => Before(g[p], g[q])

LEMMA ErasedChunk ==
  ASSUME NEW m \in Vectors, NEW it \in Iterators(m), Len(m[it[1]].data) = 1
  PROVE  LET n == RemoveAt(m, it[1])
             e == IF it[1] > Len(n) THEN End(n) ELSE <<it[1], 1>>
         IN /\ n \in Vectors /\ e \in Iterators(n) \cup {End(n)}
            /\ it # Begin(m) => e # Begin(n)
            /\ \E g \in [Iterators(n) -> Iterators(m) \ {it}] :
                 Follows(n, m, g) /\ \A p \in Iterators(n) : Before(p, e) <=> Before(g[p], it)
<1> DEFINE o == it[1]
           n == RemoveAt(m, o)
           e == IF o > Len(n) THEN End(n) ELSE <<o, 1>>
           g == [p \in Iterators(n) |-> IF p[1] < o THEN p ELSE <<p[1] + 1, p[2]>>]
<1>1. Len(m) \in Nat /\ o \in 1 .. Len(m) /\ it = <<o, 1>> /\ o \in Nat
  <2>1. /\ Len(m) \in Nat /\ o \in 1 .. Len(m) /\ it = <<o, it[2]>> /\ o \in Nat
        /\ it[2] \in 1 .. Len(m[o].data)
    BY VectorLen, IteratorFacts
  <2>2. it[2] = 1
    BY <2>1
  <2> QED
    BY <2>1, <2>2
<1>2. /\ n \in Vectors /\ Len(n) = Len(m) - 1
      /\ \A k \in 1 .. Len(m) - 1 : n[k] = IF k < o THEN m[k] ELSE m[k + 1]
  BY <1>1, TakenOut DEF Vectors
<1> HIDE DEF n, o
<1>3. e \in Iterators(n) \cup {End(n)}
  <2>1. CASE o > Len(n)
    BY <2>1
  <2>2. CASE ~(o > Len(n))
    <3>1. o \in 1 .. Len(n)
      BY <1>1, <1>2, <2>2
    <3>2. 1 \in 1 .. Len(n[o].data)
      BY <1>2, <3>1, ChunkOfVector
    <3> QED
      BY <1>2, <2>2, <3>1, <3>2, IteratorAt
  <2> QED
    BY <2>1, <2>2
<1>4. ASSUME NEW p \in Iterators(n)
      PROVE  /\ p = <<p[1], p[2]>> /\ p[1] \in 1 .. Len(m) - 1 /\ p[2] \in 1 .. Len(n[p[1]].data)
             /\ p[1] \in Nat /\ p[2] \in Nat
             /\ g[p] = IF p[1] < o THEN p ELSE <<p[1] + 1, p[2]>>
             /\ n[p[1]] = IF p[1] < o THEN m[p[1]] ELSE m[p[1] + 1]
  <2>1. /\ p = <<p[1], p[2]>> /\ p[1] \in 1 .. Len(m) - 1 /\ p[2] \in 1 .. Len(n[p[1]].data)
        /\ p[1] \in Nat /\ p[2] \in Nat
    BY <1>2, IteratorFacts
  <2>2. n[p[1]] = IF p[1] < o THEN m[p[1]] ELSE m[p[1] + 1]
    BY <1>2, <2>1
  <2> HIDE DEF e
  <2> QED
    BY <2>1, <2>2
<1>5. DOMAIN g = Iterators(n) /\ g = [p \in Iterators(n) |-> g[p]]
  OBVIOUS
<1> HIDE DEF g
<1>6. ASSUME NEW p \in Iterators(n)
      PROVE  /\ g[p] \in Iterators(m) \ {it} /\ At(n, p) = At(m, g[p])
             /\ g[p][1] = (IF p[1] < o THEN p[1] ELSE p[1] + 1) /\ g[p][2] = p[2]
             /\ Before(p, e) <=> Before(g[p], it)
  <2> DEFINE i == p[1]
             k == p[2]
  <2>0. /\ p = <<i, k>> /\ i \in 1 .. Len(m) - 1 /\ k \in 1 .. Len(n[i].data)
        /\ i \in Nat /\ k \in Nat /\ k >= 1
        /\ g[p] = (IF i < o THEN p ELSE <<i + 1, k>>)
        /\ n[i] = (IF i < o THEN m[i] ELSE m[i + 1])
    <3>1. /\ p = <<i, k>> /\ i \in 1 .. Len(m) - 1 /\ k \in 1 .. Len(n[i].data)
          /\ i \in Nat /\ k \in Nat
          /\ g[p] = (IF i < o THEN p ELSE <<i + 1, k>>)
          /\ n[i] = (IF i < o THEN m[i] ELSE m[i + 1])
      BY <1>4
    <3> QED
      BY <3>1
  <2>a. Before(p, e) <=> i < e[1] \/ (i = e[1] /\ k < e[2])
    BY DEF Before
  <2>b. it[1] = o /\ it[2] = 1
    BY <1>1
  <2>c. e[1] = (IF o > Len(n) THEN Len(n) + 1 ELSE o) /\ e[2] = (IF o > Len(n) THEN 0 ELSE 1)
    BY DEF End
  <2> HIDE DEF i, k, e
  <2>1. CASE i < o
    <3>1. g[p] = <<i, k>> /\ n[i] = m[i] /\ i \in 1 .. Len(m)
      BY <1>1, <2>0, <2>1
    <3>2. g[p] \in Iterators(m) /\ At(m, g[p]) = At(n, p)
      <4>1. k \in 1 .. Len(m[i].data)
        BY <2>0, <3>1
      <4>2. At(n, p) = n[i].data[k]
        BY DEF At, i, k
      <4> QED
        BY <3>1, <4>1, <4>2, IteratorAt
    <3>3. g[p][1] = i /\ g[p][2] = k /\ i < o
      BY <2>1, <3>1
    <3>4. i < e[1]
      BY <1>1, <1>2, <2>0, <2>1, <2>c
    <3>5. Before(g[p], it) /\ g[p] # it
      BY <1>1, <2>b, <2>0, <3>3 DEF Before
    <3> QED
      BY <2>1, <2>a, <3>2, <3>3, <3>4, <3>5 DEF i, k
  <2>2. CASE ~(i < o)
    <3>1. g[p] = <<i + 1, k>> /\ n[i] = m[i + 1] /\ i + 1 \in 1 .. Len(m) /\ o <= Len(n)
      BY <1>1, <1>2, <2>0, <2>2
    <3>2. g[p] \in Iterators(m) /\ At(m, g[p]) = At(n, p)
      <4>1. k \in 1 .. Len(m[i + 1].data)
        BY <2>0, <3>1
      <4>2. At(n, p) = n[i].data[k]
        BY DEF At, i, k
      <4> QED
        BY <3>1, <4>1, <4>2, IteratorAt
    <3>3. g[p][1] = i + 1 /\ g[p][2] = k /\ i + 1 > o
      BY <1>1, <2>0, <2>2, <3>1
    <3>4. g[p] # it /\ ~Before(g[p], it)
      BY <1>1, <2>b, <2>0, <3>3 DEF Before
    <3>5. ~(i < e[1] \/ (i = e[1] /\ k < e[2]))
      <4>1. e[1] = o /\ e[2] = 1
        BY <1>1, <1>2, <2>c, <3>1
      <4> QED
        BY <1>1, <2>0, <2>2, <4>1
    <3> QED
      BY <2>2, <2>a, <3>2, <3>3, <3>4, <3>5 DEF i, k
  <2> QED
    BY <2>1, <2>2
<1>7. ASSUME NEW p \in Iterators(n), NEW q \in Iterators(n), Before(p, q)
      PROVE  Before(g[p], g[q])
  <2>1. p[1] \in Nat /\ q[1] \in Nat /\ p[2] \in Nat /\ q[2] \in Nat
    BY <1>4
  <2>2. /\ g[p][1] = (IF p[1] < o THEN p[1] ELSE p[1] + 1) /\ g[p][2] = p[2]
        /\ g[q][1] = (IF q[1] < o THEN q[1] ELSE q[1] + 1) /\ g[q][2] = q[2]
    BY <1>6
  <2> QED
    BY <1>1, <1>7, <2>1, <2>2 DEF Before
<1>8. g \in [Iterators(n) -> Iterators(m) \ {it}]
  BY <1>5, <1>6
<1>9. Follows(n, m, g)
  BY <1>5, <1>6, <1>7 DEF Follows
<1>10. ASSUME it # Begin(m)
       PROVE  e # Begin(n)
  <2>1. Begin(m) = <<1, 1>>
    BY BeginFacts
  <2>2. o > 1
    BY <1>1, <1>10, <2>1
  <2>3. Len(n) >= 1 /\ Len(n) \in Nat
    BY <1>1, <1>2, <2>2
  <2>4. Begin(n)[1] = 1
    <3>1. n # <<>>
      BY <1>2, <2>3, VectorLen
    <3> QED
      BY <3>1 DEF Begin
  <2>5. e[1] > 1
    BY <1>1, <2>2, <2>3 DEF End
  <2> QED
    BY <2>4, <2>5
<1> QED
  BY <1>2, <1>3, <1>6, <1>8, <1>9, <1>10 DEF n, o

LEMMA ErasedRange ==
  ASSUME NEW m \in Vectors, NEW it \in Iterators(m), Len(m[it[1]].data) > 1
  PROVE  LET data == RemoveAt(m[it[1]].data, it[2])
             n == [m EXCEPT ![it[1]] =
                    [data |-> data, begin |-> Head(data)[1], end |-> Last(data)[2],
                     count |-> @.count - Size(At(m, it))]]
             e == IF it[2] <= Len(data) THEN it ELSE next_chunk(n, it)
         IN /\ n \in Vectors /\ e \in Iterators(n) \cup {End(n)}
            /\ it # Begin(m) => e # Begin(n)
            /\ \E g \in [Iterators(n) -> Iterators(m) \ {it}] :
                 Follows(n, m, g) /\ \A p \in Iterators(n) : Before(p, e) <=> Before(g[p], it)
<1> DEFINE o == it[1]
           j == it[2]
           c == m[o]
           d == c.data
           data == RemoveAt(d, j)
           ch == [data |-> data, begin |-> Head(data)[1], end |-> Last(data)[2],
                  count |-> c.count - Size(At(m, it))]
           n == [m EXCEPT ![o] = ch]
           e == IF j <= Len(data) THEN it ELSE next_chunk(n, it)
           g == [p \in Iterators(n) |-> IF p[1] = o /\ p[2] >= j THEN <<o, p[2] + 1>> ELSE p]
<1>1. /\ Len(m) \in Nat /\ o \in 1 .. Len(m) /\ it = <<o, j>> /\ o \in Nat /\ j \in Nat
      /\ j \in 1 .. Len(d) /\ At(m, it) = d[j]
  BY VectorLen, IteratorFacts DEF At
<1>2. /\ c \in Chunks /\ d \in Seq(Span) /\ Len(d) \in Nat /\ Len(d) > 1 /\ Len(d) <= MaxSize
      /\ c.count = Sizes(d)
  <2>1. c \in Chunks /\ d \in Seq(Span) /\ Len(d) \in 1 .. MaxSize
    BY <1>1, ChunkOfVector
  <2>2. c.count = Sizes(d)
    BY <2>1 DEF Chunks, Right
  <2> QED
    BY <2>1, <2>2, SetAssumption
<1> HIDE DEF d, c, o, j
<1>3. /\ data \in Seq(Span) /\ Len(data) = Len(d) - 1
      /\ (\A k \in 1 .. Len(d) - 1 : data[k] = IF k < j THEN d[k] ELSE d[k + 1])
      /\ Sizes(data) = Sizes(d) - Size(d[j])
  BY <1>1, <1>2, Removed
<1> HIDE DEF data
<1>4. ch \in Chunks /\ ch.data = data
  <2>1. Len(data) \in 1 .. MaxSize
    BY <1>2, <1>3, SetAssumption
  <2>2. Head(data) = data[1] /\ Last(data) = data[Len(data)]
    BY <1>2, <1>3 DEF Last
  <2>3. c.count - Size(At(m, it)) = Sizes(data)
    BY <1>1, <1>2, <1>3
  <2> QED
    BY <1>3, <2>1, <2>2, <2>3, IsChunk
<1> HIDE DEF ch
<1>5. /\ n \in Vectors /\ Len(n) = Len(m)
      /\ \A k \in 1 .. Len(m) : n[k] = IF k = o THEN ch ELSE m[k]
  BY <1>1, <1>4, ChunkSet
<1>6. DOMAIN g = Iterators(n) /\ g = [p \in Iterators(n) |-> g[p]]
  OBVIOUS
<1>7. ASSUME NEW p \in Iterators(n)
      PROVE  g[p] = IF p[1] = o /\ p[2] >= j THEN <<o, p[2] + 1>> ELSE p
  OBVIOUS
<1>8. n[o].data = data /\ o \in 1 .. Len(n)
  BY <1>1, <1>4, <1>5
<1>9. e[1] = (IF j <= Len(data) \/ o = Len(n) THEN (IF j <= Len(data) THEN o ELSE Len(n) + 1)
              ELSE o + 1)
      /\ e[2] = (IF j <= Len(data) THEN j ELSE IF o = Len(n) THEN 0 ELSE 1)
  <2>1. it[1] = o /\ it[2] = j
    BY DEF o, j
  <2> QED
    BY <1>1, <1>2, <1>3, <1>5, <2>1 DEF next_chunk, End
<1>10. e \in Iterators(n) \cup {End(n)}
  <2>1. CASE j <= Len(data)
    <3>1. j \in 1 .. Len(n[o].data)
      BY <1>1, <1>2, <1>3, <1>8, <2>1
    <3> QED
      BY <1>1, <1>5, <1>8, <2>1, <3>1, IteratorAt
  <2>2. CASE ~(j <= Len(data)) /\ o = Len(n)
    <3>1. it[1] = o
      BY DEF o
    <3> QED
      BY <2>2, <3>1 DEF next_chunk
  <2>3. CASE ~(j <= Len(data)) /\ o # Len(n)
    <3>1. it[1] = o
      BY DEF o
    <3>2. e = <<o + 1, 1>> /\ o + 1 \in 1 .. Len(n)
      BY <1>1, <1>5, <2>3, <3>1 DEF next_chunk
    <3>3. 1 \in 1 .. Len(n[o + 1].data)
      BY <1>5, <3>2, ChunkOfVector
    <3> HIDE DEF e, n
    <3> QED
      BY <1>5, <3>2, <3>3, IteratorAt
  <2> QED
    BY <2>1, <2>2, <2>3, Zenon
<1> HIDE DEF g, n, e
<1>11. ASSUME NEW p \in Iterators(n)
       PROVE  /\ g[p] \in Iterators(m) \ {it} /\ At(n, p) = At(m, g[p])
              /\ g[p][1] = p[1]
              /\ g[p][2] = (IF p[1] = o /\ p[2] >= j THEN p[2] + 1 ELSE p[2])
              /\ Before(p, e) <=> Before(g[p], it)
  <2> DEFINE i == p[1]
             k == p[2]
  <2>0. /\ p = <<i, k>> /\ i \in 1 .. Len(m) /\ k \in 1 .. Len(n[i].data)
        /\ i \in Nat /\ k \in Nat /\ k >= 1
        /\ g[p] = (IF i = o /\ k >= j THEN <<o, k + 1>> ELSE p)
        /\ n[i] = (IF i = o THEN ch ELSE m[i])
    <3>1. /\ p = <<i, k>> /\ i \in 1 .. Len(m) /\ k \in 1 .. Len(n[i].data)
          /\ i \in Nat /\ k \in Nat
      BY <1>5, IteratorFacts
    <3>2. n[i] = (IF i = o THEN ch ELSE m[i])
      BY <1>5, <3>1
    <3>3. g[p] = (IF i = o /\ k >= j THEN <<o, k + 1>> ELSE p)
      BY <1>7
    <3> QED
      BY <3>1, <3>2, <3>3
  <2>1. Before(p, e) <=> i < e[1] \/ (i = e[1] /\ k < e[2])
    BY DEF Before
  <2>2. it[1] = o /\ it[2] = j
    BY DEF o, j
  <2>3. At(n, p) = n[i].data[k]
    BY DEF At, i, k
  <2> HIDE DEF i, k
  <2>4. CASE i = o /\ k >= j
    <3>1. /\ g[p] = <<o, k + 1>> /\ k + 1 \in 1 .. Len(m[o].data) /\ k \in 1 .. Len(d) - 1
          /\ n[i].data = data /\ m[o].data = d
      BY <1>1, <1>2, <1>3, <1>4, <2>0, <2>4 DEF c, d
    <3>2. g[p] \in Iterators(m) /\ At(m, g[p]) = d[k + 1]
      BY <1>1, <3>1, IteratorAt
    <3>3. At(n, p) = d[k + 1]
      BY <1>1, <1>3, <2>0, <2>3, <2>4, <3>1
    <3>4. g[p][1] = i /\ g[p][2] = k + 1 /\ k + 1 > j
      BY <1>1, <2>0, <2>4, <3>1
    <3>5. g[p] # it /\ ~Before(g[p], it)
      BY <1>1, <2>0, <2>2, <2>4, <3>4 DEF Before
    <3>6. e[1] = o /\ e[2] = j
      BY <1>1, <1>2, <1>3, <1>9, <2>4, <3>1
    <3>7. ~(i < e[1] \/ (i = e[1] /\ k < e[2]))
      BY <1>1, <2>0, <2>4, <3>6
    <3> QED
      BY <2>1, <2>4, <3>2, <3>3, <3>4, <3>5, <3>7 DEF i, k
  <2>5. CASE ~(i = o /\ k >= j)
    <3>1. g[p] = <<i, k>>
      BY <2>0, <2>5
    <3>2. k \in 1 .. Len(m[i].data) /\ n[i].data[k] = m[i].data[k]
      <4>1. CASE i = o
        <5>1. n[i].data = data /\ m[i].data = d /\ k < j
          BY <1>1, <1>4, <2>0, <2>5, <4>1 DEF c, d
        <5>2. k \in 1 .. Len(d) - 1
          BY <1>3, <2>0, <5>1
        <5> QED
          BY <1>2, <1>3, <5>1, <5>2
      <4>2. CASE i # o
        BY <2>0, <4>2
      <4> QED
        BY <4>1, <4>2
    <3>3. g[p] \in Iterators(m) /\ At(m, g[p]) = At(n, p)
      BY <2>0, <2>3, <3>1, <3>2, IteratorAt
    <3>4. g[p][1] = i /\ g[p][2] = k
      BY <3>1
    <3>5. g[p] # it
      BY <1>1, <2>0, <2>2, <2>5, <3>4
    <3>6. (i < e[1] \/ (i = e[1] /\ k < e[2])) <=> i < o \/ (i = o /\ k < j)
      BY <1>1, <1>2, <1>3, <1>5, <1>9, <2>0, <2>5
    <3>7. Before(g[p], it) <=> i < o \/ (i = o /\ k < j)
      BY <2>2, <3>4 DEF Before
    <3> QED
      BY <2>1, <2>5, <3>3, <3>4, <3>5, <3>6, <3>7 DEF i, k
  <2> QED
    BY <2>4, <2>5
<1>12. ASSUME NEW p \in Iterators(n), NEW q \in Iterators(n), Before(p, q)
       PROVE  Before(g[p], g[q])
  <2>1. p[1] \in Nat /\ q[1] \in Nat /\ p[2] \in Nat /\ q[2] \in Nat
    BY <1>5, IteratorFacts
  <2>2. /\ g[p][1] = p[1]
        /\ g[p][2] = (IF p[1] = o /\ p[2] >= j THEN p[2] + 1 ELSE p[2])
        /\ g[q][1] = q[1]
        /\ g[q][2] = (IF q[1] = o /\ q[2] >= j THEN q[2] + 1 ELSE q[2])
    BY <1>11
  <2> QED
    BY <1>1, <1>12, <2>1, <2>2 DEF Before
<1>13. g \in [Iterators(n) -> Iterators(m) \ {it}]
  BY <1>6, <1>11
<1>14. Follows(n, m, g)
  BY <1>6, <1>11, <1>12 DEF Follows
<1>15. ASSUME it # Begin(m)
       PROVE  e # Begin(n)
  <2>1. Begin(m) = <<1, 1>>
    BY BeginFacts
  <2>2. o > 1 \/ j > 1
    BY <1>1, <1>15, <2>1
  <2>3. Len(n) >= 1 /\ Len(n) \in Nat
    BY <1>1, <1>5
  <2>4. Begin(n)[1] = 1 /\ Begin(n)[2] = 1
    <3>1. n # <<>>
      BY <1>5, <2>3, VectorLen
    <3> QED
      BY <3>1 DEF Begin
  <2>5. e[1] > 1 \/ e[2] # 1
    BY <1>1, <1>9, <2>2, <2>3
  <2> QED
    BY <2>4, <2>5
<1> QED
  BY <1>5, <1>10, <1>11, <1>13, <1>14, <1>15 DEF n, e, o, j, c, d, data, ch

LEMMA EraseFacts ==
  ASSUME NEW m \in Vectors, NEW it \in Iterators(m)
  PROVE  LET e == erase(m, it)
         IN /\ e[1] \in Vectors /\ e[2] \in Iterators(e[1]) \cup {End(e[1])}
            /\ it # Begin(m) => e[2] # Begin(e[1])
            /\ \E g \in [Iterators(e[1]) -> Iterators(m) \ {it}] :
                 /\ Follows(e[1], m, g)
                 /\ \A p \in Iterators(e[1]) : Before(p, e[2]) <=> Before(g[p], it)
<1> DEFINE d == m[it[1]].data
           data == RemoveAt(d, it[2])
<1>1. /\ it[1] \in 1 .. Len(m) /\ d \in Seq(Span) /\ Len(d) \in Nat /\ Len(d) >= 1
      /\ it[2] \in 1 .. Len(d)
  <2>1. it[1] \in 1 .. Len(m) /\ it[2] \in 1 .. Len(d)
    BY IteratorFacts
  <2>2. d \in Seq(Span) /\ Len(d) \in 1 .. MaxSize
    BY <2>1, ChunkOfVector
  <2> QED
    BY <2>1, <2>2, SetAssumption
<1>2. data \in Seq(Span) /\ Len(data) = Len(d) - 1
  <2> HIDE DEF d
  <2> QED
    BY <1>1, Removed
<1>3. CASE Len(d) = 1
  <2>1. data = <<>>
    <3> HIDE DEF data, d
    <3> QED
      BY <1>2, <1>3
  <2> QED
    BY <1>3, <2>1, ErasedChunk DEF erase
<1>4. CASE Len(d) > 1
  <2>1. data # <<>>
    <3> HIDE DEF data, d
    <3> QED
      BY <1>2, <1>4
  <2> QED
    BY <1>4, <2>1, ErasedRange DEF erase
<1>5. Len(d) = 1 \/ Len(d) > 1
  <2> DEFINE n == Len(d)
  <2>1. n \in Nat /\ n >= 1
    BY <1>1
  <2> HIDE DEF n
  <2>2. n = 1 \/ n > 1
    BY <2>1
  <2> QED
    BY <2>2 DEF n
<1> QED
  BY <1>3, <1>4, <1>5, Zenon

LEMMA PushedBack ==
  ASSUME NEW m \in Vectors, NEW r \in Span
  PROVE  LET n == push_back(m, r)
             e == Pred(n, End(n))
         IN /\ n \in Vectors /\ n # <<>> /\ e \in Positions /\ e \notin Iterators(m) /\ At(n, e) = r
            /\ Iterators(n) = Iterators(m) \cup {e}
            /\ \A p \in Iterators(m) : At(n, p) = At(m, p) /\ Before(p, e)
<1> DEFINE n == push_back(m, r)
           e == Pred(n, End(n))
           L == Len(m)
<1>1. L \in Nat /\ DOMAIN m = 1 .. L /\ (m = <<>> <=> L = 0) /\ Last(m) = m[L]
  BY VectorLen DEF Last
<1>2. \A p \in Iterators(m) :
        /\ p = <<p[1], p[2]>> /\ p[1] \in 1 .. L /\ p[2] \in 1 .. Len(m[p[1]].data)
        /\ p[1] \in Nat /\ p[2] \in Nat
  BY IteratorFacts
<1>3. CASE m # <<>> /\ Len(m[L].data) < MaxSize
  <2> DEFINE c == m[L]
             d == c.data
             data == Append(d, r)
             ch == [data |-> data, begin |-> c.begin, end |-> r[2],
                    count |-> c.count + Size(r)]
  <2>1. L \in 1 .. L
    BY <1>1, <1>3
  <2>2. /\ c \in Chunk /\ Right(c) /\ d \in Seq(Span) /\ Len(d) \in Nat /\ Len(d) >= 1
        /\ Len(d) < MaxSize /\ c.count = Sizes(d) /\ c.begin = d[1][1]
    <3>1. c \in Chunks /\ d \in Seq(Span) /\ Len(d) \in 1 .. MaxSize
      BY <2>1, ChunkOfVector
    <3>2. c \in Chunk /\ Right(c)
      BY <3>1 DEF Chunks
    <3> QED
      BY <1>3, <3>1, <3>2, SetAssumption DEF Right
  <2>3. n = [m EXCEPT ![L] = ch]
    <3>1. m # <<>> /\ Len(Last(m).data) < MaxSize
      BY <1>1, <1>3
    <3> QED
      BY <3>1, Zenon DEF push_back
  <2>5. ch = [data |-> data, begin |-> c.begin, end |-> r[2], count |-> c.count + Size(r)]
    OBVIOUS
  <2> HIDE DEF c, d
  <2>6. /\ data \in Seq(Span) /\ Len(data) = Len(d) + 1 /\ data[Len(d) + 1] = r
        /\ \A k \in 1 .. Len(d) : data[k] = d[k]
    BY <2>2
  <2>7. Sizes(data) = Sizes(d) + Size(r)
    <3>1. data = d \o <<r>>
      BY <2>2
    <3> QED
      BY <2>2, <3>1, SizesConcat, SizesOne
  <2> HIDE DEF data, ch
  <2>8. ch \in Chunks /\ ch.data = data
    <3>1. Len(data) \in 1 .. MaxSize /\ 1 \in 1 .. Len(d)
      BY <2>2, <2>6, SetAssumption
    <3>2. c.begin = data[1][1] /\ r[2] = data[Len(data)][2] /\ c.count + Size(r) = Sizes(data)
      BY <2>2, <2>6, <2>7, <3>1
    <3>3. ch \in Chunks
      BY <2>5, <2>6, <3>1, <3>2, IsChunk
    <3> QED
      BY <2>5, <3>3
  <2>9. n \in Vectors /\ Len(n) = L /\ \A k \in 1 .. L : n[k] = IF k = L THEN ch ELSE m[k]
    <3>1. /\ [m EXCEPT ![L] = ch] \in Vectors /\ Len([m EXCEPT ![L] = ch]) = L
          /\ \A k \in 1 .. L : [m EXCEPT ![L] = ch][k] = IF k = L THEN ch ELSE m[k]
      <4>0. Len(m) = L
        OBVIOUS
      <4>1. L \in 1 .. Len(m)
        BY <2>1
      <4> HIDE DEF L
      <4>2. /\ [m EXCEPT ![L] = ch] \in Vectors /\ Len([m EXCEPT ![L] = ch]) = Len(m)
            /\ \A k \in 1 .. Len(m) : [m EXCEPT ![L] = ch][k] = IF k = L THEN ch ELSE m[k]
        BY <2>8, <4>1, ChunkSet
      <4> QED
        BY <4>0, <4>2, Zenon
    <3> QED
      BY <2>3, <3>1, Zenon
  <2> HIDE DEF n
  <2>10. e = <<L, Len(d) + 1>>
    <3>1. n[L].data = data
      BY <2>1, <2>8, <2>9
    <3>2. End(n)[2] = 0 /\ End(n)[1] - 1 = L
      <4>1. End(n) = <<L + 1, 0>>
        BY <2>9 DEF End
      <4> HIDE DEF L
      <4> QED
        BY <1>1, <4>1
    <3> QED
      BY <2>6, <3>1, <3>2 DEF Pred
  <2> HIDE DEF e, L
  <2>11. e \in Iterators(n) /\ At(n, e) = r
    <3>1. L \in 1 .. Len(n) /\ n[L].data = data /\ Len(d) + 1 \in 1 .. Len(data)
      BY <2>1, <2>2, <2>6, <2>8, <2>9
    <3> QED
      BY <2>6, <2>9, <2>10, <3>1, IteratorAt
  <2>12. ASSUME NEW p \in Iterators(m)
         PROVE  p \in Iterators(n) /\ At(n, p) = At(m, p) /\ Before(p, e) /\ p # e
    <3> DEFINE i == p[1]
               k == p[2]
    <3>1. /\ p = <<i, k>> /\ i \in 1 .. L /\ k \in 1 .. Len(m[i].data) /\ i \in Nat /\ k \in Nat
          /\ At(m, p) = m[i].data[k]
      BY <1>2 DEF At
    <3>2. Before(p, e) <=> i < L \/ (i = L /\ k < Len(d) + 1)
      BY <2>10 DEF Before
    <3> HIDE DEF i, k
    <3>3. k \in 1 .. Len(n[i].data) /\ n[i].data[k] = m[i].data[k] /\ (i = L => k <= Len(d))
      <4>1. CASE i = L
        <5>1. n[i].data = data /\ m[i].data = d
          BY <2>1, <2>8, <2>9, <4>1 DEF c, d
        <5> QED
          BY <2>2, <2>6, <3>1, <5>1
      <4>2. CASE i # L
        BY <2>9, <3>1, <4>2
      <4> QED
        BY <4>1, <4>2
    <3>4. p \in Iterators(n) /\ At(n, p) = At(m, p)
      BY <2>9, <3>1, <3>3, IteratorAt
    <3>5. i < L \/ (i = L /\ k < Len(d) + 1)
      BY <1>1, <2>2, <3>1, <3>3
    <3>6. Before(p, e)
      BY <3>2, <3>5
    <3>7. p # e
      BY <1>1, <2>2, <2>10, <3>1, <3>3
    <3> QED
      BY <3>4, <3>6, <3>7
  <2>13. ASSUME NEW p \in Iterators(n), p # e
         PROVE  p \in Iterators(m)
    <3> DEFINE i == p[1]
               k == p[2]
    <3>1. /\ p = <<i, k>> /\ i \in 1 .. L /\ k \in 1 .. Len(n[i].data) /\ i \in Nat /\ k \in Nat
      BY <2>9, IteratorFacts
    <3> HIDE DEF i, k
    <3>2. k \in 1 .. Len(m[i].data)
      <4>1. CASE i = L
        <5>1. n[i].data = data /\ m[i].data = d
          BY <2>1, <2>8, <2>9, <4>1 DEF c, d
        <5>2. k # Len(d) + 1
          BY <2>10, <2>13, <3>1, <4>1
        <5> QED
          BY <2>2, <2>6, <3>1, <5>1, <5>2
      <4>2. CASE i # L
        BY <2>9, <3>1, <4>2
      <4> QED
        BY <4>1, <4>2
    <3>3. i \in 1 .. Len(m)
      BY <3>1 DEF L
    <3> QED
      BY <3>1, <3>2, <3>3, IteratorAt
  <2>14. e \in Positions /\ n # <<>>
    BY <2>9, <2>11, IteratorFacts, BeginFacts
  <2> QED
    BY <2>9, <2>11, <2>12, <2>13, <2>14 DEF n, e
<1>4. CASE ~(m # <<>> /\ Len(m[L].data) < MaxSize)
  <2> DEFINE ch == ChunkOf(<<r>>)
  <2>1. n = Append(m, ch)
    BY <1>1, <1>4 DEF push_back
  <2>2. ch \in Chunks /\ ch.data = <<r>> /\ Len(ch.data) = 1 /\ ch.data[1] = r
    <3>1. <<r>> \in Seq(Span) /\ Len(<<r>>) = 1 /\ <<r>>[1] = r /\ 1 \in 1 .. MaxSize
      BY SetAssumption
    <3>2. Head(<<r>>) = r /\ Last(<<r>>) = r
      BY DEF Last
    <3>3. ch = [data |-> <<r>>, begin |-> Head(<<r>>)[1], end |-> Last(<<r>>)[2],
                count |-> Sizes(<<r>>)]
      BY DEF ChunkOf
    <3>4. ch \in Chunks
      BY <3>1, <3>2, <3>3, IsChunk
    <3> QED
      BY <3>1, <3>3, <3>4
  <2> HIDE DEF ch
  <2>3. /\ n \in Vectors /\ Len(n) = L + 1 /\ n[L + 1] = ch
        /\ \A k \in 1 .. L : n[k] = m[k]
    BY <1>1, <2>1, <2>2 DEF Vectors
  <2> HIDE DEF n, L
  <2>4. e = <<L + 1, 1>>
    <3>1. End(n)[2] = 0 /\ End(n)[1] - 1 = L + 1
      BY <1>1, <2>3 DEF End
    <3>2. Len(n[L + 1].data) = 1
      BY <2>2, <2>3, Zenon
    <3> QED
      BY <3>1, <3>2 DEF Pred
  <2> HIDE DEF e
  <2>5. e \in Iterators(n) /\ At(n, e) = r
    <3>0. Len(n[L + 1].data) = 1 /\ n[L + 1].data[1] = r
      BY <2>2, <2>3, Zenon
    <3>1. L + 1 \in 1 .. Len(n) /\ Len(n[L + 1].data) = 1 /\ n[L + 1].data[1] = r
      BY <1>1, <2>3, <3>0
    <3>2. 1 \in 1 .. Len(n[L + 1].data)
      BY <3>1
    <3> QED
      BY <2>3, <2>4, <3>1, <3>2, IteratorAt
  <2>6. ASSUME NEW p \in Iterators(m)
        PROVE  p \in Iterators(n) /\ At(n, p) = At(m, p) /\ Before(p, e) /\ p # e
    <3> USE DEF L
    <3> DEFINE i == p[1]
               k == p[2]
    <3>1. /\ p = <<i, k>> /\ i \in 1 .. L /\ k \in 1 .. Len(m[i].data) /\ i \in Nat /\ k \in Nat
          /\ At(m, p) = m[i].data[k]
      BY <1>2 DEF At
    <3>2. Before(p, e) <=> i < L + 1 \/ (i = L + 1 /\ k < 1)
      BY <2>4 DEF Before
    <3> HIDE DEF i, k
    <3>3. i \in 1 .. Len(n) /\ n[i] = m[i] /\ i < L + 1
      BY <1>1, <2>3, <3>1
    <3>4. p # e
      BY <2>4, <3>1, <3>3
    <3> QED
      BY <2>3, <3>1, <3>2, <3>3, <3>4, IteratorAt
  <2>7. ASSUME NEW p \in Iterators(n), p # e
        PROVE  p \in Iterators(m)
    <3> DEFINE i == p[1]
               k == p[2]
    <3>1. /\ p = <<i, k>> /\ i \in 1 .. L + 1 /\ k \in 1 .. Len(n[i].data) /\ i \in Nat /\ k \in Nat
      BY <2>3, IteratorFacts
    <3> HIDE DEF i, k
    <3>2. i # L + 1
      <4>1. Len(n[L + 1].data) = 1
        BY <2>2, <2>3
      <4> QED
        BY <2>4, <2>7, <3>1, <4>1
    <3>3. i \in 1 .. L /\ k \in 1 .. Len(m[i].data)
      BY <1>1, <2>3, <3>1, <3>2
    <3> QED
      BY <3>1, <3>3, IteratorAt DEF L
  <2>8. e \in Positions /\ n # <<>>
    BY <2>3, <2>5, IteratorFacts, BeginFacts
  <2> QED
    BY <2>3, <2>5, <2>6, <2>7, <2>8 DEF n, e
<1> QED
  BY <1>3, <1>4

LEMMA Half ==
  LET half == MaxSize \div 2 IN half \in Nat /\ half >= 1 /\ MaxSize = half + half
<1> DEFINE half == MaxSize \div 2
<1>1. MaxSize \in Nat \ {0} /\ MaxSize = 2 * half
  BY SetAssumption
<1>2. half \in Int
  BY <1>1
<1> HIDE DEF half
<1>3. half \in Nat /\ half >= 1 /\ MaxSize = half + half
  BY <1>1, <1>2
<1> QED
  BY <1>3 DEF half

LEMMA SplitChunk ==
  ASSUME NEW m \in Vectors, NEW it \in Iterators(m), ~(Len(m[it[1]].data) < MaxSize)
  PROVE  LET s == ensure_space(m, it)
             n == s[1]
             at == s[2]
         IN /\ n \in Vectors /\ at \in Iterators(n) /\ Len(n[at[1]].data) < MaxSize
            /\ \E g \in [Iterators(n) -> Iterators(m)] :
                 Follows(n, m, g) /\ \A p \in Iterators(n) : Before(p, at) <=> Before(g[p], it)
<1> DEFINE o == it[1]
           j == it[2]
           c == m[o]
           data == c.data
           half == MaxSize \div 2
           kept == SubSeq(data, 1, Len(data) - half)
           rest == SubSeq(data, Len(data) - half + 1, Len(data))
           moved == ChunkOf(rest)
           ch == [data |-> kept, begin |-> c.begin, end |-> Last(kept)[2],
                  count |-> c.count - moved.count]
           mm == [m EXCEPT ![o] = ch]
           n == InsertAt(mm, o + 1, moved)
           at == IF j > half THEN <<o + 1, j - half>> ELSE it
           g == [p \in Iterators(n) |-> IF p[1] <= o THEN p
                                        ELSE IF p[1] = o + 1 THEN <<o, p[2] + half>>
                                        ELSE <<p[1] - 1, p[2]>>]
<1>1. /\ Len(m) \in Nat /\ o \in 1 .. Len(m) /\ it = <<o, j>> /\ o \in Nat /\ j \in Nat
      /\ j \in 1 .. Len(data)
  BY VectorLen, IteratorFacts
<1>2. half \in Nat /\ half >= 1 /\ MaxSize = half + half
  BY Half
<1>3. /\ data \in Seq(Span) /\ Len(data) = MaxSize /\ c.count = Sizes(data)
      /\ c.begin = data[1][1] /\ c.end = data[Len(data)][2]
  <2>1. c \in Chunks /\ data \in Seq(Span) /\ Len(data) \in 1 .. MaxSize
    BY <1>1, ChunkOfVector
  <2>2. Right(c)
    BY <2>1 DEF Chunks
  <2>3. Len(data) = MaxSize
    <3>1. ~(Len(data) < MaxSize)
      OBVIOUS
    <3> HIDE DEF data
    <3> QED
      BY <2>1, <3>1, SetAssumption
  <2> QED
    BY <2>1, <2>2, <2>3 DEF Right
<1>4. ensure_space(m, it) = <<n, at>>
  <2>1. ~(Len(m[it[1]].data) < MaxSize)
    OBVIOUS
  <2> QED
    BY <2>1, Zenon DEF ensure_space
<1> HIDE DEF o, j, c, data, half
<1>5. /\ kept \in Seq(Span) /\ Len(kept) = half /\ (\A k \in 1 .. half : kept[k] = data[k])
      /\ rest \in Seq(Span) /\ Len(rest) = half /\ (\A k \in 1 .. half : rest[k] = data[half + k])
      /\ Sizes(data) = Sizes(kept) + Sizes(rest)
  <2>1. Len(data) - half = half
    BY <1>2, <1>3
  <2>2. /\ kept \in Seq(Span) /\ Len(kept) = half + 1 - 1
        /\ \A k \in 1 .. half + 1 - 1 : kept[k] = data[1 + k - 1]
    <3>1. 1 \in 1 .. Len(data) + 1 /\ half \in 1 - 1 .. Len(data)
      BY <1>2, <1>3
    <3>2. kept = SubSeq(data, 1, half)
      BY <2>1
    <3> HIDE DEF kept
    <3> QED
      BY <1>3, <3>1, <3>2, PartOf
  <2>3. /\ rest \in Seq(Span) /\ Len(rest) = Len(data) + 1 - (half + 1)
        /\ \A k \in 1 .. Len(data) + 1 - (half + 1) : rest[k] = data[half + 1 + k - 1]
    <3>1. half + 1 \in 1 .. Len(data) + 1 /\ Len(data) \in half + 1 - 1 .. Len(data)
      BY <1>2, <1>3
    <3>2. rest = SubSeq(data, half + 1, Len(data))
      BY <2>1
    <3> HIDE DEF rest
    <3> QED
      BY <1>3, <3>1, <3>2, PartOf
  <2>4. Sizes(data) = Sizes(SubSeq(data, 1, half)) + Sizes(SubSeq(data, half + 1, Len(data)))
    <3>1. half \in 0 .. Len(data)
      BY <1>2, <1>3
    <3> QED
      BY <1>3, <3>1, Split
  <2>5. Sizes(data) = Sizes(kept) + Sizes(rest)
    BY <2>1, <2>4
  <2> HIDE DEF kept, rest
  <2> QED
    BY <1>2, <1>3, <2>2, <2>3, <2>5
<1> HIDE DEF kept, rest
<1>6. moved \in Chunks /\ moved.data = rest /\ moved.count = Sizes(rest)
  <2>1. Head(rest) = rest[1] /\ Last(rest) = rest[Len(rest)]
    BY <1>2, <1>5 DEF Last
  <2>2. moved = [data |-> rest, begin |-> Head(rest)[1], end |-> Last(rest)[2],
                 count |-> Sizes(rest)]
    BY DEF ChunkOf
  <2>3. Len(rest) \in 1 .. MaxSize
    BY <1>2, <1>5
  <2>4. moved \in Chunks
    BY <1>5, <2>1, <2>2, <2>3, IsChunk
  <2> QED
    BY <2>2, <2>4
<1> HIDE DEF moved
<1>7. ch \in Chunks /\ ch.data = kept
  <2>1. c.begin = kept[1][1] /\ Last(kept) = kept[Len(kept)]
    BY <1>2, <1>3, <1>5 DEF Last
  <2>2. c.count - moved.count = Sizes(kept)
    <3>1. Sizes(kept) \in Int /\ Sizes(rest) \in Int
      BY <1>5, SizesInt
    <3> QED
      BY <1>3, <1>5, <1>6, <3>1
  <2>3. Len(kept) \in 1 .. MaxSize
    BY <1>2, <1>5
  <2>4. ch \in Chunks
    BY <1>5, <2>1, <2>2, <2>3, IsChunk
  <2> QED
    BY <2>4
<1> HIDE DEF ch
<1>8. /\ mm \in Vectors /\ Len(mm) = Len(m)
      /\ \A k \in 1 .. Len(m) : mm[k] = IF k = o THEN ch ELSE m[k]
  BY <1>1, <1>7, ChunkSet
<1> HIDE DEF mm
<1>9. /\ n \in Vectors /\ Len(n) = Len(m) + 1
      /\ \A k \in 1 .. Len(m) + 1 :
           n[k] = IF k < o THEN m[k] ELSE IF k = o THEN ch
                  ELSE IF k = o + 1 THEN moved ELSE m[k - 1]
  <2>1. /\ n \in Seq(Chunks) /\ Len(n) = Len(mm) + 1
        /\ \A k \in 1 .. Len(mm) + 1 :
             n[k] = IF k < o + 1 THEN mm[k] ELSE IF k = o + 1 THEN moved ELSE mm[k - 1]
    <3> DEFINE i == o + 1
    <3>1. i \in 1 .. Len(mm) + 1 /\ mm \in Seq(Chunks)
      BY <1>1, <1>8 DEF Vectors
    <3> HIDE DEF i
    <3>2. PutAt(InsertAt(mm, i, moved), Chunks, mm, i, moved)
      <4>1. moved \in Chunks
        BY <1>6
      <4> QED
        BY <3>1, <4>1, PutIn, Zenon
    <3> QED
      BY <3>2, Zenon DEF i, PutAt
  <2> HIDE DEF n
  <2>2. ASSUME NEW k \in 1 .. Len(m) + 1
        PROVE  n[k] = IF k < o THEN m[k] ELSE IF k = o THEN ch
                      ELSE IF k = o + 1 THEN moved ELSE m[k - 1]
    <3>1. CASE k <= o
      <4>1. n[k] = mm[k] /\ k \in 1 .. Len(m)
        BY <1>1, <1>8, <2>1, <3>1
      <4> QED
        BY <1>1, <1>8, <3>1, <4>1
    <3>2. CASE k = o + 1
      BY <1>1, <1>8, <2>1, <3>2
    <3>3. CASE k > o + 1
      <4>1. n[k] = mm[k - 1] /\ k - 1 \in 1 .. Len(m) /\ k - 1 # o
        BY <1>1, <1>8, <2>1, <3>3
      <4> QED
        BY <1>1, <1>8, <3>3, <4>1
    <3>4. k <= o \/ k = o + 1 \/ k > o + 1
      BY <1>1
    <3> QED
      BY <3>1, <3>2, <3>3, <3>4, Zenon
  <2> QED
    BY <1>8, <2>1, <2>2 DEF Vectors
<1>10. DOMAIN g = Iterators(n) /\ g = [p \in Iterators(n) |-> g[p]]
  OBVIOUS
<1>11. ASSUME NEW p \in Iterators(n)
       PROVE  g[p] = IF p[1] <= o THEN p ELSE IF p[1] = o + 1 THEN <<o, p[2] + half>>
                     ELSE <<p[1] - 1, p[2]>>
  OBVIOUS
<1> HIDE DEF n, g
<1>12. n[o].data = kept /\ n[o + 1].data = rest /\ o \in 1 .. Len(n) /\ o + 1 \in 1 .. Len(n)
  <2>1. o \in 1 .. Len(m) + 1 /\ o + 1 \in 1 .. Len(m) + 1 /\ ~(o < o) /\ ~(o + 1 < o) /\ o + 1 # o
    BY <1>1
  <2>2. n[o] = ch /\ n[o + 1] = moved
    BY <1>9, <2>1
  <2> QED
    BY <1>6, <1>7, <1>9, <2>1, <2>2
<1>13. at \in Iterators(n) /\ Len(n[at[1]].data) < MaxSize
  <2>1. CASE j > half
    <3> DEFINE i == o + 1
               k == j - half
    <3>1. at = <<i, k>> /\ k \in 1 .. Len(n[i].data) /\ i \in 1 .. Len(n)
      BY <1>1, <1>2, <1>3, <1>5, <1>12, <2>1
    <3>2. at[1] = i /\ Len(n[i].data) < MaxSize
      BY <1>2, <1>5, <1>12, <3>1
    <3> HIDE DEF at, i, k
    <3> QED
      BY <1>9, <3>1, <3>2, IteratorAt
  <2>2. CASE ~(j > half)
    <3>1. at = <<o, j>> /\ j \in 1 .. Len(n[o].data)
      BY <1>1, <1>2, <1>3, <1>5, <1>12, <2>2
    <3>2. at[1] = o
      BY <3>1
    <3> HIDE DEF at
    <3> QED
      BY <1>2, <1>5, <1>9, <1>12, <3>1, <3>2, IteratorAt
  <2> QED
    BY <2>1, <2>2
<1>14. ASSUME NEW p \in Iterators(n)
       PROVE  /\ g[p] \in Iterators(m) /\ At(n, p) = At(m, g[p])
              /\ g[p][1] = (IF p[1] <= o THEN p[1] ELSE p[1] - 1)
              /\ g[p][2] = (IF p[1] = o + 1 THEN p[2] + half ELSE p[2])
              /\ p[1] \in Nat /\ p[2] \in Nat /\ p[2] >= 1 /\ (p[1] = o => p[2] <= half)
  <2> DEFINE i == p[1]
             k == p[2]
  <2>1. /\ p = <<i, k>> /\ i \in 1 .. Len(m) + 1 /\ k \in 1 .. Len(n[i].data)
        /\ i \in Nat /\ k \in Nat /\ k >= 1
        /\ g[p] = (IF i <= o THEN p ELSE IF i = o + 1 THEN <<o, k + half>> ELSE <<i - 1, k>>)
        /\ At(n, p) = n[i].data[k]
    <3>1. /\ p = <<i, k>> /\ i \in 1 .. Len(m) + 1 /\ k \in 1 .. Len(n[i].data)
          /\ i \in Nat /\ k \in Nat
      BY <1>9, IteratorFacts
    <3>2. g[p] = (IF i <= o THEN p ELSE IF i = o + 1 THEN <<o, k + half>> ELSE <<i - 1, k>>)
      BY <1>11
    <3>3. k >= 1
      BY <3>1
    <3> QED
      BY <3>1, <3>2, <3>3 DEF At
  <2>2. n[i] = IF i < o THEN m[i] ELSE IF i = o THEN ch ELSE IF i = o + 1 THEN moved ELSE m[i - 1]
    BY <1>9, <2>1
  <2>3. m[o].data = data
    BY DEF data, c
  <2> HIDE DEF i, k
  <2>4. CASE i < o
    <3>1. g[p] = <<i, k>> /\ n[i] = m[i] /\ i \in 1 .. Len(m)
      BY <1>1, <2>1, <2>2, <2>4
    <3>2. g[p] \in Iterators(m) /\ At(m, g[p]) = m[i].data[k]
      BY <2>1, <3>1, IteratorAt
    <3>3. g[p][1] = i /\ g[p][2] = k /\ i <= o /\ i # o + 1 /\ i # o
      BY <1>1, <2>1, <2>4, <3>1
    <3> QED
      BY <2>1, <3>1, <3>2, <3>3 DEF i, k
  <2>5. CASE i = o
    <3>1. g[p] = <<o, k>> /\ n[i] = ch /\ i <= o /\ i # o + 1
      BY <1>1, <2>1, <2>2, <2>5
    <3>2. k \in 1 .. half /\ k \in 1 .. Len(m[o].data)
      BY <1>2, <1>3, <1>5, <1>7, <2>1, <2>3, <3>1
    <3>3. g[p] \in Iterators(m) /\ At(m, g[p]) = data[k]
      BY <1>1, <2>3, <3>1, <3>2, IteratorAt
    <3>4. At(n, p) = data[k]
      BY <1>5, <1>7, <2>1, <3>1, <3>2
    <3>5. g[p][1] = i /\ g[p][2] = k /\ k <= half
      BY <2>5, <3>1, <3>2
    <3> QED
      BY <2>1, <3>1, <3>3, <3>4, <3>5 DEF i, k
  <2>6. CASE i = o + 1
    <3>1. g[p] = <<o, k + half>> /\ n[i] = moved /\ ~(i <= o) /\ i # o
      BY <1>1, <2>1, <2>2, <2>6
    <3>2. k \in 1 .. half /\ k + half \in 1 .. Len(m[o].data) /\ k + half = half + k
      BY <1>2, <1>3, <1>5, <1>6, <2>1, <2>3, <3>1
    <3>3. g[p] \in Iterators(m) /\ At(m, g[p]) = data[k + half]
      BY <1>1, <2>3, <3>1, <3>2, IteratorAt
    <3>4. At(n, p) = data[half + k]
      BY <1>5, <1>6, <2>1, <3>1, <3>2
    <3>5. g[p][1] = i - 1 /\ g[p][2] = k + half
      BY <1>1, <2>6, <3>1
    <3> QED
      BY <2>1, <2>6, <3>1, <3>2, <3>3, <3>4, <3>5 DEF i, k
  <2>7. CASE i > o + 1
    <3>1. g[p] = <<i - 1, k>> /\ n[i] = m[i - 1] /\ i - 1 \in 1 .. Len(m) /\ ~(i <= o) /\ i # o /\ i # o + 1
      BY <1>1, <2>1, <2>2, <2>7
    <3>2. g[p] \in Iterators(m) /\ At(m, g[p]) = m[i - 1].data[k]
      BY <2>1, <3>1, IteratorAt
    <3>3. g[p][1] = i - 1 /\ g[p][2] = k
      BY <3>1
    <3> QED
      BY <2>1, <3>1, <3>2, <3>3 DEF i, k
  <2>8. i < o \/ i = o \/ i = o + 1 \/ i > o + 1
    BY <1>1, <2>1
  <2> QED
    BY <2>4, <2>5, <2>6, <2>7, <2>8, Zenon
<1>15. ASSUME NEW p \in Iterators(n)
       PROVE  Before(p, at) <=> Before(g[p], it)
  <2>1. it[1] = o /\ it[2] = j
    BY DEF o, j
  <2>2. /\ g[p][1] = (IF p[1] <= o THEN p[1] ELSE p[1] - 1)
        /\ g[p][2] = (IF p[1] = o + 1 THEN p[2] + half ELSE p[2])
        /\ p[1] \in Nat /\ p[2] \in Nat /\ p[2] >= 1 /\ (p[1] = o => p[2] <= half)
    BY <1>14
  <2>3. CASE j > half
    <3>1. at[1] = o + 1 /\ at[2] = j - half
      BY <2>3
    <3> HIDE DEF at
    <3>2. Before(p, at) <=> p[1] < o + 1 \/ (p[1] = o + 1 /\ p[2] < j - half)
      BY <3>1 DEF Before
    <3>3. Before(g[p], it) <=> g[p][1] < o \/ (g[p][1] = o /\ g[p][2] < j)
      BY <2>1 DEF Before
    <3>4. CASE p[1] = o + 1
      <4>1. g[p][1] = o /\ g[p][2] = p[2] + half
        BY <1>1, <2>2, <3>4
      <4> QED
        BY <1>1, <1>2, <2>2, <3>2, <3>3, <3>4, <4>1
    <3>5. CASE p[1] # o + 1
      <4>1. g[p][1] = (IF p[1] <= o THEN p[1] ELSE p[1] - 1) /\ g[p][2] = p[2]
        BY <2>2, <3>5
      <4> QED
        BY <1>1, <1>2, <2>2, <2>3, <3>2, <3>3, <3>5, <4>1
    <3> QED
      BY <3>4, <3>5
  <2>4. CASE ~(j > half)
    <3>1. at[1] = o /\ at[2] = j
      BY <1>1, <2>4
    <3> HIDE DEF at
    <3> QED
      BY <1>1, <1>2, <2>1, <2>2, <2>4, <3>1 DEF Before
  <2> QED
    BY <2>3, <2>4
<1>16. ASSUME NEW p \in Iterators(n), NEW q \in Iterators(n), Before(p, q)
       PROVE  Before(g[p], g[q])
  <2>1. /\ g[p][1] = (IF p[1] <= o THEN p[1] ELSE p[1] - 1)
        /\ g[p][2] = (IF p[1] = o + 1 THEN p[2] + half ELSE p[2])
        /\ p[1] \in Nat /\ p[2] \in Nat /\ p[2] >= 1 /\ (p[1] = o => p[2] <= half)
    BY <1>14
  <2>2. /\ g[q][1] = (IF q[1] <= o THEN q[1] ELSE q[1] - 1)
        /\ g[q][2] = (IF q[1] = o + 1 THEN q[2] + half ELSE q[2])
        /\ q[1] \in Nat /\ q[2] \in Nat /\ q[2] >= 1 /\ (q[1] = o => q[2] <= half)
    BY <1>14
  <2> QED
    BY <1>1, <1>2, <1>16, <2>1, <2>2 DEF Before
<1>17. g \in [Iterators(n) -> Iterators(m)]
  BY <1>10, <1>14
<1>18. Follows(n, m, g)
  BY <1>10, <1>14, <1>16 DEF Follows
<1> HIDE DEF at
<1>19. ensure_space(m, it)[1] = n /\ ensure_space(m, it)[2] = at
  BY <1>4
<1> QED
  BY <1>9, <1>13, <1>15, <1>17, <1>18, <1>19

LEMMA RoomTaken ==
  ASSUME NEW m \in Vectors, NEW it \in Iterators(m), Len(m[it[1]].data) < MaxSize, NEW r \in Span,
         \A p \in Iterators(m) : IF Before(p, it) THEN At(m, p)[1] <= r[1]
                                 ELSE r[1] <= At(m, p)[1] /\ r[2] <= At(m, p)[2]
  PROVE  LET n == [m EXCEPT ![it[1]] =
                    [data  |-> InsertAt(@.data, it[2], r),
                     begin |-> min(@.begin, r[1]), end |-> max(@.end, r[2]),
                     count |-> @.count + Size(r)]]
         IN /\ n \in Vectors /\ it \in Iterators(n) /\ At(n, it) = r
            /\ \E g \in [Iterators(n) \ {it} -> Iterators(m)] :
                 /\ Follows(n, m, g)
                 /\ \A p \in Iterators(n) \ {it} : Before(p, it) <=> Before(g[p], it)
<1> DEFINE o == it[1]
           j == it[2]
           c == m[o]
           d == c.data
           data == InsertAt(d, j, r)
           ch == [data |-> data, begin |-> min(c.begin, r[1]), end |-> max(c.end, r[2]),
                  count |-> c.count + Size(r)]
           n == [m EXCEPT ![o] = ch]
           g == [p \in Iterators(n) \ {it} |->
                  IF p[1] = o /\ p[2] > j THEN <<o, p[2] - 1>> ELSE p]
<1>1. /\ Len(m) \in Nat /\ o \in 1 .. Len(m) /\ it = <<o, j>> /\ o \in Nat /\ j \in Nat
      /\ j \in 1 .. Len(d) /\ r[1] \in Int /\ r[2] \in Int
  BY VectorLen, IteratorFacts DEF Span
<1>2. /\ c \in Chunks /\ d \in Seq(Span) /\ Len(d) \in Nat /\ Len(d) >= 1 /\ Len(d) < MaxSize
      /\ c.count = Sizes(d) /\ c.begin = d[1][1] /\ c.end = d[Len(d)][2]
      /\ c.begin \in Int /\ c.end \in Int
  <2>1. /\ c \in Chunks /\ d \in Seq(Span) /\ Len(d) \in 1 .. MaxSize
        /\ c.begin \in Int /\ c.end \in Int
    BY <1>1, ChunkOfVector
  <2>2. Right(c)
    BY <2>1 DEF Chunks
  <2>3. Len(d) < MaxSize
    OBVIOUS
  <2> HIDE DEF d, c
  <2> QED
    BY <2>1, <2>2, <2>3, SetAssumption DEF Right, d
<1>3. ASSUME NEW k \in 1 .. Len(d)
      PROVE  IF k < j THEN d[k][1] <= r[1] ELSE r[1] <= d[k][1] /\ r[2] <= d[k][2]
  <2> DEFINE p == <<o, k>>
  <2>1. p \in Iterators(m) /\ At(m, p) = d[k]
    BY <1>1, IteratorAt
  <2>2. Before(p, it) <=> k < j
    <3>1. p[1] = o /\ p[2] = k /\ ~(o < o)
      BY <1>1
    <3> HIDE DEF p
    <3> QED
      BY <3>1 DEF Before
  <2> HIDE DEF p
  <2> QED
    BY <2>1, <2>2
<1> HIDE DEF d, c, o, j
<1>4. /\ data \in Seq(Span) /\ Len(data) = Len(d) + 1
      /\ (\A k \in 1 .. Len(d) + 1 :
            data[k] = IF k < j THEN d[k] ELSE IF k = j THEN r ELSE d[k - 1])
      /\ Sizes(data) = Sizes(d) + Size(r)
  <2>1. j \in 1 .. Len(d) + 1
    BY <1>1, <1>2
  <2> QED
    BY <1>2, <2>1, Inserted
<1> HIDE DEF data
<1>5. ch \in Chunks /\ ch.data = data
  <2>1. Len(data) \in 1 .. MaxSize
    BY <1>2, <1>4, SetAssumption
  <2>2. min(c.begin, r[1]) = data[1][1]
    <3>1. CASE j = 1
      <4>1. data[1] = r /\ r[1] <= d[1][1]
        <5>1. 1 \in 1 .. Len(d) /\ 1 \in 1 .. Len(d) + 1 /\ ~(1 < j)
          BY <1>2, <3>1
        <5> QED
          BY <1>3, <1>4, <3>1, <5>1
      <4> QED
        BY <1>1, <1>2, <4>1 DEF min
    <3>2. CASE j > 1
      <4>1. data[1] = d[1] /\ d[1][1] <= r[1]
        <5>1. 1 \in 1 .. Len(d) /\ 1 \in 1 .. Len(d) + 1
          BY <1>2
        <5> QED
          BY <1>3, <1>4, <3>2, <5>1
      <4> QED
        BY <1>1, <1>2, <4>1 DEF min
    <3> QED
      BY <1>1, <3>1, <3>2
  <2>3. max(c.end, r[2]) = data[Len(data)][2]
    <3>1. Len(d) \in 1 .. Len(d) /\ ~(Len(d) < j) /\ Len(d) + 1 \in 1 .. Len(d) + 1
          /\ ~(Len(d) + 1 < j) /\ Len(d) + 1 # j /\ Len(d) + 1 - 1 = Len(d)
      BY <1>1, <1>2
    <3>2. r[2] <= d[Len(d)][2] /\ data[Len(d) + 1] = d[Len(d)]
      BY <1>3, <1>4, <3>1
    <3> QED
      BY <1>1, <1>2, <1>4, <3>2 DEF max
  <2>4. c.count + Size(r) = Sizes(data)
    BY <1>2, <1>4
  <2>5. ch \in Chunks
    BY <1>4, <2>1, <2>2, <2>3, <2>4, IsChunk
  <2> QED
    BY <2>5
<1> HIDE DEF ch
<1>6. /\ n \in Vectors /\ Len(n) = Len(m)
      /\ \A k \in 1 .. Len(m) : n[k] = IF k = o THEN ch ELSE m[k]
  BY <1>1, <1>5, ChunkSet
<1>7. DOMAIN g = Iterators(n) \ {it} /\ g = [p \in Iterators(n) \ {it} |-> g[p]]
  OBVIOUS
<1>8. ASSUME NEW p \in Iterators(n) \ {it}
      PROVE  g[p] = IF p[1] = o /\ p[2] > j THEN <<o, p[2] - 1>> ELSE p
  OBVIOUS
<1> HIDE DEF n, g
<1>9. it \in Iterators(n) /\ At(n, it) = r
  <2>1. n[o].data = data /\ o \in 1 .. Len(n) /\ j \in 1 .. Len(data) /\ data[j] = r
    BY <1>1, <1>2, <1>4, <1>5, <1>6
  <2> QED
    BY <1>1, <1>6, <2>1, IteratorAt
<1>10. ASSUME NEW p \in Iterators(n) \ {it}
       PROVE  /\ g[p] \in Iterators(m) /\ At(n, p) = At(m, g[p])
              /\ g[p][1] = p[1] /\ g[p][2] = (IF p[1] = o /\ p[2] > j THEN p[2] - 1 ELSE p[2])
              /\ p[1] \in Nat /\ p[2] \in Nat /\ (p[1] = o => p[2] # j)
  <2> DEFINE i == p[1]
             k == p[2]
  <2>1. /\ p = <<i, k>> /\ i \in 1 .. Len(m) /\ k \in 1 .. Len(n[i].data)
        /\ i \in Nat /\ k \in Nat /\ k >= 1
        /\ g[p] = (IF i = o /\ k > j THEN <<o, k - 1>> ELSE p)
        /\ n[i] = (IF i = o THEN ch ELSE m[i])
        /\ At(n, p) = n[i].data[k]
    <3>1. /\ p = <<i, k>> /\ i \in 1 .. Len(m) /\ k \in 1 .. Len(n[i].data)
          /\ i \in Nat /\ k \in Nat
      BY <1>6, IteratorFacts
    <3>2. n[i] = (IF i = o THEN ch ELSE m[i])
      BY <1>6, <3>1
    <3>3. g[p] = (IF i = o /\ k > j THEN <<o, k - 1>> ELSE p)
      BY <1>8
    <3>4. k >= 1
      BY <3>1
    <3> QED
      BY <3>1, <3>2, <3>3, <3>4 DEF At
  <2>2. p # it
    OBVIOUS
  <2>3. m[o].data = d
    BY DEF c, d
  <2> HIDE DEF i, k
  <2>4. i = o => k # j
    BY <1>1, <2>1, <2>2
  <2>5. CASE i = o /\ k > j
    <3>1. g[p] = <<o, k - 1>> /\ k - 1 \in 1 .. Len(d) /\ n[i] = ch /\ ~(k < j) /\ k \in 1 .. Len(d) + 1
      BY <1>1, <1>2, <1>4, <1>5, <2>1, <2>5
    <3>2. g[p] \in Iterators(m) /\ At(m, g[p]) = d[k - 1]
      BY <1>1, <2>3, <3>1, IteratorAt
    <3>3. At(n, p) = d[k - 1]
      BY <1>4, <1>5, <2>1, <2>4, <2>5, <3>1
    <3>4. g[p][1] = i /\ g[p][2] = k - 1
      BY <2>5, <3>1
    <3> QED
      BY <2>1, <2>4, <2>5, <3>2, <3>3, <3>4 DEF i, k
  <2>6. CASE ~(i = o /\ k > j)
    <3>1. g[p] = <<i, k>>
      BY <2>1, <2>6
    <3>2. k \in 1 .. Len(m[i].data) /\ n[i].data[k] = m[i].data[k]
      <4>1. CASE i = o
        <5>1. n[i].data = data /\ m[i].data = d /\ k < j
          BY <1>1, <1>5, <2>1, <2>3, <2>4, <2>6, <4>1
        <5>2. k \in 1 .. Len(d) /\ k \in 1 .. Len(d) + 1
          BY <1>1, <1>2, <2>1, <5>1
        <5> QED
          BY <1>4, <5>1, <5>2
      <4>2. CASE i # o
        BY <2>1, <4>2
      <4> QED
        BY <4>1, <4>2
    <3>3. g[p] \in Iterators(m) /\ At(m, g[p]) = At(n, p)
      BY <2>1, <3>1, <3>2, IteratorAt
    <3>4. g[p][1] = i /\ g[p][2] = k
      BY <3>1
    <3> QED
      BY <2>1, <2>4, <2>6, <3>3, <3>4 DEF i, k
  <2> QED
    BY <2>5, <2>6
<1>11. ASSUME NEW p \in Iterators(n) \ {it}
       PROVE  Before(p, it) <=> Before(g[p], it)
  <2>1. /\ g[p][1] = p[1] /\ g[p][2] = (IF p[1] = o /\ p[2] > j THEN p[2] - 1 ELSE p[2])
        /\ p[1] \in Nat /\ p[2] \in Nat /\ (p[1] = o => p[2] # j)
    BY <1>10
  <2>2. it[1] = o /\ it[2] = j
    BY DEF o, j
  <2> QED
    BY <1>1, <2>1, <2>2 DEF Before
<1>12. ASSUME NEW p \in Iterators(n) \ {it}, NEW q \in Iterators(n) \ {it}, Before(p, q)
       PROVE  Before(g[p], g[q])
  <2>1. /\ g[p][1] = p[1] /\ g[p][2] = (IF p[1] = o /\ p[2] > j THEN p[2] - 1 ELSE p[2])
        /\ p[1] \in Nat /\ p[2] \in Nat /\ (p[1] = o => p[2] # j)
    BY <1>10
  <2>2. /\ g[q][1] = q[1] /\ g[q][2] = (IF q[1] = o /\ q[2] > j THEN q[2] - 1 ELSE q[2])
        /\ q[1] \in Nat /\ q[2] \in Nat /\ (q[1] = o => q[2] # j)
    BY <1>10
  <2> QED
    BY <1>1, <1>12, <2>1, <2>2 DEF Before
<1>13. g \in [Iterators(n) \ {it} -> Iterators(m)]
  BY <1>7, <1>10
<1>14. Follows(n, m, g)
  BY <1>7, <1>10, <1>12 DEF Follows
<1> QED
  BY <1>6, <1>9, <1>11, <1>13, <1>14 DEF n, o, j, c, d, data, ch

\* The ranges before it stop by low, those from it on start at high or later.
UpTo(m, it, low) == \A p \in Iterators(m) : Before(p, it) => At(m, p)[2] <= low
FromOn(m, it, high) == \A p \in Iterators(m) : ~Before(p, it) => high <= At(m, p)[1]

\* The ranges of n but for the one at e, which is new, are ranges of m, on
\* the same side.
Joined(n, e, m, it) ==
  \A p \in Iterators(n) \ {e} : \E q \in Iterators(m) :
    At(n, p) = At(m, q) /\ (Before(p, e) <=> Before(q, it))

LEMMA JoinedInOrder ==
  ASSUME NEW m \in IndexSets, NEW it \in Iterators(m) \cup {End(m)},
         NEW n \in Vectors, NEW e \in Iterators(n), NEW g \in [Iterators(n) \ {e} -> Iterators(m)],
         Follows(n, m, g), \A p \in Iterators(n) \ {e} : Before(p, e) <=> Before(g[p], it),
         NEW r \in Span, At(n, e) = r, r[1] < r[2],
         \A p \in Iterators(m) : IF Before(p, it) THEN At(m, p)[2] < r[1] ELSE r[2] < At(m, p)[1]
  PROVE  n \in IndexSets /\ Joined(n, e, m, it)
<1>1. DOMAIN g = Iterators(n) \ {e} /\ m \in Vectors /\ Apart(m, Iterators(m))
  BY DEF IndexSets, InOrder
<1>2. ASSUME NEW p \in Iterators(n) \ {e}
      PROVE  /\ g[p] \in Iterators(m) /\ At(n, p) = At(m, g[p])
             /\ At(m, g[p])[1] < At(m, g[p])[2]
             /\ IF Before(p, e) THEN At(m, g[p])[2] < r[1] ELSE r[2] < At(m, g[p])[1]
  <2>1. g[p] \in Iterators(m) /\ At(n, p) = At(m, g[p])
    BY <1>1 DEF Follows
  <2>2. Before(p, e) <=> Before(g[p], it)
    OBVIOUS
  <2>3. IF Before(g[p], it) THEN At(m, g[p])[2] < r[1] ELSE r[2] < At(m, g[p])[1]
    BY <2>1
  <2>4. At(m, g[p])[1] < At(m, g[p])[2]
    BY <1>1, <2>1 DEF Apart
  <2> QED
    BY <2>1, <2>2, <2>3, <2>4, Zenon
<1>3. \A p \in Iterators(n) : At(n, p)[1] < At(n, p)[2]
  BY <1>2
<1>4. ASSUME NEW p \in Iterators(n), NEW q \in Iterators(n), Before(p, q)
      PROVE  At(n, p)[2] < At(n, q)[1]
  <2>1. p \in Positions /\ q \in Positions
    BY IteratorFacts
  <2>2. CASE p = e /\ q # e
    <3>1. ~Before(q, e)
      BY <1>4, <2>1, <2>2, Order
    <3> QED
      BY <1>2, <2>2, <3>1
  <2>3. CASE p # e /\ q = e
    BY <1>2, <1>4, <2>3
  <2>4. CASE p # e /\ q # e
    <3>1. Before(g[p], g[q])
      BY <1>1, <1>4, <2>4 DEF Follows
    <3>2. At(m, g[p])[2] < At(m, g[q])[1]
      <4>1. g[p] \in Iterators(m) /\ g[q] \in Iterators(m)
        BY <1>2, <2>4
      <4> QED
        BY <1>1, <3>1, <4>1, Zenon DEF Apart
    <3> QED
      BY <1>2, <2>4, <3>2
  <2>5. CASE p = e /\ q = e
    BY <1>4, <2>1, <2>5, Order
  <2> QED
    BY <2>2, <2>3, <2>4, <2>5
<1>5. n \in IndexSets
  BY <1>3, <1>4 DEF IndexSets, InOrder, Apart
<1>6. Joined(n, e, m, it)
  BY <1>2 DEF Joined
<1> QED
  BY <1>5, <1>6

LEMMA InsertFacts ==
  ASSUME NEW m \in IndexSets, NEW it \in Iterators(m) \cup {End(m)}, NEW r \in Span, r[1] < r[2],
         \A p \in Iterators(m) : IF Before(p, it) THEN At(m, p)[2] < r[1] ELSE r[2] < At(m, p)[1]
  PROVE  LET e == insert(m, it, r)
         IN /\ e[1] \in IndexSets /\ e[2] \in Iterators(e[1]) /\ At(e[1], e[2]) = r
            /\ Joined(e[1], e[2], m, it)
<1>1. m \in Vectors /\ Apart(m, Iterators(m)) /\ r[1] \in Int /\ r[2] \in Int
  BY DEF IndexSets, InOrder, Span
<1>2. CASE it = End(m)
  <2> DEFINE n == push_back(m, r)
             e == Pred(n, End(n))
             g == [p \in Iterators(n) \ {e} |-> p]
  <2>1. insert(m, it, r) = <<n, e>>
    BY <1>2 DEF insert, AtEnd
  <2>2. /\ n \in Vectors /\ e \in Positions /\ e \notin Iterators(m) /\ At(n, e) = r
        /\ Iterators(n) = Iterators(m) \cup {e}
        /\ \A p \in Iterators(m) : At(n, p) = At(m, p) /\ Before(p, e)
    BY <1>1, PushedBack
  <2> HIDE DEF n, e
  <2>3. Iterators(n) \ {e} = Iterators(m)
    BY <2>2
  <2>4. g \in [Iterators(n) \ {e} -> Iterators(m)] /\ Follows(n, m, g)
    BY <2>2, <2>3 DEF Follows
  <2>5. \A p \in Iterators(n) \ {e} : Before(p, e) <=> Before(g[p], it)
    BY <1>1, <1>2, <2>2, <2>3, EndFacts
  <2> HIDE DEF g
  <2>6. n \in IndexSets /\ Joined(n, e, m, it)
    <3>1. e \in Iterators(n)
      BY <2>2
    <3> QED
      BY <2>2, <2>4, <2>5, <3>1, JoinedInOrder
  <2> QED
    BY <2>1, <2>2, <2>6
<1>3. CASE it # End(m)
  <2> DEFINE s == ensure_space(m, it)
             u == s[1]
             at == s[2]
             n == [u EXCEPT ![at[1]] =
                    [data  |-> InsertAt(@.data, at[2], r),
                     begin |-> min(@.begin, r[1]), end |-> max(@.end, r[2]),
                     count |-> @.count + Size(r)]]
  <2>1. insert(m, it, r) = <<n, at>>
    BY <1>3, Zenon DEF insert, AtEnd
  <2>2. it \in Iterators(m)
    BY <1>3
  <2>3. /\ u \in Vectors /\ at \in Iterators(u) /\ Len(u[at[1]].data) < MaxSize
        /\ \E h \in [Iterators(u) -> Iterators(m)] :
             Follows(u, m, h) /\ \A p \in Iterators(u) : Before(p, at) <=> Before(h[p], it)
    <3>1. CASE Len(m[it[1]].data) < MaxSize
      <4>1. u = m /\ at = it
        BY <3>1 DEF ensure_space
      <4>2. Len(u[at[1]].data) < MaxSize
        BY <3>1, <4>1, Zenon
      <4> DEFINE h == [p \in Iterators(m) |-> p]
      <4>3. h \in [Iterators(m) -> Iterators(m)] /\ Follows(m, m, h)
        BY DEF Follows
      <4>4. \A p \in Iterators(m) : Before(p, it) <=> Before(h[p], it)
        OBVIOUS
      <4> HIDE DEF h, u, at
      <4> QED
        BY <1>1, <2>2, <4>1, <4>2, <4>3, <4>4, Zenon
    <3>2. CASE ~(Len(m[it[1]].data) < MaxSize)
      BY <1>1, <2>2, <3>2, SplitChunk
    <3> QED
      BY <3>1, <3>2, Zenon
  <2>4. PICK h \in [Iterators(u) -> Iterators(m)] :
          Follows(u, m, h) /\ \A p \in Iterators(u) : Before(p, at) <=> Before(h[p], it)
    BY <2>3
  <2> HIDE DEF s, u, at
  <2>5. ASSUME NEW p \in Iterators(u)
        PROVE  IF Before(p, at) THEN At(u, p)[1] <= r[1]
               ELSE r[1] <= At(u, p)[1] /\ r[2] <= At(u, p)[2]
    <3>1. h[p] \in Iterators(m) /\ At(u, p) = At(m, h[p]) /\ (Before(p, at) <=> Before(h[p], it))
      BY <2>4 DEF Follows
    <3>2. At(m, h[p])[1] < At(m, h[p])[2] /\ At(m, h[p])[1] \in Int /\ At(m, h[p])[2] \in Int
      BY <1>1, <3>1, IteratorFacts DEF Apart
    <3>3. IF Before(p, at) THEN At(u, p)[2] < r[1] ELSE r[2] < At(u, p)[1]
      BY <3>1
    <3> QED
      BY <1>1, <3>1, <3>2, <3>3
  <2>6. /\ n \in Vectors /\ at \in Iterators(n) /\ At(n, at) = r
        /\ \E g \in [Iterators(n) \ {at} -> Iterators(u)] :
             /\ Follows(n, u, g)
             /\ \A p \in Iterators(n) \ {at} : Before(p, at) <=> Before(g[p], at)
    BY <2>3, <2>5, RoomTaken
  <2> HIDE DEF n
  <2>7. PICK g \in [Iterators(n) \ {at} -> Iterators(u)] :
          /\ Follows(n, u, g)
          /\ \A p \in Iterators(n) \ {at} : Before(p, at) <=> Before(g[p], at)
    BY <2>6
  <2> DEFINE f == [p \in Iterators(n) \ {at} |-> h[g[p]]]
  <2>8. f \in [Iterators(n) \ {at} -> Iterators(m)]
    OBVIOUS
  <2>9. \A p \in Iterators(n) \ {at} : f[p] = h[g[p]] /\ g[p] \in Iterators(u)
    OBVIOUS
  <2> HIDE DEF f
  <2>10. Follows(n, m, f)
    <3>1. DOMAIN f = Iterators(n) \ {at} /\ DOMAIN g = Iterators(n) \ {at} /\ DOMAIN h = Iterators(u)
      BY <2>8
    <3>2. ASSUME NEW p \in DOMAIN f
          PROVE  f[p] \in Iterators(m) /\ At(n, p) = At(m, f[p])
      BY <2>4, <2>7, <2>8, <2>9, <3>1 DEF Follows
    <3>3. ASSUME NEW p \in DOMAIN f, NEW q \in DOMAIN f, Before(p, q)
          PROVE  Before(f[p], f[q])
      <4>1. Before(g[p], g[q])
        BY <2>7, <3>1, <3>3 DEF Follows
      <4> QED
        BY <2>4, <2>9, <3>1, <4>1 DEF Follows
    <3> QED
      BY <3>2, <3>3 DEF Follows
  <2>11. \A p \in Iterators(n) \ {at} : Before(p, at) <=> Before(f[p], it)
    BY <2>4, <2>7, <2>9
  <2>12. n \in IndexSets /\ Joined(n, at, m, it)
    BY <2>6, <2>8, <2>10, <2>11, JoinedInOrder
  <2> QED
    BY <2>1, <2>6, <2>12
<1> QED
  BY <1>2, <1>3

\* The ranges of n are ranges of m other than the one at it, on the same side.
Left(n, e, m, it) ==
  \A p \in Iterators(n) : \E q \in Iterators(m) \ {it} :
    At(n, p) = At(m, q) /\ (Before(p, e) <=> Before(q, it))

LEMMA EraseInOrder ==
  ASSUME NEW m \in Vectors, NEW it \in Iterators(m), Apart(m, Iterators(m) \ {it})
  PROVE  LET e == erase(m, it)
         IN /\ e[1] \in IndexSets /\ e[2] \in Iterators(e[1]) \cup {End(e[1])}
            /\ it # Begin(m) => e[2] # Begin(e[1])
            /\ Left(e[1], e[2], m, it)
<1> DEFINE n == erase(m, it)[1]
           e == erase(m, it)[2]
<1>1. /\ n \in Vectors /\ e \in Iterators(n) \cup {End(n)} /\ (it # Begin(m) => e # Begin(n))
      /\ \E g \in [Iterators(n) -> Iterators(m) \ {it}] :
           Follows(n, m, g) /\ \A p \in Iterators(n) : Before(p, e) <=> Before(g[p], it)
  BY EraseFacts
<1> HIDE DEF n, e
<1>2. PICK g \in [Iterators(n) -> Iterators(m) \ {it}] :
        Follows(n, m, g) /\ \A p \in Iterators(n) : Before(p, e) <=> Before(g[p], it)
  BY <1>1
<1>3. DOMAIN g = Iterators(n)
  OBVIOUS
<1>4. ASSUME NEW p \in Iterators(n)
      PROVE  g[p] \in Iterators(m) \ {it} /\ At(n, p) = At(m, g[p])
  BY <1>2, <1>3 DEF Follows
<1>5. n \in IndexSets
  <2>1. \A p \in Iterators(n) : At(n, p)[1] < At(n, p)[2]
    BY <1>4 DEF Apart
  <2>2. ASSUME NEW p \in Iterators(n), NEW q \in Iterators(n), Before(p, q)
        PROVE  At(n, p)[2] < At(n, q)[1]
    <3>1. Before(g[p], g[q])
      BY <1>2, <1>3, <2>2 DEF Follows
    <3>2. At(m, g[p])[2] < At(m, g[q])[1]
      BY <1>4, <3>1, Zenon DEF Apart
    <3> QED
      BY <1>4, <3>2
  <2> QED
    BY <1>1, <2>1, <2>2 DEF IndexSets, InOrder, Apart
<1>6. Left(n, e, m, it)
  BY <1>2, <1>4 DEF Left
<1> QED
  BY <1>1, <1>5, <1>6 DEF n, e

-----------------------------------------------------------------------------
(* find: the first range that stops behind the index                       *)

LEMMA InOrderFacts ==
  ASSUME NEW m \in IndexSets
  PROVE  /\ m \in Vectors
         /\ \A p \in Iterators(m) : /\ p \in Positions /\ At(m, p)[1] \in Int /\ At(m, p)[2] \in Int
                                    /\ At(m, p)[1] < At(m, p)[2] /\ At(m, p) \in Span
         /\ \A p, q \in Iterators(m) : Before(p, q) => At(m, p)[2] < At(m, q)[1]
<1>1. m \in Vectors
  BY DEF IndexSets
<1>2. \A p \in Iterators(m) : p \in Positions /\ At(m, p)[1] \in Int /\ At(m, p)[2] \in Int
                              /\ At(m, p) \in Span
  BY <1>1, IteratorFacts
<1> QED
  BY <1>1, <1>2 DEF IndexSets, InOrder, Apart

LEMMA ChunkBounds ==
  ASSUME NEW m \in IndexSets, NEW p \in Iterators(m)
  PROVE  m[p[1]].begin <= At(m, p)[1] /\ At(m, p)[2] <= m[p[1]].end
<1> DEFINE o == p[1]
           k == p[2]
           n == Len(m[o].data)
           b == <<o, 1>>
           z == <<o, n>>
<1>1. m \in Vectors
  BY InOrderFacts
<1>2. p = <<o, k>> /\ o \in 1 .. Len(m) /\ k \in 1 .. n /\ o \in Nat /\ k \in Nat
  BY <1>1, IteratorFacts
<1>3. n \in Nat /\ 1 \in 1 .. n /\ n \in 1 .. n /\ m[o] \in Chunks
  BY <1>1, <1>2, ChunkOfVector
<1>4. b \in Iterators(m) /\ z \in Iterators(m) /\ At(m, b) = m[o].data[1] /\ At(m, z) = m[o].data[n]
  BY <1>1, <1>2, <1>3, IteratorAt
<1>5. m[o].begin = At(m, b)[1] /\ m[o].end = At(m, z)[2]
  BY <1>3, <1>4 DEF Chunks, Right
<1> HIDE DEF n
<1>6. (b = p \/ Before(b, p)) /\ (z = p \/ Before(p, z))
  <2>1. k = 1 \/ k > 1
    BY <1>2, <1>3
  <2>2. k = n \/ k < n
    BY <1>2, <1>3
  <2>3. k > 1 => Before(b, p)
    BY <1>2 DEF Before
  <2>4. k < n => Before(p, z)
    BY <1>2 DEF Before
  <2> HIDE DEF o, k
  <2> QED
    BY <1>2, <2>1, <2>2, <2>3, <2>4
<1> HIDE DEF b, z
<1>7. At(m, b)[1] <= At(m, p)[1]
  <2>1. CASE b = p
    BY <2>1, InOrderFacts
  <2>2. CASE Before(b, p)
    <3>1. /\ At(m, b)[1] < At(m, b)[2] /\ At(m, b)[2] < At(m, p)[1]
          /\ At(m, b)[1] \in Int /\ At(m, b)[2] \in Int /\ At(m, p)[1] \in Int
      BY <1>4, <2>2, InOrderFacts
    <3> QED
      BY <3>1
  <2> QED
    BY <1>6, <2>1, <2>2
<1>8. At(m, p)[2] <= At(m, z)[2]
  <2>1. CASE z = p
    BY <2>1, InOrderFacts
  <2>2. CASE Before(p, z)
    <3>1. /\ At(m, p)[2] < At(m, z)[1] /\ At(m, z)[1] < At(m, z)[2]
          /\ At(m, p)[2] \in Int /\ At(m, z)[1] \in Int /\ At(m, z)[2] \in Int
      BY <1>4, <2>2, InOrderFacts
    <3> QED
      BY <3>1
  <2> QED
    BY <1>6, <2>1, <2>2
<1> QED
  BY <1>5, <1>7, <1>8

LEMMA MinFacts ==
  ASSUME NEW T \in SUBSET Nat, T # {}
  PROVE  Min(T) \in T /\ \A n \in T : Min(T) <= n
<1>1. \E n \in T : \A k \in T : n <= k
  BY Least
<1> QED
  BY <1>1 DEF Min

LEMMA FindFacts ==
  ASSUME NEW m \in IndexSets, NEW index \in Int, NEW from \in Iterators(m) \cup {End(m)},
         UpTo(m, from, index)
  PROVE  LET it == find(m, index, from)
         IN /\ it \in Iterators(m) \cup {End(m)} /\ UpTo(m, it, index)
            /\ it \in Iterators(m) => At(m, it)[2] > index
<1> DEFINE outer == {o \in from[1] .. Len(m) : m[o].end > index}
           o == Min(outer)
           inner == {k \in DOMAIN m[o].data :
                      (o = from[1] => k >= from[2]) /\ m[o].data[k][2] > index}
           it == find(m, index, from)
<1>1. m \in Vectors /\ Len(m) \in Nat /\ from[1] \in Nat /\ from[2] \in Nat /\ from[1] >= 1
  <2>1. m \in Vectors
    BY InOrderFacts
  <2>2. Len(m) \in Nat
    BY <2>1, VectorLen
  <2>3. CASE from \in Iterators(m)
    <3>1. from[1] \in 1 .. Len(m) /\ from[1] \in Nat /\ from[2] \in Nat
      BY <2>1, <2>3, IteratorFacts
    <3> QED
      BY <2>1, <2>2, <3>1
  <2>4. CASE from = End(m)
    BY <2>1, <2>2, <2>4 DEF End
  <2> QED
    BY <2>3, <2>4
<1>2. \A p \in Iterators(m) : /\ p = <<p[1], p[2]>> /\ p[1] \in 1 .. Len(m) /\ p[1] \in Nat /\ p[2] \in Nat
                              /\ p[2] \in DOMAIN m[p[1]].data
                              /\ At(m, p)[2] \in Int /\ m[p[1]].end \in Int
                              /\ At(m, p)[2] <= m[p[1]].end
  <2>1. ASSUME NEW p \in Iterators(m)
        PROVE  /\ p = <<p[1], p[2]>> /\ p[1] \in 1 .. Len(m) /\ p[1] \in Nat /\ p[2] \in Nat
               /\ p[2] \in DOMAIN m[p[1]].data
               /\ At(m, p)[2] \in Int /\ m[p[1]].end \in Int
               /\ At(m, p)[2] <= m[p[1]].end
    <3>1. /\ p = <<p[1], p[2]>> /\ p[1] \in 1 .. Len(m) /\ p[1] \in Nat /\ p[2] \in Nat
          /\ p[2] \in 1 .. Len(m[p[1]].data) /\ At(m, p)[2] \in Int
      BY <1>1, IteratorFacts
    <3>2. m[p[1]].data \in Seq(Span) /\ m[p[1]].end \in Int
      BY <1>1, <3>1, ChunkOfVector
    <3>3. At(m, p)[2] <= m[p[1]].end
      BY ChunkBounds
    <3> QED
      BY <3>1, <3>2, <3>3
  <2> QED
    BY <2>1
<1>3. ASSUME NEW p \in Iterators(m), ~Before(p, from), p[1] \notin outer
      PROVE  At(m, p)[2] <= index
  <2>1. p[1] >= from[1]
    BY <1>1, <1>2, <1>3 DEF Before
  <2>2. ~(m[p[1]].end > index)
    BY <1>1, <1>2, <1>3, <2>1
  <2> QED
    BY <1>2, <2>2
<1>4. CASE outer = {}
  <2>1. it = End(m)
    BY <1>4 DEF find
  <2>2. UpTo(m, End(m), index)
    BY <1>3, <1>4 DEF UpTo
  <2> QED
    BY <1>1, <2>1, <2>2, EndFacts
<1>5. CASE outer # {}
  <2>1. o \in outer /\ \A k \in outer : o <= k
    <3>1. outer \in SUBSET Nat
      BY <1>1
    <3> HIDE DEF outer
    <3> QED
      BY <1>5, <3>1, MinFacts
  <2>2. it = IF index < m[o].begin THEN <<o, 1>> ELSE <<o, Min(inner)>>
    BY <1>5 DEF find
  <2>3. o \in from[1] .. Len(m) /\ m[o].end > index /\ o \in 1 .. Len(m) /\ o \in Nat
    <3>1. o \in from[1] .. Len(m) /\ m[o].end > index
      BY <2>1
    <3> HIDE DEF o
    <3> QED
      BY <1>1, <3>1
  <2>4. \A k \in 1 .. Len(m) : k \in outer => o <= k
    BY <2>1
  <2> HIDE DEF o, outer, it
  <2>5. ASSUME NEW p \in Iterators(m), p[1] < o
        PROVE  At(m, p)[2] <= index
    <3>1. CASE Before(p, from)
      BY <3>1 DEF UpTo
    <3>2. CASE ~Before(p, from)
      <4>1. p[1] \notin outer
        BY <1>2, <2>3, <2>4, <2>5
      <4> QED
        BY <1>3, <3>2, <4>1
    <3> QED
      BY <3>1, <3>2
  <2>6. /\ m[o].data \in Seq(Span) /\ Len(m[o].data) \in Nat /\ Len(m[o].data) >= 1
        /\ m[o] \in Chunks /\ m[o].begin \in Int /\ m[o].end \in Int
    <3>1. Len(m[o].data) \in 1 .. MaxSize
      BY <1>1, <2>3, ChunkOfVector
    <3> QED
      BY <1>1, <2>3, <3>1, ChunkOfVector, SetAssumption
  <2>7. m[o].begin = m[o].data[1][1] /\ m[o].end = m[o].data[Len(m[o].data)][2]
    BY <2>6 DEF Chunks, Right
  <2>8. CASE index < m[o].begin
    <3>1. it = <<o, 1>> /\ 1 \in 1 .. Len(m[o].data)
      BY <2>2, <2>6, <2>8
    <3>2. it \in Iterators(m) /\ At(m, it) = m[o].data[1]
      BY <1>1, <2>3, <3>1, IteratorAt
    <3>3. At(m, it)[2] > index
      <4>1. At(m, it)[1] < At(m, it)[2] /\ At(m, it)[1] \in Int /\ At(m, it)[2] \in Int
        BY <3>2, InOrderFacts
      <4> QED
        BY <2>7, <2>8, <3>2, <4>1
    <3>4. ASSUME NEW p \in Iterators(m), Before(p, it)
          PROVE  p[1] < o
      <4>1. it[1] = o /\ it[2] = 1
        BY <3>1
      <4>2. p[2] >= 1 /\ p[2] \in Nat
        BY <1>1, IteratorFacts
      <4> QED
        BY <1>2, <3>4, <4>1, <4>2 DEF Before
    <3>5. UpTo(m, it, index)
      BY <2>5, <3>4 DEF UpTo
    <3> QED
      BY <3>2, <3>3, <3>5 DEF it
  <2>9. CASE ~(index < m[o].begin)
    <3> DEFINE k == Min(inner)
               n == Len(m[o].data)
    <3>1. DOMAIN m[o].data = 1 .. n /\ n \in Nat /\ n >= 1
      BY <2>6
    <3>2. n \in inner
      <4>1. o = from[1] => n >= from[2]
        <5>1. ASSUME o = from[1]
              PROVE  n >= from[2]
          <6>1. from \in Iterators(m)
            BY <1>1, <2>3, <5>1 DEF End
          <6>2. from[2] \in 1 .. Len(m[from[1]].data)
            BY <1>1, <6>1, IteratorFacts
          <6> QED
            BY <5>1, <6>2, <3>1
        <5> QED
          BY <5>1
      <4>2. m[o].data[n][2] > index
        BY <2>3, <2>7
      <4> QED
        BY <3>1, <4>1, <4>2
    <3>3. k \in inner /\ \A i \in inner : k <= i
      <4>1. inner \in SUBSET Nat
        BY <3>1
      <4> HIDE DEF inner
      <4> QED
        BY <3>2, <4>1, MinFacts
    <3>4. k \in 1 .. n /\ m[o].data[k][2] > index /\ k \in Nat
      <4>1. k \in DOMAIN m[o].data /\ m[o].data[k][2] > index
        BY <3>3
      <4> HIDE DEF k
      <4> QED
        BY <3>1, <4>1
    <3>5. it = <<o, k>>
      BY <2>2, <2>9
    <3> HIDE DEF k
    <3>6. it \in Iterators(m) /\ At(m, it) = m[o].data[k]
      BY <1>1, <2>3, <3>4, <3>5, IteratorAt
    <3>7. ASSUME NEW p \in Iterators(m), Before(p, it)
          PROVE  At(m, p)[2] <= index
      <4>1. it[1] = o /\ it[2] = k
        BY <3>5
      <4>2. p[1] < o \/ (p[1] = o /\ p[2] < k)
        BY <3>7, <4>1 DEF Before
      <4>3. CASE p[1] = o /\ p[2] < k
        <5>1. p[2] \notin inner /\ p[2] \in DOMAIN m[o].data
          BY <1>2, <3>3, <3>4, <4>3
        <5>2. CASE m[o].data[p[2]][2] <= index
          BY <4>3, <5>2 DEF At
        <5>3. CASE ~(m[o].data[p[2]][2] <= index)
          <6>1. m[o].data[p[2]][2] > index
            <7>1. m[o].data[p[2]][2] \in Int
              BY <1>2, <4>3 DEF At
            <7> QED
              BY <5>3, <7>1
          <6>2. o = from[1] /\ ~(p[2] >= from[2])
            BY <5>1, <6>1
          <6>3. Before(p, from)
            BY <1>1, <1>2, <4>3, <6>2 DEF Before
          <6> QED
            BY <6>3 DEF UpTo
        <5> QED
          BY <5>2, <5>3
      <4> QED
        BY <2>5, <4>2, <4>3
    <3>8. UpTo(m, it, index)
      BY <3>7 DEF UpTo
    <3> QED
      BY <3>4, <3>6, <3>8 DEF it
  <2> QED
    BY <2>8, <2>9
<1> QED
  BY <1>4, <1>5

-----------------------------------------------------------------------------
(* do_add: the index joins a range, or two, or is one of its own           *)

LEMMA RangeChanged ==
  ASSUME NEW m \in IndexSets, NEW n \in Vectors, SameShape(m, n), NEW it \in Iterators(m),
         NEW S \in SUBSET Iterators(m), NEW b \in Int, NEW z \in Int, b < z,
         \A p \in Iterators(m) : At(n, p) = IF p = it THEN <<b, z>> ELSE At(m, p),
         \A p \in S : /\ Before(p, it) => At(m, p)[2] < b
                      /\ Before(it, p) => z < At(m, p)[1]
  PROVE  Apart(n, S)
<1>1. \A p \in Iterators(m) : /\ p \in Positions
                              /\ At(n, p)[1] = (IF p = it THEN b ELSE At(m, p)[1])
                              /\ At(n, p)[2] = (IF p = it THEN z ELSE At(m, p)[2])
                              /\ At(m, p)[1] < At(m, p)[2]
  BY InOrderFacts
<1>2. \A p \in S : At(n, p)[1] < At(n, p)[2]
  BY <1>1
<1>3. ASSUME NEW p \in S, NEW q \in S, Before(p, q)
      PROVE  At(n, p)[2] < At(n, q)[1]
  <2>1. At(m, p)[2] < At(m, q)[1]
    BY <1>3, InOrderFacts
  <2>2. p # q
    BY <1>1, <1>3, Order
  <2>3. CASE p = it
    BY <1>1, <1>3, <2>2, <2>3
  <2>4. CASE q = it
    BY <1>1, <1>3, <2>2, <2>4
  <2>5. CASE p # it /\ q # it
    BY <1>1, <2>1, <2>5
  <2> QED
    BY <2>3, <2>4, <2>5
<1> QED
  BY <1>2, <1>3 DEF Apart

LEMMA ChangedInOrder ==
  ASSUME NEW m \in IndexSets, NEW n \in Vectors, SameShape(m, n), NEW it \in Iterators(m),
         NEW b \in Int, NEW z \in Int, b < z,
         \A p \in Iterators(m) : At(n, p) = IF p = it THEN <<b, z>> ELSE At(m, p),
         \A p \in Iterators(m) : /\ Before(p, it) => At(m, p)[2] < b
                                 /\ Before(it, p) => z < At(m, p)[1]
  PROVE  n \in IndexSets
<1>1. Apart(n, Iterators(m))
  BY RangeChanged
<1>2. m \in Vectors
  BY InOrderFacts
<1>3. Iterators(n) = Iterators(m)
  BY <1>2, ShapeFacts
<1> QED
  BY <1>1, <1>3 DEF IndexSets, InOrder

\* What is behind the range before it.
LEMMA PrevFacts ==
  ASSUME NEW m \in IndexSets, NEW it \in Iterators(m) \cup {End(m)}, it # Begin(m)
  PROVE  LET prev == Pred(m, it)
         IN /\ prev \in Iterators(m) /\ Before(prev, it) /\ prev # it
            /\ \A p \in Iterators(m) :
                 /\ Before(p, it) => /\ p = prev \/ Before(p, prev)
                                     /\ At(m, p)[2] <= At(m, prev)[2]
                 /\ Before(prev, p) => p = it \/ Before(it, p)
<1> DEFINE prev == Pred(m, it)
<1>1. m \in Vectors /\ it \in Positions
  BY InOrderFacts, IteratorFacts, EndFacts
<1>2. /\ prev \in Iterators(m) /\ Before(prev, it)
      /\ \A p \in Iterators(m) : Before(p, it) => p = prev \/ Before(p, prev)
  BY <1>1, PredFacts
<1> HIDE DEF prev
<1>3. prev \in Positions /\ prev # it
  BY <1>1, <1>2, IteratorFacts, Order
<1>4. ASSUME NEW p \in Iterators(m), Before(p, it)
      PROVE  At(m, p)[2] <= At(m, prev)[2]
  <2>1. CASE p = prev
    BY <1>2, <2>1, InOrderFacts
  <2>2. CASE Before(p, prev)
    <3>1. /\ At(m, p)[2] < At(m, prev)[1] /\ At(m, prev)[1] < At(m, prev)[2]
          /\ At(m, p)[2] \in Int /\ At(m, prev)[1] \in Int /\ At(m, prev)[2] \in Int
      BY <1>2, <2>2, InOrderFacts
    <3> QED
      BY <3>1
  <2> QED
    BY <1>2, <1>4, <2>1, <2>2
<1>5. ASSUME NEW p \in Iterators(m), Before(prev, p)
      PROVE  p = it \/ Before(it, p)
  <2>1. p \in Positions
    BY <1>1, IteratorFacts
  <2>2. ~Before(p, it)
    <3>1. ~(p = prev) /\ ~Before(p, prev)
      BY <1>3, <1>5, <2>1, Order
    <3> QED
      BY <1>2, <3>1
  <2> QED
    BY <1>1, <2>1, <2>2, Order
<1> QED
  BY <1>2, <1>3, <1>4, <1>5 DEF prev

\* It is added, the iterator that comes with it is where it is; where there
\* is a gap behind it, the range there stops with it.
Added(m, it, index, n, e) ==
  /\ n \in IndexSets /\ e \in Iterators(n) /\ UpTo(n, e, index)
  /\ \A high \in Int : high > index + 1 /\ FromOn(m, it, high) =>
       /\ At(n, e)[2] = index + 1
       /\ \A p \in Iterators(n) : Before(e, p) => high <= At(n, p)[1]

LEMMA AddHere ==
  ASSUME NEW m \in IndexSets, NEW index \in Int, NEW it \in Iterators(m),
         UpTo(m, it, index), At(m, it)[1] <= index
  PROVE  Added(m, it, index, m, it)
<1>1. At(m, it)[1] \in Int /\ it \in Positions
  BY InOrderFacts
<1>2. ~Before(it, it)
  BY <1>1, Order
<1>3. \A high \in Int : FromOn(m, it, high) => high <= At(m, it)[1]
  BY <1>2 DEF FromOn
<1> QED
  BY <1>1, <1>3 DEF Added

LEMMA AddBehind ==
  ASSUME NEW m \in IndexSets, NEW index \in Int, NEW it \in Iterators(m) \cup {End(m)},
         UpTo(m, it, index), it \in Iterators(m) => At(m, it)[1] > index + 1,
         it # Begin(m), At(m, Pred(m, it))[2] = index
  PROVE  Added(m, it, index, adjust(m, Pred(m, it), 0, 1), Pred(m, it))
<1> DEFINE prev == Pred(m, it)
           n == adjust(m, prev, 0, 1)
<1>1. /\ prev \in Iterators(m) /\ Before(prev, it)
      /\ \A p \in Iterators(m) :
           /\ Before(p, it) => p = prev \/ Before(p, prev)
           /\ Before(prev, p) => p = it \/ Before(it, p)
  BY PrevFacts
<1>2. m \in Vectors /\ At(m, prev)[1] \in Int /\ At(m, prev)[1] < index /\ prev \in Positions
  BY <1>1, InOrderFacts
<1> HIDE DEF prev
<1>3. /\ n \in Vectors /\ SameShape(m, n)
      /\ \A p \in Iterators(m) :
           At(n, p) = IF p = prev THEN <<At(m, prev)[1], index + 1>> ELSE At(m, p)
  <2>1. /\ n \in Vectors /\ SameShape(m, n)
        /\ \A p \in Iterators(m) :
             At(n, p) = IF p = prev THEN <<At(m, prev)[1] + 0, At(m, prev)[2] + 1>> ELSE At(m, p)
    BY <1>1, <1>2, Adjusted
  <2>2. At(m, prev)[2] = index
    BY DEF prev
  <2> QED
    BY <1>2, <2>1, <2>2
<1> HIDE DEF n
<1>4. Iterators(n) = Iterators(m)
  BY <1>2, <1>3, ShapeFacts
<1>5. ASSUME NEW p \in Iterators(m), Before(prev, p)
      PROVE  index + 1 < At(m, p)[1] /\ (p = it \/ Before(it, p))
  <2>1. p = it \/ Before(it, p)
    BY <1>1, <1>5
  <2>2. CASE p = it
    BY <2>2, InOrderFacts
  <2>3. CASE Before(it, p)
    <3>1. it \in Iterators(m)
      BY <1>2, <2>3, EndFacts, IteratorFacts, Order
    <3>2. At(m, it)[1] < At(m, it)[2] /\ At(m, it)[2] < At(m, p)[1]
      BY <2>3, <3>1, InOrderFacts
    <3>3. At(m, it)[1] \in Int /\ At(m, it)[2] \in Int /\ At(m, p)[1] \in Int
      BY <3>1, InOrderFacts
    <3> QED
      BY <2>1, <3>1, <3>2, <3>3
  <2> QED
    BY <2>1, <2>2, <2>3
<1>6. \A p \in Iterators(m) : Before(p, prev) => At(m, p)[2] < At(m, prev)[1]
  BY <1>1, InOrderFacts
<1>7. n \in IndexSets
  <2> DEFINE b == At(m, prev)[1]
  <2>1. b \in Int /\ index + 1 \in Int /\ b < index + 1
    BY <1>2
  <2> HIDE DEF b
  <2>2. \A p \in Iterators(m) : At(n, p) = IF p = prev THEN <<b, index + 1>> ELSE At(m, p)
    BY <1>3 DEF b
  <2>3. \A p \in Iterators(m) : /\ Before(p, prev) => At(m, p)[2] < b
                                /\ Before(prev, p) => index + 1 < At(m, p)[1]
    BY <1>5, <1>6 DEF b
  <2> QED
    BY <1>1, <1>3, <2>1, <2>2, <2>3, ChangedInOrder
<1>8. UpTo(n, prev, index)
  <2>1. ASSUME NEW p \in Iterators(m), Before(p, prev)
        PROVE  At(n, p)[2] <= index
    <3>1. p # prev /\ p \in Positions
      BY <1>2, <2>1, IteratorFacts, Order
    <3>2. At(m, p)[2] < At(m, prev)[1] /\ At(m, p)[2] \in Int
      BY <1>6, <2>1, InOrderFacts
    <3> QED
      BY <1>2, <1>3, <3>1, <3>2
  <2> QED
    BY <1>4, <2>1 DEF UpTo
<1>9. ASSUME NEW high \in Int, FromOn(m, it, high), NEW p \in Iterators(n), Before(prev, p)
      PROVE  high <= At(n, p)[1]
  <2>1. p \in Iterators(m) /\ p # prev /\ p \in Positions
    BY <1>2, <1>4, <1>9, IteratorFacts, Order
  <2>2. ~Before(p, it)
    <3>1. p = it \/ Before(it, p)
      BY <1>5, <1>9, <2>1
    <3>2. it \in Positions
      BY <1>2, IteratorFacts, EndFacts
    <3> QED
      BY <2>1, <3>1, <3>2, Order
  <2> QED
    BY <1>3, <1>9, <2>1, <2>2 DEF FromOn
<1>10. At(n, prev)[2] = index + 1
  BY <1>1, <1>3
<1> QED
  BY <1>1, <1>4, <1>7, <1>8, <1>9, <1>10 DEF Added, prev, n

LEMMA AddInFront ==
  ASSUME NEW m \in IndexSets, NEW index \in Int, NEW it \in Iterators(m),
         At(m, it)[1] = index + 1, \A p \in Iterators(m) : Before(p, it) => At(m, p)[2] < index
  PROVE  Added(m, it, index, adjust(m, it, -1, 0), it)
<1> DEFINE n == adjust(m, it, -1, 0)
           z == At(m, it)[2]
<1>1. m \in Vectors /\ z \in Int /\ index < z /\ it \in Positions
  <2>1. m \in Vectors /\ z \in Int /\ At(m, it)[1] < z /\ it \in Positions
    BY InOrderFacts
  <2> HIDE DEF z
  <2> QED
    BY <2>1
<1>2. /\ n \in Vectors /\ SameShape(m, n)
      /\ \A p \in Iterators(m) : At(n, p) = IF p = it THEN <<index, z>> ELSE At(m, p)
  <2>1. -1 \in Int /\ 0 \in Int
    OBVIOUS
  <2>2. /\ n \in Vectors /\ SameShape(m, n)
        /\ \A p \in Iterators(m) :
             At(n, p) = IF p = it THEN <<At(m, it)[1] + (-1), At(m, it)[2] + 0>> ELSE At(m, p)
    BY <1>1, <2>1, Adjusted
  <2>3. At(m, it)[1] + (-1) = index /\ At(m, it)[2] + 0 = z
    BY <1>1
  <2> HIDE DEF n, z
  <2> QED
    BY <2>2, <2>3
<1> HIDE DEF n, z
<1>3. Iterators(n) = Iterators(m)
  BY <1>1, <1>2, ShapeFacts
<1>4. n \in IndexSets
  <2>1. \A p \in Iterators(m) : /\ Before(p, it) => At(m, p)[2] < index
                                /\ Before(it, p) => z < At(m, p)[1]
    BY InOrderFacts DEF z
  <2> QED
    BY <1>1, <1>2, <2>1, ChangedInOrder
<1>5. UpTo(n, it, index)
  <2>1. ASSUME NEW p \in Iterators(m), Before(p, it)
        PROVE  At(n, p)[2] <= index
    <3>1. p # it
      BY <1>1, <2>1, Order
    <3>2. At(m, p)[2] < index /\ At(m, p)[2] \in Int
      BY <2>1, InOrderFacts
    <3> QED
      BY <1>2, <3>1, <3>2
  <2> QED
    BY <1>3, <2>1 DEF UpTo
<1>6. \A high \in Int : ~(high > index + 1 /\ FromOn(m, it, high))
  <2>1. ~Before(it, it)
    BY <1>1, Order
  <2> QED
    BY <2>1 DEF FromOn
<1> QED
  BY <1>3, <1>4, <1>5, <1>6 DEF Added, n

LEMMA AddBetween ==
  ASSUME NEW m \in IndexSets, NEW index \in Int, NEW it \in Iterators(m),
         At(m, it)[1] = index + 1, it # Begin(m), At(m, Pred(m, it))[2] = index
  PROVE  LET e == erase(adjust(m, Pred(m, it), 0, Size(At(m, it)) + 1), it)
         IN Added(m, it, index, e[1], Pred(e[1], e[2]))
<1> DEFINE prev == Pred(m, it)
           d == Size(At(m, it)) + 1
           u == adjust(m, prev, 0, d)
           n == erase(u, it)[1]
           f == erase(u, it)[2]
           e == Pred(n, f)
           b == At(m, prev)[1]
           z == At(m, it)[2]
<1>1. /\ prev \in Iterators(m) /\ Before(prev, it) /\ prev # it
      /\ \A p \in Iterators(m) :
           /\ Before(p, it) => p = prev \/ Before(p, prev)
           /\ Before(prev, p) => p = it \/ Before(it, p)
  BY PrevFacts
<1>2. /\ m \in Vectors /\ b \in Int /\ b < index /\ prev \in Positions /\ z \in Int /\ index + 1 < z
      /\ it \in Positions /\ At(m, it)[1] \in Int
  <2>1. prev \in Iterators(m)
    BY <1>1
  <2> HIDE DEF prev
  <2>2. m \in Vectors /\ b \in Int /\ b < At(m, prev)[2] /\ prev \in Positions /\ z \in Int
        /\ At(m, it)[1] < z /\ it \in Positions /\ At(m, it)[1] \in Int
    BY <2>1, InOrderFacts
  <2> QED
    BY <2>2 DEF prev
<1>3. d \in Int /\ index + d = z
  <2>1. d = z - (index + 1) + 1
    BY DEF Size
  <2> HIDE DEF d, z
  <2> QED
    BY <1>2, <2>1
<1>4. At(m, prev)[2] = index
  OBVIOUS
<1> HIDE DEF prev, d
<1>5. /\ u \in Vectors /\ SameShape(m, u)
      /\ \A p \in Iterators(m) : At(u, p) = IF p = prev THEN <<b, z>> ELSE At(m, p)
  <2>1. /\ u \in Vectors /\ SameShape(m, u)
        /\ \A p \in Iterators(m) :
             At(u, p) = IF p = prev THEN <<At(m, prev)[1] + 0, At(m, prev)[2] + d>> ELSE At(m, p)
    BY <1>1, <1>2, <1>3, Adjusted
  <2>2. At(m, prev)[1] + 0 = b /\ At(m, prev)[2] + d = z
    BY <1>2, <1>3, <1>4
  <2> HIDE DEF u, b, z
  <2> QED
    BY <2>1, <2>2
<1> HIDE DEF u
<1>6. Iterators(u) = Iterators(m) /\ Begin(u) = Begin(m)
  BY <1>2, <1>5, ShapeFacts
<1>7. \A p \in Iterators(m) : Before(p, prev) => At(m, p)[2] < b
  BY <1>1, InOrderFacts
<1>8. Apart(u, Iterators(u) \ {it})
  <2>1. ASSUME NEW p \in Iterators(m) \ {it}, Before(prev, p)
        PROVE  z < At(m, p)[1]
    <3>1. Before(it, p)
      BY <1>1, <2>1
    <3> QED
      BY <3>1, InOrderFacts
  <2>2. b < z
    BY <1>2
  <2> HIDE DEF b, z
  <2>3. Apart(u, Iterators(m) \ {it})
    <3> DEFINE S == Iterators(m) \ {it}
    <3>1. S \in SUBSET Iterators(m)
      OBVIOUS
    <3>2. \A p \in S : /\ Before(p, prev) => At(m, p)[2] < b
                       /\ Before(prev, p) => z < At(m, p)[1]
      BY <1>7, <2>1
    <3> HIDE DEF S
    <3>3. Apart(u, S)
      BY <1>1, <1>2, <1>5, <2>2, <3>1, <3>2, RangeChanged
    <3> QED
      BY <3>3 DEF S
  <2> QED
    BY <1>6, <2>3
<1>9. /\ n \in IndexSets /\ f \in Iterators(n) \cup {End(n)} /\ f # Begin(n)
      /\ Left(n, f, u, it)
  BY <1>5, <1>6, <1>8, EraseInOrder
<1> HIDE DEF n, f
<1>10. e \in Iterators(n) /\ Before(e, f) /\ e \in Positions /\ f \in Positions
  <2>1. n \in Vectors
    BY <1>9, InOrderFacts
  <2>2. e \in Iterators(n) /\ Before(e, f)
    BY <1>9, <2>1, PredFacts
  <2> QED
    BY <1>9, <2>1, <2>2, IteratorFacts, EndFacts
<1> HIDE DEF e
<1>11. UpTo(n, e, index)
  <2>1. ASSUME NEW p \in Iterators(n), Before(p, e)
        PROVE  At(n, p)[2] <= index
    <3>1. Before(p, f)
      <4>1. p \in Positions
        BY <1>9, InOrderFacts
      <4> QED
        BY <1>10, <2>1, <4>1, Order
    <3>2. PICK q \in Iterators(u) \ {it} : At(n, p) = At(u, q) /\ Before(q, it)
      BY <1>9, <3>1 DEF Left
    <3>3. PICK r \in Iterators(u) \ {it} : At(n, e) = At(u, r) /\ Before(r, it)
      BY <1>9, <1>10 DEF Left
    <3>4. At(u, q)[2] < At(u, r)[1]
      BY <1>9, <1>10, <2>1, <3>2, <3>3, InOrderFacts
    <3>5. q = prev \/ Before(q, prev)
      BY <1>1, <1>6, <3>2
    <3>6. r = prev \/ Before(r, prev)
      BY <1>1, <1>6, <3>3
    <3>7. At(u, r)[1] <= b /\ At(u, r)[1] \in Int
      <4>1. CASE r = prev
        BY <1>1, <1>2, <1>5, <4>1
      <4>2. CASE Before(r, prev)
        <5>1. r # prev
          BY <1>2, <4>2, Order
        <5>2. r \in Iterators(m)
          BY <1>6
        <5>3. At(u, r) = At(m, r) /\ At(m, r)[2] < b
          BY <1>5, <1>7, <4>2, <5>1, <5>2
        <5>4. At(m, r)[1] < At(m, r)[2] /\ At(m, r)[1] \in Int /\ At(m, r)[2] \in Int
          BY <5>2, InOrderFacts
        <5> HIDE DEF b
        <5> QED
          BY <1>2, <5>3, <5>4
      <4> QED
        BY <3>6, <4>1, <4>2
    <3>8. q # prev
      <4>1. ASSUME q = prev
            PROVE  FALSE
        <5>1. At(u, q)[2] = z
          BY <1>1, <1>5, <4>1
        <5> HIDE DEF b, z
        <5> QED
          BY <1>2, <3>4, <3>7, <5>1
      <4> QED
        BY <4>1
    <3>9. q \in Iterators(m) /\ Before(q, prev)
      BY <1>6, <3>5, <3>8
    <3>10. At(u, q) = At(m, q) /\ At(m, q)[2] < b /\ At(m, q)[2] \in Int
      BY <1>5, <1>7, <3>8, <3>9, InOrderFacts
    <3> HIDE DEF b
    <3> QED
      BY <1>2, <3>2, <3>10
  <2> QED
    BY <2>1 DEF UpTo
<1>12. \A high \in Int : ~(high > index + 1 /\ FromOn(m, it, high))
  <2>1. ~Before(it, it)
    BY <1>2, Order
  <2> QED
    BY <2>1 DEF FromOn
<1> QED
  BY <1>9, <1>10, <1>11, <1>12 DEF Added, e, n, f, u, prev, d

LEMMA AddAlone ==
  ASSUME NEW m \in IndexSets, NEW index \in Int, NEW it \in Iterators(m) \cup {End(m)},
         \A p \in Iterators(m) : IF Before(p, it) THEN At(m, p)[2] < index
                                 ELSE index + 1 < At(m, p)[1]
  PROVE  LET e == insert(m, it, <<index, index + 1>>)
         IN Added(m, it, index, e[1], e[2])
<1> DEFINE r == <<index, index + 1>>
           n == insert(m, it, r)[1]
           e == insert(m, it, r)[2]
<1>1. r \in Span /\ r[1] = index /\ r[2] = index + 1 /\ r[1] < r[2]
  BY DEF Span
<1> HIDE DEF r
<1>2. n \in IndexSets /\ e \in Iterators(n) /\ At(n, e) = r /\ Joined(n, e, m, it)
  BY <1>1, InsertFacts
<1> HIDE DEF n, e
<1>3. e \in Positions
  BY <1>2, InOrderFacts
<1>4. ASSUME NEW p \in Iterators(n), p # e
      PROVE  \E q \in Iterators(m) : At(n, p) = At(m, q) /\ (Before(p, e) <=> Before(q, it))
                                     /\ At(m, q)[2] \in Int
  BY <1>2, <1>4, InOrderFacts DEF Joined
<1>5. UpTo(n, e, index)
  <2>1. ASSUME NEW p \in Iterators(n), Before(p, e)
        PROVE  At(n, p)[2] <= index
    <3>1. p # e
      BY <1>3, <2>1, Order
    <3>2. PICK q \in Iterators(m) : At(n, p) = At(m, q) /\ Before(q, it) /\ At(m, q)[2] \in Int
      BY <1>4, <2>1, <3>1
    <3>3. At(m, q)[2] < index
      BY <3>2
    <3> QED
      BY <3>2, <3>3
  <2> QED
    BY <2>1 DEF UpTo
<1>6. ASSUME NEW high \in Int, FromOn(m, it, high), NEW p \in Iterators(n), Before(e, p)
      PROVE  high <= At(n, p)[1]
  <2>1. p # e /\ ~Before(p, e)
    <3>1. p \in Positions
      BY <1>2, InOrderFacts
    <3> QED
      BY <1>3, <1>6, <3>1, Order
  <2>2. PICK q \in Iterators(m) : At(n, p) = At(m, q) /\ ~Before(q, it)
    BY <1>4, <2>1
  <2> QED
    BY <1>6, <2>2 DEF FromOn
<1> QED
  BY <1>1, <1>2, <1>5, <1>6 DEF Added, n, e, r

LEMMA DoAddFacts ==
  ASSUME NEW m \in IndexSets, NEW index \in Int, NEW it \in Iterators(m) \cup {End(m)},
         UpTo(m, it, index), it \in Iterators(m) => At(m, it)[2] > index
  PROVE  Added(m, it, index, do_add(m, it, index)[1], do_add(m, it, index)[2])
<1> DEFINE before == it # Begin(m)
           valid == ~AtEnd(m, it)
           prev == Pred(m, it)
           d == do_add(m, it, index)
<1>1. valid <=> it \in Iterators(m)
  <2>1. m \in Vectors
    BY InOrderFacts
  <2> QED
    BY <2>1, EndFacts DEF AtEnd
<1>2. valid => At(m, it)[1] \in Int /\ At(m, it)[2] \in Int
  BY <1>1, InOrderFacts
<1> HIDE DEF valid
<1>3. CASE valid /\ At(m, it)[1] <= index /\ At(m, it)[2] > index
  <2>1. d = <<m, it>>
    BY <1>3 DEF do_add, valid
  <2> HIDE DEF d
  <2>2. Added(m, it, index, m, it)
    BY <1>1, <1>3, AddHere
  <2> QED
    BY <2>1, <2>2 DEF d
<1>4. CASE ~(valid /\ At(m, it)[1] <= index /\ At(m, it)[2] > index)
  <2>1. valid => At(m, it)[1] > index
    BY <1>1, <1>2, <1>4
  <2>2. CASE before /\ At(m, prev)[2] = index /\ valid /\ At(m, it)[1] = index + 1
    <3> DEFINE e == erase(adjust(m, prev, 0, Size(At(m, it)) + 1), it)
    <3>1. d = <<e[1], Pred(e[1], e[2])>>
      BY <1>4, <2>2, Zenon DEF do_add, valid
    <3>2. Added(m, it, index, e[1], Pred(e[1], e[2]))
      BY <1>1, <2>2, AddBetween
    <3> HIDE DEF e, d
    <3> QED
      BY <3>1, <3>2 DEF d
  <2>3. CASE before /\ At(m, prev)[2] = index /\ ~(valid /\ At(m, it)[1] = index + 1)
    <3>1. d = <<adjust(m, prev, 0, 1), prev>>
      BY <1>4, <2>3, Zenon DEF do_add, valid
    <3>2. it \in Iterators(m) => At(m, it)[1] > index + 1
      BY <1>1, <1>2, <2>1, <2>3
    <3>3. Added(m, it, index, adjust(m, prev, 0, 1), prev)
      BY <2>3, <3>2, AddBehind
    <3> HIDE DEF d, prev
    <3> QED
      BY <3>1, <3>3 DEF d
  <2>4. CASE ~(before /\ At(m, prev)[2] = index)
    <3>1. ASSUME NEW p \in Iterators(m), Before(p, it)
          PROVE  At(m, p)[2] < index
      <4>1. CASE before
        <5>1. /\ prev \in Iterators(m) /\ Before(prev, it) /\ At(m, p)[2] <= At(m, prev)[2]
          BY <3>1, <4>1, PrevFacts
        <5>2. At(m, prev)[2] # index /\ At(m, prev)[2] <= index /\ At(m, prev)[2] \in Int
          BY <2>4, <4>1, <5>1, InOrderFacts DEF UpTo
        <5>3. At(m, p)[2] \in Int
          BY InOrderFacts
        <5> HIDE DEF prev
        <5> QED
          BY <5>1, <5>2, <5>3
      <4>2. CASE ~before
        BY <3>1, <4>2, InOrderFacts, BeginFacts
      <4> QED
        BY <4>1, <4>2
    <3>2. CASE valid /\ At(m, it)[1] = index + 1
      <4>1. d = <<adjust(m, it, -1, 0), it>>
        BY <1>4, <2>4, <3>2, Zenon DEF do_add, valid
      <4>2. Added(m, it, index, adjust(m, it, -1, 0), it)
        BY <1>1, <3>1, <3>2, AddInFront
      <4> HIDE DEF d
      <4> QED
        BY <4>1, <4>2 DEF d
    <3>3. CASE ~(valid /\ At(m, it)[1] = index + 1)
      <4> DEFINE e == insert(m, it, <<index, index + 1>>)
      <4>1. d = e
        BY <1>4, <2>4, <3>3, Zenon DEF do_add, valid
      <4>2. ASSUME NEW p \in Iterators(m), ~Before(p, it)
            PROVE  index + 1 < At(m, p)[1]
        <5>1. p = it \/ Before(it, p)
          BY <4>2, InOrderFacts, IteratorFacts, EndFacts, Order
        <5>2. it \in Iterators(m)
          <6>1. m \in Vectors /\ p \in Positions
            BY InOrderFacts
          <6> QED
            BY <4>2, <6>1, EndFacts
        <5>3. At(m, it)[1] > index + 1 /\ At(m, it)[1] \in Int
          BY <1>1, <1>2, <2>1, <3>3, <5>2
        <5>4. CASE Before(it, p)
          <6>1. /\ At(m, it)[1] < At(m, it)[2] /\ At(m, it)[2] < At(m, p)[1]
                /\ At(m, it)[2] \in Int /\ At(m, p)[1] \in Int
            BY <5>2, <5>4, InOrderFacts
          <6> QED
            BY <5>3, <6>1
        <5> QED
          BY <5>1, <5>3, <5>4
      <4>3. Added(m, it, index, e[1], e[2])
        BY <3>1, <4>2, AddAlone
      <4> HIDE DEF d, e
      <4> QED
        BY <4>1, <4>3 DEF d
    <3> QED
      BY <3>2, <3>3
  <2> QED
    BY <2>2, <2>3, <2>4
<1> QED
  BY <1>3, <1>4

-----------------------------------------------------------------------------
(* add, and the sets made by adding one index after the other              *)

LEMMA NothingBefore ==
  ASSUME NEW m \in IndexSets, NEW index
  PROVE  Begin(m) \in Iterators(m) \cup {End(m)} /\ UpTo(m, Begin(m), index)
<1>1. m \in Vectors
  BY InOrderFacts
<1> QED
  BY <1>1, BeginFacts DEF UpTo

LEMMA AddFacts ==
  ASSUME NEW m \in IndexSets, NEW index \in Int
  PROVE  add(m, index) \in IndexSets
<1> DEFINE b == Begin(m)
           it == find(m, index, b)
<1>1. b \in Iterators(m) \cup {End(m)} /\ UpTo(m, b, index)
  BY NothingBefore
<1> HIDE DEF b
<1>2. /\ it \in Iterators(m) \cup {End(m)} /\ UpTo(m, it, index)
      /\ it \in Iterators(m) => At(m, it)[2] > index
  BY <1>1, FindFacts
<1> HIDE DEF it
<1>3. do_add(m, it, index)[1] \in IndexSets
  BY <1>2, DoAddFacts DEF Added
<1> QED
  BY <1>3 DEF add, it, b

LEMMA EmptySet == <<>> \in IndexSets
<1>1. <<>> \in Vectors
  BY DEF Vectors
<1>2. Iterators(<<>>) = {}
  BY <1>1, BeginFacts
<1> QED
  BY <1>1, <1>2 DEF IndexSets, InOrder, Apart

LEMMA IndexSetOfFacts ==
  ASSUME NEW S
  PROVE  IndexSetOf(S) \in IndexSets
<1> DEFINE N == MaxOther + 1
           I == (0 .. N) \X IndexSets
           Step(v, k) == IF k - 1 \in S THEN add(v, k - 1) ELSE v
           F == [p \in I |-> Step(p[2], p[1] + 1)]
           Eq(f) == f = [k \in 0 .. N |-> IF k = 0 THEN <<>> ELSE Step(f[k - 1], k)]
           loop == CHOOSE f : Eq(f)
<1>1. N \in Nat /\ <<0, <<>>>> \in I
  BY SetAssumption, EmptySet
<1>2. ASSUME NEW k \in 1 .. N, NEW v, <<k - 1, v>> \in I
      PROVE  <<k, Step(v, k)>> \in I
  <2>1. v \in IndexSets /\ k - 1 \in Int /\ k \in 0 .. N
    BY <1>1, <1>2
  <2> QED
    BY <2>1, AddFacts
<1>3. Within(N, I, loop) /\ loop[0] = <<>>
  <2> HIDE DEF I, N, Step
  <2>1. ASSUME NEW k \in 1 .. N, NEW v, <<k - 1, v>> \in I
        PROVE  F[<<k - 1, v>>] = Step(v, k)
    <3>1. k - 1 + 1 = k
      BY <1>1
    <3> QED
      BY <2>1, <3>1
  <2>2. PICK f : LedBy(N, <<>>, F, f) /\ Within(N, I, f)
    <3>1. \A k \in 1 .. N : \A v : <<k - 1, v>> \in I => <<k, F[<<k - 1, v>>]>> \in I
      BY <1>2, <2>1
    <3> HIDE DEF F
    <3> QED
      BY <1>1, <3>1, Rounds, Zenon
  <2>3. Eq(f)
    <3>1. ASSUME NEW k \in 1 .. N
          PROVE  f[k] = Step(f[k - 1], k)
      <4>1. k - 1 \in 0 .. N
        BY <1>1
      <4>2. <<k - 1, f[k - 1]>> \in I /\ f[k] = F[<<k - 1, f[k - 1]>>]
        BY <2>2, <4>1 DEF LedBy, Within
      <4> HIDE DEF F
      <4> QED
        BY <2>1, <4>2
    <3>2. f = [k \in 0 .. N |-> f[k]] /\ f[0] = <<>>
      BY <2>2 DEF LedBy
    <3> DEFINE h == [k \in 0 .. N |-> IF k = 0 THEN <<>> ELSE Step(f[k - 1], k)]
    <3>3. ASSUME NEW k \in 0 .. N
          PROVE  h[k] = f[k]
      <4>1. k = 0 \/ k \in 1 .. N
        BY <1>1
      <4> QED
        BY <3>1, <3>2, <4>1
    <3>4. h = [k \in 0 .. N |-> h[k]]
      OBVIOUS
    <3>5. h = f
      <4> HIDE DEF h
      <4> QED
        BY <3>2, <3>3, <3>4
    <3> QED
      BY <3>5
  <2>4. Eq(loop)
    <3> HIDE DEF Eq
    <3> QED
      BY <2>3
  <2> HIDE DEF loop
  <2>5. loop[0] = <<>> /\ \A k \in 1 .. N : loop[k] = Step(loop[k - 1], k)
    BY <1>1, <2>4
  <2>6. \A k \in 1 .. N : <<k - 1, loop[k - 1]>> \in I => <<k, loop[k]>> \in I
    BY <1>2, <2>5
  <2>7. Within(N, I, loop)
    <3> HIDE DEF F, Eq
    <3> QED
      BY <1>1, <2>5, <2>6, EveryRound
  <2> QED
    BY <2>5, <2>7
<1>4. IndexSetOf(S) = loop[N]
  BY DEF IndexSetOf
<1> HIDE DEF loop
<1>5. loop[N] \in IndexSets
  <2> HIDE DEF N
  <2>1. N \in 0 .. N
    BY <1>1
  <2> QED
    BY <1>3, <2>1 DEF Within
<1> QED
  BY <1>4, <1>5

-----------------------------------------------------------------------------
(* The ranges and the indices of a set, one after the other                *)

Filled == {r \in Span : r[1] < r[2]}
Rows == {s \in Seq(Filled) : \A i, j \in 1 .. Len(s) : i < j => s[i][2] < s[j][1]}
Rising == {s \in Seq(Int) : \A i, j \in 1 .. Len(s) : i < j => s[i] < s[j]}

\* The loop of FlattenSeq.
FlattenedBy(s, f) ==
  f = [i \in 1 .. Len(s) |-> IF i = 1 THEN s[i] ELSE f[i - 1] \o s[i]]

LEMMA Flattening ==
  ASSUME NEW V, NEW s \in Seq(Seq(V)), Len(s) # 0
  PROVE  \E f : /\ FlattenSeq(s) = f[Len(s)] /\ f[1] = s[1]
                /\ \A n \in 2 .. Len(s) : f[n] = f[n - 1] \o s[n]
<1> DEFINE N == Len(s) - 1
           I == (0 .. N) \X Seq(V)
           F == [p \in I |-> p[2] \o s[p[1] + 2]]
           h == CHOOSE f : FlattenedBy(s, f)
<1>1. N \in Nat /\ Len(s) = N + 1 /\ s[1] \in Seq(V) /\ <<0, s[1]>> \in I
  OBVIOUS
<1>2. ASSUME NEW k \in 1 .. N, NEW v, <<k - 1, v>> \in I
      PROVE  F[<<k - 1, v>>] = v \o s[k + 1] /\ <<k, F[<<k - 1, v>>]>> \in I
  <2>1. v \in Seq(V) /\ k - 1 + 2 = k + 1 /\ k \in 0 .. N /\ k + 1 \in 1 .. Len(s)
    BY <1>1, <1>2
  <2>2. s[k + 1] \in Seq(V)
    BY <2>1
  <2>3. v \o s[k + 1] \in Seq(V)
    BY <2>1, <2>2
  <2>4. F[<<k - 1, v>>] = v \o s[k + 1]
    BY <1>2, <2>1
  <2> HIDE DEF F
  <2>5. <<k, F[<<k - 1, v>>]>> \in I
    BY <2>1, <2>3, <2>4
  <2> QED
    BY <2>4, <2>5
<1>3. PICK g : LedBy(N, s[1], F, g) /\ Within(N, I, g)
  <2>1. \A k \in 1 .. N : \A v : <<k - 1, v>> \in I => <<k, F[<<k - 1, v>>]>> \in I
    BY <1>2
  <2> HIDE DEF N, I, F
  <2> QED
    BY <1>1, <2>1, Rounds, Zenon
<1> DEFINE f == [i \in 1 .. Len(s) |-> g[i - 1]]
<1>4. FlattenedBy(s, f)
  <2>1. ASSUME NEW i \in 1 .. Len(s)
        PROVE  f[i] = IF i = 1 THEN s[i] ELSE f[i - 1] \o s[i]
    <3>1. CASE i = 1
      <4>1. g[0] = s[1]
        BY <1>3 DEF LedBy
      <4> QED
        BY <3>1, <4>1
    <3>2. CASE i # 1
      <4>1. i - 1 \in 1 .. N /\ i - 1 \in 1 .. Len(s) /\ i - 1 + 1 = i /\ i - 1 \in 0 .. N
            /\ i - 1 - 1 \in 0 .. N
        BY <1>1, <3>2
      <4>2. g[i - 1] = F[<<i - 1 - 1, g[i - 1 - 1]>>] /\ <<i - 1 - 1, g[i - 1 - 1]>> \in I
        BY <1>3, <4>1 DEF LedBy, Within
      <4>3. g[i - 1] = g[i - 1 - 1] \o s[i]
        <5> DEFINE k == i - 1
        <5> HIDE DEF k
        <5>1. k \in 1 .. N /\ <<k - 1, g[k - 1]>> \in I /\ k + 1 = i /\ g[k] = F[<<k - 1, g[k - 1]>>]
          BY <4>1, <4>2 DEF k
        <5> HIDE DEF N, I, F
        <5>2. g[k] = g[k - 1] \o s[k + 1]
          BY <1>2, <5>1
        <5>3. g[k] = g[k - 1] \o s[i]
          BY <5>1, <5>2
        <5> QED
          BY <5>3 DEF k
      <4>4. f[i] = g[i - 1] /\ f[i - 1] = g[i - 1 - 1]
        BY <4>1
      <4> HIDE DEF f
      <4> QED
        BY <3>2, <4>3, <4>4
    <3> QED
      BY <3>1, <3>2
  <2>2. f = [i \in 1 .. Len(s) |-> f[i]]
    OBVIOUS
  <2> HIDE DEF f
  <2> QED
    BY <2>1, <2>2 DEF FlattenedBy
<1>5. FlattenedBy(s, h)
  <2> HIDE DEF f
  <2> QED
    BY <1>4
<1>6. FlattenSeq(s) = h[Len(s)]
  BY DEF FlattenSeq, FlattenedBy
<1> HIDE DEF h
<1>7. ASSUME NEW i \in 1 .. Len(s)
      PROVE  h[i] = IF i = 1 THEN s[i] ELSE h[i - 1] \o s[i]
  BY <1>5 DEF FlattenedBy
<1>8. h[1] = s[1]
  BY <1>1, <1>7
<1>9. ASSUME NEW n \in 2 .. Len(s)
      PROVE  h[n] = h[n - 1] \o s[n]
  <2>1. n \in 1 .. Len(s) /\ n # 1
    OBVIOUS
  <2> QED
    BY <1>7, <2>1
<1> QED
  BY <1>6, <1>8, <1>9

LEMMA FlattenedInOrder ==
  ASSUME NEW V, NEW s \in Seq(Seq(V)), NEW R,
         \A o \in 1 .. Len(s) : \A k \in 1 .. Len(s[o]) : \A l \in 1 .. Len(s[o]) :
           k < l => <<s[o][k], s[o][l]>> \in R,
         \A o \in 1 .. Len(s) : \A p \in 1 .. Len(s) : o < p =>
           \A k \in 1 .. Len(s[o]) : \A l \in 1 .. Len(s[p]) : <<s[o][k], s[p][l]>> \in R
  PROVE  LET f == FlattenSeq(s)
         IN f \in Seq(V) /\ \A i \in 1 .. Len(f) : \A j \in 1 .. Len(f) : i < j => <<f[i], f[j]>> \in R
<1>1. CASE Len(s) = 0
  <2>1. s = <<>> /\ FlattenSeq(s) = <<>>
    BY <1>1 DEF FlattenSeq
  <2>2. <<>> \in Seq(V) /\ 1 .. Len(<<>>) = {}
    OBVIOUS
  <2> QED
    BY <2>1, <2>2, Zenon
<1>2. CASE Len(s) # 0
  <2>1. PICK f : /\ FlattenSeq(s) = f[Len(s)] /\ f[1] = s[1]
                 /\ \A n \in 2 .. Len(s) : f[n] = f[n - 1] \o s[n]
    BY <1>2, Flattening
  <2> DEFINE N == Len(s) - 1
             Elements(n) == \A i \in 1 .. Len(f[n]) : \E o \in 1 .. n :
                              \E k \in 1 .. Len(s[o]) : f[n][i] = s[o][k]
             Ordered(n) == \A i \in 1 .. Len(f[n]) : \A j \in 1 .. Len(f[n]) :
                             i < j => <<f[n][i], f[n][j]>> \in R
             T == {n \in 0 .. N : f[n + 1] \in Seq(V) /\ Elements(n + 1) /\ Ordered(n + 1)}
  <2>2. N \in Nat /\ Len(s) = N + 1 /\ Len(s) \in Nat
    BY <1>2
  <2>3. 0 \in T
    <3>1. 0 + 1 = 1 /\ 0 \in 0 .. N /\ 1 \in 1 .. Len(s)
      BY <2>2
    <3>2. s[1] \in Seq(V)
      BY <3>1
    <3> HIDE DEF N
    <3>3. Elements(1) /\ Ordered(1)
      BY <2>1, <3>1
    <3> HIDE DEF Elements, Ordered
    <3>4. f[0 + 1] \in Seq(V) /\ Elements(0 + 1) /\ Ordered(0 + 1)
      BY <2>1, <3>1, <3>2, <3>3
    <3> QED
      BY <3>1, <3>4
  <2>4. ASSUME NEW n \in 0 .. N - 1, n \in T
        PROVE  n + 1 \in T
    <3> DEFINE c == n + 1
               d == c + 1
               a == f[c]
               b == s[d]
    <3>1. c \in 1 .. Len(s) /\ d \in 2 .. Len(s) /\ d \in 1 .. Len(s) /\ d - 1 = c /\ c \in 0 .. N
          /\ c \in Nat /\ d = c + 1
      BY <2>2, <2>4
    <3>2. a \in Seq(V) /\ Elements(c) /\ Ordered(c)
      <4> HIDE DEF Elements, Ordered, N
      <4> QED
        BY <2>4
    <3>3. b \in Seq(V) /\ f[d] = a \o b
      <4> HIDE DEF Elements, Ordered, N
      <4>1. b \in Seq(V)
        BY <3>1
      <4>2. f[d] = f[d - 1] \o s[d]
        BY <2>1, <3>1
      <4> QED
        BY <3>1, <4>1, <4>2
    <3> HIDE DEF N, c, d, a, b
    <3>4. f[d] \in Seq(V) /\ Len(f[d]) = Len(a) + Len(b) /\ Len(a) \in Nat /\ Len(b) \in Nat
      BY <3>2, <3>3
    <3>5. ASSUME NEW i \in 1 .. Len(f[d])
          PROVE  \/ i \in 1 .. Len(a) /\ f[d][i] = a[i]
                 \/ i - Len(a) \in 1 .. Len(b) /\ f[d][i] = b[i - Len(a)]
      <4>1. i <= Len(a) \/ (i > Len(a) /\ i - Len(a) \in 1 .. Len(b))
        BY <3>4
      <4>2. CASE i <= Len(a)
        BY <3>2, <3>3, <3>4, <4>2
      <4>3. CASE i > Len(a) /\ i - Len(a) \in 1 .. Len(b)
        BY <3>2, <3>3, <3>4, <4>3
      <4> QED
        BY <4>1, <4>2, <4>3
    <3>6. ASSUME NEW i \in 1 .. Len(a)
          PROVE  \E o \in 1 .. c : \E k \in 1 .. Len(s[o]) : a[i] = s[o][k]
      BY <3>2 DEF a
    <3> HIDE DEF Elements, Ordered
    <3>7. Elements(d)
      <4>1. ASSUME NEW i \in 1 .. Len(f[d])
            PROVE  \E o \in 1 .. d : \E k \in 1 .. Len(s[o]) : f[d][i] = s[o][k]
        <5>1. CASE i \in 1 .. Len(a) /\ f[d][i] = a[i]
          <6>1. PICK o \in 1 .. c : \E k \in 1 .. Len(s[o]) : a[i] = s[o][k]
            BY <3>6, <5>1
          <6>2. o \in 1 .. d
            BY <3>1
          <6> QED
            BY <5>1, <6>1, <6>2
        <5>2. CASE i - Len(a) \in 1 .. Len(b) /\ f[d][i] = b[i - Len(a)]
          <6>1. d \in 1 .. d
            BY <3>1
          <6> QED
            BY <5>2, <6>1 DEF b
        <5> QED
          BY <3>5, <5>1, <5>2
      <4> QED
        BY <4>1 DEF Elements
    <3>8. Ordered(d)
      <4>1. ASSUME NEW i \in 1 .. Len(f[d]), NEW j \in 1 .. Len(f[d]), i < j
            PROVE  <<f[d][i], f[d][j]>> \in R
        <5>1. CASE /\ i \in 1 .. Len(a) /\ f[d][i] = a[i]
                   /\ j \in 1 .. Len(a) /\ f[d][j] = a[j]
          BY <3>2, <4>1, <5>1 DEF Ordered, a
        <5>2. CASE /\ i \in 1 .. Len(a) /\ f[d][i] = a[i]
                   /\ j - Len(a) \in 1 .. Len(b) /\ f[d][j] = b[j - Len(a)]
          <6>1. PICK o \in 1 .. c : \E k \in 1 .. Len(s[o]) : a[i] = s[o][k]
            BY <3>6, <5>2
          <6>2. o \in 1 .. Len(s) /\ o < d
            BY <3>1, <2>2
          <6>3. \A k \in 1 .. Len(s[o]) : \A l \in 1 .. Len(s[d]) : <<s[o][k], s[d][l]>> \in R
            BY <3>1, <6>2
          <6> QED
            BY <5>2, <6>1, <6>3 DEF b
        <5>3. CASE /\ i - Len(a) \in 1 .. Len(b) /\ f[d][i] = b[i - Len(a)]
                   /\ j - Len(a) \in 1 .. Len(b) /\ f[d][j] = b[j - Len(a)]
          <6>1. i - Len(a) < j - Len(a)
            BY <3>4, <4>1
          <6>2. \A k \in 1 .. Len(s[d]) : \A l \in 1 .. Len(s[d]) : k < l => <<s[d][k], s[d][l]>> \in R
            BY <3>1
          <6> QED
            BY <5>3, <6>1, <6>2 DEF b
        <5>4. ~(i - Len(a) \in 1 .. Len(b) /\ j \in 1 .. Len(a))
          BY <3>4, <4>1
        <5> QED
          BY <3>5, <5>1, <5>2, <5>3, <5>4
      <4> QED
        BY <4>1 DEF Ordered
    <3> QED
      BY <3>1, <3>4, <3>7, <3>8 DEF c, d
  <2>5. \A n \in 0 .. N : n \in T
    <3>1. N \in Nat
      BY <2>2
    <3>2. \A n \in 0 .. N - 1 : n \in T => n + 1 \in T
      BY <2>4
    <3> HIDE DEF N, T
    <3> QED
      BY <2>3, <3>1, <3>2, Induction
  <2>6. N \in T
    <3> HIDE DEF N, T
    <3> QED
      BY <2>2, <2>5
  <2>7. f[Len(s)] \in Seq(V) /\ Ordered(Len(s))
    <3> HIDE DEF N, Elements, Ordered
    <3> QED
      BY <2>2, <2>6
  <2> HIDE DEF N, T
  <2> QED
    BY <2>1, <2>7
<1> QED
  BY <1>1, <1>2

LEMMA RangesInOrder ==
  ASSUME NEW m \in IndexSets
  PROVE  Ranges(m) \in Rows
<1> DEFINE s == [o \in 1 .. Len(m) |-> m[o].data]
           R == {p \in Span \X Span : p[1][2] < p[2][1]}
           f == FlattenSeq(s)
<1>1. m \in Vectors /\ Len(m) \in Nat
  BY InOrderFacts, VectorLen
<1>2. ASSUME NEW o \in 1 .. Len(m), NEW k \in 1 .. Len(m[o].data)
      PROVE  /\ <<o, k>> \in Iterators(m) /\ m[o].data[k] = At(m, <<o, k>>)
             /\ m[o].data[k] \in Filled
  <2>1. <<o, k>> \in Iterators(m) /\ m[o].data[k] = At(m, <<o, k>>)
    BY <1>1, IteratorAt
  <2> DEFINE p == <<o, k>>
  <2> HIDE DEF p
  <2>2. p \in Iterators(m) /\ m[o].data[k] = At(m, p)
    BY <2>1 DEF p
  <2>3. At(m, p) \in Span /\ At(m, p)[1] < At(m, p)[2]
    BY <2>2, InOrderFacts
  <2> QED
    BY <2>1, <2>2, <2>3 DEF Filled
<1>3. Len(s) = Len(m) /\ \A o \in 1 .. Len(m) : s[o] = m[o].data
  BY <1>1
<1>4. \A o \in 1 .. Len(m) : s[o] \in Seq(Filled)
  <2>1. ASSUME NEW o \in 1 .. Len(m)
        PROVE  m[o].data \in Seq(Filled)
    <3>1. m[o].data \in Seq(Span)
      BY <1>1, ChunkOfVector
    <3>2. \A k \in 1 .. Len(m[o].data) : m[o].data[k] \in Filled
      BY <1>2
    <3> QED
      BY <3>1, <3>2
  <2> QED
    BY <1>3, <2>1
<1>5. s \in Seq(Seq(Filled))
  BY <1>1, <1>3, <1>4
<1>6. ASSUME NEW o \in 1 .. Len(m), NEW k \in 1 .. Len(m[o].data),
             NEW p \in 1 .. Len(m), NEW l \in 1 .. Len(m[p].data),
             o < p \/ (o = p /\ k < l)
      PROVE  <<m[o].data[k], m[p].data[l]>> \in R
  <2> DEFINE a == <<o, k>>
             b == <<p, l>>
  <2>1. /\ a \in Iterators(m) /\ m[o].data[k] = At(m, a) /\ m[o].data[k] \in Span
        /\ b \in Iterators(m) /\ m[p].data[l] = At(m, b) /\ m[p].data[l] \in Span
    BY <1>2 DEF Filled
  <2>2. Before(a, b)
    BY <1>6 DEF Before
  <2> HIDE DEF a, b
  <2>3. At(m, a)[2] < At(m, b)[1]
    BY <2>1, <2>2, InOrderFacts
  <2> QED
    BY <2>1, <2>3
<1>7. \A o \in 1 .. Len(s) : \A k \in 1 .. Len(s[o]) : \A l \in 1 .. Len(s[o]) :
        k < l => <<s[o][k], s[o][l]>> \in R
  BY <1>3, <1>6
<1>8. \A o \in 1 .. Len(s) : \A p \in 1 .. Len(s) : o < p =>
        \A k \in 1 .. Len(s[o]) : \A l \in 1 .. Len(s[p]) : <<s[o][k], s[p][l]>> \in R
  BY <1>3, <1>6
<1>9. f \in Seq(Filled) /\ \A i \in 1 .. Len(f) : \A j \in 1 .. Len(f) : i < j => <<f[i], f[j]>> \in R
  <2> HIDE DEF s, R
  <2> QED
    BY <1>5, <1>7, <1>8, FlattenedInOrder
<1>10. Ranges(m) = f
  BY DEF Ranges
<1> HIDE DEF f
<1> QED
  BY <1>9, <1>10 DEF Rows

LEMMA RowFacts ==
  ASSUME NEW s \in Rows
  PROVE  /\ s \in Seq(Span) /\ Len(s) \in Nat
         /\ \A k \in 1 .. Len(s) : /\ s[k] \in Span /\ s[k][1] \in Int /\ s[k][2] \in Int
                                   /\ s[k][1] < s[k][2] /\ Size(s[k]) \in Nat /\ Size(s[k]) >= 1
                                   /\ s[k][1] + Size(s[k]) = s[k][2]
         /\ \A i, j \in 1 .. Len(s) : i < j => s[i][2] < s[j][1]
<1>1. s \in Seq(Filled) /\ \A i, j \in 1 .. Len(s) : i < j => s[i][2] < s[j][1]
  BY DEF Rows
<1>2. ASSUME NEW r \in Filled
      PROVE  /\ r \in Span /\ r[1] \in Int /\ r[2] \in Int /\ r[1] < r[2]
             /\ Size(r) \in Nat /\ Size(r) >= 1 /\ r[1] + Size(r) = r[2]
  BY DEF Filled, Span, Size
<1>3. \A k \in 1 .. Len(s) : s[k] \in Filled
  BY <1>1
<1>4. s \in Seq(Span) /\ Len(s) \in Nat
  BY <1>1, <1>2
<1> QED
  BY <1>1, <1>2, <1>3, <1>4

LEMMA IndexesRise ==
  ASSUME NEW s \in Rows
  PROVE  Indexes(s) \in Rising
<1> DEFINE Each(r) == [j \in 1 .. Size(r) |-> r[1] + j - 1]
           t == [k \in DOMAIN s |-> Each(s[k])]
           R == {p \in Int \X Int : p[1] < p[2]}
           f == FlattenSeq(t)
<1>1. /\ Len(s) \in Nat /\ DOMAIN s = 1 .. Len(s)
      /\ \A k \in 1 .. Len(s) : /\ s[k] \in Span /\ s[k][1] \in Int /\ s[k][2] \in Int
                                /\ Size(s[k]) \in Nat /\ s[k][1] + Size(s[k]) = s[k][2]
      /\ \A i, j \in 1 .. Len(s) : i < j => s[i][2] < s[j][1]
  BY RowFacts
<1>2. ASSUME NEW r, r[1] \in Int, Size(r) \in Nat, r[1] + Size(r) = r[2]
      PROVE  /\ Each(r) \in Seq(Int) /\ Len(Each(r)) = Size(r)
             /\ \A j \in 1 .. Size(r) : /\ Each(r)[j] = r[1] + j - 1 /\ Each(r)[j] \in Int
                                        /\ r[1] <= Each(r)[j] /\ Each(r)[j] < r[2]
  <2> DEFINE n == Size(r)
             b == r[1]
             z == r[2]
  <2>1. n \in Nat /\ b \in Int /\ z = b + n
    BY <1>2
  <2>2. Each(r) = [j \in 1 .. n |-> b + j - 1]
    OBVIOUS
  <2> HIDE DEF n, b, z, Each
  <2>3. /\ Each(r) \in Seq(Int) /\ Len(Each(r)) = n
        /\ \A j \in 1 .. n : Each(r)[j] = b + j - 1 /\ Each(r)[j] \in Int /\ b <= Each(r)[j] /\ Each(r)[j] < z
    BY <2>1, <2>2
  <2> QED
    BY <2>3 DEF n, b, z
<1> HIDE DEF Each
<1>3. ASSUME NEW k \in 1 .. Len(s)
      PROVE  /\ t[k] \in Seq(Int) /\ Len(t[k]) = Size(s[k])
             /\ \A j \in 1 .. Size(s[k]) : /\ t[k][j] = s[k][1] + j - 1 /\ t[k][j] \in Int
                                           /\ s[k][1] <= t[k][j] /\ t[k][j] < s[k][2]
  BY <1>1, <1>2
<1>4. Len(t) = Len(s) /\ t \in Seq(Seq(Int))
  BY <1>1, <1>3
<1> HIDE DEF t
<1>5. \A o \in 1 .. Len(t) : \A k \in 1 .. Len(t[o]) : \A l \in 1 .. Len(t[o]) :
        k < l => <<t[o][k], t[o][l]>> \in R
  <2>1. ASSUME NEW o \in 1 .. Len(s), NEW k \in 1 .. Size(s[o]), NEW l \in 1 .. Size(s[o]), k < l
        PROVE  t[o][k] \in Int /\ t[o][l] \in Int /\ t[o][k] < t[o][l]
    <3> DEFINE n == Size(s[o])
               b == s[o][1]
    <3>1. b \in Int /\ n \in Nat
      BY <1>1
    <3>2. t[o][k] = b + k - 1 /\ t[o][l] = b + l - 1
      BY <1>3
    <3>3. k \in 1 .. n /\ l \in 1 .. n
      OBVIOUS
    <3> HIDE DEF b, n
    <3> QED
      BY <2>1, <3>1, <3>2, <3>3
  <2> QED
    BY <1>3, <1>4, <2>1
<1>6. \A o \in 1 .. Len(t) : \A p \in 1 .. Len(t) : o < p =>
        \A k \in 1 .. Len(t[o]) : \A l \in 1 .. Len(t[p]) : <<t[o][k], t[p][l]>> \in R
  <2>1. ASSUME NEW o \in 1 .. Len(s), NEW p \in 1 .. Len(s), o < p,
               NEW k \in 1 .. Size(s[o]), NEW l \in 1 .. Size(s[p])
        PROVE  t[o][k] \in Int /\ t[p][l] \in Int /\ t[o][k] < t[p][l]
    <3>1. t[o][k] \in Int /\ t[p][l] \in Int /\ t[o][k] < s[o][2] /\ s[p][1] <= t[p][l]
      BY <1>3
    <3>2. s[o][2] \in Int /\ s[p][1] \in Int /\ s[o][2] < s[p][1]
      BY <1>1, <2>1
    <3> QED
      BY <3>1, <3>2
  <2> QED
    BY <1>3, <1>4, <2>1
<1>7. f \in Seq(Int) /\ \A i \in 1 .. Len(f) : \A j \in 1 .. Len(f) : i < j => <<f[i], f[j]>> \in R
  <2> HIDE DEF R
  <2> QED
    BY <1>4, <1>5, <1>6, FlattenedInOrder
<1>8. Indexes(s) = f
  BY DEF Indexes, t, Each
<1> HIDE DEF f
<1> QED
  BY <1>7, <1>8 DEF Rising

LEMMA as_indexesRise ==
  ASSUME NEW m \in IndexSets
  PROVE  as_indexes(m) \in Rising
BY RangesInOrder, IndexesRise DEF as_indexes

-----------------------------------------------------------------------------
(* add_all: each search goes on from the index added before                *)

LEMMA InsertPair ==
  ASSUME NEW m, NEW it, NEW r
  PROVE  insert(m, it, r) = <<insert(m, it, r)[1], insert(m, it, r)[2]>>
<1> DEFINE P(x) == x = <<x[1], x[2]>>
<1>1. \A x, y : P(<<x, y>>)
  OBVIOUS
<1>2. CASE AtEnd(m, it)
  <2> DEFINE n == push_back(m, r)
             x == <<n, Pred(n, End(n))>>
  <2>1. insert(m, it, r) = x
    BY <1>2, Zenon DEF insert
  <2>2. P(x)
    BY <1>1
  <2> HIDE DEF x
  <2> QED
    BY <2>1, <2>2
<1>3. CASE ~AtEnd(m, it)
  <2> DEFINE s == ensure_space(m, it)
             at == s[2]
             n == [s[1] EXCEPT ![at[1]] =
                     [data  |-> InsertAt(@.data, at[2], r),
                      begin |-> min(@.begin, r[1]), end |-> max(@.end, r[2]),
                      count |-> @.count + Size(r)]]
             x == <<n, at>>
  <2>1. insert(m, it, r) = x
    BY <1>3, Zenon DEF insert
  <2>2. P(x)
    BY <1>1
  <2> HIDE DEF x
  <2> QED
    BY <2>1, <2>2
<1> QED
  BY <1>2, <1>3

LEMMA DoAddPair ==
  ASSUME NEW m, NEW it, NEW index
  PROVE  do_add(m, it, index) = <<do_add(m, it, index)[1], do_add(m, it, index)[2]>>
<1> DEFINE d == do_add(m, it, index)
           P(x) == x = <<x[1], x[2]>>
           before == it # Begin(m)
           valid == ~AtEnd(m, it)
           prev == Pred(m, it)
           e == erase(adjust(m, prev, 0, Size(At(m, it)) + 1), it)
           i == insert(m, it, <<index, index + 1>>)
<1>1. \A x, y : P(<<x, y>>)
  OBVIOUS
<1>2. P(i)
  BY InsertPair
<1>3. \/ d = <<m, it>> \/ d = <<e[1], Pred(e[1], e[2])>> \/ d = <<adjust(m, prev, 0, 1), prev>>
      \/ d = <<adjust(m, it, -1, 0), it>> \/ d = i
  BY Zenon DEF do_add
<1> HIDE DEF e, i, d, prev
<1>4. P(d)
  BY <1>1, <1>2, <1>3
<1> QED
  BY <1>4 DEF d

LEMMA UpToMore ==
  ASSUME NEW m \in IndexSets, NEW it, NEW low \in Int, NEW high \in Int, low <= high, UpTo(m, it, low)
  PROVE  UpTo(m, it, high)
BY InOrderFacts DEF UpTo

LEMMA AddNext ==
  ASSUME NEW m \in IndexSets, NEW from \in Iterators(m) \cup {End(m)}, NEW index \in Int,
         UpTo(m, from, index)
  PROVE  LET d == do_add(m, find(m, index, from), index)
         IN /\ d \in IndexSets \X Positions /\ d[2] \in Iterators(d[1]) /\ UpTo(d[1], d[2], index)
<1> DEFINE it == find(m, index, from)
           d == do_add(m, it, index)
<1>1. /\ it \in Iterators(m) \cup {End(m)} /\ UpTo(m, it, index)
      /\ it \in Iterators(m) => At(m, it)[2] > index
  BY FindFacts
<1> HIDE DEF it
<1>2. Added(m, it, index, d[1], d[2])
  BY <1>1, DoAddFacts
<1>3. d = <<d[1], d[2]>>
  BY DoAddPair
<1> HIDE DEF d
<1>4. d[1] \in IndexSets /\ d[2] \in Iterators(d[1]) /\ UpTo(d[1], d[2], index)
  BY <1>2 DEF Added
<1>5. d[2] \in Positions
  BY <1>4, InOrderFacts
<1> QED
  BY <1>3, <1>4, <1>5 DEF d, it

LEMMA AddAllFacts ==
  ASSUME NEW m \in IndexSets, NEW other \in IndexSets
  PROVE  add_all(m, other) \in IndexSets
<1> DEFINE indexes == as_indexes(other)
<1> DEFINE N == Len(indexes)
           I == {p \in (0 .. N) \X (IndexSets \X Positions) :
                   /\ p[2][2] \in Iterators(p[2][1]) \cup {End(p[2][1])}
                   /\ \A i \in p[1] + 1 .. N : UpTo(p[2][1], p[2][2], indexes[i])}
           Step(v, k) == do_add(v[1], find(v[1], indexes[k], v[2]), indexes[k])
           F == [p \in I |-> Step(p[2], p[1] + 1)]
           Eq(f) == f = [k \in 0 .. N |-> IF k = 0 THEN <<m, Begin(m)>> ELSE Step(f[k - 1], k)]
           loop == CHOOSE f : Eq(f)
<1>0. N \in Nat /\ (\A k \in 1 .. N : indexes[k] \in Int)
      /\ \A i, j \in 1 .. N : i < j => indexes[i] < indexes[j]
  BY as_indexesRise DEF Rising
<1> HIDE DEF indexes
<1>1. N \in Nat /\ <<0, <<m, Begin(m)>>>> \in I
  <2> DEFINE b == Begin(m)
             s == <<m, b>>
  <2>1. b \in Iterators(m) \cup {End(m)} /\ \A i : UpTo(m, b, i)
    BY NothingBefore
  <2>2. b \in Positions
    BY <2>1, InOrderFacts, EndFacts
  <2> HIDE DEF b
  <2>3. s \in IndexSets \X Positions /\ s[1] = m /\ s[2] = b
    BY <2>2
  <2> HIDE DEF s
  <2>4. <<0, s>> \in I
    <3> DEFINE p == <<0, s>>
    <3>1. p[1] = 0 /\ p[2] = s /\ p \in (0 .. N) \X (IndexSets \X Positions)
      BY <1>0, <2>3
    <3> HIDE DEF p, N
    <3>2. p \in I
      BY <2>1, <2>3, <3>1
    <3> QED
      BY <3>2 DEF p
  <2> QED
    BY <1>0, <2>4 DEF s, b
<1>2. ASSUME NEW k \in 1 .. N, NEW v, <<k - 1, v>> \in I
      PROVE  <<k, Step(v, k)>> \in I
  <2> DEFINE d == Step(v, k)
  <2>1. k \in 0 .. N /\ k - 1 + 1 = k
    BY <1>0
  <2>2. /\ v[1] \in IndexSets /\ v[2] \in Iterators(v[1]) \cup {End(v[1])}
        /\ UpTo(v[1], v[2], indexes[k])
    <3> DEFINE p == <<k - 1, v>>
    <3>1. p[1] = k - 1 /\ p[2] = v
      OBVIOUS
    <3>2. p \in I
      BY <1>2
    <3> HIDE DEF p, N
    <3>3. v \in IndexSets \X Positions /\ v[2] \in Iterators(v[1]) \cup {End(v[1])}
          /\ \A i \in k - 1 + 1 .. N : UpTo(v[1], v[2], indexes[i])
      BY <3>1, <3>2
    <3>4. k \in k - 1 + 1 .. N
      BY <1>0
    <3> QED
      BY <3>3, <3>4
  <2>3. /\ d \in IndexSets \X Positions /\ d[2] \in Iterators(d[1]) /\ UpTo(d[1], d[2], indexes[k])
    BY <1>0, <2>2, AddNext
  <2> HIDE DEF d
  <2>4. ASSUME NEW i \in k + 1 .. N
        PROVE  UpTo(d[1], d[2], indexes[i])
    <3>1. i \in 1 .. N /\ k \in 1 .. N /\ k < i
      BY <1>0
    <3>2. indexes[k] <= indexes[i] /\ indexes[k] \in Int /\ indexes[i] \in Int
      <4> HIDE DEF N
      <4>1. indexes[k] < indexes[i] /\ indexes[k] \in Int /\ indexes[i] \in Int
        BY <1>0, <3>1
      <4> QED
        BY <4>1
    <3> DEFINE low == indexes[k]
               high == indexes[i]
    <3> HIDE DEF low, high
    <3>3. low \in Int /\ high \in Int /\ low <= high /\ d[1] \in IndexSets /\ UpTo(d[1], d[2], low)
      BY <2>3, <3>2 DEF low, high
    <3>4. UpTo(d[1], d[2], high)
      BY <3>3, UpToMore
    <3> QED
      BY <3>4 DEF high
  <2>5. <<k, d>> \in I
    <3> DEFINE p == <<k, d>>
    <3>1. p[1] = k /\ p[2] = d /\ p \in (0 .. N) \X (IndexSets \X Positions)
      BY <2>1, <2>3
    <3> HIDE DEF p, N
    <3>2. p \in I
      BY <2>3, <2>4, <3>1
    <3> QED
      BY <3>2 DEF p
  <2> QED
    BY <2>5 DEF d
<1>3. Within(N, I, loop) /\ loop[0] = <<m, Begin(m)>>
  <2> HIDE DEF I, N, Step
  <2>1. ASSUME NEW k \in 1 .. N, NEW v, <<k - 1, v>> \in I
        PROVE  F[<<k - 1, v>>] = Step(v, k)
    <3>1. k - 1 + 1 = k
      BY <1>1
    <3> QED
      BY <2>1, <3>1
  <2>2. PICK f : LedBy(N, <<m, Begin(m)>>, F, f) /\ Within(N, I, f)
    <3>1. \A k \in 1 .. N : \A v : <<k - 1, v>> \in I => <<k, F[<<k - 1, v>>]>> \in I
      BY <1>2, <2>1
    <3> HIDE DEF F
    <3> QED
      BY <1>1, <3>1, Rounds, Zenon
  <2>3. Eq(f)
    <3>1. ASSUME NEW k \in 1 .. N
          PROVE  f[k] = Step(f[k - 1], k)
      <4>1. k - 1 \in 0 .. N
        BY <1>1
      <4>2. <<k - 1, f[k - 1]>> \in I /\ f[k] = F[<<k - 1, f[k - 1]>>]
        BY <2>2, <4>1 DEF LedBy, Within
      <4> HIDE DEF F
      <4> QED
        BY <2>1, <4>2
    <3>2. f = [k \in 0 .. N |-> f[k]] /\ f[0] = <<m, Begin(m)>>
      BY <2>2 DEF LedBy
    <3> DEFINE h == [k \in 0 .. N |-> IF k = 0 THEN <<m, Begin(m)>> ELSE Step(f[k - 1], k)]
    <3>3. ASSUME NEW k \in 0 .. N
          PROVE  h[k] = f[k]
      <4>1. k = 0 \/ k \in 1 .. N
        BY <1>1
      <4> QED
        BY <3>1, <3>2, <4>1
    <3>4. h = [k \in 0 .. N |-> h[k]]
      OBVIOUS
    <3>5. h = f
      <4> HIDE DEF h
      <4> QED
        BY <3>2, <3>3, <3>4
    <3> QED
      BY <3>5
  <2>4. Eq(loop)
    <3> HIDE DEF Eq
    <3> QED
      BY <2>3
  <2> HIDE DEF loop
  <2> HIDE DEF F
  <2>5. loop[0] = <<m, Begin(m)>> /\ \A k \in 1 .. N : loop[k] = Step(loop[k - 1], k)
    <3>1. \A k \in 0 .. N : loop[k] = IF k = 0 THEN <<m, Begin(m)>> ELSE Step(loop[k - 1], k)
      BY <2>4, Zenon
    <3> QED
      BY <1>1, <3>1
  <2>6. \A k \in 1 .. N : <<k - 1, loop[k - 1]>> \in I => <<k, loop[k]>> \in I
    BY <1>2, <2>5
  <2>7. Within(N, I, loop)
    <3> HIDE DEF F, Eq
    <3> QED
      BY <1>1, <2>5, <2>6, EveryRound
  <2> QED
    BY <2>5, <2>7
<1>4. add_all(m, other) = loop[N][1]
  BY DEF add_all, indexes
<1> HIDE DEF loop
<1>5. loop[N][1] \in IndexSets
  <2> HIDE DEF N
  <2>1. N \in 0 .. N
    BY <1>1
  <2>2. <<N, loop[N]>> \in I
    BY <1>3, <2>1 DEF Within
  <2>3. loop[N] \in IndexSets \X Positions
    BY <2>2
  <2> QED
    BY <2>3
<1> QED
  BY <1>4, <1>5

-----------------------------------------------------------------------------
(* add_shifted: an index shifted by the chunks and ranges before it        *)

LEMMA NextChunkFacts ==
  ASSUME NEW m \in Vectors, NEW it \in Iterators(m)
  PROVE  LET e == next_chunk(m, it)
         IN /\ e \in Iterators(m) \cup {End(m)} /\ e \in Positions /\ e[1] = it[1] + 1 /\ e[2] <= 1
            /\ \A p \in Iterators(m) : Before(p, e) <=> p[1] <= it[1]
<1> DEFINE e == next_chunk(m, it)
           o == it[1]
<1>1. Len(m) \in Nat /\ o \in 1 .. Len(m)
  BY VectorLen, IteratorFacts
<1>2. ASSUME NEW p \in Iterators(m)
      PROVE  p[1] \in 1 .. Len(m) /\ p[2] \in Nat /\ p[2] >= 1
  <2>1. p[1] \in 1 .. Len(m) /\ p[2] \in 1 .. Len(m[p[1]].data) /\ p[2] \in Nat
    BY IteratorFacts
  <2> QED
    BY <2>1
<1> HIDE DEF o
<1>3. CASE o = Len(m)
  <2>1. e = End(m) /\ End(m)[1] = Len(m) + 1 /\ End(m)[2] = 0
    BY <1>3 DEF next_chunk, End, o
  <2> HIDE DEF e
  <2>2. End(m) \in Positions /\ \A p \in Iterators(m) : Before(p, End(m))
    BY EndFacts
  <2>3. \A p \in Iterators(m) : p[1] <= o
    BY <1>1, <1>2, <1>3
  <2> QED
    BY <1>3, <2>1, <2>2, <2>3 DEF e, o
<1>4. CASE o # Len(m)
  <2>1. e = <<o + 1, 1>>
    BY <1>4 DEF next_chunk, o
  <2>2. o + 1 \in 1 .. Len(m) /\ o \in Nat
    BY <1>1, <1>4
  <2>3. 1 \in 1 .. Len(m[o + 1].data)
    <3> DEFINE a == o + 1
    <3> HIDE DEF a
    <3>1. a \in 1 .. Len(m)
      BY <2>2 DEF a
    <3>2. Len(m[a].data) \in 1 .. MaxSize /\ MaxSize \in Nat
      BY <3>1, ChunkOfVector, SetAssumption
    <3>3. 1 \in 1 .. Len(m[a].data)
      BY <3>2
    <3> QED
      BY <3>3 DEF a
  <2>4. e \in Iterators(m)
    <3> DEFINE a == o + 1
    <3> HIDE DEF a
    <3>1. a \in 1 .. Len(m) /\ 1 \in 1 .. Len(m[a].data)
      BY <2>2, <2>3 DEF a
    <3>2. <<a, 1>> \in Iterators(m)
      BY <3>1, IteratorAt
    <3> QED
      BY <2>1, <3>2 DEF a
  <2>5. e[1] = o + 1 /\ e[2] = 1
    BY <2>1
  <2> HIDE DEF e
  <2>6. e \in Positions
    BY <2>4, IteratorFacts
  <2>7. ASSUME NEW p \in Iterators(m)
        PROVE  Before(p, e) <=> p[1] <= o
    <3>1. p[1] \in Int /\ p[2] \in Nat /\ p[2] >= 1
      BY <1>1, <1>2
    <3> QED
      BY <2>2, <2>5, <3>1 DEF Before
  <2> QED
    BY <2>4, <2>5, <2>6, <2>7 DEF e, o
<1> QED
  BY <1>3, <1>4

\* A chunk whose end is reached is skipped, its number of indices added.
LEMMA SkipChunksFacts ==
  ASSUME NEW m \in IndexSets, NEW index \in Int
  PROVE  LET s == SkipChunks(m, index)
         IN /\ s[1] \in Iterators(m) \cup {End(m)} /\ s[2] \in Int /\ UpTo(m, s[1], s[2])
<1> DEFINE N == Len(m)
           I == {p \in (0 .. N) \X (Positions \X Int) :
                   /\ p[2][1] \in Iterators(m) \cup {End(m)} /\ p[2][1][2] <= 1
                   /\ UpTo(m, p[2][1], p[2][2])}
           Step(v, k) == IF v[1][1] = k /\ m[k].end <= v[2]
                         THEN <<next_chunk(m, v[1]), v[2] + m[k].count>> ELSE v
           F == [p \in I |-> Step(p[2], p[1] + 1)]
           Eq(f) == f = [k \in 0 .. N |-> IF k = 0 THEN <<Begin(m), index>> ELSE Step(f[k - 1], k)]
           loop == CHOOSE f : Eq(f)
<1>0. m \in Vectors /\ Len(m) \in Nat
  BY InOrderFacts, VectorLen
<1>1. N \in Nat /\ <<0, <<Begin(m), index>>>> \in I
  <2> DEFINE b == Begin(m)
             s == <<b, index>>
  <2>1. b \in Iterators(m) \cup {End(m)} /\ UpTo(m, b, index)
    BY NothingBefore
  <2>2. b \in Positions
    BY <2>1, InOrderFacts, EndFacts
  <2>3. b[2] <= 1
    BY DEF Begin, End
  <2> HIDE DEF b
  <2>4. s \in Positions \X Int /\ s[1] = b /\ s[2] = index
    BY <2>2
  <2> HIDE DEF s
  <2>5. <<0, s>> \in I
    <3> DEFINE p == <<0, s>>
    <3>1. p[1] = 0 /\ p[2] = s /\ p \in (0 .. N) \X (Positions \X Int)
      BY <1>0, <2>4
    <3> HIDE DEF p, N
    <3>2. p \in I
      BY <2>1, <2>3, <2>4, <3>1
    <3> QED
      BY <3>2 DEF p
  <2> QED
    BY <1>0, <2>5 DEF s, b
<1>2. ASSUME NEW k \in 1 .. N, NEW v, <<k - 1, v>> \in I
      PROVE  <<k, Step(v, k)>> \in I
  <2>1. k \in 0 .. N
    BY <1>0
  <2>2. /\ v \in Positions \X Int /\ v[1] \in Iterators(m) \cup {End(m)} /\ v[1][2] <= 1
        /\ UpTo(m, v[1], v[2])
    <3> DEFINE p == <<k - 1, v>>
    <3>1. p[1] = k - 1 /\ p[2] = v
      OBVIOUS
    <3>2. p \in I
      BY <1>2
    <3> HIDE DEF p, N
    <3> QED
      BY <3>1, <3>2
  <2>3. ASSUME NEW d, d \in Positions \X Int, d[1] \in Iterators(m) \cup {End(m)}, d[1][2] <= 1,
               UpTo(m, d[1], d[2])
        PROVE  <<k, d>> \in I
    <3> DEFINE p == <<k, d>>
    <3>1. p[1] = k /\ p[2] = d /\ p \in (0 .. N) \X (Positions \X Int)
      BY <2>1, <2>3
    <3> HIDE DEF p, N
    <3>2. p \in I
      BY <2>3, <3>1
    <3> QED
      BY <3>2 DEF p
  <2>4. CASE v[1][1] = k /\ m[k].end <= v[2]
    <3> DEFINE e == next_chunk(m, v[1])
               j == v[2] + m[k].count
               d == <<e, j>>
    <3>1. v[1] \in Iterators(m)
      <4>1. End(m)[1] = Len(m) + 1
        BY DEF End
      <4> QED
        BY <1>0, <2>2, <2>4, <4>1
    <3>2. /\ e \in Iterators(m) \cup {End(m)} /\ e \in Positions /\ e[2] <= 1
          /\ \A p \in Iterators(m) : Before(p, e) <=> p[1] <= k
      BY <1>0, <2>4, <3>1, NextChunkFacts
    <3>3. m[k].end \in Int /\ m[k].count \in Nat /\ v[2] \in Int
      <4>1. m[k].end \in Int /\ m[k].count \in Int /\ m[k] \in Chunks /\ m[k].data \in Seq(Span)
        BY <1>0, ChunkOfVector
      <4>2. m[k].count = Sizes(m[k].data)
        BY <4>1 DEF Chunks, Right
      <4>3. ASSUME NEW l \in 1 .. Len(m[k].data)
            PROVE  Size(m[k].data[l]) >= 0
        <5> DEFINE q == <<k, l>>
        <5>1. q \in Iterators(m) /\ At(m, q) = m[k].data[l]
          BY <1>0, IteratorAt
        <5> HIDE DEF q
        <5>2. At(m, q)[1] \in Int /\ At(m, q)[2] \in Int /\ At(m, q)[1] < At(m, q)[2]
          BY <5>1, InOrderFacts
        <5> QED
          BY <5>1, <5>2 DEF Size
      <4>4. Sizes(m[k].data) >= 0
        BY <4>1, <4>3, SizesNotNegative
      <4> QED
        BY <2>2, <4>1, <4>2, <4>4
    <3> HIDE DEF e
    <3>4. j \in Int /\ v[2] <= j
      BY <3>3
    <3>5. UpTo(m, e, j)
      <4>1. ASSUME NEW p \in Iterators(m), Before(p, e)
            PROVE  At(m, p)[2] <= v[2]
        <5>1. p[1] <= k /\ p[1] \in Nat /\ p[2] \in Nat /\ p[2] >= 1
          <6>1. p[1] <= k
            BY <3>2, <4>1
          <6>2. p[1] \in Nat /\ p[2] \in Nat /\ p[2] \in 1 .. Len(m[p[1]].data)
            BY <1>0, IteratorFacts
          <6> QED
            BY <6>1, <6>2
        <5>2. CASE p[1] = k
          <6>1. At(m, p)[2] <= m[k].end /\ At(m, p)[2] \in Int
            BY <5>2, ChunkBounds, InOrderFacts
          <6> QED
            BY <2>4, <3>3, <6>1
        <5>3. CASE p[1] # k
          <6>1. Before(p, v[1])
            BY <2>4, <5>1, <5>3 DEF Before
          <6> QED
            BY <2>2, <6>1 DEF UpTo
        <5> QED
          BY <5>2, <5>3
      <4> HIDE DEF j
      <4>2. \A p \in Iterators(m) : At(m, p)[2] \in Int
        BY InOrderFacts
      <4> QED
        BY <3>3, <3>4, <4>1, <4>2 DEF UpTo
    <3> HIDE DEF j
    <3>6. d \in Positions \X Int /\ d[1] = e /\ d[2] = j
      BY <3>2, <3>4
    <3>7. Step(v, k) = d
      BY <2>4 DEF e, j
    <3> HIDE DEF d, I, Step
    <3>8. <<k, d>> \in I
      BY <2>3, <3>2, <3>5, <3>6
    <3> QED
      BY <3>7, <3>8
  <2>5. CASE ~(v[1][1] = k /\ m[k].end <= v[2])
    <3>1. Step(v, k) = v
      BY <2>5
    <3> HIDE DEF I, Step
    <3> QED
      BY <2>2, <2>3, <3>1
  <2> QED
    BY <2>4, <2>5
<1>3. Within(N, I, loop) /\ loop[0] = <<Begin(m), index>>
  <2> HIDE DEF I, N, Step
  <2>1. ASSUME NEW k \in 1 .. N, NEW v, <<k - 1, v>> \in I
        PROVE  F[<<k - 1, v>>] = Step(v, k)
    <3>1. k - 1 + 1 = k
      BY <1>1
    <3> QED
      BY <2>1, <3>1
  <2>2. PICK f : LedBy(N, <<Begin(m), index>>, F, f) /\ Within(N, I, f)
    <3>1. \A k \in 1 .. N : \A v : <<k - 1, v>> \in I => <<k, F[<<k - 1, v>>]>> \in I
      BY <1>2, <2>1
    <3> HIDE DEF F
    <3> QED
      BY <1>1, <3>1, Rounds, Zenon
  <2>3. Eq(f)
    <3>1. ASSUME NEW k \in 1 .. N
          PROVE  f[k] = Step(f[k - 1], k)
      <4>1. k - 1 \in 0 .. N
        BY <1>1
      <4>2. <<k - 1, f[k - 1]>> \in I /\ f[k] = F[<<k - 1, f[k - 1]>>]
        BY <2>2, <4>1 DEF LedBy, Within
      <4> HIDE DEF F
      <4> QED
        BY <2>1, <4>2
    <3>2. f = [k \in 0 .. N |-> f[k]] /\ f[0] = <<Begin(m), index>>
      BY <2>2 DEF LedBy
    <3> DEFINE h == [k \in 0 .. N |-> IF k = 0 THEN <<Begin(m), index>> ELSE Step(f[k - 1], k)]
    <3>3. ASSUME NEW k \in 0 .. N
          PROVE  h[k] = f[k]
      <4>1. k = 0 \/ k \in 1 .. N
        BY <1>1
      <4> QED
        BY <3>1, <3>2, <4>1
    <3>4. h = [k \in 0 .. N |-> h[k]]
      OBVIOUS
    <3>5. h = f
      <4> HIDE DEF h
      <4> QED
        BY <3>2, <3>3, <3>4
    <3> QED
      BY <3>5
  <2>4. Eq(loop)
    <3> HIDE DEF Eq
    <3> QED
      BY <2>3
  <2> HIDE DEF loop, F
  <2>5. loop[0] = <<Begin(m), index>> /\ \A k \in 1 .. N : loop[k] = Step(loop[k - 1], k)
    <3>1. \A k \in 0 .. N : loop[k] = IF k = 0 THEN <<Begin(m), index>> ELSE Step(loop[k - 1], k)
      BY <2>4, Zenon
    <3> QED
      BY <1>1, <3>1
  <2>6. \A k \in 1 .. N : <<k - 1, loop[k - 1]>> \in I => <<k, loop[k]>> \in I
    BY <1>2, <2>5
  <2>7. Within(N, I, loop)
    <3> HIDE DEF F, Eq
    <3> QED
      BY <1>1, <2>5, <2>6, EveryRound
  <2> QED
    BY <2>5, <2>7
<1>4. SkipChunks(m, index) = loop[N]
  BY DEF SkipChunks
<1> HIDE DEF loop
<1>5. <<N, loop[N]>> \in I
  <2> HIDE DEF I, N
  <2>1. N \in 0 .. N
    BY <1>1
  <2> QED
    BY <1>3, <2>1 DEF Within
<1>6. LET s == loop[N] IN s[1] \in Iterators(m) \cup {End(m)} /\ s[2] \in Int /\ UpTo(m, s[1], s[2])
  <2> DEFINE s == loop[N]
             p == <<N, s>>
  <2>1. p \in I /\ p[2] = s
    BY <1>5
  <2> HIDE DEF p, s, N
  <2>2. s \in Positions \X Int /\ s[1] \in Iterators(m) \cup {End(m)} /\ UpTo(m, s[1], s[2])
    BY <2>1
  <2> QED
    BY <2>2 DEF s
<1> QED
  BY <1>4, <1>6

LEMMA DataRow ==
  ASSUME NEW m \in IndexSets, NEW o \in 1 .. Len(m)
  PROVE  m[o].data \in Rows /\ \A k \in 1 .. Len(m[o].data) : <<o, k>> \in Iterators(m) /\ At(m, <<o, k>>) = m[o].data[k]
<1> DEFINE s == m[o].data
<1>1. m \in Vectors /\ s \in Seq(Span)
  BY InOrderFacts, ChunkOfVector
<1>2. \A k \in 1 .. Len(s) : <<o, k>> \in Iterators(m) /\ At(m, <<o, k>>) = s[k]
  BY <1>1, IteratorAt
<1>3. \A k \in 1 .. Len(s) : s[k] \in Filled
  <2>1. ASSUME NEW k \in 1 .. Len(s)
        PROVE  s[k] \in Filled
    <3> DEFINE p == <<o, k>>
    <3>1. p \in Iterators(m) /\ At(m, p) = s[k]
      BY <1>2
    <3> HIDE DEF p
    <3>2. At(m, p) \in Span /\ At(m, p)[1] < At(m, p)[2]
      BY <3>1, InOrderFacts
    <3> HIDE DEF s
    <3> QED
      BY <3>1, <3>2 DEF Filled
  <2> QED
    BY <2>1
<1>4. ASSUME NEW i \in 1 .. Len(s), NEW j \in 1 .. Len(s), i < j
      PROVE  s[i][2] < s[j][1]
  <2> DEFINE p == <<o, i>>
             q == <<o, j>>
  <2>1. p \in Iterators(m) /\ At(m, p) = s[i] /\ q \in Iterators(m) /\ At(m, q) = s[j]
    BY <1>2
  <2>2. Before(p, q)
    BY <1>4 DEF Before
  <2> HIDE DEF p, q
  <2>3. At(m, p)[2] < At(m, q)[1]
    BY <2>1, <2>2, InOrderFacts
  <2> HIDE DEF s
  <2> QED
    BY <2>1, <2>3
<1> HIDE DEF s
<1>5. s \in Rows
  <2>1. s \in Seq(Filled)
    BY <1>1, <1>3
  <2> QED
    BY <1>4, <2>1 DEF Rows
<1> QED
  BY <1>2, <1>5 DEF s

\* The ranges passed stop by the index shifted, the one reached starts behind.
LEMMA SkipInChunkFacts ==
  ASSUME NEW s \in Rows, NEW from \in 1 .. Len(s), NEW index \in Int
  PROVE  LET r == SkipInChunk(s, from, index)
         IN /\ r[1] \in from .. Len(s) + 1 /\ r[2] \in Int /\ index <= r[2]
            /\ \A l \in from .. Len(s) : l < r[1] => s[l][2] <= r[2]
            /\ r[1] <= Len(s) => s[r[1]][1] > r[2]
<1> DEFINE N == Len(s)
           I == {p \in (0 .. N) \X ((from .. N + 1) \X Int) :
                   /\ index <= p[2][2]
                   /\ \A l \in from .. N : l < p[2][1] => s[l][2] <= p[2][2]
                   /\ p[2][1] <= p[1] => s[p[2][1]][1] > p[2][2]}
           Step(v, k) == IF v[1] = k /\ s[k][1] <= v[2]
                         THEN <<k + 1, v[2] + Size(s[k])>> ELSE v
           F == [p \in I |-> Step(p[2], p[1] + 1)]
           Eq(f) == f = [k \in 0 .. N |-> IF k = 0 THEN <<from, index>> ELSE Step(f[k - 1], k)]
           loop == CHOOSE f : Eq(f)
<1>0. N \in Nat /\ from \in Nat /\ from >= 1 /\ from <= N
      /\ \A k \in 1 .. N : /\ s[k][1] \in Int /\ s[k][2] \in Int /\ Size(s[k]) \in Nat
                           /\ s[k][1] + Size(s[k]) = s[k][2]
  <2>1. N \in Nat /\ \A k \in 1 .. N : /\ s[k][1] \in Int /\ s[k][2] \in Int /\ Size(s[k]) \in Nat
                           /\ s[k][1] + Size(s[k]) = s[k][2]
    BY RowFacts
  <2> QED
    BY <2>1
<1>1. N \in Nat /\ <<0, <<from, index>>>> \in I
  <2> DEFINE d == <<from, index>>
             p == <<0, d>>
  <2>1. d[1] = from /\ d[2] = index /\ d \in (from .. N + 1) \X Int
    BY <1>0
  <2> HIDE DEF d
  <2>2. p[1] = 0 /\ p[2] = d /\ p \in (0 .. N) \X ((from .. N + 1) \X Int)
    BY <1>0, <2>1
  <2> HIDE DEF p, N
  <2>3. ~(from <= 0) /\ \A l \in from .. N : ~(l < from)
    BY <1>0
  <2>4. p \in I
    BY <2>1, <2>2, <2>3
  <2> HIDE DEF I
  <2> QED
    BY <1>0, <2>4 DEF p, d
<1>2. ASSUME NEW k \in 1 .. N, NEW v, <<k - 1, v>> \in I
      PROVE  <<k, Step(v, k)>> \in I
  <2>1. k \in 0 .. N /\ k \in Int
    BY <1>0
  <2>2. /\ v \in (from .. N + 1) \X Int /\ index <= v[2]
        /\ \A l \in from .. N : l < v[1] => s[l][2] <= v[2]
        /\ v[1] <= k - 1 => s[v[1]][1] > v[2]
    <3> DEFINE p == <<k - 1, v>>
    <3>1. p[1] = k - 1 /\ p[2] = v
      OBVIOUS
    <3>2. p \in I
      BY <1>2
    <3> HIDE DEF p, N
    <3> QED
      BY <3>1, <3>2
  <2>3. ASSUME NEW d, d \in (from .. N + 1) \X Int, index <= d[2],
               \A l \in from .. N : l < d[1] => s[l][2] <= d[2],
               d[1] <= k => s[d[1]][1] > d[2]
        PROVE  <<k, d>> \in I
    <3> DEFINE p == <<k, d>>
    <3>1. p[1] = k /\ p[2] = d /\ p \in (0 .. N) \X ((from .. N + 1) \X Int)
      BY <2>1, <2>3
    <3> HIDE DEF p, N
    <3>2. p \in I
      BY <2>3, <3>1
    <3> QED
      BY <3>2 DEF p
  <2> DEFINE a == v[1]
             i == v[2]
  <2>4. a \in from .. N + 1 /\ i \in Int
    BY <2>2
  <2>5. CASE a = k /\ s[k][1] <= i
    <3> DEFINE z == i + Size(s[k])
               d == <<k + 1, z>>
    <3>1. z \in Int /\ i <= z /\ s[k][2] <= z /\ k + 1 \in from .. N + 1
      <4> DEFINE n == Size(s[k])
                 b == s[k][1]
      <4>1. n \in Nat /\ b \in Int /\ b + n = s[k][2]
        BY <1>0
      <4>2. k \in from .. N + 1
        BY <2>4, <2>5
      <4> HIDE DEF n, a, i
      <4>3. b <= i
        BY <2>5
      <4> HIDE DEF b, N
      <4>4. i + n \in Int /\ i <= i + n /\ s[k][2] <= i + n /\ k + 1 \in from .. N + 1
        BY <1>0, <2>4, <4>1, <4>2, <4>3
      <4> QED
        BY <4>4 DEF n
    <3>2. Step(v, k) = d
      BY <2>5
    <3> HIDE DEF z
    <3>3. d \in (from .. N + 1) \X Int /\ d[1] = k + 1 /\ d[2] = z
      BY <3>1
    <3> HIDE DEF d, a, i
    <3>4. ASSUME NEW l \in from .. N, l < k + 1
          PROVE  s[l][2] <= z
      <4>1. l \in 1 .. N /\ (l = k \/ l < k)
        BY <1>0, <2>1, <3>4
      <4>2. s[l][2] \in Int
        BY <1>0, <4>1
      <4>3. CASE l = k
        BY <3>1, <4>3
      <4>4. CASE l < k
        <5>1. s[l][2] <= i
          BY <2>2, <2>5, <4>4 DEF a, i
        <5> QED
          BY <2>4, <3>1, <4>2, <5>1
      <4> QED
        BY <4>1, <4>3, <4>4
    <3>5. index <= z
      <4>1. index <= i
        BY <2>2 DEF i
      <4> QED
        BY <2>4, <3>1, <4>1
    <3>6. ~(k + 1 <= k)
      BY <2>1
    <3> HIDE DEF I, Step, N
    <3>7. <<k, d>> \in I
      BY <2>3, <3>3, <3>4, <3>5, <3>6
    <3> QED
      BY <3>2, <3>7
  <2>6. CASE ~(a = k /\ s[k][1] <= i)
    <3>1. Step(v, k) = v
      BY <2>6
    <3>2. ASSUME a <= k
          PROVE  s[a][1] > i
      <4>1. CASE a = k
        <5>1. s[k][1] \in Int
          BY <1>0
        <5> HIDE DEF a, i
        <5>2. s[k][1] > i
          BY <2>4, <2>6, <4>1, <5>1
        <5> QED
          BY <4>1, <5>2
      <4>2. CASE a # k
        <5> HIDE DEF N
        <5>1. a <= k - 1
          BY <1>0, <2>1, <2>4, <3>2, <4>2
        <5> QED
          BY <2>2, <5>1
      <4> QED
        BY <4>1, <4>2
    <3> HIDE DEF I, Step, N
    <3>3. <<k, v>> \in I
      BY <2>2, <2>3, <3>2
    <3> QED
      BY <3>1, <3>3
  <2> QED
    BY <2>5, <2>6
<1>3. Within(N, I, loop) /\ loop[0] = <<from, index>>
  <2> HIDE DEF I, N, Step
  <2>1. ASSUME NEW k \in 1 .. N, NEW v, <<k - 1, v>> \in I
        PROVE  F[<<k - 1, v>>] = Step(v, k)
    <3>1. k - 1 + 1 = k
      BY <1>1
    <3> QED
      BY <2>1, <3>1
  <2>2. PICK f : LedBy(N, <<from, index>>, F, f) /\ Within(N, I, f)
    <3>1. \A k \in 1 .. N : \A v : <<k - 1, v>> \in I => <<k, F[<<k - 1, v>>]>> \in I
      BY <1>2, <2>1
    <3> HIDE DEF F
    <3> QED
      BY <1>1, <3>1, Rounds, Zenon
  <2>3. Eq(f)
    <3>1. ASSUME NEW k \in 1 .. N
          PROVE  f[k] = Step(f[k - 1], k)
      <4>1. k - 1 \in 0 .. N
        BY <1>1
      <4>2. <<k - 1, f[k - 1]>> \in I /\ f[k] = F[<<k - 1, f[k - 1]>>]
        BY <2>2, <4>1 DEF LedBy, Within
      <4> HIDE DEF F
      <4> QED
        BY <2>1, <4>2
    <3>2. f = [k \in 0 .. N |-> f[k]] /\ f[0] = <<from, index>>
      BY <2>2 DEF LedBy
    <3> DEFINE h == [k \in 0 .. N |-> IF k = 0 THEN <<from, index>> ELSE Step(f[k - 1], k)]
    <3>3. ASSUME NEW k \in 0 .. N
          PROVE  h[k] = f[k]
      <4>1. k = 0 \/ k \in 1 .. N
        BY <1>1
      <4> QED
        BY <3>1, <3>2, <4>1
    <3>4. h = [k \in 0 .. N |-> h[k]]
      OBVIOUS
    <3>5. h = f
      <4> HIDE DEF h
      <4> QED
        BY <3>2, <3>3, <3>4
    <3> QED
      BY <3>5
  <2>4. Eq(loop)
    <3> HIDE DEF Eq
    <3> QED
      BY <2>3
  <2> HIDE DEF loop, F
  <2>5. loop[0] = <<from, index>> /\ \A k \in 1 .. N : loop[k] = Step(loop[k - 1], k)
    <3>1. \A k \in 0 .. N : loop[k] = IF k = 0 THEN <<from, index>> ELSE Step(loop[k - 1], k)
      BY <2>4, Zenon
    <3> QED
      BY <1>1, <3>1
  <2>6. \A k \in 1 .. N : <<k - 1, loop[k - 1]>> \in I => <<k, loop[k]>> \in I
    BY <1>2, <2>5
  <2>7. Within(N, I, loop)
    <3> HIDE DEF F, Eq
    <3> QED
      BY <1>1, <2>5, <2>6, EveryRound
  <2> QED
    BY <2>5, <2>7
<1>4. SkipInChunk(s, from, index) = loop[N]
  BY DEF SkipInChunk
<1> HIDE DEF loop
<1>5. <<N, loop[N]>> \in I
  <2> HIDE DEF I, N
  <2>1. N \in 0 .. N
    BY <1>1
  <2> QED
    BY <1>3, <2>1 DEF Within
<1>6. LET r == loop[N]
      IN /\ r[1] \in from .. N + 1 /\ r[2] \in Int /\ index <= r[2]
         /\ \A l \in from .. N : l < r[1] => s[l][2] <= r[2]
         /\ r[1] <= N => s[r[1]][1] > r[2]
  <2> DEFINE r == loop[N]
             p == <<N, r>>
  <2>1. p \in I /\ p[2] = r /\ p[1] = N
    BY <1>5
  <2> HIDE DEF p, r, N
  <2>2. /\ r \in (from .. N + 1) \X Int /\ index <= r[2]
        /\ \A l \in from .. N : l < r[1] => s[l][2] <= r[2]
        /\ r[1] <= N => s[r[1]][1] > r[2]
    BY <2>1
  <2>3. r[1] \in from .. N + 1 /\ r[2] \in Int
    BY <2>2
  <2> QED
    BY <2>2, <2>3 DEF r
<1> QED
  BY <1>4, <1>6

\* Every range that starts by the index, shifted so far, is passed.
LEMMA SkipRangesFacts ==
  ASSUME NEW m \in IndexSets, NEW from \in Iterators(m) \cup {End(m)}, NEW index \in Int,
         UpTo(m, from, index)
  PROVE  LET s == SkipRanges(m, from, index)
         IN /\ s[1] \in Iterators(m) \cup {End(m)} /\ s[2] \in Int /\ UpTo(m, s[1], s[2])
            /\ s[1] \in Iterators(m) => At(m, s[1])[1] > s[2]
<1> DEFINE In(v, k) == SkipInChunk(m[k].data, v[1][2], v[2])
           Next1(v, k) == IF In(v, k)[1] <= Len(m[k].data) THEN <<k, In(v, k)[1]>> ELSE next_chunk(m, v[1])
<1> DEFINE N == Len(m)
           I == {p \in (0 .. N) \X (Positions \X Int) :
                   /\ p[2][1] \in Iterators(m) \cup {End(m)}
                   /\ UpTo(m, p[2][1], p[2][2])
                   /\ p[2][1] \in Iterators(m) /\ p[2][1][1] <= p[1] => At(m, p[2][1])[1] > p[2][2]}
           Step(v, k) == IF v[1][1] # k THEN v ELSE <<Next1(v, k), In(v, k)[2]>>
           F == [p \in I |-> Step(p[2], p[1] + 1)]
           Eq(f) == f = [k \in 0 .. N |-> IF k = 0 THEN <<from, index>> ELSE Step(f[k - 1], k)]
           loop == CHOOSE f : Eq(f)
<1> HIDE DEF In, Next1
<1>0. m \in Vectors /\ Len(m) \in Nat
  BY InOrderFacts, VectorLen
<1>1. N \in Nat /\ <<0, <<from, index>>>> \in I
  <2> DEFINE s == <<from, index>>
             p == <<0, s>>
  <2>1. from \in Positions
    BY InOrderFacts, EndFacts
  <2>2. s \in Positions \X Int /\ s[1] = from /\ s[2] = index
    BY <2>1
  <2>3. from \in Iterators(m) => ~(from[1] <= 0)
    <3>1. from \in Iterators(m) => from[1] \in 1 .. Len(m)
      BY <1>0, IteratorFacts
    <3> QED
      BY <1>0, <3>1
  <2> HIDE DEF s
  <2>4. p[1] = 0 /\ p[2] = s /\ p \in (0 .. N) \X (Positions \X Int)
    BY <1>0, <2>2
  <2> HIDE DEF p, N
  <2>5. p \in I
    BY <2>2, <2>3, <2>4
  <2> HIDE DEF I
  <2> QED
    BY <1>0, <2>5 DEF p, s, N
<1>2. ASSUME NEW k \in 1 .. N, NEW v, <<k - 1, v>> \in I
      PROVE  <<k, Step(v, k)>> \in I
  <2> DEFINE it == v[1]
             i == v[2]
  <2>1. k \in 0 .. N /\ k \in Int
    BY <1>0
  <2>2. /\ v \in Positions \X Int /\ it \in Iterators(m) \cup {End(m)} /\ UpTo(m, it, i)
        /\ it \in Iterators(m) /\ it[1] <= k - 1 => At(m, it)[1] > i
    <3> DEFINE p == <<k - 1, v>>
    <3>1. p[1] = k - 1 /\ p[2] = v
      OBVIOUS
    <3>2. p \in I
      BY <1>2
    <3> HIDE DEF p, N
    <3> QED
      BY <3>1, <3>2
  <2>3. ASSUME NEW d, d \in Positions \X Int, d[1] \in Iterators(m) \cup {End(m)}, UpTo(m, d[1], d[2]),
               d[1] \in Iterators(m) /\ d[1][1] <= k => At(m, d[1])[1] > d[2]
        PROVE  <<k, d>> \in I
    <3> DEFINE p == <<k, d>>
    <3>1. p[1] = k /\ p[2] = d /\ p \in (0 .. N) \X (Positions \X Int)
      BY <2>1, <2>3
    <3> HIDE DEF p, N
    <3>2. p \in I
      BY <2>3, <3>1
    <3> QED
      BY <3>2 DEF p
  <2>4. it \in Positions /\ i \in Int /\ it[1] \in Nat /\ it[2] \in Nat
    BY <2>2 DEF Positions
  <2>5. CASE it[1] = k
    <3> DEFINE data == m[k].data
               r == In(v, k)
               e == Next1(v, k)
               j == r[2]
               d == <<e, j>>
    <3>1. Step(v, k) = d
      BY <2>5
    <3>2. it \in Iterators(m)
      <4>1. End(m)[1] = Len(m) + 1
        BY DEF End
      <4> QED
        BY <1>0, <2>2, <2>5, <4>1
    <3>3. it[2] \in 1 .. Len(data) /\ Len(data) \in Nat /\ data \in Rows
          /\ \A l \in 1 .. Len(data) : <<k, l>> \in Iterators(m) /\ At(m, <<k, l>>) = data[l]
      <4>1. it[2] \in 1 .. Len(data)
        BY <1>0, <2>5, <3>2, IteratorFacts
      <4>2. data \in Rows /\ \A l \in 1 .. Len(data) : <<k, l>> \in Iterators(m) /\ At(m, <<k, l>>) = data[l]
        BY DataRow
      <4> QED
        BY <4>1, <4>2, RowFacts
    <3>4. /\ r[1] \in it[2] .. Len(data) + 1 /\ j \in Int /\ i <= j
          /\ \A l \in it[2] .. Len(data) : l < r[1] => data[l][2] <= j
          /\ r[1] <= Len(data) => data[r[1]][1] > j
      <4>1. r = SkipInChunk(data, it[2], i)
        BY DEF In
      <4> HIDE DEF r, data
      <4> QED
        BY <2>4, <3>3, <4>1, SkipInChunkFacts
    <3> HIDE DEF j
    <3>5. ASSUME NEW p \in Iterators(m), p[1] < k \/ (p[1] = k /\ p[2] < r[1])
          PROVE  At(m, p)[2] <= j
      <4>1. At(m, p)[2] \in Int /\ p = <<p[1], p[2]>> /\ p[2] \in 1 .. Len(m[p[1]].data)
            /\ p[1] \in Nat /\ p[2] \in Nat
        BY <1>0, IteratorFacts
      <4>2. CASE Before(p, it)
        <5>1. At(m, p)[2] <= i
          BY <2>2, <4>2 DEF UpTo
        <5> HIDE DEF i
        <5> QED
          BY <2>4, <3>4, <4>1, <5>1
      <4>3. CASE ~Before(p, it)
        <5>1. p[1] = k /\ p[2] >= it[2] /\ p[2] < r[1]
          BY <2>4, <2>5, <3>5, <4>1, <4>3 DEF Before
        <5>2. p[2] \in it[2] .. Len(data) /\ p[2] \in 1 .. Len(data)
          <6>1. p[2] \in 1 .. Len(data)
            BY <4>1, <5>1
          <6> HIDE DEF data
          <6> QED
            BY <2>4, <3>3, <5>1, <6>1
        <5>3. data[p[2]][2] <= j
          BY <3>4, <5>1, <5>2
        <5>4. At(m, p) = data[p[2]]
          BY <3>3, <4>1, <5>1, <5>2
        <5> QED
          BY <5>3, <5>4
      <4> QED
        BY <4>2, <4>3
    <3>6. CASE r[1] <= Len(data)
      <4> DEFINE l == r[1]
      <4>1. l \in 1 .. Len(data) /\ l \in Nat /\ data[l][1] > j
        <5> HIDE DEF data
        <5> QED
          BY <2>4, <3>3, <3>4, <3>6
      <4>2. e = <<k, l>>
        BY <3>6 DEF Next1
      <4>3. e \in Iterators(m) /\ At(m, e) = data[l] /\ e[1] = k /\ e[2] = l
        BY <3>3, <4>1, <4>2
      <4> HIDE DEF e, l
      <4>4. e \in Positions
        BY <4>3, InOrderFacts
      <4>5. UpTo(m, e, j)
        BY <3>5, <4>3 DEF UpTo, Before, l
      <4>6. At(m, e)[1] > j
        BY <4>1, <4>3
      <4>7. d \in Positions \X Int /\ d[1] = e /\ d[2] = j
        BY <3>4, <4>4
      <4> HIDE DEF d, I, Step, r
      <4>8. <<k, d>> \in I
        BY <2>3, <4>3, <4>5, <4>6, <4>7
      <4> QED
        BY <3>1, <4>8
    <3>7. CASE ~(r[1] <= Len(data))
      <4>1. e = next_chunk(m, it)
        BY <3>7 DEF Next1
      <4> HIDE DEF e
      <4>2. /\ e \in Iterators(m) \cup {End(m)} /\ e \in Positions /\ e[1] = k + 1
            /\ \A p \in Iterators(m) : Before(p, e) <=> p[1] <= k
        BY <1>0, <2>5, <3>2, <4>1, NextChunkFacts
      <4>3. UpTo(m, e, j)
        <5>1. ASSUME NEW p \in Iterators(m), Before(p, e)
              PROVE  At(m, p)[2] <= j
          <6>1. p[1] <= k /\ p[1] \in Nat /\ p[2] \in 1 .. Len(m[p[1]].data) /\ p[2] \in Nat
            BY <1>0, <4>2, <5>1, IteratorFacts
          <6>2. p[1] < k \/ (p[1] = k /\ p[2] \in 1 .. Len(data))
            BY <2>1, <6>1
          <6>3. p[1] < k \/ (p[1] = k /\ p[2] < r[1])
            <7> HIDE DEF data
            <7> QED
              BY <3>3, <3>4, <3>7, <6>2
          <6> QED
            BY <3>5, <6>3
        <5> QED
          BY <5>1 DEF UpTo
      <4>4. ~(e[1] <= k)
        BY <2>1, <4>2
      <4>5. d \in Positions \X Int /\ d[1] = e /\ d[2] = j
        BY <3>4, <4>2
      <4> HIDE DEF d, I, Step
      <4>6. <<k, d>> \in I
        BY <2>3, <4>2, <4>3, <4>4, <4>5
      <4> QED
        BY <3>1, <4>6
    <3> QED
      BY <3>6, <3>7
  <2>6. CASE it[1] # k
    <3>1. Step(v, k) = v
      BY <2>6
    <3>2. it[1] <= k => it[1] <= k - 1
      BY <2>1, <2>4, <2>6
    <3> HIDE DEF I, Step, N
    <3>3. <<k, v>> \in I
      BY <2>2, <2>3, <3>2
    <3> QED
      BY <3>1, <3>3
  <2> QED
    BY <2>5, <2>6
<1>3. Within(N, I, loop) /\ loop[0] = <<from, index>>
  <2> HIDE DEF I, N, Step
  <2>1. ASSUME NEW k \in 1 .. N, NEW v, <<k - 1, v>> \in I
        PROVE  F[<<k - 1, v>>] = Step(v, k)
    <3>1. k - 1 + 1 = k
      BY <1>1
    <3> QED
      BY <2>1, <3>1
  <2>2. PICK f : LedBy(N, <<from, index>>, F, f) /\ Within(N, I, f)
    <3>1. \A k \in 1 .. N : \A v : <<k - 1, v>> \in I => <<k, F[<<k - 1, v>>]>> \in I
      BY <1>2, <2>1
    <3> HIDE DEF F
    <3> QED
      BY <1>1, <3>1, Rounds, Zenon
  <2>3. Eq(f)
    <3>1. ASSUME NEW k \in 1 .. N
          PROVE  f[k] = Step(f[k - 1], k)
      <4>1. k - 1 \in 0 .. N
        BY <1>1
      <4>2. <<k - 1, f[k - 1]>> \in I /\ f[k] = F[<<k - 1, f[k - 1]>>]
        BY <2>2, <4>1 DEF LedBy, Within
      <4> HIDE DEF F
      <4> QED
        BY <2>1, <4>2
    <3>2. f = [k \in 0 .. N |-> f[k]] /\ f[0] = <<from, index>>
      BY <2>2 DEF LedBy
    <3> DEFINE h == [k \in 0 .. N |-> IF k = 0 THEN <<from, index>> ELSE Step(f[k - 1], k)]
    <3>3. ASSUME NEW k \in 0 .. N
          PROVE  h[k] = f[k]
      <4>1. k = 0 \/ k \in 1 .. N
        BY <1>1
      <4> QED
        BY <3>1, <3>2, <4>1
    <3>4. h = [k \in 0 .. N |-> h[k]]
      OBVIOUS
    <3>5. h = f
      <4> HIDE DEF h
      <4> QED
        BY <3>2, <3>3, <3>4
    <3> QED
      BY <3>5
  <2>4. Eq(loop)
    <3> HIDE DEF Eq
    <3> QED
      BY <2>3
  <2> HIDE DEF loop, F
  <2>5. loop[0] = <<from, index>> /\ \A k \in 1 .. N : loop[k] = Step(loop[k - 1], k)
    <3>1. \A k \in 0 .. N : loop[k] = IF k = 0 THEN <<from, index>> ELSE Step(loop[k - 1], k)
      BY <2>4, Zenon
    <3> QED
      BY <1>1, <3>1
  <2>6. \A k \in 1 .. N : <<k - 1, loop[k - 1]>> \in I => <<k, loop[k]>> \in I
    BY <1>2, <2>5
  <2>7. Within(N, I, loop)
    <3> HIDE DEF F, Eq
    <3> QED
      BY <1>1, <2>5, <2>6, EveryRound
  <2> QED
    BY <2>5, <2>7
<1>4. SkipRanges(m, from, index) = loop[N]
  BY DEF SkipRanges, In, Next1
<1> HIDE DEF loop
<1>5. <<N, loop[N]>> \in I
  <2> HIDE DEF I, N
  <2>1. N \in 0 .. N
    BY <1>1
  <2> QED
    BY <1>3, <2>1 DEF Within
<1>6. LET s == loop[N]
      IN /\ s[1] \in Iterators(m) \cup {End(m)} /\ s[2] \in Int /\ UpTo(m, s[1], s[2])
         /\ s[1] \in Iterators(m) => At(m, s[1])[1] > s[2]
  <2> DEFINE s == loop[N]
             p == <<N, s>>
  <2>1. p \in I /\ p[2] = s /\ p[1] = N
    BY <1>5
  <2>2. \A q \in Iterators(m) : q[1] <= N
    <3>1. ASSUME NEW q \in Iterators(m)
          PROVE  q[1] \in 1 .. Len(m)
      BY <1>0, IteratorFacts
    <3> QED
      BY <1>0, <3>1
  <2> HIDE DEF p, s, N
  <2>3. /\ s \in Positions \X Int /\ s[1] \in Iterators(m) \cup {End(m)} /\ UpTo(m, s[1], s[2])
        /\ s[1] \in Iterators(m) => At(m, s[1])[1] > s[2]
    BY <2>1, <2>2
  <2>4. s[2] \in Int
    BY <2>3
  <2> QED
    BY <2>3, <2>4 DEF s
<1> QED
  BY <1>4, <1>6

LEMMA AddShiftedFacts ==
  ASSUME NEW m \in IndexSets, NEW index \in Int
  PROVE  add_shifted(m, index)[1] \in IndexSets
<1> DEFINE c == SkipChunks(m, index)
           r == SkipRanges(m, c[1], c[2])
           it == r[1]
           i == r[2]
<1>1. c[1] \in Iterators(m) \cup {End(m)} /\ c[2] \in Int /\ UpTo(m, c[1], c[2])
  BY SkipChunksFacts
<1> HIDE DEF c
<1>2. /\ r[1] \in Iterators(m) \cup {End(m)} /\ r[2] \in Int /\ UpTo(m, r[1], r[2])
      /\ r[1] \in Iterators(m) => At(m, r[1])[1] > r[2]
  BY <1>1, SkipRangesFacts
<1> HIDE DEF r
<1>3. it \in Iterators(m) => At(m, it)[2] > i
  <2>1. ASSUME it \in Iterators(m)
        PROVE  At(m, it)[2] > i
    <3>1. At(m, it)[1] > i /\ At(m, it)[1] < At(m, it)[2] /\ At(m, it)[1] \in Int /\ At(m, it)[2] \in Int
      BY <1>2, <2>1, InOrderFacts
    <3> HIDE DEF it, i
    <3>2. i \in Int
      BY <1>2 DEF i
    <3> QED
      BY <3>1, <3>2
  <2> QED
    BY <2>1
<1> HIDE DEF it, i
<1>4. it \in Iterators(m) \cup {End(m)} /\ i \in Int /\ UpTo(m, it, i)
  BY <1>2 DEF it, i
<1>5. do_add(m, it, i)[1] \in IndexSets
  BY <1>3, <1>4, DoAddFacts DEF Added
<1> QED
  BY <1>5 DEF add_shifted, it, i, r, c

LEMMA SetFacts ==
  ASSUME NEW len \in Nat
  PROVE  set(len) \in IndexSets
<1> DEFINE r == <<0, len>>
           n == push_back(<<>>, r)
           e == Pred(n, End(n))
<1>1. CASE len = 0
  BY <1>1, EmptySet DEF set
<1>2. CASE len # 0
  <2>1. r \in Span /\ r[1] < r[2] /\ <<>> \in Vectors /\ Iterators(<<>>) = {}
    <3>1. <<>> \in Vectors
      BY DEF Vectors
    <3> QED
      BY <1>2, <3>1, BeginFacts DEF Span
  <2>2. set(len) = n
    BY <1>2 DEF set
  <2> HIDE DEF r
  <2>3. n \in Vectors /\ e \in Positions /\ At(n, e) = r /\ Iterators(n) = Iterators(<<>>) \cup {e}
    BY <2>1, PushedBack
  <2>4. Iterators(n) = {e}
    BY <2>1, <2>3, Zenon
  <2> HIDE DEF n, e
  <2>5. n \in IndexSets
    BY <2>1, <2>3, <2>4, Order DEF IndexSets, InOrder, Apart
  <2> QED
    BY <2>2, <2>5
<1> QED
  BY <1>1, <1>2

-----------------------------------------------------------------------------
(* insert_at                                                               *)

\* In a gap that ends behind all of the run.
LEMMA AddInGap ==
  ASSUME NEW m \in IndexSets, NEW it \in Iterators(m) \cup {End(m)}, NEW index \in Int,
         NEW high \in Int, high > index + 1, UpTo(m, it, index), FromOn(m, it, high)
  PROVE  LET a == do_add(m, it, index)
             e == Succ(a[1], a[2])
         IN /\ a[1] \in IndexSets /\ e \in Iterators(a[1]) \cup {End(a[1])} /\ e \in Positions
            /\ UpTo(a[1], e, index + 1) /\ FromOn(a[1], e, high)
<1> DEFINE n == do_add(m, it, index)[1]
           f == do_add(m, it, index)[2]
           e == Succ(n, f)
<1>1. it \in Iterators(m) => At(m, it)[2] > index
  <2>1. ASSUME it \in Iterators(m)
        PROVE  At(m, it)[2] > index
    <3>1. /\ At(m, it)[1] < At(m, it)[2] /\ At(m, it)[1] \in Int /\ At(m, it)[2] \in Int
          /\ it \in Positions
      BY <2>1, InOrderFacts
    <3>2. high <= At(m, it)[1]
      BY <2>1, <3>1, Order DEF FromOn
    <3> QED
      BY <3>1, <3>2
  <2> QED
    BY <2>1
<1>2. Added(m, it, index, n, f)
  BY <1>1, DoAddFacts
<1> HIDE DEF n, f
<1>3. /\ n \in IndexSets /\ f \in Iterators(n) /\ UpTo(n, f, index) /\ At(n, f)[2] = index + 1
      /\ \A p \in Iterators(n) : Before(f, p) => high <= At(n, p)[1]
  BY <1>2 DEF Added
<1>4. n \in Vectors
  BY <1>3, InOrderFacts
<1>5. /\ e \in Iterators(n) \cup {End(n)} /\ e \in Positions
      /\ \A p \in Iterators(n) : Before(p, e) <=> p = f \/ Before(p, f)
  BY <1>3, <1>4, SuccFacts
<1> HIDE DEF e
<1>6. UpTo(n, e, index + 1)
  <2>1. ASSUME NEW p \in Iterators(n), Before(p, e)
        PROVE  At(n, p)[2] <= index + 1
    <3>1. At(n, p)[2] \in Int
      BY <1>3, InOrderFacts
    <3>2. CASE p = f
      BY <1>3, <3>2
    <3>3. CASE Before(p, f)
      <4>1. At(n, p)[2] <= index
        BY <1>3, <3>3 DEF UpTo
      <4> QED
        BY <3>1, <4>1
    <3> QED
      BY <1>5, <2>1, <3>2, <3>3
  <2> QED
    BY <2>1 DEF UpTo
<1>7. FromOn(n, e, high)
  <2>1. ASSUME NEW p \in Iterators(n), ~Before(p, e)
        PROVE  high <= At(n, p)[1]
    <3>1. p # f /\ ~Before(p, f)
      BY <1>5, <2>1
    <3>2. p \in Positions /\ f \in Positions
      BY <1>3, InOrderFacts
    <3>3. Before(f, p)
      BY <3>1, <3>2, Order
    <3> QED
      BY <1>3, <3>3
  <2> QED
    BY <2>1 DEF FromOn
<1> QED
  BY <1>3, <1>5, <1>6, <1>7 DEF n, f, e

LEMMA AddRunFacts ==
  ASSUME NEW m \in IndexSets, NEW it \in Iterators(m) \cup {End(m)}, NEW index \in Int, NEW n \in Nat,
         NEW high \in Int, high > index + n, UpTo(m, it, index), FromOn(m, it, high)
  PROVE  AddRun(m, it, index, n) \in IndexSets
<1> DEFINE a(v, k) == do_add(v[1], v[2], index + k - 1)
<1> DEFINE N == n
           I == {p \in (0 .. N) \X (IndexSets \X Positions) :
                   /\ p[2][2] \in Iterators(p[2][1]) \cup {End(p[2][1])}
                   /\ UpTo(p[2][1], p[2][2], index + p[1]) /\ FromOn(p[2][1], p[2][2], high)}
           Step(v, k) == <<a(v, k)[1], Succ(a(v, k)[1], a(v, k)[2])>>
           F == [p \in I |-> Step(p[2], p[1] + 1)]
           Eq(f) == f = [k \in 0 .. N |-> IF k = 0 THEN <<m, it>> ELSE Step(f[k - 1], k)]
           loop == CHOOSE f : Eq(f)
<1> HIDE DEF a
<1>1. N \in Nat /\ <<0, <<m, it>>>> \in I
  <2> DEFINE s == <<m, it>>
             p == <<0, s>>
  <2>1. it \in Positions
    BY InOrderFacts, EndFacts
  <2>2. s \in IndexSets \X Positions /\ s[1] = m /\ s[2] = it
    BY <2>1
  <2> HIDE DEF s
  <2>3. p[1] = 0 /\ p[2] = s /\ p \in (0 .. N) \X (IndexSets \X Positions) /\ index + 0 = index
    BY <2>2
  <2> HIDE DEF p, N
  <2>4. p \in I
    BY <2>2, <2>3
  <2> HIDE DEF I
  <2> QED
    BY <2>4 DEF p, s, N
<1>2. ASSUME NEW k \in 1 .. N, NEW v, <<k - 1, v>> \in I
      PROVE  <<k, Step(v, k)>> \in I
  <2> DEFINE i == index + k - 1
             b == a(v, k)[1]
             e == Succ(b, a(v, k)[2])
             d == <<b, e>>
  <2>1. /\ k \in 0 .. N /\ k \in Int /\ i \in Int /\ i + 1 = index + k /\ index + (k - 1) = i
        /\ i + 1 < high
    BY <1>1
  <2>2. /\ v[1] \in IndexSets /\ v[2] \in Iterators(v[1]) \cup {End(v[1])}
        /\ UpTo(v[1], v[2], i) /\ FromOn(v[1], v[2], high)
    <3> DEFINE p == <<k - 1, v>>
    <3>1. p[1] = k - 1 /\ p[2] = v
      OBVIOUS
    <3>2. p \in I
      BY <1>2
    <3> HIDE DEF p, N, i
    <3>3. v \in IndexSets \X Positions /\ v[2] \in Iterators(v[1]) \cup {End(v[1])}
          /\ UpTo(v[1], v[2], index + (k - 1)) /\ FromOn(v[1], v[2], high)
      BY <3>1, <3>2
    <3> QED
      BY <2>1, <3>3
  <2>3. a(v, k) = do_add(v[1], v[2], i)
    BY DEF a
  <2> HIDE DEF i
  <2>4. /\ b \in IndexSets /\ e \in Iterators(b) \cup {End(b)} /\ e \in Positions
        /\ UpTo(b, e, i + 1) /\ FromOn(b, e, high)
    BY <2>1, <2>2, <2>3, AddInGap
  <2>5. Step(v, k) = d
    OBVIOUS
  <2> HIDE DEF b, e, Step
  <2>6. d \in IndexSets \X Positions /\ d[1] = b /\ d[2] = e
    BY <2>4
  <2> HIDE DEF d
  <2>7. <<k, d>> \in I
    <3> DEFINE p == <<k, d>>
    <3>1. p[1] = k /\ p[2] = d /\ p \in (0 .. N) \X (IndexSets \X Positions)
      BY <2>1, <2>6
    <3> HIDE DEF p, N
    <3>2. p \in I
      BY <2>1, <2>4, <2>6, <3>1
    <3> QED
      BY <3>2 DEF p
  <2> QED
    BY <2>5, <2>7
<1>3. Within(N, I, loop) /\ loop[0] = <<m, it>>
  <2> HIDE DEF I, N, Step
  <2>1. ASSUME NEW k \in 1 .. N, NEW v, <<k - 1, v>> \in I
        PROVE  F[<<k - 1, v>>] = Step(v, k)
    <3>1. k - 1 + 1 = k
      BY <1>1
    <3> QED
      BY <2>1, <3>1
  <2>2. PICK f : LedBy(N, <<m, it>>, F, f) /\ Within(N, I, f)
    <3>1. \A k \in 1 .. N : \A v : <<k - 1, v>> \in I => <<k, F[<<k - 1, v>>]>> \in I
      BY <1>2, <2>1
    <3> HIDE DEF F
    <3> QED
      BY <1>1, <3>1, Rounds, Zenon
  <2>3. Eq(f)
    <3>1. ASSUME NEW k \in 1 .. N
          PROVE  f[k] = Step(f[k - 1], k)
      <4>1. k - 1 \in 0 .. N
        BY <1>1
      <4>2. <<k - 1, f[k - 1]>> \in I /\ f[k] = F[<<k - 1, f[k - 1]>>]
        BY <2>2, <4>1 DEF LedBy, Within
      <4> HIDE DEF F
      <4> QED
        BY <2>1, <4>2
    <3>2. f = [k \in 0 .. N |-> f[k]] /\ f[0] = <<m, it>>
      BY <2>2 DEF LedBy
    <3> DEFINE h == [k \in 0 .. N |-> IF k = 0 THEN <<m, it>> ELSE Step(f[k - 1], k)]
    <3>3. ASSUME NEW k \in 0 .. N
          PROVE  h[k] = f[k]
      <4>1. k = 0 \/ k \in 1 .. N
        BY <1>1
      <4> QED
        BY <3>1, <3>2, <4>1
    <3>4. h = [k \in 0 .. N |-> h[k]]
      OBVIOUS
    <3>5. h = f
      <4> HIDE DEF h
      <4> QED
        BY <3>2, <3>3, <3>4
    <3> QED
      BY <3>5
  <2>4. Eq(loop)
    <3> HIDE DEF Eq
    <3> QED
      BY <2>3
  <2> HIDE DEF loop, F
  <2>5. loop[0] = <<m, it>> /\ \A k \in 1 .. N : loop[k] = Step(loop[k - 1], k)
    <3>1. \A k \in 0 .. N : loop[k] = IF k = 0 THEN <<m, it>> ELSE Step(loop[k - 1], k)
      BY <2>4, Zenon
    <3> QED
      BY <1>1, <3>1
  <2>6. \A k \in 1 .. N : <<k - 1, loop[k - 1]>> \in I => <<k, loop[k]>> \in I
    BY <1>2, <2>5
  <2>7. Within(N, I, loop)
    <3> HIDE DEF F, Eq
    <3> QED
      BY <1>1, <2>5, <2>6, EveryRound
  <2> QED
    BY <2>5, <2>7
<1>4. AddRun(m, it, index, n) = loop[N][1]
  BY DEF AddRun, a
<1> HIDE DEF loop
<1>5. loop[N][1] \in IndexSets
  <2> HIDE DEF N
  <2>1. N \in 0 .. N
    BY <1>1
  <2>2. <<N, loop[N]>> \in I
    BY <1>3, <2>1 DEF Within
  <2>3. loop[N] \in IndexSets \X Positions
    BY <2>2
  <2> QED
    BY <2>3
<1> QED
  BY <1>4, <1>5

\* The ranges before it stay, those from it on move away from them.
LEMMA ShiftedInOrder ==
  ASSUME NEW m \in IndexSets, NEW it \in Iterators(m) \cup {End(m)}, NEW n \in Nat
  PROVE  LET s == ShiftToEnd(m, it, n)
         IN /\ s \in IndexSets /\ SameShape(m, s)
            /\ \A p \in Iterators(m) : At(s, p) = IF Before(p, it) THEN At(m, p) ELSE Moved(At(m, p), n)
<1> DEFINE s == ShiftToEnd(m, it, n)
<1>1. m \in Vectors /\ n \in Int
  BY InOrderFacts
<1>2. /\ s \in Vectors /\ SameShape(m, s)
      /\ \A p \in Iterators(m) : At(s, p) = IF Before(p, it) THEN At(m, p) ELSE Moved(At(m, p), n)
  BY <1>1, ShiftedToEnd
<1> HIDE DEF s
<1>3. Iterators(s) = Iterators(m)
  BY <1>1, <1>2, ShapeFacts
<1>4. it \in Positions
  BY InOrderFacts, EndFacts
<1>5. ASSUME NEW p \in Iterators(m)
      PROVE  /\ At(s, p)[1] \in Int /\ At(s, p)[2] \in Int /\ At(s, p)[1] < At(s, p)[2]
             /\ Before(p, it) => At(s, p) = At(m, p)
             /\ ~Before(p, it) => At(s, p)[1] = At(m, p)[1] + n /\ At(s, p)[2] = At(m, p)[2] + n
             /\ At(m, p)[1] \in Int /\ At(m, p)[2] \in Int /\ At(m, p)[1] < At(m, p)[2]
             /\ p \in Positions
  <2>1. At(m, p)[1] \in Int /\ At(m, p)[2] \in Int /\ At(m, p)[1] < At(m, p)[2] /\ At(m, p) \in Span
        /\ p \in Positions
    BY InOrderFacts
  <2>2. CASE Before(p, it)
    BY <1>2, <2>1, <2>2
  <2>3. CASE ~Before(p, it)
    <3>1. At(s, p)[1] = At(m, p)[1] + n /\ At(s, p)[2] = At(m, p)[2] + n
      BY <1>1, <1>2, <2>1, <2>3, MovedFacts
    <3> QED
      BY <1>1, <2>1, <2>3, <3>1
  <2> QED
    BY <2>2, <2>3
<1>6. ASSUME NEW p \in Iterators(m), NEW q \in Iterators(m), Before(p, q)
      PROVE  At(s, p)[2] < At(s, q)[1]
  <2>1. At(m, p)[2] < At(m, q)[1]
    BY <1>6, InOrderFacts
  <2>2. Before(q, it) => Before(p, it)
    BY <1>4, <1>5, <1>6, Order
  <2>3. CASE Before(p, it) /\ Before(q, it)
    BY <1>5, <2>1, <2>3
  <2>4. CASE Before(p, it) /\ ~Before(q, it)
    <3>1. At(s, p)[2] = At(m, p)[2] /\ At(s, q)[1] = At(m, q)[1] + n
          /\ At(m, p)[2] \in Int /\ At(m, q)[1] \in Int
      BY <1>5, <2>4
    <3> QED
      BY <2>1, <3>1
  <2>5. CASE ~Before(p, it) /\ ~Before(q, it)
    <3>1. At(s, p)[2] = At(m, p)[2] + n /\ At(s, q)[1] = At(m, q)[1] + n
          /\ At(m, p)[2] \in Int /\ At(m, q)[1] \in Int
      BY <1>5, <2>5
    <3> QED
      BY <2>1, <3>1
  <2> QED
    BY <2>2, <2>3, <2>4, <2>5
<1>7. s \in IndexSets
  BY <1>2, <1>3, <1>5, <1>6 DEF IndexSets, InOrder, Apart
<1> QED
  BY <1>2, <1>7 DEF s

LEMMA InsertAtFacts ==
  ASSUME NEW m \in IndexSets, NEW index \in Int, NEW n \in Nat
  PROVE  insert_at(m, index, n) \in IndexSets
<1> DEFINE it == find(m, index, Begin(m))
<1>1. Begin(m) \in Iterators(m) \cup {End(m)} /\ UpTo(m, Begin(m), index) /\ m \in Vectors
  BY NothingBefore, InOrderFacts
<1>2. /\ it \in Iterators(m) \cup {End(m)} /\ UpTo(m, it, index)
      /\ it \in Iterators(m) => At(m, it)[2] > index
  <2> DEFINE b == Begin(m)
  <2> HIDE DEF b
  <2>1. b \in Iterators(m) \cup {End(m)} /\ UpTo(m, b, index)
    BY <1>1 DEF b
  <2>2. /\ find(m, index, b) \in Iterators(m) \cup {End(m)} /\ UpTo(m, find(m, index, b), index)
        /\ find(m, index, b) \in Iterators(m) => At(m, find(m, index, b))[2] > index
    BY <2>1, FindFacts
  <2> QED
    BY <2>2 DEF b
<1>3. AtEnd(m, it) <=> it \notin Iterators(m)
  BY <1>1, <1>2, EndFacts DEF AtEnd
<1>4. it \in Positions
  BY <1>1, <1>2, EndFacts, IteratorFacts
<1>5. CASE AtEnd(m, it)
  <2>1. insert_at(m, index, n) = AddRun(m, it, index, n)
    BY <1>5 DEF insert_at
  <2> DEFINE high == index + n + 1
  <2>2. high \in Int /\ high > index + n
    OBVIOUS
  <2>3. FromOn(m, it, high)
    BY <1>1, <1>5, EndFacts DEF FromOn, AtEnd
  <2> HIDE DEF it, high
  <2>4. AddRun(m, it, index, n) \in IndexSets
    BY <1>2, <2>2, <2>3, AddRunFacts
  <2> QED
    BY <2>1, <2>4
<1>6. CASE ~AtEnd(m, it) /\ At(m, it)[1] <= index
  <2> DEFINE u == adjust(m, it, 0, n)
             f == Succ(m, it)
             s == ShiftToEnd(u, f, n)
             b == At(m, it)[1]
             z == At(m, it)[2]
  <2>1. insert_at(m, index, n) = s
    BY <1>6 DEF insert_at
  <2>2. it \in Iterators(m)
    BY <1>3, <1>6
  <2> HIDE DEF it
  <2>3. b \in Int /\ z \in Int /\ b < z
    BY <2>2, InOrderFacts
  <2>4. /\ u \in Vectors /\ SameShape(m, u)
        /\ \A p \in Iterators(m) : At(u, p) = IF p = it THEN <<b, z + n>> ELSE At(m, p)
    <3>1. /\ u \in Vectors /\ SameShape(m, u)
          /\ \A p \in Iterators(m) : At(u, p) = IF p = it THEN <<b + 0, z + n>> ELSE At(m, p)
      BY <1>1, <2>2, Adjusted
    <3>2. b + 0 = b
      BY <2>3
    <3> QED
      BY <3>1, <3>2
  <2> HIDE DEF u
  <2>5. Iterators(u) = Iterators(m) /\ End(u) = End(m)
    BY <1>1, <2>4, ShapeFacts
  <2>6. /\ f \in Iterators(m) \cup {End(m)} /\ f \in Positions
        /\ \A p \in Iterators(m) : Before(p, f) <=> p = it \/ Before(p, it)
    BY <1>1, <2>2, SuccFacts
  <2> HIDE DEF f
  <2>7. /\ s \in Vectors /\ SameShape(u, s)
        /\ \A p \in Iterators(u) : At(s, p) = IF Before(p, f) THEN At(u, p) ELSE Moved(At(u, p), n)
    BY <2>4, <2>5, <2>6, ShiftedToEnd
  <2> HIDE DEF s
  <2>8. Iterators(s) = Iterators(m)
    BY <2>4, <2>5, <2>7, ShapeFacts
  <2>9. ASSUME NEW p \in Iterators(m)
        PROVE  /\ At(m, p)[1] \in Int /\ At(m, p)[2] \in Int /\ At(m, p)[1] < At(m, p)[2]
               /\ p \in Positions
               /\ Before(p, it) => At(s, p) = At(m, p)
               /\ p = it => At(s, p)[1] = At(m, p)[1] /\ At(s, p)[2] = At(m, p)[2] + n
               /\ Before(it, p) => At(s, p)[1] = At(m, p)[1] + n /\ At(s, p)[2] = At(m, p)[2] + n
    <3>1. /\ At(m, p)[1] \in Int /\ At(m, p)[2] \in Int /\ At(m, p)[1] < At(m, p)[2]
          /\ p \in Positions /\ At(m, p) \in Span
      BY InOrderFacts
    <3>2. CASE Before(p, it)
      <4>1. p # it /\ ~Before(it, p) /\ Before(p, f)
        BY <1>4, <2>6, <3>1, <3>2, Order
      <4>2. At(s, p) = At(m, p)
        BY <2>4, <2>5, <2>7, <4>1
      <4> QED
        BY <3>1, <4>1, <4>2
    <3>3. CASE p = it
      <4>1. Before(p, f) /\ ~Before(p, it) /\ ~Before(it, p)
        BY <1>4, <2>6, <3>3, Order
      <4>2. At(s, p) = <<b, z + n>>
        BY <2>4, <2>5, <2>7, <3>3, <4>1
      <4> QED
        BY <3>1, <3>3, <4>1, <4>2
    <3>4. CASE Before(it, p)
      <4>1. p # it /\ ~Before(p, it)
        BY <1>4, <3>1, <3>4, Order
      <4>2. ~Before(p, f)
        BY <2>6, <4>1
      <4>3. At(s, p) = Moved(At(m, p), n)
        BY <2>4, <2>5, <2>7, <4>1, <4>2
      <4>4. n \in Int
        OBVIOUS
      <4>5. At(s, p)[1] = At(m, p)[1] + n /\ At(s, p)[2] = At(m, p)[2] + n
        BY <3>1, <4>3, <4>4, MovedFacts
      <4> QED
        BY <3>1, <4>1, <4>5
    <3> QED
      BY <1>4, <3>1, <3>2, <3>3, <3>4, Order
  <2>10. ASSUME NEW p \in Iterators(m), NEW q \in Iterators(m), Before(p, q)
         PROVE  At(s, p)[2] < At(s, q)[1]
    <3>1. At(m, p)[2] < At(m, q)[1] /\ At(m, p)[2] \in Int /\ At(m, q)[1] \in Int
          /\ p \in Positions /\ q \in Positions
      BY <2>9, <2>10, InOrderFacts
    <3>2. \/ Before(p, it) /\ Before(q, it)
          \/ Before(p, it) /\ q = it
          \/ Before(p, it) /\ Before(it, q)
          \/ p = it /\ Before(it, q)
          \/ Before(it, p) /\ Before(it, q)
      <4>1. p = it \/ Before(p, it) \/ Before(it, p)
        BY <1>4, <3>1, Order
      <4>2. q = it \/ Before(q, it) \/ Before(it, q)
        BY <1>4, <3>1, Order
      <4>3. Before(it, p) => Before(it, q)
        BY <1>4, <2>10, <3>1, Order
      <4>4. p = it => Before(it, q)
        BY <2>10
      <4> QED
        BY <4>1, <4>2, <4>3, <4>4, Zenon
    <3>3. \/ At(s, p)[2] = At(m, p)[2]
          \/ At(s, p)[2] = At(m, p)[2] + n /\ At(s, q)[1] = At(m, q)[1] + n
      BY <2>9, <3>2
    <3>4. At(s, q)[1] = At(m, q)[1] \/ At(s, q)[1] = At(m, q)[1] + n
      BY <2>9, <3>2
    <3> QED
      BY <3>1, <3>3, <3>4
  <2>11. \A p \in Iterators(m) : At(s, p)[1] < At(s, p)[2]
    <3>1. ASSUME NEW p \in Iterators(m)
          PROVE  At(s, p)[1] < At(s, p)[2]
      <4>1. At(m, p)[1] \in Int /\ At(m, p)[2] \in Int /\ At(m, p)[1] < At(m, p)[2] /\ p \in Positions
        BY <2>9
      <4>2. \/ At(s, p) = At(m, p)
            \/ At(s, p)[1] = At(m, p)[1] /\ At(s, p)[2] = At(m, p)[2] + n
            \/ At(s, p)[1] = At(m, p)[1] + n /\ At(s, p)[2] = At(m, p)[2] + n
        BY <1>4, <2>9, <4>1, Order
      <4> QED
        BY <4>1, <4>2
    <3> QED
      BY <3>1
  <2>12. s \in IndexSets
    BY <2>7, <2>8, <2>10, <2>11 DEF IndexSets, InOrder, Apart
  <2> QED
    BY <2>1, <2>12
<1>7. CASE ~AtEnd(m, it) /\ ~(At(m, it)[1] <= index)
  <2> DEFINE s == ShiftToEnd(m, it, n)
             b == At(m, it)[1]
             high == b + n
  <2>1. insert_at(m, index, n) = AddRun(s, it, index, n)
    BY <1>7 DEF insert_at
  <2>2. it \in Iterators(m)
    BY <1>3, <1>7
  <2>3. b > index
    <3>1. b \in Int
      BY <2>2, InOrderFacts
    <3> HIDE DEF it, b
    <3>2. ~(b <= index)
      BY <1>7 DEF b
    <3> QED
      BY <3>1, <3>2
  <2> HIDE DEF it
  <2>4. b \in Int /\ high \in Int /\ high > index + n
    <3>1. b \in Int
      BY <2>2, InOrderFacts
    <3> HIDE DEF b
    <3> QED
      BY <2>3, <3>1
  <2>5. /\ s \in IndexSets /\ SameShape(m, s)
        /\ \A p \in Iterators(m) : At(s, p) = IF Before(p, it) THEN At(m, p) ELSE Moved(At(m, p), n)
    BY <1>2, ShiftedInOrder
  <2> HIDE DEF s
  <2>6. Iterators(s) = Iterators(m) /\ End(s) = End(m)
    BY <1>1, <2>5, InOrderFacts, ShapeFacts
  <2>7. UpTo(s, it, index)
    BY <1>2, <2>5, <2>6 DEF UpTo
  <2>8. FromOn(s, it, high)
    <3>1. ASSUME NEW p \in Iterators(m), ~Before(p, it)
          PROVE  high <= At(s, p)[1]
      <4>1. At(m, p) \in Span /\ At(m, p)[1] \in Int /\ p \in Positions
        BY InOrderFacts
      <4>2. At(s, p)[1] = At(m, p)[1] + n
        <5>1. At(s, p) = Moved(At(m, p), n) /\ n \in Int
          BY <2>5, <3>1
        <5> QED
          BY <4>1, <5>1, MovedFacts
      <4>3. b <= At(m, p)[1]
        <5>1. p = it \/ Before(it, p)
          BY <1>4, <3>1, <4>1, Order
        <5>2. CASE p = it
          BY <4>1, <5>2
        <5>3. CASE Before(it, p)
          <6>1. At(m, it)[2] < At(m, p)[1] /\ b < At(m, it)[2] /\ At(m, it)[2] \in Int
            BY <2>2, <5>3, InOrderFacts
          <6> QED
            BY <2>4, <4>1, <6>1
        <5> QED
          BY <5>1, <5>2, <5>3
      <4> HIDE DEF b
      <4> QED
        BY <2>4, <4>1, <4>2, <4>3
    <3> QED
      BY <2>6, <3>1 DEF FromOn
  <2> HIDE DEF high
  <2>9. AddRun(s, it, index, n) \in IndexSets
    BY <1>2, <2>4, <2>5, <2>6, <2>7, <2>8, AddRunFacts
  <2> QED
    BY <2>1, <2>9
<1> QED
  BY <1>5, <1>6, <1>7

-----------------------------------------------------------------------------
(* shift_for_insert_at                                                     *)

\* What find leaves the methods that start from the first range.
LEMMA FoundFacts ==
  ASSUME NEW m \in IndexSets, NEW index \in Int
  PROVE  LET it == find(m, index, Begin(m))
         IN /\ m \in Vectors /\ it \in Iterators(m) \cup {End(m)} /\ it \in Positions
            /\ UpTo(m, it, index) /\ (AtEnd(m, it) <=> it \notin Iterators(m))
            /\ it \in Iterators(m) => At(m, it)[2] > index
<1> DEFINE b == Begin(m)
           it == find(m, index, b)
<1>1. b \in Iterators(m) \cup {End(m)} /\ UpTo(m, b, index) /\ m \in Vectors
  BY NothingBefore, InOrderFacts
<1> HIDE DEF b
<1>2. /\ it \in Iterators(m) \cup {End(m)} /\ UpTo(m, it, index)
      /\ it \in Iterators(m) => At(m, it)[2] > index
  BY <1>1, FindFacts
<1> HIDE DEF it
<1>3. AtEnd(m, it) <=> it \notin Iterators(m)
  BY <1>1, <1>2, EndFacts DEF AtEnd
<1>4. it \in Positions
  BY <1>1, <1>2, EndFacts, IteratorFacts
<1> QED
  BY <1>1, <1>2, <1>3, <1>4 DEF it, b

LEMMA InsertNotFirst ==
  ASSUME NEW m \in Vectors, NEW it \in Iterators(m) \cup {End(m)}, it # Begin(m), NEW r \in Span,
         insert(m, it, r)[1] \in Vectors, insert(m, it, r)[2] \in Iterators(insert(m, it, r)[1])
  PROVE  insert(m, it, r)[2] # Begin(insert(m, it, r)[1])
<1> DEFINE n == insert(m, it, r)[1]
           e == insert(m, it, r)[2]
<1>1. m # <<>>
  BY BeginFacts
<1>2. CASE AtEnd(m, it)
  <2> DEFINE u == push_back(m, r)
             f == Pred(u, End(u))
  <2>1. n = u /\ e = f
    BY <1>2, Zenon DEF insert
  <2> HIDE DEF n, e
  <2>2. u \in Vectors /\ \A p \in Iterators(m) : Before(p, f) /\ p \in Iterators(u)
    <3>1. /\ u \in Vectors /\ Iterators(u) = Iterators(m) \cup {f}
          /\ \A p \in Iterators(m) : Before(p, f)
      BY PushedBack
    <3> HIDE DEF f, u
    <3> QED
      BY <3>1
  <2> HIDE DEF f, u
  <2>3. PICK p : p \in Iterators(m)
    BY <1>1, BeginFacts
  <2>4. f # Begin(u)
    BY <2>2, <2>3, BeginFacts
  <2> QED
    BY <2>1, <2>4 DEF n, e
<1>3. CASE ~AtEnd(m, it)
  <2> DEFINE s == ensure_space(m, it)
             half == MaxSize \div 2
  <2>1. e = s[2]
    <3> HIDE DEF s
    <3> DEFINE at == s[2]
               x == [s[1] EXCEPT ![at[1]] =
                       [data  |-> InsertAt(@.data, at[2], r),
                        begin |-> min(@.begin, r[1]), end |-> max(@.end, r[2]),
                        count |-> @.count + Size(r)]]
    <3>1. insert(m, it, r) = <<x, at>>
      BY <1>3, Zenon DEF insert, s
    <3> HIDE DEF x
    <3> QED
      BY <3>1
  <2>2. s[2] = it \/ s[2] = <<it[1] + 1, it[2] - half>>
    <3> DEFINE data == m[it[1]].data
               kept == SubSeq(data, 1, Len(data) - half)
               moved == ChunkOf(SubSeq(data, Len(data) - half + 1, Len(data)))
               x == InsertAt([m EXCEPT ![it[1]] =
                           [data |-> kept, begin |-> @.begin, end |-> Last(kept)[2],
                            count |-> @.count - moved.count]], it[1] + 1, moved)
               y == IF it[2] > half THEN <<it[1] + 1, it[2] - half>> ELSE it
    <3>1. s = <<m, it>> \/ s = <<x, y>>
      BY Zenon DEF ensure_space
    <3>2. y = it \/ y = <<it[1] + 1, it[2] - half>>
      OBVIOUS
    <3> HIDE DEF s, x, y
    <3>3. s[2] = it \/ s[2] = y
      BY <3>1
    <3> QED
      BY <3>2, <3>3, Zenon
  <2> HIDE DEF s, half
  <2>3. it \in Iterators(m) /\ it[1] \in Nat /\ it[1] >= 1
    <3>1. it \in Iterators(m)
      BY <1>3 DEF AtEnd
    <3>2. it[1] \in 1 .. Len(m)
      BY <3>1, IteratorFacts
    <3>3. Len(m) \in Nat
      BY VectorLen
    <3> QED
      BY <3>1, <3>2, <3>3
  <2>4. it # <<1, 1>>
    BY <1>1, BeginFacts
  <2>5. e # <<1, 1>>
    <3>1. <<it[1] + 1, it[2] - half>> # <<1, 1>>
      BY <2>3
    <3> QED
      BY <2>1, <2>2, <2>4, <3>1, Zenon
  <2>6. Begin(n) = <<1, 1>>
    <3>1. n \in Vectors /\ n # <<>>
      BY BeginFacts
    <3> HIDE DEF n
    <3> QED
      BY <3>1, BeginFacts
  <2> QED
    BY <2>5, <2>6
<1> QED
  BY <1>2, <1>3

\* A range is cut off where it is, the rest of it put behind it further on.
LEMMA CutInTwo ==
  ASSUME NEW m \in IndexSets, NEW it \in Iterators(m), NEW b \in Int, NEW z \in Int, NEW r \in Span,
         b < z, z < r[1], r[1] < r[2],
         \A p \in Iterators(m) : /\ Before(p, it) => At(m, p)[2] < b
                                 /\ Before(it, p) => r[2] < At(m, p)[1]
  PROVE  LET split == SetRange(m, it, b, z)
             e == insert(split, Succ(split, it), r)
         IN /\ e[1] \in IndexSets /\ e[2] \in Iterators(e[1]) /\ e[2] # Begin(e[1])
            /\ \A p \in Iterators(e[1]) : Before(p, e[2]) => At(e[1], p)[2] <= z
<1> DEFINE u == SetRange(m, it, b, z)
           f == Succ(u, it)
           n == insert(u, f, r)[1]
           e == insert(u, f, r)[2]
<1>1. m \in Vectors /\ it \in Positions /\ r[1] \in Int /\ r[2] \in Int
  BY InOrderFacts DEF Span
<1>2. /\ u \in Vectors /\ SameShape(m, u)
      /\ \A p \in Iterators(m) : At(u, p) = IF p = it THEN <<b, z>> ELSE At(m, p)
  BY <1>1, SetTo
<1> HIDE DEF u
<1>3. Iterators(u) = Iterators(m) /\ End(u) = End(m)
  BY <1>1, <1>2, ShapeFacts
<1>4. ASSUME NEW p \in Iterators(m)
      PROVE  /\ Before(p, it) => At(m, p)[2] < b
             /\ Before(it, p) => z < At(m, p)[1]
  <2>1. At(m, p)[1] \in Int /\ At(m, p)[2] \in Int
    BY InOrderFacts
  <2> QED
    BY <1>1, <2>1
<1>5. u \in IndexSets
  BY <1>2, <1>4, ChangedInOrder
<1>6. /\ f \in Iterators(u) \cup {End(u)} /\ f \in Positions
      /\ \A p \in Iterators(u) : Before(p, f) <=> p = it \/ Before(p, it)
  BY <1>2, <1>3, SuccFacts
<1> HIDE DEF f
<1>7. ASSUME NEW p \in Iterators(u)
      PROVE  IF Before(p, f) THEN At(u, p)[2] <= z ELSE r[2] < At(u, p)[1]
  <2>1. At(m, p)[1] \in Int /\ At(m, p)[2] \in Int /\ p \in Positions /\ p \in Iterators(m)
    BY <1>3, InOrderFacts
  <2>2. CASE p = it
    <3>1. At(u, p)[2] = z /\ Before(p, f)
      BY <1>2, <1>6, <2>1, <2>2
    <3> QED
      BY <3>1
  <2>3. CASE Before(p, it)
    <3>1. p # it /\ Before(p, f)
      BY <1>1, <1>6, <2>1, <2>3, Order
    <3>2. At(u, p)[2] < b
      BY <1>2, <1>4, <2>1, <2>3, <3>1
    <3>3. At(u, p)[2] \in Int
      BY <1>5, InOrderFacts
    <3> QED
      BY <3>1, <3>2, <3>3
  <2>4. CASE Before(it, p)
    <3>1. p # it /\ ~Before(p, f)
      BY <1>1, <1>6, <2>1, <2>4, Order
    <3>2. r[2] < At(u, p)[1]
      BY <1>2, <2>1, <2>4, <3>1
    <3> QED
      BY <3>1, <3>2
  <2> QED
    BY <1>1, <2>1, <2>2, <2>3, <2>4, Order
<1>8. /\ n \in IndexSets /\ e \in Iterators(n) /\ At(n, e) = r /\ Joined(n, e, u, f)
  <2>1. \A p \in Iterators(u) : IF Before(p, f) THEN At(u, p)[2] < r[1] ELSE r[2] < At(u, p)[1]
    <3>1. ASSUME NEW p \in Iterators(u), Before(p, f)
          PROVE  At(u, p)[2] < r[1]
      <4>1. At(u, p)[2] \in Int /\ At(u, p)[2] <= z
        BY <1>5, <1>7, <3>1, InOrderFacts
      <4> QED
        BY <1>1, <4>1
    <3> QED
      BY <1>7, <3>1
  <2> QED
    BY <1>5, <1>6, <2>1, InsertFacts
<1> HIDE DEF n, e
<1>9. ASSUME NEW p \in Iterators(n), Before(p, e)
      PROVE  At(n, p)[2] <= z
  <2>1. p # e
    <3>1. p \in Positions /\ e \in Positions
      BY <1>8, InOrderFacts
    <3> QED
      BY <1>9, <3>1, Order
  <2>2. PICK q \in Iterators(u) : At(n, p) = At(u, q) /\ Before(q, f)
    BY <1>8, <1>9, <2>1 DEF Joined
  <2> QED
    BY <1>7, <2>2
<1>10. e # Begin(n)
  <2>1. f # Begin(u)
    <3>1. Before(it, f)
      BY <1>3, <1>6
    <3> QED
      BY <1>2, <1>3, <3>1, BeginFacts
  <2>2. insert(u, f, r)[1] \in Vectors /\ insert(u, f, r)[2] \in Iterators(insert(u, f, r)[1])
    BY <1>8, InOrderFacts DEF n, e
  <2>3. insert(u, f, r)[2] # Begin(insert(u, f, r)[1])
    BY <1>2, <1>6, <2>1, <2>2, InsertNotFirst
  <2> QED
    BY <2>3 DEF n, e
<1> QED
  BY <1>8, <1>9, <1>10 DEF n, e, f, u

LEMMA ShiftForInsertAtFacts ==
  ASSUME NEW m \in IndexSets, NEW index \in Int, NEW n \in Nat \ {0}
  PROVE  shift_for_insert_at(m, index, n) \in IndexSets
<1> DEFINE it == find(m, index, Begin(m))
           s == ShiftToEnd(m, it, n)
           r == At(s, it)
<1>1. /\ m \in Vectors /\ it \in Iterators(m) \cup {End(m)} /\ it \in Positions
      /\ UpTo(m, it, index) /\ (AtEnd(m, it) <=> it \notin Iterators(m))
      /\ it \in Iterators(m) => At(m, it)[2] > index
  BY FoundFacts
<1>2. CASE AtEnd(m, it)
  BY <1>2 DEF shift_for_insert_at
<1>3. CASE ~AtEnd(m, it) /\ ~(r[1] < index + n)
  <2>1. shift_for_insert_at(m, index, n) = s
    BY <1>3, Zenon DEF shift_for_insert_at
  <2> HIDE DEF it
  <2>2. s \in IndexSets
    BY <1>1, ShiftedInOrder
  <2> QED
    BY <2>1, <2>2
<1>4. CASE ~AtEnd(m, it) /\ r[1] < index + n
  <2> DEFINE split == SetRange(s, it, r[1] - n, index)
             e == insert(split, Succ(split, it), <<index + n, r[2]>>)
  <2>1. shift_for_insert_at(m, index, n) = e[1]
    BY <1>4, Zenon DEF shift_for_insert_at
  <2>2. it \in Iterators(m) /\ At(m, it)[2] > index
    BY <1>1, <1>4
  <2>3. r[1] < index + n
    BY <1>4
  <2> HIDE DEF it
  <2>4. /\ s \in IndexSets /\ SameShape(m, s)
        /\ \A p \in Iterators(m) : At(s, p) = IF Before(p, it) THEN At(m, p) ELSE Moved(At(m, p), n)
    BY <1>1, ShiftedInOrder
  <2> HIDE DEF s
  <2>5. Iterators(s) = Iterators(m)
    BY <1>1, <2>4, InOrderFacts, ShapeFacts
  <2>6. r[1] \in Int /\ r[2] \in Int /\ r[1] = At(m, it)[1] + n /\ r[2] = At(m, it)[2] + n
        /\ At(m, it)[1] \in Int /\ At(m, it)[2] \in Int
    <3>1. ~Before(it, it) /\ At(m, it) \in Span /\ n \in Int
      BY <1>1, <2>2, InOrderFacts, Order
    <3>2. r = Moved(At(m, it), n)
      BY <2>2, <2>4, <3>1
    <3>3. r[1] = At(m, it)[1] + n /\ r[2] = At(m, it)[2] + n
      BY <3>1, <3>2, MovedFacts
    <3> HIDE DEF r
    <3>4. At(m, it)[1] \in Int /\ At(m, it)[2] \in Int
      BY <2>2, InOrderFacts
    <3> QED
      BY <3>3, <3>4
  <2> DEFINE b == r[1] - n
             d == <<index + n, r[2]>>
  <2>7. b \in Int /\ b < index /\ d \in Span /\ d[1] = index + n /\ d[2] = r[2] /\ index < d[1] /\ d[1] < d[2]
    <3> HIDE DEF r
    <3>1. index + n \in Int /\ r[2] \in Int /\ b \in Int /\ b < index /\ index < index + n /\ index + n < r[2]
      BY <2>2, <2>3, <2>6
    <3> HIDE DEF b
    <3> QED
      BY <3>1 DEF Span
  <2>8. b = At(m, it)[1]
    <3> HIDE DEF r
    <3> QED
      BY <2>6
  <2>9. \A p \in Iterators(s) : /\ Before(p, it) => At(s, p)[2] < b
                                /\ Before(it, p) => r[2] < At(s, p)[1]
    <3>1. ASSUME NEW p \in Iterators(m), Before(p, it)
          PROVE  At(s, p)[2] < b
      <4>1. At(m, p)[2] < At(m, it)[1]
        BY <2>2, <3>1, InOrderFacts
      <4>2. At(s, p) = At(m, p)
        BY <2>4, <3>1
      <4> HIDE DEF b, r
      <4> QED
        BY <2>8, <4>1, <4>2
    <3>2. ASSUME NEW p \in Iterators(m), Before(it, p)
          PROVE  r[2] < At(s, p)[1]
      BY <2>2, <2>4, <2>5, <3>2, InOrderFacts
    <3> HIDE DEF b, r
    <3> QED
      BY <2>5, <3>1, <3>2
  <2>10. e[1] = insert(SetRange(s, it, b, index), Succ(SetRange(s, it, b, index), it), d)[1]
    OBVIOUS
  <2> HIDE DEF e, b, d, r
  <2>11. insert(SetRange(s, it, b, index), Succ(SetRange(s, it, b, index), it), d)[1] \in IndexSets
    BY <2>2, <2>4, <2>5, <2>7, <2>9, CutInTwo
  <2> QED
    BY <2>1, <2>10, <2>11
<1> QED
  BY <1>2, <1>3, <1>4

-----------------------------------------------------------------------------
(* erase_at and erase_or_unshift                                           *)

\* Where there is room between the ranges, those from an iterator on may
\* move back by one.
LEMMA ShiftedBack ==
  ASSUME NEW m \in IndexSets, NEW it \in Iterators(m) \cup {End(m)},
         \A p \in Iterators(m) : \A q \in Iterators(m) :
           Before(p, it) /\ ~Before(q, it) => At(m, p)[2] + 1 < At(m, q)[1]
  PROVE  ShiftToEnd(m, it, -1) \in IndexSets
<1> DEFINE n == -1
           s == ShiftToEnd(m, it, n)
<1>1. m \in Vectors /\ n \in Int
  BY InOrderFacts
<1>2. /\ s \in Vectors /\ SameShape(m, s)
      /\ \A p \in Iterators(m) : At(s, p) = IF Before(p, it) THEN At(m, p) ELSE Moved(At(m, p), n)
  <2> HIDE DEF n
  <2> QED
    BY <1>1, ShiftedToEnd
<1> HIDE DEF s
<1>3. Iterators(s) = Iterators(m)
  BY <1>1, <1>2, ShapeFacts
<1>4. it \in Positions
  BY InOrderFacts, EndFacts
<1>5. ASSUME NEW p \in Iterators(m)
      PROVE  /\ At(s, p)[1] \in Int /\ At(s, p)[2] \in Int /\ At(s, p)[1] < At(s, p)[2]
             /\ Before(p, it) => At(s, p) = At(m, p)
             /\ ~Before(p, it) => At(s, p)[1] = At(m, p)[1] - 1 /\ At(s, p)[2] = At(m, p)[2] - 1
             /\ At(m, p)[1] \in Int /\ At(m, p)[2] \in Int /\ At(m, p)[1] < At(m, p)[2]
             /\ p \in Positions
  <2>1. At(m, p)[1] \in Int /\ At(m, p)[2] \in Int /\ At(m, p)[1] < At(m, p)[2] /\ At(m, p) \in Span
        /\ p \in Positions
    BY InOrderFacts
  <2>2. CASE Before(p, it)
    BY <1>2, <2>1, <2>2
  <2>3. CASE ~Before(p, it)
    <3>1. At(s, p)[1] = At(m, p)[1] + n /\ At(s, p)[2] = At(m, p)[2] + n
      <4> HIDE DEF n
      <4>1. At(s, p) = Moved(At(m, p), n)
        BY <1>2, <2>3
      <4> QED
        BY <1>1, <2>1, <4>1, MovedFacts
    <3> QED
      BY <1>1, <2>1, <2>3, <3>1
  <2> QED
    BY <2>2, <2>3
<1> HIDE DEF n
<1>6. ASSUME NEW p \in Iterators(m), NEW q \in Iterators(m), Before(p, q)
      PROVE  At(s, p)[2] < At(s, q)[1]
  <2>1. At(m, p)[2] < At(m, q)[1]
    BY <1>6, InOrderFacts
  <2>2. Before(q, it) => Before(p, it)
    BY <1>4, <1>5, <1>6, Order
  <2>3. CASE Before(p, it) /\ Before(q, it)
    BY <1>5, <2>1, <2>3
  <2>4. CASE Before(p, it) /\ ~Before(q, it)
    <3>1. At(s, p)[2] = At(m, p)[2] /\ At(s, q)[1] = At(m, q)[1] - 1
          /\ At(m, p)[2] \in Int /\ At(m, q)[1] \in Int
      BY <1>5, <2>4
    <3>2. At(m, p)[2] + 1 < At(m, q)[1]
      BY <2>4
    <3> QED
      BY <3>1, <3>2
  <2>5. CASE ~Before(p, it) /\ ~Before(q, it)
    <3>1. At(s, p)[2] = At(m, p)[2] - 1 /\ At(s, q)[1] = At(m, q)[1] - 1
          /\ At(m, p)[2] \in Int /\ At(m, q)[1] \in Int
      BY <1>5, <2>5
    <3> QED
      BY <2>1, <3>1
  <2> QED
    BY <2>2, <2>3, <2>4, <2>5
<1>7. s \in IndexSets
  BY <1>2, <1>3, <1>5, <1>6 DEF IndexSets, InOrder, Apart
<1> QED
  BY <1>7 DEF s, n

\* The range at it is gone; the last one before it may reach up to z - 1, z
\* where it stopped.
LEMMA ErasedBack ==
  ASSUME NEW m \in Vectors, NEW it \in Iterators(m), Apart(m, Iterators(m) \ {it}), NEW z \in Int,
         \A p \in Iterators(m) \ {it} : IF Before(p, it) THEN At(m, p)[2] + 1 <= z
                                        ELSE z < At(m, p)[1]
  PROVE  ShiftToEnd(erase(m, it)[1], erase(m, it)[2], -1) \in IndexSets
<1> DEFINE n == erase(m, it)[1]
           f == erase(m, it)[2]
<1>1. n \in IndexSets /\ f \in Iterators(n) \cup {End(n)} /\ Left(n, f, m, it)
  BY EraseInOrder
<1> HIDE DEF n, f
<1>2. ASSUME NEW p \in Iterators(n), NEW q \in Iterators(n), Before(p, f), ~Before(q, f)
      PROVE  At(n, p)[2] + 1 < At(n, q)[1]
  <2>1. PICK a \in Iterators(m) \ {it} : At(n, p) = At(m, a) /\ Before(a, it)
    BY <1>1, <1>2 DEF Left
  <2>2. PICK b \in Iterators(m) \ {it} : At(n, q) = At(m, b) /\ ~Before(b, it)
    BY <1>1, <1>2 DEF Left
  <2>3. At(n, p)[2] + 1 <= z /\ z < At(n, q)[1] /\ At(n, p)[2] \in Int /\ At(n, q)[1] \in Int
    BY <1>1, <2>1, <2>2, InOrderFacts
  <2> QED
    BY <2>3
<1>3. ShiftToEnd(n, f, -1) \in IndexSets
  BY <1>1, <1>2, ShiftedBack
<1> QED
  BY <1>3 DEF n, f

LEMMA DoEraseFacts ==
  ASSUME NEW m \in IndexSets, NEW it \in Iterators(m), NEW index \in Int
  PROVE  do_erase(m, it, index) \in IndexSets
<1> DEFINE r == At(m, it)
           prev == Pred(m, it)
           u == adjust(m, prev, 0, Size(r))
           back == adjust(m, it, 0, -1)
<1>1. m \in Vectors /\ it \in Positions /\ r[1] \in Int /\ r[2] \in Int /\ r[1] < r[2] /\ r = <<r[1], r[2]>>
  BY InOrderFacts, IteratorFacts
<1>2. ASSUME NEW p \in Iterators(m)
      PROVE  /\ At(m, p)[1] \in Int /\ At(m, p)[2] \in Int /\ At(m, p)[1] < At(m, p)[2] /\ p \in Positions
             /\ (Before(p, it) => At(m, p)[2] < r[1]) /\ (Before(it, p) => r[2] < At(m, p)[1])
             /\ (p = it \/ Before(p, it) \/ Before(it, p))
  <2>1. /\ At(m, p)[1] \in Int /\ At(m, p)[2] \in Int /\ At(m, p)[1] < At(m, p)[2] /\ p \in Positions
    BY InOrderFacts
  <2>2. (Before(p, it) => At(m, p)[2] < r[1]) /\ (Before(it, p) => r[2] < At(m, p)[1])
    BY InOrderFacts
  <2>3. p = it \/ Before(p, it) \/ Before(it, p)
    BY <1>1, <2>1, Order
  <2> QED
    BY <2>1, <2>2, <2>3
<1>3. CASE r[1] <= index /\ r[1] + 1 = r[2]
  <2> DEFINE e == erase(m, it)
             z == r[2]
  <2>1. do_erase(m, it, index) = ShiftToEnd(e[1], e[2], -1)
    BY <1>3, Zenon DEF do_erase
  <2> HIDE DEF r
  <2>2. Apart(m, Iterators(m) \ {it})
    BY InOrderFacts DEF Apart
  <2>3. \A p \in Iterators(m) \ {it} : IF Before(p, it) THEN At(m, p)[2] + 1 <= z ELSE z < At(m, p)[1]
    <3>1. ASSUME NEW p \in Iterators(m), Before(p, it)
          PROVE  At(m, p)[2] + 1 <= z
      <4>1. At(m, p)[2] \in Int /\ At(m, p)[2] < r[1]
        BY <1>2, <3>1
      <4> QED
        BY <1>1, <1>3, <4>1
    <3>2. ASSUME NEW p \in Iterators(m) \ {it}, ~Before(p, it)
          PROVE  z < At(m, p)[1]
      BY <1>2, <3>2
    <3> QED
      BY <3>1, <3>2
  <2> HIDE DEF e
  <2>4. z \in Int
    BY <1>1
  <2> HIDE DEF z
  <2>5. ShiftToEnd(e[1], e[2], -1) \in IndexSets
    BY <1>1, <2>2, <2>3, <2>4, ErasedBack DEF e
  <2> QED
    BY <2>1, <2>5
<1>4. CASE r[1] <= index /\ r[1] + 1 # r[2]
  <2> DEFINE f == Succ(m, it)
             z == r[2] - 1
             b == r[1]
  <2>1. do_erase(m, it, index) = ShiftToEnd(back, f, -1)
    <3> DEFINE x == <<back, f>>
    <3>1. do_erase(m, it, index) = ShiftToEnd(x[1], x[2], -1)
      BY <1>4, Zenon DEF do_erase
    <3> HIDE DEF back, f
    <3>2. x[1] = back /\ x[2] = f
      OBVIOUS
    <3> HIDE DEF x
    <3> QED
      BY <3>1, <3>2
  <2> HIDE DEF r
  <2>2. z \in Int /\ b \in Int /\ b < z /\ z + 1 = r[2]
    BY <1>1, <1>4
  <2>3. /\ back \in Vectors /\ SameShape(m, back)
        /\ \A p \in Iterators(m) : At(back, p) = IF p = it THEN <<b, z>> ELSE At(m, p)
    <3>1. -1 \in Int /\ 0 \in Int
      OBVIOUS
    <3>2. /\ back \in Vectors /\ SameShape(m, back)
          /\ \A p \in Iterators(m) :
               At(back, p) = IF p = it THEN <<At(m, it)[1] + 0, At(m, it)[2] + (-1)>> ELSE At(m, p)
      BY <1>1, <3>1, Adjusted
    <3>3. At(m, it)[1] + 0 = b /\ At(m, it)[2] + (-1) = z
      <4>1. At(m, it)[1] = r[1] /\ At(m, it)[2] = r[2]
        BY DEF r
      <4> QED
        BY <1>1, <4>1
    <3> HIDE DEF back, b, z
    <3> QED
      BY <3>2, <3>3
  <2> HIDE DEF back, b, z
  <2>4. \A p \in Iterators(m) : (Before(p, it) => At(m, p)[2] < b) /\ (Before(it, p) => z < At(m, p)[1])
    <3>1. ASSUME NEW p \in Iterators(m), Before(it, p)
          PROVE  z < At(m, p)[1]
      <4>1. At(m, p)[1] \in Int /\ r[2] < At(m, p)[1]
        BY <1>2, <3>1
      <4> QED
        BY <1>1, <2>2, <4>1
    <3> QED
      BY <1>2, <3>1 DEF b
  <2>5. back \in IndexSets
    BY <2>2, <2>3, <2>4, ChangedInOrder
  <2>6. Iterators(back) = Iterators(m) /\ End(back) = End(m)
    BY <1>1, <2>3, ShapeFacts
  <2>7. /\ f \in Iterators(m) \cup {End(m)} /\ \A p \in Iterators(m) : Before(p, f) <=> p = it \/ Before(p, it)
    BY <1>1, SuccFacts
  <2> HIDE DEF f
  <2>8. ASSUME NEW p \in Iterators(m), NEW q \in Iterators(m), Before(p, f), ~Before(q, f)
        PROVE  At(back, p)[2] + 1 < At(back, q)[1]
    <3>1. Before(it, q) /\ q # it
      BY <1>2, <2>7, <2>8
    <3>2. At(back, q) = At(m, q) /\ At(m, q)[1] \in Int /\ r[2] < At(m, q)[1]
      BY <1>2, <2>3, <3>1
    <3>3. CASE p = it
      <4>1. At(back, p)[2] = z
        BY <2>3, <3>3
      <4> QED
        BY <2>2, <3>2, <4>1
    <3>4. CASE Before(p, it)
      <4>1. At(back, p) = At(m, p) \/ At(back, p) = <<b, z>>
        BY <2>3
      <4>2. p # it
        BY <1>1, <1>2, <3>4, Order
      <4>3. At(back, p) = At(m, p) /\ At(m, p)[2] \in Int /\ At(m, p)[2] < r[1]
        BY <1>2, <2>3, <3>4, <4>2
      <4> QED
        BY <1>1, <3>2, <4>3
    <3> QED
      BY <2>7, <2>8, <3>3, <3>4
  <2>9. ShiftToEnd(back, f, -1) \in IndexSets
    BY <2>5, <2>6, <2>7, <2>8, ShiftedBack
  <2> QED
    BY <2>1, <2>9
<1>5. CASE ~(r[1] <= index) /\ it # Begin(m) /\ At(m, prev)[2] + 1 = r[1]
  <2> DEFINE e == erase(u, it)
             z == r[2]
             b == At(m, prev)[1]
  <2>1. do_erase(m, it, index) = ShiftToEnd(e[1], e[2], -1)
    BY <1>5, Zenon DEF do_erase
  <2>2. /\ prev \in Iterators(m) /\ Before(prev, it) /\ prev # it
        /\ \A p \in Iterators(m) :
             /\ Before(p, it) => p = prev \/ Before(p, prev)
             /\ Before(prev, p) => p = it \/ Before(it, p)
    BY <1>5, PrevFacts
  <2>3. At(m, prev)[2] + 1 = r[1]
    BY <1>5
  <2>4. Size(r) = r[2] - r[1]
    BY DEF Size
  <2> HIDE DEF r, prev
  <2>5. z \in Int /\ b \in Int /\ b < z - 1 /\ At(m, prev)[2] + Size(r) = z - 1 /\ Size(r) \in Int
        /\ prev \in Positions /\ z - 1 \in Int
    <3>1. b \in Int /\ At(m, prev)[2] \in Int /\ b < At(m, prev)[2] /\ prev \in Positions
      BY <1>2, <2>2
    <3> HIDE DEF b
    <3> QED
      BY <1>1, <2>3, <2>4, <3>1
  <2>6. /\ u \in Vectors /\ SameShape(m, u)
        /\ \A p \in Iterators(m) : At(u, p) = IF p = prev THEN <<b, z - 1>> ELSE At(m, p)
    <3>1. /\ u \in Vectors /\ SameShape(m, u)
          /\ \A p \in Iterators(m) :
               At(u, p) = IF p = prev THEN <<At(m, prev)[1] + 0, At(m, prev)[2] + Size(r)>> ELSE At(m, p)
      <4> DEFINE d == Size(r)
      <4>1. d \in Int /\ 0 \in Int /\ m \in Vectors /\ prev \in Iterators(m)
        BY <1>1, <2>2, <2>5
      <4> HIDE DEF d, u, b, z
      <4>2. /\ adjust(m, prev, 0, d) \in Vectors /\ SameShape(m, adjust(m, prev, 0, d))
            /\ \A p \in Iterators(m) :
                 At(adjust(m, prev, 0, d), p) = IF p = prev THEN <<At(m, prev)[1] + 0, At(m, prev)[2] + d>>
                                                ELSE At(m, p)
        BY <4>1, Adjusted
      <4> QED
        BY <4>2 DEF d, u
    <3>2. At(m, prev)[1] + 0 = b
      BY <2>5
    <3> HIDE DEF u, b
    <3> QED
      BY <2>5, <3>1, <3>2
  <2> HIDE DEF u, b
  <2>7. Iterators(u) = Iterators(m)
    BY <1>1, <2>6, ShapeFacts
  <2>8. ASSUME NEW p \in Iterators(m) \ {it}
        PROVE  /\ (Before(p, prev) => At(m, p)[2] < b) /\ (Before(prev, p) => z < At(m, p)[1])
    <3>1. Before(prev, p) => Before(it, p)
      BY <2>2
    <3> QED
      BY <1>2, <2>2, <3>1, InOrderFacts DEF b
  <2>9. Apart(u, Iterators(m) \ {it})
    <3> DEFINE S == Iterators(m) \ {it}
               y == z - 1
    <3>1. S \in SUBSET Iterators(m)
      OBVIOUS
    <3>2. y \in Int /\ b \in Int /\ b < y
      BY <2>5
    <3>3. \A p \in S : /\ Before(p, prev) => At(m, p)[2] < b
                       /\ Before(prev, p) => y < At(m, p)[1]
      <4>1. ASSUME NEW p \in S, Before(prev, p)
            PROVE  y < At(m, p)[1]
        <5>1. z < At(m, p)[1] /\ At(m, p)[1] \in Int
          BY <1>2, <2>8, <4>1
        <5> HIDE DEF z
        <5> QED
          BY <2>5, <5>1
      <4> QED
        BY <2>8, <4>1
    <3>4. \A p \in Iterators(m) : At(u, p) = IF p = prev THEN <<b, y>> ELSE At(m, p)
      BY <2>6
    <3> HIDE DEF S, y
    <3>5. Apart(u, S)
      BY <2>2, <2>6, <3>1, <3>2, <3>3, <3>4, RangeChanged
    <3> QED
      BY <3>5 DEF S
  <2>10. \A p \in Iterators(m) \ {it} : IF Before(p, it) THEN At(u, p)[2] + 1 <= z ELSE z < At(u, p)[1]
    <3>1. ASSUME NEW p \in Iterators(m), Before(p, it)
          PROVE  At(u, p)[2] + 1 <= z
      <4>1. CASE p = prev
        <5>1. At(u, p)[2] = z - 1
          BY <2>6, <4>1
        <5> HIDE DEF z
        <5> QED
          BY <2>5, <5>1
      <4>2. CASE p # prev
        <5>1. At(u, p)[2] < r[1] /\ At(u, p)[2] \in Int
          BY <1>2, <2>6, <3>1, <4>2
        <5> QED
          BY <1>1, <5>1
      <4> QED
        BY <4>1, <4>2
    <3>2. ASSUME NEW p \in Iterators(m) \ {it}, ~Before(p, it)
          PROVE  z < At(u, p)[1]
      <4>1. p # prev
        BY <2>2, <3>2
      <4> QED
        BY <1>2, <2>6, <3>2, <4>1
    <3> QED
      BY <3>1, <3>2
  <2> HIDE DEF z
  <2>11. ShiftToEnd(e[1], e[2], -1) \in IndexSets
    BY <2>5, <2>6, <2>7, <2>9, <2>10, ErasedBack
  <2> QED
    BY <2>1, <2>11
<1>6. CASE ~(r[1] <= index) /\ ~(it # Begin(m) /\ At(m, prev)[2] + 1 = r[1])
  <2>1. do_erase(m, it, index) = ShiftToEnd(m, it, -1)
    <3> DEFINE x == <<m, it>>
    <3>1. do_erase(m, it, index) = ShiftToEnd(x[1], x[2], -1)
      BY <1>6, Zenon DEF do_erase
    <3>2. x[1] = m /\ x[2] = it
      OBVIOUS
    <3> HIDE DEF x
    <3> QED
      BY <3>1, <3>2
  <2>2. ASSUME NEW p \in Iterators(m), NEW q \in Iterators(m), Before(p, it), ~Before(q, it)
        PROVE  At(m, p)[2] + 1 < At(m, q)[1]
    <3>1. it # Begin(m)
      BY <1>1, <2>2, BeginFacts
    <3>2. At(m, prev)[2] + 1 # r[1]
      BY <1>6, <3>1
    <3>3. prev \in Iterators(m) /\ Before(prev, it) /\ At(m, p)[2] <= At(m, prev)[2]
      BY <2>2, <3>1, PrevFacts
    <3> HIDE DEF prev
    <3>4. At(m, prev)[2] \in Int /\ At(m, prev)[2] < r[1] /\ At(m, p)[2] \in Int
      BY <1>2, <3>3
    <3>5. r[1] <= At(m, q)[1] /\ At(m, q)[1] \in Int
      <4>1. CASE q = it
        BY <1>1, <4>1
      <4>2. CASE Before(it, q)
        <5>1. r[2] < At(m, q)[1] /\ At(m, q)[1] \in Int
          BY <1>2, <4>2
        <5> HIDE DEF r
        <5> QED
          BY <1>1, <5>1
      <4> QED
        BY <1>2, <2>2, <4>1, <4>2
    <3> HIDE DEF r
    <3> QED
      BY <1>1, <3>2, <3>3, <3>4, <3>5
  <2>3. ShiftToEnd(m, it, -1) \in IndexSets
    BY <2>2, ShiftedBack
  <2> QED
    BY <2>1, <2>3
<1> HIDE DEF r, prev
<1> QED
  BY <1>3, <1>4, <1>5, <1>6

LEMMA EraseAtFacts ==
  ASSUME NEW m \in IndexSets, NEW index \in Int
  PROVE  erase_at(m, index) \in IndexSets
<1> DEFINE it == find(m, index, Begin(m))
<1>1. AtEnd(m, it) <=> it \notin Iterators(m)
  BY FoundFacts
<1>2. ~AtEnd(m, it) => do_erase(m, it, index) \in IndexSets
  <2> HIDE DEF it
  <2> QED
    BY <1>1, DoEraseFacts
<1> QED
  BY <1>2 DEF erase_at

LEMMA FirstFacts ==
  ASSUME NEW m \in Vectors, NEW its \in SUBSET Iterators(m)
  PROVE  First(m, its) \in its \cup {End(m)}
<1>1. CASE its = {}
  BY <1>1 DEF First
<1>2. CASE its # {}
  <2> DEFINE O == {p[1] : p \in its}
  <2>1. \A p \in its : p \in Positions /\ p = <<p[1], p[2]>> /\ p[1] \in Nat /\ p[2] \in Nat
    BY IteratorFacts
  <2>2. PICK o \in O : \A l \in O : o <= l
    <3>1. O \in SUBSET Nat /\ O # {}
      BY <1>2, <2>1
    <3> HIDE DEF O
    <3> QED
      BY <3>1, Least
  <2> DEFINE K == {p[2] : p \in {q \in its : q[1] = o}}
  <2>3. PICK k \in K : \A l \in K : k <= l
    <3>1. K \in SUBSET Nat /\ K # {}
      BY <2>1, <2>2
    <3> HIDE DEF K
    <3> QED
      BY <3>1, Least
  <2>4. PICK p \in its : p[1] = o /\ p[2] = k
    BY <2>3
  <2>5. \A q \in its : ~Before(q, p)
    <3>1. ASSUME NEW q \in its, Before(q, p)
          PROVE  FALSE
      <4>1. o <= q[1] /\ q[1] \in Nat /\ q[2] \in Nat /\ o \in Nat /\ k \in Nat
        BY <2>1, <2>2, <2>4
      <4>2. q[1] = o => k <= q[2]
        BY <2>3
      <4> QED
        BY <2>4, <3>1, <4>1, <4>2 DEF Before
    <3> QED
      BY <3>1
  <2>6. First(m, its) = CHOOSE x \in its : \A q \in its : ~Before(q, x)
    BY <1>2 DEF First
  <2> QED
    BY <2>5, <2>6
<1> QED
  BY <1>1, <1>2

LEMMA EraseOrUnshiftFacts ==
  ASSUME NEW m \in IndexSets, NEW index \in Int
  PROVE  erase_or_unshift(m, index)[1] \in IndexSets
<1> DEFINE chunk == First(m, {p \in Iterators(m) : m[p[1]].end > index})
           its == {p \in From(m, chunk) : At(m, p)[2] > index}
           it == First(m, its)
           shifted == index - MapThenSumSet(LAMBDA o : m[o].count, 1 .. chunk[1] - 1)
                 - SizesIn(m, chunk, it)
           a == IF At(m, it)[1] <= index THEN npos ELSE shifted
<1>1. its \in SUBSET Iterators(m)
  BY DEF From
<1>2. m \in Vectors
  BY InOrderFacts
<1>3. erase_or_unshift(m, index) = IF AtEnd(m, it) THEN <<m, shifted>> ELSE <<do_erase(m, it, index), a>>
  BY Zenon DEF erase_or_unshift
<1> HIDE DEF shifted, a, its
<1>4. it \in Iterators(m) \cup {End(m)}
  <2>1. it \in its \cup {End(m)}
    BY <1>1, <1>2, FirstFacts
  <2> HIDE DEF it
  <2> QED
    BY <1>1, <2>1
<1> HIDE DEF it
<1>5. ~AtEnd(m, it) => do_erase(m, it, index) \in IndexSets
  BY <1>4, DoEraseFacts DEF AtEnd
<1> QED
  BY <1>3, <1>5

-----------------------------------------------------------------------------
(* remove and remove_all                                                   *)

\* What a round of do_remove starts from and leaves: the range at the iterator
\* is the first that stops behind the first index left to remove.
Removing(end) ==
  {s \in [m : IndexSets, it : Positions, begin : Int] :
     /\ s.begin < end /\ s.it \in Iterators(s.m) \cup {End(s.m)} /\ UpTo(s.m, s.it, s.begin)
     /\ s.it \in Iterators(s.m) => At(s.m, s.it)[2] > s.begin}

LEMMA FoundNext ==
  ASSUME NEW m \in IndexSets, NEW from \in Iterators(m) \cup {End(m)}, NEW begin \in Int, NEW end \in Int,
         begin < end, UpTo(m, from, begin)
  PROVE  [m |-> m, it |-> find(m, begin, from), begin |-> begin] \in Removing(end)
<1> DEFINE it == find(m, begin, from)
           s == [m |-> m, it |-> it, begin |-> begin]
<1>1. /\ it \in Iterators(m) \cup {End(m)} /\ UpTo(m, it, begin)
      /\ it \in Iterators(m) => At(m, it)[2] > begin
  BY FindFacts
<1> HIDE DEF it
<1>2. it \in Positions
  BY <1>1, InOrderFacts, EndFacts
<1>3. s \in [m : IndexSets, it : Positions, begin : Int] /\ s.m = m /\ s.it = it /\ s.begin = begin
  BY <1>2
<1> HIDE DEF s
<1>4. s \in Removing(end)
  BY <1>1, <1>3 DEF Removing
<1> QED
  BY <1>4 DEF s, it

LEMMA RemoveOneFacts ==
  ASSUME NEW end \in Int, NEW s \in Removing(end)
  PROVE  RemoveOne(s, end) \in Removing(end)
<1> DEFINE m == s.m
           it == s.it
           r == At(m, it)
           begin == max(r[1], s.begin)
           split == SetRange(m, it, r[1], begin)
           i == insert(split, Succ(split, it), <<end, r[2]>>)
           e == erase(m, it)
           cut == SetRange(m, it, end, r[2])
           Found(n, from) == [m |-> n, it |-> find(n, begin, from), begin |-> begin]
<1>1. /\ m \in IndexSets /\ it \in Positions /\ s.begin \in Int /\ s.begin < end
      /\ it \in Iterators(m) \cup {End(m)} /\ UpTo(m, it, s.begin)
      /\ it \in Iterators(m) => At(m, it)[2] > s.begin
  BY DEF Removing
<1>2. CASE AtEnd(m, it) \/ r[1] >= end
  <2>1. RemoveOne(s, end) = s
    BY <1>2, Zenon DEF RemoveOne
  <2> QED
    BY <2>1
<1>3. CASE ~(AtEnd(m, it) \/ r[1] >= end)
  <2> HIDE DEF m, it
  <2>1. it \in Iterators(m) /\ m \in Vectors
    BY <1>1, <1>3, InOrderFacts DEF AtEnd
  <2>2. r[1] \in Int /\ r[2] \in Int /\ r[1] < r[2] /\ r[2] > s.begin /\ r[1] < end
    <3>1. r[1] \in Int /\ r[2] \in Int /\ r[1] < r[2] /\ r[2] > s.begin
      BY <1>1, <2>1, InOrderFacts
    <3> HIDE DEF r
    <3> QED
      BY <1>3, <3>1
  <2>3. begin \in Int /\ begin < end /\ r[1] <= begin /\ s.begin <= begin /\ begin < r[2]
        /\ (begin = r[1] \/ r[1] < begin)
    <3> HIDE DEF r
    <3> QED
      BY <1>1, <2>2 DEF max
  <2>4. ASSUME NEW p \in Iterators(m)
        PROVE  /\ Before(p, it) => At(m, p)[2] < r[1] /\ At(m, p)[2] <= begin
               /\ Before(it, p) => r[2] < At(m, p)[1]
               /\ At(m, p)[1] \in Int /\ At(m, p)[2] \in Int
    <3>1. At(m, p)[1] \in Int /\ At(m, p)[2] \in Int
      BY <1>1, InOrderFacts
    <3>2. Before(p, it) => At(m, p)[2] < r[1]
      BY <1>1, <2>1, InOrderFacts
    <3>3. Before(it, p) => r[2] < At(m, p)[1]
      BY <1>1, <2>1, InOrderFacts
    <3> HIDE DEF r, begin
    <3>4. Before(p, it) => At(m, p)[2] <= s.begin
      BY <1>1 DEF UpTo
    <3> QED
      BY <1>1, <2>3, <3>1, <3>2, <3>3, <3>4
  <2>5. UpTo(m, it, begin)
    <3> HIDE DEF begin
    <3> QED
      BY <2>4 DEF UpTo
  <2>6. CASE r[1] < begin /\ r[2] > end
    <3> DEFINE n == i[1]
               f == i[2]
               prev == Pred(n, f)
               d == <<end, r[2]>>
               b == r[1]
    <3>1. RemoveOne(s, end) = Found(n, prev)
      BY <1>3, <2>6, Zenon DEF RemoveOne, m, it
    <3>2. b \in Int /\ b < begin /\ begin < d[1] /\ d[1] < d[2] /\ d \in Span /\ d[2] = r[2]
      BY <2>2, <2>3, <2>6 DEF Span
    <3>3. \A p \in Iterators(m) : /\ Before(p, it) => At(m, p)[2] < b
                                  /\ Before(it, p) => d[2] < At(m, p)[1]
      BY <2>4, <3>2
    <3> HIDE DEF begin
    <3>4. i = insert(SetRange(m, it, b, begin), Succ(SetRange(m, it, b, begin), it), d)
      OBVIOUS
    <3> HIDE DEF b, d, i, split
    <3>5. /\ n \in IndexSets /\ f \in Iterators(n) /\ f # Begin(n)
          /\ \A p \in Iterators(n) : Before(p, f) => At(n, p)[2] <= begin
      BY <1>1, <2>1, <2>3, <3>2, <3>3, <3>4, CutInTwo
    <3> HIDE DEF n, f
    <3>6. prev \in Iterators(n) /\ UpTo(n, prev, begin)
      <4>1. n \in Vectors
        BY <3>5, InOrderFacts
      <4>2. prev \in Iterators(n) /\ Before(prev, f)
        BY <3>5, <4>1, PredFacts
      <4>3. ASSUME NEW p \in Iterators(n), Before(p, prev)
            PROVE  Before(p, f)
        <5>1. p \in Positions /\ prev \in Positions /\ f \in Positions
          BY <3>5, <4>2, InOrderFacts
        <5> QED
          BY <4>2, <4>3, <5>1, Order
      <4> QED
        BY <3>5, <4>2, <4>3 DEF UpTo
    <3> HIDE DEF prev
    <3>7. Found(n, prev) \in Removing(end)
      BY <2>3, <3>5, <3>6, FoundNext
    <3> QED
      BY <3>1, <3>7
  <2>7. CASE begin = r[1] /\ end >= r[2]
    <3> DEFINE n == e[1]
               f == e[2]
    <3>1. RemoveOne(s, end) = Found(n, f)
      <4>1. ~(r[1] < begin /\ r[2] > end)
        BY <2>2, <2>7
      <4> QED
        BY <1>3, <2>7, <4>1, Zenon DEF RemoveOne, m, it
    <3> HIDE DEF begin
    <3>2. Apart(m, Iterators(m) \ {it})
      BY <1>1, InOrderFacts DEF Apart
    <3>3. n \in IndexSets /\ f \in Iterators(n) \cup {End(n)} /\ Left(n, f, m, it)
      BY <2>1, <3>2, EraseInOrder
    <3> HIDE DEF n, f
    <3>4. UpTo(n, f, begin)
      BY <2>4, <3>3 DEF Left, UpTo
    <3>5. Found(n, f) \in Removing(end)
      BY <2>3, <3>3, <3>4, FoundNext
    <3> QED
      BY <3>1, <3>5
  <2>8. CASE begin = r[1] /\ ~(end >= r[2])
    <3> DEFINE z == r[2]
    <3>1. RemoveOne(s, end) = Found(cut, it)
      <4>1. ~(r[1] < begin /\ r[2] > end)
        BY <2>2, <2>8
      <4> QED
        BY <1>3, <2>8, <4>1, Zenon DEF RemoveOne, m, it
    <3> HIDE DEF begin
    <3>2. end < z /\ z \in Int
      BY <2>2, <2>8
    <3>3. \A p \in Iterators(m) : /\ Before(p, it) => At(m, p)[2] < end
                                  /\ Before(it, p) => z < At(m, p)[1]
      <4> HIDE DEF r
      <4>1. ASSUME NEW p \in Iterators(m), Before(p, it)
            PROVE  At(m, p)[2] < end
        <5>1. At(m, p)[2] < r[1] /\ At(m, p)[2] \in Int
          BY <2>4, <4>1
        <5> QED
          BY <2>2, <5>1
      <4> QED
        BY <2>4, <4>1
    <3> HIDE DEF z
    <3>4. /\ cut \in Vectors /\ SameShape(m, cut)
          /\ \A p \in Iterators(m) : At(cut, p) = IF p = it THEN <<end, z>> ELSE At(m, p)
      BY <2>1, <3>2, SetTo DEF z
    <3> HIDE DEF cut
    <3>5. cut \in IndexSets
      BY <1>1, <2>1, <3>2, <3>3, <3>4, ChangedInOrder
    <3>6. Iterators(cut) = Iterators(m)
      BY <2>1, <3>4, ShapeFacts
    <3>7. UpTo(cut, it, begin)
      <4>1. ASSUME NEW p \in Iterators(m), Before(p, it)
            PROVE  At(cut, p)[2] <= begin
        <5>1. p # it
          BY <1>1, <4>1, Order
        <5> QED
          BY <2>4, <3>4, <4>1, <5>1
      <4> QED
        BY <3>6, <4>1 DEF UpTo
    <3>8. Found(cut, it) \in Removing(end)
      BY <2>1, <2>3, <3>5, <3>6, <3>7, FoundNext
    <3> QED
      BY <3>1, <3>8
  <2>9. CASE ~(r[1] < begin /\ r[2] > end) /\ begin # r[1]
    <3> DEFINE b == r[1]
    <3>1. RemoveOne(s, end) = Found(split, it)
      BY <1>3, <2>9, Zenon DEF RemoveOne, m, it
    <3> HIDE DEF begin
    <3>2. b \in Int /\ b < begin /\ begin < r[2]
      BY <2>2, <2>3, <2>9
    <3>3. \A p \in Iterators(m) : /\ Before(p, it) => At(m, p)[2] < b
                                  /\ Before(it, p) => begin < At(m, p)[1]
      <4> HIDE DEF b
      <4>1. ASSUME NEW p \in Iterators(m), Before(it, p)
            PROVE  begin < At(m, p)[1]
        <5>1. r[2] < At(m, p)[1] /\ At(m, p)[1] \in Int
          BY <2>4, <4>1
        <5> HIDE DEF r
        <5> QED
          BY <2>2, <2>3, <5>1
      <4> QED
        BY <2>4, <4>1 DEF b
    <3>4. /\ split \in Vectors /\ SameShape(m, split)
          /\ \A p \in Iterators(m) : At(split, p) = IF p = it THEN <<b, begin>> ELSE At(m, p)
      <4> HIDE DEF b
      <4>1. split = SetRange(m, it, b, begin)
        BY DEF b
      <4> HIDE DEF split
      <4> QED
        BY <2>1, <2>3, <3>2, <4>1, SetTo
    <3> HIDE DEF split, b
    <3>5. split \in IndexSets
      BY <1>1, <2>1, <2>3, <3>2, <3>3, <3>4, ChangedInOrder
    <3>6. Iterators(split) = Iterators(m)
      BY <2>1, <3>4, ShapeFacts
    <3>7. UpTo(split, it, begin)
      <4>1. ASSUME NEW p \in Iterators(m), Before(p, it)
            PROVE  At(split, p)[2] <= begin
        <5>1. p # it
          BY <1>1, <4>1, Order
        <5> QED
          BY <2>4, <3>4, <4>1, <5>1
      <4> QED
        BY <3>6, <4>1 DEF UpTo
    <3>8. Found(split, it) \in Removing(end)
      BY <2>1, <2>3, <3>5, <3>6, <3>7, FoundNext
    <3> QED
      BY <3>1, <3>8
  <2> HIDE DEF r, begin
  <2> QED
    BY <2>3, <2>6, <2>7, <2>8, <2>9
<1> QED
  BY <1>2, <1>3

LEMMA DoRemoveFacts ==
  ASSUME NEW m \in IndexSets, NEW from \in Iterators(m) \cup {End(m)}, NEW begin \in Int, NEW end \in Int,
         begin < end, UpTo(m, from, begin)
  PROVE  LET a == do_remove(m, from, begin, end)
         IN /\ a \in IndexSets \X Positions /\ a[2] \in Iterators(a[1]) \cup {End(a[1])}
            /\ UpTo(a[1], a[2], end)
<1> DEFINE first == [m |-> m, it |-> find(m, begin, from), begin |-> begin]
<1> DEFINE N == end - begin
           I == (0 .. N) \X Removing(end)
           Step(v, k) == RemoveOne(v, end)
           F == [p \in I |-> Step(p[2], p[1] + 1)]
           Eq(f) == f = [k \in 0 .. N |-> IF k = 0 THEN first ELSE Step(f[k - 1], k)]
           loop == CHOOSE f : Eq(f)
<1>1. N \in Nat /\ <<0, first>> \in I
  <2>1. first \in Removing(end)
    BY FoundNext
  <2> HIDE DEF first
  <2> QED
    BY <2>1
<1> HIDE DEF first
<1>2. ASSUME NEW k \in 1 .. N, NEW v, <<k - 1, v>> \in I
      PROVE  <<k, Step(v, k)>> \in I
  <2>1. v \in Removing(end) /\ k \in 0 .. N
    BY <1>1, <1>2
  <2>2. RemoveOne(v, end) \in Removing(end)
    BY <2>1, RemoveOneFacts
  <2> QED
    BY <2>1, <2>2
<1>3. Within(N, I, loop) /\ loop[0] = first
  <2> HIDE DEF I, N, Step
  <2>1. ASSUME NEW k \in 1 .. N, NEW v, <<k - 1, v>> \in I
        PROVE  F[<<k - 1, v>>] = Step(v, k)
    <3>1. k - 1 + 1 = k
      BY <1>1
    <3> QED
      BY <2>1, <3>1
  <2>2. PICK f : LedBy(N, first, F, f) /\ Within(N, I, f)
    <3>1. \A k \in 1 .. N : \A v : <<k - 1, v>> \in I => <<k, F[<<k - 1, v>>]>> \in I
      BY <1>2, <2>1
    <3> HIDE DEF F
    <3> QED
      BY <1>1, <3>1, Rounds, Zenon
  <2>3. Eq(f)
    <3>1. ASSUME NEW k \in 1 .. N
          PROVE  f[k] = Step(f[k - 1], k)
      <4>1. k - 1 \in 0 .. N
        BY <1>1
      <4>2. <<k - 1, f[k - 1]>> \in I /\ f[k] = F[<<k - 1, f[k - 1]>>]
        BY <2>2, <4>1 DEF LedBy, Within
      <4> HIDE DEF F
      <4> QED
        BY <2>1, <4>2
    <3>2. f = [k \in 0 .. N |-> f[k]] /\ f[0] = first
      BY <2>2 DEF LedBy
    <3> DEFINE h == [k \in 0 .. N |-> IF k = 0 THEN first ELSE Step(f[k - 1], k)]
    <3>3. ASSUME NEW k \in 0 .. N
          PROVE  h[k] = f[k]
      <4>1. k = 0 \/ k \in 1 .. N
        BY <1>1
      <4> QED
        BY <3>1, <3>2, <4>1
    <3>4. h = [k \in 0 .. N |-> h[k]]
      OBVIOUS
    <3>5. h = f
      <4> HIDE DEF h
      <4> QED
        BY <3>2, <3>3, <3>4
    <3> QED
      BY <3>5
  <2>4. Eq(loop)
    <3> HIDE DEF Eq
    <3> QED
      BY <2>3
  <2> HIDE DEF loop, F
  <2>5. loop[0] = first /\ \A k \in 1 .. N : loop[k] = Step(loop[k - 1], k)
    <3>1. \A k \in 0 .. N : loop[k] = IF k = 0 THEN first ELSE Step(loop[k - 1], k)
      BY <2>4, Zenon
    <3> QED
      BY <1>1, <3>1
  <2>6. \A k \in 1 .. N : <<k - 1, loop[k - 1]>> \in I => <<k, loop[k]>> \in I
    BY <1>2, <2>5
  <2>7. Within(N, I, loop)
    <3> HIDE DEF F, Eq
    <3> QED
      BY <1>1, <2>5, <2>6, EveryRound
  <2> QED
    BY <2>5, <2>7
<1> DEFINE s == loop[N]
<1>4. do_remove(m, from, begin, end) = <<s.m, s.it>>
  BY DEF do_remove, first
<1> HIDE DEF loop
<1>5. s \in Removing(end)
  <2> HIDE DEF N
  <2>1. N \in 0 .. N
    BY <1>1
  <2>2. <<N, loop[N]>> \in I
    BY <1>3, <2>1 DEF Within
  <2> QED
    BY <2>2
<1> HIDE DEF s
<1>6. /\ s.m \in IndexSets /\ s.it \in Positions /\ s.begin \in Int /\ s.begin < end
      /\ s.it \in Iterators(s.m) \cup {End(s.m)} /\ UpTo(s.m, s.it, s.begin)
  BY <1>5 DEF Removing
<1>7. UpTo(s.m, s.it, end)
  <2> DEFINE n == s.m
             low == s.begin
  <2>1. n \in IndexSets /\ low \in Int /\ low <= end /\ UpTo(n, s.it, low)
    BY <1>6
  <2> HIDE DEF n, low
  <2>2. UpTo(n, s.it, end)
    BY <2>1, UpToMore
  <2> QED
    BY <2>2 DEF n
<1>8. <<s.m, s.it>>[1] = s.m /\ <<s.m, s.it>>[2] = s.it /\ <<s.m, s.it>> \in IndexSets \X Positions
  BY <1>6
<1> QED
  BY <1>4, <1>6, <1>7, <1>8

LEMMA RemoveFacts ==
  ASSUME NEW m \in IndexSets, NEW index \in Int, NEW n \in Nat \ {0}
  PROVE  remove(m, index, n) \in IndexSets
<1> DEFINE it == find(m, index, Begin(m))
           end == index + n
           a == do_remove(m, it, index, end)
<1>1. it \in Iterators(m) \cup {End(m)} /\ UpTo(m, it, index)
  BY FoundFacts
<1>2. end \in Int /\ index < end
  OBVIOUS
<1>3. remove(m, index, n) = a[1]
  BY DEF remove
<1> HIDE DEF it, end
<1>4. a \in IndexSets \X Positions
  BY <1>1, <1>2, DoRemoveFacts
<1> HIDE DEF a
<1> QED
  BY <1>3, <1>4

\* Each search goes on from the range the one before ended at.
LEMMA RemoveAllFacts ==
  ASSUME NEW m \in IndexSets, NEW values \in IndexSets
  PROVE  remove_all(m, values) \in IndexSets
<1> DEFINE ranges == Ranges(values)
<1> DEFINE N == Len(ranges)
           I == {p \in (0 .. N) \X (IndexSets \X Positions) :
                   /\ p[2][2] \in Iterators(p[2][1]) \cup {End(p[2][1])}
                   /\ \A i \in p[1] + 1 .. N : UpTo(p[2][1], p[2][2], ranges[i][1])}
           Step(v, k) == IF k > 1 /\ AtEnd(v[1], v[2]) THEN v
                         ELSE do_remove(v[1], v[2], ranges[k][1], ranges[k][2])
           F == [p \in I |-> Step(p[2], p[1] + 1)]
           Eq(f) == f = [k \in 0 .. N |-> IF k = 0 THEN <<m, Begin(m)>> ELSE Step(f[k - 1], k)]
           loop == CHOOSE f : Eq(f)
<1>0. /\ N \in Nat
      /\ \A k \in 1 .. N : ranges[k][1] \in Int /\ ranges[k][2] \in Int /\ ranges[k][1] < ranges[k][2]
      /\ \A i, j \in 1 .. N : i < j => ranges[i][2] < ranges[j][1]
  <2>1. ranges \in Rows
    BY RangesInOrder
  <2> HIDE DEF ranges
  <2> QED
    BY <2>1, RowFacts
<1> HIDE DEF ranges
<1>1. N \in Nat /\ <<0, <<m, Begin(m)>>>> \in I
  <2> DEFINE b == Begin(m)
             s == <<m, b>>
  <2>1. b \in Iterators(m) \cup {End(m)} /\ \A i : UpTo(m, b, i)
    BY NothingBefore
  <2>2. b \in Positions
    BY <2>1, InOrderFacts, EndFacts
  <2> HIDE DEF b
  <2>3. s \in IndexSets \X Positions /\ s[1] = m /\ s[2] = b
    BY <2>2
  <2> HIDE DEF s
  <2>4. <<0, s>> \in I
    <3> DEFINE p == <<0, s>>
    <3>1. p[1] = 0 /\ p[2] = s /\ p \in (0 .. N) \X (IndexSets \X Positions)
      BY <1>0, <2>3
    <3> HIDE DEF p, N
    <3>2. p \in I
      BY <2>1, <2>3, <3>1
    <3> QED
      BY <3>2 DEF p
  <2> QED
    BY <1>0, <2>4 DEF s, b
<1>2. ASSUME NEW k \in 1 .. N, NEW v, <<k - 1, v>> \in I
      PROVE  <<k, Step(v, k)>> \in I
  <2> DEFINE d == do_remove(v[1], v[2], ranges[k][1], ranges[k][2])
             low == ranges[k][1]
             z == ranges[k][2]
  <2>1. k \in 0 .. N
    BY <1>0
  <2>2. /\ v \in IndexSets \X Positions /\ v[2] \in Iterators(v[1]) \cup {End(v[1])}
        /\ \A i \in k .. N : UpTo(v[1], v[2], ranges[i][1])
    <3> DEFINE p == <<k - 1, v>>
    <3>1. p[1] = k - 1 /\ p[2] = v
      OBVIOUS
    <3>2. p \in I
      BY <1>2
    <3> HIDE DEF p, N
    <3>3. v \in IndexSets \X Positions /\ v[2] \in Iterators(v[1]) \cup {End(v[1])}
          /\ \A i \in k - 1 + 1 .. N : UpTo(v[1], v[2], ranges[i][1])
      BY <3>1, <3>2
    <3>4. k - 1 + 1 = k
      BY <1>0
    <3> QED
      BY <3>3, <3>4
  <2>3. ASSUME NEW c, c \in IndexSets \X Positions, c[2] \in Iterators(c[1]) \cup {End(c[1])},
               \A i \in k + 1 .. N : UpTo(c[1], c[2], ranges[i][1])
        PROVE  <<k, c>> \in I
    <3> DEFINE p == <<k, c>>
    <3>1. p[1] = k /\ p[2] = c /\ p \in (0 .. N) \X (IndexSets \X Positions)
      BY <2>1, <2>3
    <3> HIDE DEF p, N
    <3>2. p \in I
      BY <2>3, <3>1
    <3> QED
      BY <3>2 DEF p
  <2>4. CASE k > 1 /\ AtEnd(v[1], v[2])
    <3>1. Step(v, k) = v
      BY <2>4
    <3>2. \A i \in k + 1 .. N : UpTo(v[1], v[2], ranges[i][1])
      <4>1. \A i \in k + 1 .. N : i \in k .. N
        BY <1>0
      <4> QED
        BY <2>2, <4>1
    <3> HIDE DEF I, Step, N
    <3>3. <<k, v>> \in I
      BY <2>2, <2>3, <3>2
    <3> QED
      BY <3>1, <3>3
  <2>5. CASE ~(k > 1 /\ AtEnd(v[1], v[2]))
    <3>1. Step(v, k) = d
      BY <2>5
    <3>2. low \in Int /\ z \in Int /\ low < z /\ v[1] \in IndexSets /\ UpTo(v[1], v[2], low)
      <4>1. k \in k .. N
        BY <1>0
      <4> HIDE DEF N
      <4> QED
        BY <1>0, <2>2, <4>1
    <3>3. d = do_remove(v[1], v[2], low, z)
      OBVIOUS
    <3> HIDE DEF d, low, z
    <3>4. /\ d \in IndexSets \X Positions /\ d[2] \in Iterators(d[1]) \cup {End(d[1])}
          /\ UpTo(d[1], d[2], z)
      BY <2>2, <3>2, <3>3, DoRemoveFacts
    <3>5. ASSUME NEW i \in k + 1 .. N
          PROVE  UpTo(d[1], d[2], ranges[i][1])
      <4> DEFINE high == ranges[i][1]
                 n == d[1]
      <4>1. high \in Int /\ z <= high /\ n \in IndexSets
        <5>1. i \in 1 .. N /\ k < i
          BY <1>0
        <5>2. z < high /\ high \in Int
          <6> HIDE DEF N
          <6> QED
            BY <1>0, <5>1 DEF z
        <5> HIDE DEF high
        <5> QED
          BY <3>2, <3>4, <5>2
      <4> HIDE DEF high, n
      <4>2. UpTo(n, d[2], z)
        BY <3>4 DEF n
      <4>3. UpTo(n, d[2], high)
        BY <3>2, <4>1, <4>2, UpToMore
      <4> QED
        BY <4>3 DEF high, n
    <3> HIDE DEF I, Step, N
    <3>6. <<k, d>> \in I
      BY <2>3, <3>4, <3>5
    <3> QED
      BY <3>1, <3>6
  <2> QED
    BY <2>4, <2>5
<1>3. Within(N, I, loop) /\ loop[0] = <<m, Begin(m)>>
  <2> HIDE DEF I, N, Step
  <2>1. ASSUME NEW k \in 1 .. N, NEW v, <<k - 1, v>> \in I
        PROVE  F[<<k - 1, v>>] = Step(v, k)
    <3>1. k - 1 + 1 = k
      BY <1>1
    <3> QED
      BY <2>1, <3>1
  <2>2. PICK f : LedBy(N, <<m, Begin(m)>>, F, f) /\ Within(N, I, f)
    <3>1. \A k \in 1 .. N : \A v : <<k - 1, v>> \in I => <<k, F[<<k - 1, v>>]>> \in I
      BY <1>2, <2>1
    <3> HIDE DEF F
    <3> QED
      BY <1>1, <3>1, Rounds, Zenon
  <2>3. Eq(f)
    <3>1. ASSUME NEW k \in 1 .. N
          PROVE  f[k] = Step(f[k - 1], k)
      <4>1. k - 1 \in 0 .. N
        BY <1>1
      <4>2. <<k - 1, f[k - 1]>> \in I /\ f[k] = F[<<k - 1, f[k - 1]>>]
        BY <2>2, <4>1 DEF LedBy, Within
      <4> HIDE DEF F
      <4> QED
        BY <2>1, <4>2
    <3>2. f = [k \in 0 .. N |-> f[k]] /\ f[0] = <<m, Begin(m)>>
      BY <2>2 DEF LedBy
    <3> DEFINE h == [k \in 0 .. N |-> IF k = 0 THEN <<m, Begin(m)>> ELSE Step(f[k - 1], k)]
    <3>3. ASSUME NEW k \in 0 .. N
          PROVE  h[k] = f[k]
      <4>1. k = 0 \/ k \in 1 .. N
        BY <1>1
      <4> QED
        BY <3>1, <3>2, <4>1
    <3>4. h = [k \in 0 .. N |-> h[k]]
      OBVIOUS
    <3>5. h = f
      <4> HIDE DEF h
      <4> QED
        BY <3>2, <3>3, <3>4
    <3> QED
      BY <3>5
  <2>4. Eq(loop)
    <3> HIDE DEF Eq
    <3> QED
      BY <2>3
  <2> HIDE DEF loop, F
  <2>5. loop[0] = <<m, Begin(m)>> /\ \A k \in 1 .. N : loop[k] = Step(loop[k - 1], k)
    <3>1. \A k \in 0 .. N : loop[k] = IF k = 0 THEN <<m, Begin(m)>> ELSE Step(loop[k - 1], k)
      BY <2>4, Zenon
    <3> QED
      BY <1>1, <3>1
  <2>6. \A k \in 1 .. N : <<k - 1, loop[k - 1]>> \in I => <<k, loop[k]>> \in I
    BY <1>2, <2>5
  <2>7. Within(N, I, loop)
    <3> HIDE DEF F, Eq
    <3> QED
      BY <1>1, <2>5, <2>6, EveryRound
  <2> QED
    BY <2>5, <2>7
<1>4. remove_all(m, values) = loop[N][1]
  BY DEF remove_all, ranges
<1> HIDE DEF loop
<1>5. loop[N][1] \in IndexSets
  <2> HIDE DEF N
  <2>1. N \in 0 .. N
    BY <1>1
  <2>2. <<N, loop[N]>> \in I
    BY <1>3, <2>1 DEF Within
  <2>3. loop[N] \in IndexSets \X Positions
    BY <2>2
  <2> QED
    BY <2>3
<1> QED
  BY <1>4, <1>5

-----------------------------------------------------------------------------
(* The builder: what finalize makes of it is an IndexSet after every range  *)

LEMMA LastFacts ==
  ASSUME NEW V, NEW s \in Seq(V), s # <<>>
  PROVE  /\ Len(s) \in Nat \ {0} /\ Last(s) = s[Len(s)] /\ Last(s) \in V
         /\ Front(s) \in Seq(V) /\ Len(Front(s)) = Len(s) - 1
         /\ \A k \in 1 .. Len(s) - 1 : Front(s)[k] = s[k]
         /\ \A x \in V : Append(Front(s), x) = [s EXCEPT ![Len(s)] = x]
<1>1. Len(s) \in Nat \ {0} /\ Last(s) = s[Len(s)] /\ Last(s) \in V
  BY DEF Last
<1>2. /\ Front(s) \in Seq(V) /\ Len(Front(s)) = Len(s) - 1
      /\ \A k \in 1 .. Len(s) - 1 : Front(s)[k] = s[k]
  <2> DEFINE n == Len(s) - 1
  <2>1. n \in 0 .. Len(s) /\ 1 \in 1 .. Len(s) + 1 /\ n \in 1 - 1 .. Len(s)
    BY <1>1
  <2>2. Front(s) = SubSeq(s, 1, n)
    BY DEF Front
  <2> HIDE DEF n
  <2>3. /\ SubSeq(s, 1, n) \in Seq(V) /\ Len(SubSeq(s, 1, n)) = n + 1 - 1
        /\ \A k \in 1 .. n + 1 - 1 : SubSeq(s, 1, n)[k] = s[1 + k - 1]
    BY <2>1, PartOf
  <2>4. n + 1 - 1 = n
    BY <2>1
  <2>5. \A k \in 1 .. n : SubSeq(s, 1, n)[k] = s[k]
    <3>1. \A k \in 1 .. n : 1 + k - 1 = k
      BY <2>1
    <3> QED
      BY <2>3, <2>4, <3>1
  <2> QED
    BY <2>2, <2>3, <2>4, <2>5 DEF n
<1>3. ASSUME NEW x \in V
      PROVE  Append(Front(s), x) = [s EXCEPT ![Len(s)] = x]
  <2> DEFINE f == Front(s)
             a == Append(f, x)
             b == [s EXCEPT ![Len(s)] = x]
  <2>1. /\ a \in Seq(V) /\ Len(a) = Len(s) /\ a[Len(s)] = x
        /\ \A k \in 1 .. Len(s) - 1 : a[k] = s[k]
    <3> HIDE DEF f
    <3>1. f \in Seq(V) /\ Len(f) = Len(s) - 1 /\ \A k \in 1 .. Len(s) - 1 : f[k] = s[k]
      BY <1>2 DEF f
    <3> QED
      BY <1>1, <3>1
  <2>2. b \in Seq(V) /\ Len(b) = Len(s) /\ \A k \in 1 .. Len(s) : b[k] = IF k = Len(s) THEN x ELSE s[k]
    BY <1>1
  <2> HIDE DEF a, b
  <2>3. \A k \in 1 .. Len(s) : a[k] = b[k]
    BY <1>1, <2>1, <2>2
  <2>4. a = b
    BY <2>1, <2>2, <2>3
  <2> QED
    BY <2>4 DEF a, b, f
<1> QED
  BY <1>1, <1>2, <1>3

LEMMA AppendLast ==
  ASSUME NEW V, NEW s \in Seq(V), NEW x \in V
  PROVE  /\ Append(s, x) \in Seq(V) /\ Append(s, x) # <<>> /\ Last(Append(s, x)) = x
         /\ Front(Append(s, x)) = s /\ Len(Append(s, x)) = Len(s) + 1
<1> DEFINE a == Append(s, x)
<1>1. /\ a \in Seq(V) /\ Len(a) = Len(s) + 1 /\ a[Len(s) + 1] = x /\ a # <<>> /\ Len(s) \in Nat
      /\ \A k \in 1 .. Len(s) : a[k] = s[k]
  OBVIOUS
<1> HIDE DEF a
<1>2. Last(a) = a[Len(a)] /\ Front(a) \in Seq(V) /\ Len(Front(a)) = Len(a) - 1
      /\ \A k \in 1 .. Len(a) - 1 : Front(a)[k] = a[k]
  BY <1>1, LastFacts
<1> DEFINE f == Front(a)
<1>3. f = s
  <2>1. f \in Seq(V) /\ Len(f) = Len(s) /\ \A k \in 1 .. Len(s) : f[k] = s[k]
    BY <1>1, <1>2
  <2> HIDE DEF f
  <2> QED
    BY <2>1
<1>4. Last(a) = x
  BY <1>1, <1>2
<1> QED
  BY <1>1, <1>3, <1>4 DEF a

\* The chunk being filled, with its end set.
Closed(c) == [c EXCEPT !.end = Last(c.data)[2]]

LEMMA FinalizeMore ==
  ASSUME NEW s \in Seq(Chunk), NEW c \in Chunk, NEW b, b.chunks = Append(s, c)
  PROVE  finalize(b) = Append(s, Closed(c))
<1>1. Append(s, c) # <<>> /\ Last(Append(s, c)) = c /\ Front(Append(s, c)) = s
  BY AppendLast
<1>2. finalize(b) = Append(Front(b.chunks), Closed(Last(b.chunks)))
  BY <1>1, Zenon DEF finalize, Closed
<1> QED
  BY <1>1, <1>2

LEMMA ClosedChunk ==
  ASSUME NEW c \in Chunk, c.data # <<>>
  PROVE  /\ Closed(c) = [data |-> c.data, begin |-> c.begin, end |-> Last(c.data)[2], count |-> c.count]
         /\ Closed(c) \in Chunk
<1>1. c.data \in Seq(Span)
  BY DEF Chunk
<1> DEFINE e == Last(c.data)[2]
<1>2. e \in Int
  <2>1. Last(c.data) \in Span
    BY <1>1, LastFacts
  <2> QED
    BY <2>1 DEF Span
<1>3. Closed(c) = [c EXCEPT !.end = e]
  BY DEF Closed
<1> HIDE DEF e
<1>4. [c EXCEPT !.end = e] = [data |-> c.data, begin |-> c.begin, end |-> e, count |-> c.count]
  BY DEF Chunk
<1>5. [data |-> c.data, begin |-> c.begin, end |-> e, count |-> c.count] \in Chunk
  BY <1>2 DEF Chunk
<1> QED
  BY <1>3, <1>4, <1>5 DEF e

\* A builder, its chunks without the invariant their ends will give them.
Open == [chunks : Seq(Chunk), room : Nat \ {0}]

\* n is m, its last range grown by r, which starts where that range stops.
Grown(m, n, r) ==
  LET e == Pred(m, End(m))
  IN /\ n \in Vectors /\ SameShape(m, n) /\ e \in Iterators(m) /\ At(m, e)[2] = r[1]
     /\ \A p \in Iterators(m) : At(n, p) = IF p = e THEN <<At(m, e)[1], r[2]>> ELSE At(m, p)

LEMMA LastIterator ==
  ASSUME NEW m \in Vectors, m # <<>>
  PROVE  LET e == Pred(m, End(m))
         IN /\ e = <<Len(m), Len(m[Len(m)].data)>> /\ e \in Iterators(m)
            /\ At(m, e) = m[Len(m)].data[Len(m[Len(m)].data)]
            /\ \A p \in Iterators(m) : p = e \/ Before(p, e)
<1> DEFINE e == Pred(m, End(m))
           L == Len(m)
<1>1. L \in Nat /\ L \in 1 .. L
  BY VectorLen
<1>2. e = <<L, Len(m[L].data)>>
  <2> DEFINE z == End(m)
  <2>1. z[1] - 1 = L /\ ~(z[2] > 1)
    BY <1>1 DEF End
  <2> HIDE DEF z
  <2>2. Pred(m, z) = <<z[1] - 1, Len(m[z[1] - 1].data)>>
    BY <2>1, Zenon DEF Pred
  <2> QED
    BY <2>1, <2>2 DEF z
<1>3. End(m) # Begin(m)
  BY BeginFacts, EndFacts
<1>4. /\ e \in Iterators(m)
      /\ \A p \in Iterators(m) : Before(p, End(m)) => p = e \/ Before(p, e)
  BY <1>3, PredFacts
<1>5. At(m, e) = m[L].data[Len(m[L].data)]
  BY <1>2 DEF At
<1> QED
  BY <1>2, <1>4, <1>5, EndFacts

LEMMA BuildFirst ==
  ASSUME NEW b \in Open, NEW r \in Span, b.chunks = <<>>
  PROVE  /\ finalize(b) = <<>> /\ Build(b, r) \in Open /\ Build(b, r).room = b.room
         /\ finalize(Build(b, r)) = push_back(<<>>, r)
<1> DEFINE next == [data |-> <<r>>, begin |-> r[1], end |-> 0, count |-> Size(r)]
           n == Build(b, r)
<1>1. finalize(b) = <<>>
  BY Zenon DEF finalize
<1>2. b.room \in Nat \ {0} /\ Len(b.chunks) < b.room
  BY DEF Open
<1>3. n = [b EXCEPT !.chunks = <<next>>]
  <2> DEFINE num == IF Len(b.chunks) < b.room THEN Size(r) ELSE 1
  <2>1. n = [b EXCEPT !.chunks = <<[data |-> <<r>>, begin |-> r[1], end |-> 0, count |-> num]>>]
    BY Zenon DEF Build
  <2>2. num = Size(r)
    BY <1>2
  <2> HIDE DEF num
  <2> QED
    BY <2>1, <2>2
<1>4. next \in Chunk
  <2>1. <<r>> \in Seq(Span) /\ Size(r) \in Int
    BY SizesOne
  <2>2. r[1] \in Int
    BY DEF Span
  <2> QED
    BY <2>1, <2>2 DEF Chunk
<1> DEFINE e == r[2]
<1>5. Closed(next) = ChunkOf(<<r>>)
  <2>1. Closed(next) = [data |-> <<r>>, begin |-> r[1], end |-> e, count |-> Size(r)]
    BY DEF Closed, Last
  <2>2. ChunkOf(<<r>>) = [data |-> <<r>>, begin |-> r[1], end |-> e, count |-> Sizes(<<r>>)]
    BY DEF ChunkOf, Last
  <2> QED
    BY <2>1, <2>2, SizesOne
<1> HIDE DEF next
<1>6. n \in Open /\ n.room = b.room /\ n.chunks = <<next>>
  <2>1. <<next>> \in Seq(Chunk)
    BY <1>4
  <2> QED
    BY <1>3, <2>1 DEF Open
<1> HIDE DEF n
<1>7. finalize(n) = Append(<<>>, Closed(next))
  <2>1. n.chunks = Append(<<>>, next) /\ <<>> \in Seq(Chunk)
    BY <1>6
  <2> QED
    BY <1>4, <2>1, FinalizeMore
<1>8. push_back(<<>>, r) = Append(<<>>, ChunkOf(<<r>>))
  BY Zenon DEF push_back
<1> QED
  BY <1>1, <1>5, <1>6, <1>7, <1>8 DEF n

\* What the chunk being filled is when there is one.
LEMMA Filling ==
  ASSUME NEW b \in Open, b.chunks # <<>>, finalize(b) \in Vectors
  PROVE  LET s == b.chunks
             m == finalize(b)
             c == Last(s)
             d == c.data
         IN /\ m # <<>> /\ Len(m) = Len(s) /\ Len(s) \in Nat \ {0} /\ c \in Chunk /\ Front(s) \in Seq(Chunk)
            /\ d \in Seq(Span) /\ Len(d) \in Nat /\ Len(d) \in 1 .. MaxSize /\ Last(m) = m[Len(m)]
            /\ Last(d) = d[Len(d)] /\ c.begin = d[1][1] /\ c.count = Sizes(d)
            /\ m[Len(m)] = [data |-> d, begin |-> c.begin, end |-> Last(d)[2], count |-> c.count]
            /\ m[Len(m)] \in Chunks
            /\ \A x \in Chunks : Append(Front(s), x) = [m EXCEPT ![Len(m)] = x]
            /\ \A x : [b EXCEPT !.chunks = x].chunks = x /\ [b EXCEPT !.chunks = x].room = b.room
                      /\ (x \in Seq(Chunk) => [b EXCEPT !.chunks = x] \in Open)
<1> DEFINE s == b.chunks
           f == Front(s)
           m == finalize(b)
           c == Last(s)
           d == c.data
           z == Closed(c)
<1>1. /\ s \in Seq(Chunk) /\ b.room \in Nat \ {0}
      /\ \A x : [b EXCEPT !.chunks = x].chunks = x /\ [b EXCEPT !.chunks = x].room = b.room
                /\ (x \in Seq(Chunk) => [b EXCEPT !.chunks = x] \in Open)
  BY DEF Open
<1>2. Len(s) \in Nat \ {0} /\ c \in Chunk /\ f \in Seq(Chunk) /\ Len(f) = Len(s) - 1
  BY <1>1, LastFacts
<1>3. m = Append(f, z)
  BY Zenon DEF finalize, Closed
<1> HIDE DEF f, s, c, m
<1>4. z.data = d /\ z.begin = c.begin /\ z.count = c.count /\ d \in Seq(Span)
  BY <1>2 DEF Closed, Chunk
<1>5. m # <<>> /\ Len(m) = Len(s) /\ m[Len(m)] = z /\ Last(m) = z /\ Front(m) = f
  <2> HIDE DEF z
  <2>1. m # <<>> /\ Len(m) = Len(s) /\ m[Len(m)] = z /\ \A k \in 1 .. Len(f) : m[k] = f[k]
    BY <1>2, <1>3
  <2>2. m \in Vectors
    BY DEF m
  <2>3. /\ Last(m) = m[Len(m)] /\ Front(m) \in Seq(Chunks) /\ Len(Front(m)) = Len(m) - 1
        /\ \A k \in 1 .. Len(m) - 1 : Front(m)[k] = m[k]
    BY <2>1, <2>2, LastFacts DEF Vectors
  <2> DEFINE g == Front(m)
  <2>4. g \in Seq(Chunks) /\ Len(g) = Len(f) /\ \A k \in 1 .. Len(f) : g[k] = f[k]
    BY <1>2, <2>1, <2>3
  <2> HIDE DEF g
  <2>5. g = f
    BY <1>2, <2>4
  <2> QED
    BY <2>1, <2>3, <2>5 DEF g
<1>6. z \in Chunks
  <2> HIDE DEF z
  <2>1. Last(m) \in Chunks
    BY <1>5, LastFacts DEF m, Vectors
  <2> QED
    BY <1>5, <2>1
<1>7. d # <<>> /\ Len(d) <= MaxSize /\ c.begin = d[1][1] /\ c.count = Sizes(d)
  <2> HIDE DEF z, d
  <2>1. Right(z)
    BY <1>6 DEF Chunks
  <2> QED
    BY <1>4, <2>1 DEF Right
<1>8. Len(d) \in Nat /\ Len(d) \in 1 .. MaxSize /\ Last(d) = d[Len(d)]
  <2> HIDE DEF d
  <2>1. Len(d) \in Nat \ {0} /\ Last(d) = d[Len(d)]
    BY <1>4, <1>7, LastFacts
  <2> QED
    BY <1>7, <2>1, SetAssumption
<1>9. z = [data |-> d, begin |-> c.begin, end |-> Last(d)[2], count |-> c.count]
  BY <1>2, <1>7, ClosedChunk
<1>10. \A x \in Chunks : Append(f, x) = [m EXCEPT ![Len(m)] = x]
  <2>1. m \in Seq(Chunks)
    BY DEF m, Vectors
  <2> HIDE DEF z
  <2> QED
    BY <1>5, <2>1, LastFacts
<1> HIDE DEF d, z
<1>11. m[Len(m)] = [data |-> d, begin |-> c.begin, end |-> Last(d)[2], count |-> c.count] /\ m[Len(m)] \in Chunks
       /\ Last(m) = m[Len(m)]
  BY <1>5, <1>6, <1>9
<1> QED
  BY <1>1, <1>2, <1>4, <1>5, <1>7, <1>8, <1>10, <1>11 DEF d, m, s, c, f

LEMMA TwoFieldsSet ==
  ASSUME NEW c \in Chunk, NEW d, NEW n
  PROVE  [c EXCEPT !.data = d, !.count = n] = [data |-> d, begin |-> c.begin, end |-> c.end, count |-> n]
<1> DEFINE c1 == [c EXCEPT !.data = d]
<1>1. c = [data |-> c.data, begin |-> c.begin, end |-> c.end, count |-> c.count]
  BY DEF Chunk
<1> DEFINE a == c.data
           b == c.begin
           e == c.end
           k == c.count
<1> HIDE DEF a, b, e, k
<1>2. c = [data |-> a, begin |-> b, end |-> e, count |-> k]
  BY <1>1 DEF a, b, e, k
<1>3. c1 = [data |-> d, begin |-> b, end |-> e, count |-> k]
  BY <1>2
<1>4. [c EXCEPT !.data = d, !.count = n] = [c1 EXCEPT !.count = n]
  OBVIOUS
<1> HIDE DEF c1
<1>5. [c1 EXCEPT !.count = n] = [data |-> d, begin |-> b, end |-> e, count |-> n]
  BY <1>3
<1> QED
  BY <1>4, <1>5 DEF b, e

LEMMA BuildMore ==
  ASSUME NEW b \in Open, NEW r \in Span, b.chunks # <<>>, finalize(b) \in Vectors,
         \/ Size(r) = 1
         \/ Len(finalize(b)) < b.room
         \/ Len(Last(finalize(b)).data) < MaxSize
  PROVE  LET m == finalize(b)
             n == finalize(Build(b, r))
         IN /\ Build(b, r) \in Open /\ Build(b, r).room = b.room
            /\ IF At(m, Pred(m, End(m)))[2] = r[1] THEN Grown(m, n, r) ELSE n = push_back(m, r)
<1> DEFINE s == b.chunks
           f == Front(s)
           m == finalize(b)
           L == Len(m)
           e == Pred(m, End(m))
           c == Last(s)
           d == c.data
           z == Last(d)[2]
           last == [data |-> d, begin |-> c.begin, end |-> z, count |-> c.count]
           b2 == Build(b, r)
           n == finalize(b2)
           full == [c EXCEPT !.end = z]
           With(data) == Append(f, [c EXCEPT !.data = data, !.count = c.count + Size(r)])
<1>1. /\ m # <<>> /\ L = Len(s) /\ L \in Nat \ {0} /\ c \in Chunk /\ f \in Seq(Chunk)
      /\ d \in Seq(Span) /\ Len(d) \in Nat /\ Len(d) \in 1 .. MaxSize /\ Last(m) = m[L]
      /\ Last(d) = d[Len(d)] /\ c.begin = d[1][1] /\ c.count = Sizes(d)
      /\ m[L] = last /\ m[L] \in Chunks
      /\ \A x \in Chunks : Append(f, x) = [m EXCEPT ![L] = x]
      /\ \A x : [b EXCEPT !.chunks = x].chunks = x /\ [b EXCEPT !.chunks = x].room = b.room
                /\ (x \in Seq(Chunk) => [b EXCEPT !.chunks = x] \in Open)
  BY Filling
<1>2. /\ e = <<L, Len(d)>> /\ e \in Iterators(m) /\ At(m, e) = d[Len(d)]
      /\ \A p \in Iterators(m) : p = e \/ Before(p, e)
  <2>1. m[L].data = d
    BY <1>1
  <2>2. /\ e = <<L, Len(m[L].data)>> /\ e \in Iterators(m) /\ At(m, e) = m[L].data[Len(m[L].data)]
        /\ \A p \in Iterators(m) : p = e \/ Before(p, e)
    BY <1>1, LastIterator
  <2> QED
    BY <2>1, <2>2
<1>3. Size(r) \in Int /\ r[1] \in Int /\ r[2] \in Int
  BY SizesOne DEF Span
<1>4. z = d[Len(d)][2] /\ d[Len(d)] \in Span /\ d[Len(d)][1] \in Int /\ z \in Int /\ d # <<>>
      /\ Len(d) \in 1 .. Len(d) /\ 1 \in 1 .. Len(d)
  <2> HIDE DEF d
  <2>1. Len(d) \in 1 .. Len(d) /\ 1 \in 1 .. Len(d)
    BY <1>1
  <2>2. d[Len(d)] \in Span
    BY <1>1, <2>1
  <2> QED
    BY <1>1, <2>1, <2>2 DEF Span
\* What the two ways to grow the last chunk come to.
<1>5. ASSUME NEW data \in Seq(Span), Len(data) \in 1 .. MaxSize, data[1][1] = c.begin,
             Sizes(data) = c.count + Size(r), data[Len(data)][2] = r[2],
             b2 = [b EXCEPT !.chunks = With(data)]
      PROVE  LET ch == [data |-> data, begin |-> c.begin, end |-> r[2], count |-> c.count + Size(r)]
             IN b2 \in Open /\ b2.room = b.room /\ ch \in Chunks /\ n = [m EXCEPT ![L] = ch]
  <2> DEFINE ch == [data |-> data, begin |-> c.begin, end |-> r[2], count |-> c.count + Size(r)]
             grown == [c EXCEPT !.data = data, !.count = c.count + Size(r)]
  <2>1. ch \in Chunks
    <3> DEFINE bg == c.begin
               en == r[2]
               co == c.count + Size(r)
    <3>1. bg = data[1][1] /\ en = data[Len(data)][2] /\ co = Sizes(data)
      BY <1>5
    <3> HIDE DEF bg, en, co
    <3>2. [data |-> data, begin |-> bg, end |-> en, count |-> co] \in Chunks
      BY <1>5, <3>1, IsChunk
    <3> QED
      BY <3>2 DEF bg, en, co
  <2>2. grown = [data |-> data, begin |-> c.begin, end |-> c.end, count |-> c.count + Size(r)] /\ grown \in Chunk
    <3> DEFINE co == c.count + Size(r)
    <3>1. co \in Int
      <4>1. c.count \in Int
        BY <1>1 DEF Chunk
      <4> QED
        BY <1>3, <4>1
    <3>4. c \in Chunk
      BY <1>1
    <3> HIDE DEF co, c
    <3>2. [c EXCEPT !.data = data, !.count = co] = [data |-> data, begin |-> c.begin, end |-> c.end, count |-> co]
      BY <3>4, TwoFieldsSet
    <3>3. [data |-> data, begin |-> c.begin, end |-> c.end, count |-> co] \in Chunk
      BY <1>1, <3>1 DEF Chunk
    <3> QED
      BY <3>2, <3>3 DEF co
  <2>3. Closed(grown) = ch
    <3>1. Last(data) = data[Len(data)]
      BY DEF Last
    <3> HIDE DEF c
    <3>2. grown.data = data
      BY <2>2
    <3>3. data # <<>>
      BY <1>5, SetAssumption
    <3> DEFINE g == grown
               cl == Closed(g)
    <3>4. g.begin = c.begin /\ g.count = c.count + Size(r) /\ g.data = data
      BY <2>2
    <3>5. g \in Chunk
      BY <2>2
    <3> HIDE DEF g
    <3>6. Closed(g) = [data |-> data, begin |-> c.begin, end |-> data[Len(data)][2], count |-> c.count + Size(r)]
      BY <3>1, <3>3, <3>4, <3>5, ClosedChunk
    <3> QED
      BY <1>5, <3>6 DEF g
  <2> DEFINE more == Append(f, grown)
  <2>4. more \in Seq(Chunk)
    <3> HIDE DEF grown, f
    <3> QED
      BY <1>1, <2>2
  <2>5. b2 = [b EXCEPT !.chunks = more]
    BY <1>5
  <2>6. b2 \in Open /\ b2.room = b.room /\ b2.chunks = more
    <3> HIDE DEF more, b2
    <3> QED
      BY <1>1, <2>4, <2>5
  <2>7. n = Append(f, Closed(grown))
    <3> HIDE DEF b2, f, grown
    <3> QED
      BY <1>1, <2>2, <2>6, FinalizeMore
  <2>8. n = [m EXCEPT ![L] = ch]
    <3> HIDE DEF n, grown, ch, f, m, L
    <3> QED
      BY <1>1, <2>1, <2>3, <2>7
  <2> QED
    BY <2>1, <2>6, <2>8
<1>6. CASE r[1] = z
  <2> DEFINE x == <<Last(d)[1], r[2]>>
             data == Append(Front(d), x)
  <2>1. b2 = [b EXCEPT !.chunks = With(data)]
    BY <1>6, Zenon DEF Build
  <2>2. x \in Span /\ Size(x) = Size(d[Len(d)]) + Size(r) /\ Size(d[Len(d)]) \in Int /\ x[1] = d[Len(d)][1] /\ x[2] = r[2]
    <3> HIDE DEF d
    <3> QED
      BY <1>1, <1>3, <1>4, <1>6 DEF Span, Size
  <2>3. data = [d EXCEPT ![Len(d)] = x]
    <3> HIDE DEF d, x
    <3> QED
      BY <1>1, <1>4, <2>2, LastFacts
  <2>4. /\ data \in Seq(Span) /\ Len(data) = Len(d)
        /\ \A k \in 1 .. Len(d) : data[k] = IF k = Len(d) THEN x ELSE d[k]
        /\ Sizes(data) = Sizes(d) - Size(d[Len(d)]) + Size(x)
    <3> DEFINE i == Len(d)
    <3>1. d \in Seq(Span) /\ i \in 1 .. Len(d) /\ x \in Span
      BY <1>1, <1>4, <2>2
    <3> HIDE DEF d, x, data, i
    <3>2. /\ [d EXCEPT ![i] = x] \in Seq(Span) /\ Len([d EXCEPT ![i] = x]) = Len(d)
          /\ \A k \in 1 .. Len(d) : [d EXCEPT ![i] = x][k] = IF k = i THEN x ELSE d[k]
          /\ Sizes([d EXCEPT ![i] = x]) = Sizes(d) - Size(d[i]) + Size(x)
      BY <3>1, Replaced
    <3>3. data = [d EXCEPT ![i] = x]
      BY <2>3 DEF i
    <3> QED
      BY <3>2, <3>3 DEF i
  <2> DEFINE ch == [data |-> data, begin |-> c.begin, end |-> r[2], count |-> c.count + Size(r)]
  <2>5. Len(data) \in 1 .. MaxSize /\ data[1][1] = c.begin /\ Sizes(data) = c.count + Size(r)
        /\ data[Len(data)][2] = r[2]
    <3>1. c.count \in Int
      BY <1>1 DEF Chunk
    <3> HIDE DEF d, x, data, c
    <3>2. Len(data) \in 1 .. MaxSize /\ data[Len(data)][2] = r[2]
      BY <1>1, <1>4, <2>2, <2>4
    <3>3. data[1][1] = c.begin
      <4>1. CASE Len(d) = 1
        BY <1>1, <1>4, <2>2, <2>4, <4>1
      <4>2. CASE Len(d) # 1
        BY <1>1, <1>4, <2>4, <4>2
      <4> QED
        BY <4>1, <4>2
    <3>4. Sizes(data) = c.count + Size(r)
      BY <1>1, <1>3, <2>2, <2>4, <3>1
    <3> QED
      BY <3>2, <3>3, <3>4
  <2>6. b2 \in Open /\ b2.room = b.room /\ ch \in Chunks /\ n = [m EXCEPT ![L] = ch]
    <3> HIDE DEF data, b2, m, L, c
    <3> QED
      BY <1>5, <2>1, <2>4, <2>5
  <2>7. Grown(m, n, r)
    <3>1. ch.data = data /\ m[L].data = d
      BY <1>1
    <3> HIDE DEF ch, b2, m, data, x, d, z, c, f, s
    <3>2. L \in 1 .. L /\ m \in Vectors
      BY <1>1 DEF m
    <3>3. /\ n \in Vectors /\ Len(n) = L
          /\ \A k \in 1 .. L : n[k] = IF k = L THEN ch ELSE m[k]
      <4>1. ch \in Chunks /\ L \in 1 .. Len(m)
        BY <2>6, <3>2
      <4> HIDE DEF n, L
      <4>2. /\ [m EXCEPT ![L] = ch] \in Vectors /\ Len([m EXCEPT ![L] = ch]) = Len(m)
            /\ \A k \in 1 .. Len(m) : [m EXCEPT ![L] = ch][k] = IF k = L THEN ch ELSE m[k]
        BY <3>2, <4>1, ChunkSet
      <4>3. L = Len(m)
        BY DEF L
      <4> QED
        BY <2>6, <4>2, <4>3
    <3> HIDE DEF n
    <3>4. SameShape(m, n)
      BY <2>4, <3>1, <3>3 DEF SameShape
    <3>5. ASSUME NEW p \in Iterators(m)
          PROVE  At(n, p) = IF p = e THEN <<At(m, e)[1], r[2]>> ELSE At(m, p)
      <4>1. p = <<p[1], p[2]>> /\ p[1] \in 1 .. L /\ p[2] \in 1 .. Len(m[p[1]].data)
        BY <3>2, IteratorFacts
      <4>2. CASE p[1] = L
        <5>1. At(n, p) = data[p[2]] /\ At(m, p) = d[p[2]] /\ p[2] \in 1 .. Len(d)
          BY <3>1, <3>2, <3>3, <4>1, <4>2 DEF At
        <5>2. p = e <=> p[2] = Len(d)
          <6> HIDE DEF e, L
          <6> QED
            BY <1>2, <4>1, <4>2
        <5>3. x = <<At(m, e)[1], r[2]>>
          BY <1>1, <1>2 DEF x
        <5> HIDE DEF e, L
        <5> QED
          BY <2>4, <5>1, <5>2, <5>3
      <4>3. CASE p[1] # L
        <5>1. At(n, p) = At(m, p)
          BY <3>3, <4>1, <4>3 DEF At
        <5>2. p # e
          <6> HIDE DEF e, L
          <6> QED
            BY <1>2, <4>3
        <5> QED
          BY <5>1, <5>2
      <4> QED
        BY <4>2, <4>3
    <3>6. At(m, e)[2] = r[1]
      BY <1>2, <1>4, <1>6
    <3> QED
      BY <1>2, <3>3, <3>4, <3>5, <3>6 DEF Grown
  <2>8. At(m, e)[2] = r[1]
    BY <1>2, <1>4, <1>6
  <2> HIDE DEF b2, m, e, n
  <2>9. IF At(m, e)[2] = r[1] THEN Grown(m, n, r) ELSE n = push_back(m, r)
    BY <2>7, <2>8
  <2> QED
    BY <2>6, <2>9 DEF m, n, e, b2
<1>7. CASE r[1] # z /\ Len(d) < MaxSize
  <2> DEFINE data == Append(d, r)
             ch == [data |-> data, begin |-> c.begin, end |-> r[2], count |-> c.count + Size(r)]
  <2>1. b2 = [b EXCEPT !.chunks = With(data)]
    BY <1>7, Zenon DEF Build
  <2>2. /\ data \in Seq(Span) /\ Len(data) = Len(d) + 1 /\ data[Len(d) + 1] = r
        /\ \A k \in 1 .. Len(d) : data[k] = d[k]
    <3> HIDE DEF d
    <3> QED
      BY <1>1
  <2>3. Sizes(data) = Sizes(d) + Size(r)
    <3> HIDE DEF d
    <3>1. data = d \o <<r>>
      BY <1>1
    <3> HIDE DEF data
    <3> QED
      BY <1>1, <3>1, SizesConcat, SizesOne
  <2>4. Len(data) \in 1 .. MaxSize /\ data[1][1] = c.begin /\ Sizes(data) = c.count + Size(r)
        /\ data[Len(data)][2] = r[2]
    <3> DEFINE k == Len(d)
    <3>1. c.begin = d[1][1] /\ c.count = Sizes(d) /\ k \in Nat /\ k < MaxSize
      BY <1>1, <1>7
    <3> HIDE DEF d, data, c
    <3>2. 1 \in 1 .. k /\ Len(data) = k + 1
      BY <1>4, <2>2
    <3>3. data[1] = d[1] /\ data[Len(data)] = r
      BY <2>2, <3>2
    <3> HIDE DEF k
    <3>4. Len(data) \in 1 .. MaxSize
      BY <3>1, <3>2, SetAssumption
    <3> QED
      BY <2>3, <3>1, <3>3, <3>4
  <2>5. b2 \in Open /\ b2.room = b.room /\ ch \in Chunks /\ n = [m EXCEPT ![L] = ch]
    <3> HIDE DEF data, b2, m, L, c
    <3> QED
      BY <1>5, <2>1, <2>2, <2>4
  <2>6. push_back(m, r) = [m EXCEPT ![L] = ch]
    <3>1. m[L].data = d /\ m[L].begin = c.begin /\ m[L].count = c.count
      BY <1>1
    <3> HIDE DEF d, c, m
    <3>2. m # <<>> /\ Len(Last(m).data) < MaxSize
      BY <1>1, <1>7, <3>1
    <3>3. push_back(m, r) = [m EXCEPT ![L] = [data |-> Append(m[L].data, r), begin |-> m[L].begin, end |-> r[2],
                                             count |-> m[L].count + Size(r)]]
      BY <3>2, Zenon DEF push_back
    <3> QED
      BY <3>1, <3>3
  <2>7. At(m, e)[2] # r[1]
    BY <1>2, <1>4, <1>7
  <2> HIDE DEF b2, m, e, n, L, ch
  <2>8. IF At(m, e)[2] = r[1] THEN Grown(m, n, r) ELSE n = push_back(m, r)
    BY <2>5, <2>6, <2>7
  <2> QED
    BY <2>5, <2>8 DEF m, n, e, b2
<1>8. CASE r[1] # z /\ ~(Len(d) < MaxSize)
  <2> DEFINE next == [data |-> <<r>>, begin |-> r[1], end |-> 0, count |-> Size(r)]
             num == IF Len(s) < b.room THEN Size(r) ELSE 1
  <2>1. b2 = [b EXCEPT !.chunks = f \o <<full, [data |-> <<r>>, begin |-> r[1], end |-> 0, count |-> num]>>]
    BY <1>8, Zenon DEF Build
  <2>2. num = Size(r)
    <3>1. Last(m).data = d
      BY <1>1
    <3> HIDE DEF m, L, d
    <3>2. Size(r) = 1 \/ L < b.room
      BY <1>8, <3>1 DEF m, L
    <3> QED
      BY <1>1, <3>2
  <2>3. b2 = [b EXCEPT !.chunks = f \o <<full, next>>]
    <3> HIDE DEF count, f, full
    <3> QED
      BY <2>1, <2>2
  <2>4. next \in Chunk /\ Closed(next) = ChunkOf(<<r>>)
    <3>1. <<r>> \in Seq(Span) /\ Size(r) \in Int /\ Size(r) = Sizes(<<r>>)
      BY SizesOne
    <3>2. next \in Chunk
      BY <1>3, <3>1 DEF Chunk
    <3>3. Closed(next) = [data |-> <<r>>, begin |-> r[1], end |-> r[2], count |-> Size(r)]
      BY DEF Closed, Last
    <3>4. ChunkOf(<<r>>) = [data |-> <<r>>, begin |-> r[1], end |-> r[2], count |-> Sizes(<<r>>)]
      BY DEF ChunkOf, Last
    <3> QED
      BY <3>1, <3>2, <3>3, <3>4
  <2>5. full = m[L] /\ full \in Chunk
    <3>1. full = Closed(c)
      BY DEF Closed
    <3> QED
      BY <1>1, <1>4, <3>1, ClosedChunk
  <2>6. Append(f, full) = m
    <3>1. Append(f, m[L]) = [m EXCEPT ![L] = m[L]]
      BY <1>1
    <3>2. [m EXCEPT ![L] = m[L]] = m
      <4> HIDE DEF m
      <4>1. m \in Seq(Chunks)
        BY DEF m, Vectors
      <4> QED
        BY <4>1
    <3> QED
      BY <2>5, <3>1, <3>2
  <2>7. f \o <<full, next>> = Append(m, next) /\ m \in Seq(Chunk)
    <3> DEFINE g == Append(f, full)
    <3>1. f \in Seq(Chunk) /\ full \in Chunk /\ next \in Chunk
      BY <1>1, <2>4, <2>5
    <3> HIDE DEF f, full, next, m
    <3>2. g \in Seq(Chunk) /\ f \o <<full, next>> = Append(g, next)
      BY <3>1
    <3> HIDE DEF g
    <3>3. g = m
      BY <2>6 DEF g
    <3> QED
      BY <3>2, <3>3
  <2> DEFINE more == Append(m, next)
  <2>8. b2 = [b EXCEPT !.chunks = more] /\ more \in Seq(Chunk)
    <3>1. more \in Seq(Chunk)
      <4> HIDE DEF next, m
      <4> QED
        BY <2>4, <2>7
    <3> QED
      BY <2>3, <2>7, <3>1
  <2>9. b2 \in Open /\ b2.room = b.room /\ b2.chunks = more
    <3> HIDE DEF more, b2
    <3> QED
      BY <1>1, <2>8
  <2>10. n = Append(m, ChunkOf(<<r>>))
    <3> HIDE DEF b2, m, next
    <3> QED
      BY <2>4, <2>7, <2>9, FinalizeMore
  <2>11. push_back(m, r) = Append(m, ChunkOf(<<r>>))
    <3>1. m[L].data = d
      BY <1>1
    <3> HIDE DEF d, c, m
    <3>2. ~(m # <<>> /\ Len(Last(m).data) < MaxSize)
      BY <1>1, <1>8, <3>1
    <3> QED
      BY <3>2, Zenon DEF push_back
  <2>12. At(m, e)[2] # r[1]
    BY <1>2, <1>4, <1>8
  <2> HIDE DEF b2, m, e, n
  <2>13. IF At(m, e)[2] = r[1] THEN Grown(m, n, r) ELSE n = push_back(m, r)
    BY <2>10, <2>11, <2>12
  <2> QED
    BY <2>9, <2>13 DEF m, n, e, b2
<1> HIDE DEF b2, m, e, n, z, d
<1> QED
  BY <1>6, <1>7, <1>8 DEF m, n, e, b2

\* Builders that have made a set that stops by low, those that have made one
\* chunk of at most k ranges, and those whose last range stops at z.
Builders(low) ==
  {b \in Open : /\ finalize(b) \in IndexSets
                /\ \A p \in Iterators(finalize(b)) : At(finalize(b), p)[2] <= low}

Few(b, k) ==
  /\ Len(finalize(b)) <= 1
  /\ finalize(b) # <<>> => Len(finalize(b)[1].data) <= k

EndsAt(b, z) ==
  LET m == finalize(b) IN m # <<>> /\ At(m, Pred(m, End(m)))[2] = z

\* What keeps the number of indices of the next chunk right.
Counted(b, r) ==
  \/ Size(r) = 1
  \/ Len(finalize(b)) < b.room
  \/ finalize(b) # <<>> /\ Len(Last(finalize(b)).data) < MaxSize

LEMMA BuildersMore ==
  ASSUME NEW low \in Int, NEW high \in Int, low <= high, NEW b \in Builders(low)
  PROVE  b \in Builders(high)
<1> DEFINE m == finalize(b)
<1>1. b \in Open /\ m \in IndexSets /\ \A p \in Iterators(m) : At(m, p)[2] <= low
  BY DEF Builders
<1> HIDE DEF m
<1>2. \A p \in Iterators(m) : At(m, p)[2] <= high
  <2>1. \A p \in Iterators(m) : At(m, p)[2] \in Int
    BY <1>1, InOrderFacts
  <2> QED
    BY <1>1, <2>1
<1> QED
  BY <1>1, <1>2 DEF Builders, m

LEMMA FewMore ==
  ASSUME NEW low, NEW b \in Builders(low), NEW k \in Nat, NEW n \in Nat, k <= n, Few(b, k)
  PROVE  Few(b, n)
<1> DEFINE m == finalize(b)
<1>1. m \in Vectors
  BY InOrderFacts DEF Builders
<1>2. Len(m) <= 1 /\ (m # <<>> => Len(m[1].data) <= k)
  BY DEF Few
<1> HIDE DEF m
<1>3. CASE m = <<>>
  <2> QED
    BY <1>2, <1>3 DEF Few, m
<1>4. CASE m # <<>>
  <2>1. 1 \in 1 .. Len(m)
    BY <1>1, <1>4, VectorLen
  <2>2. Len(m[1].data) \in Nat
    BY <1>1, <2>1, ChunkOfVector, SetAssumption
  <2>3. Len(m[1].data) <= n
    BY <1>2, <1>4, <2>2
  <2> QED
    BY <1>2, <2>3 DEF Few, m
<1> QED
  BY <1>3, <1>4

LEMMA EmptyBuilder ==
  ASSUME NEW m \in IndexSets, NEW low
  PROVE  Builder(m) \in Builders(low) /\ Few(Builder(m), 0) /\ finalize(Builder(m)) = <<>>
<1> DEFINE b == Builder(m)
           n == Len(Ranges(m))
           room == (n \div MaxSize) + 1
<1>1. room \in Nat \ {0}
  <2>1. n \in Nat
    <3> DEFINE s == Ranges(m)
    <3>1. s \in Rows
      BY RangesInOrder
    <3> HIDE DEF s
    <3>2. Len(s) \in Nat
      BY <3>1, RowFacts
    <3> QED
      BY <3>2 DEF s
  <2> HIDE DEF n
  <2>2. MaxSize \in Nat \ {0}
    BY SetAssumption
  <2>3. n \div MaxSize \in Nat
    BY <2>1, <2>2
  <2> QED
    BY <2>3
<1>2. b = [chunks |-> <<>>, room |-> room]
  BY DEF Builder
<1> HIDE DEF b, room
<1>3. b \in Open /\ b.chunks = <<>>
  BY <1>1, <1>2 DEF Open
<1>4. finalize(b) = <<>>
  BY <1>3, Zenon DEF finalize
<1>5. Iterators(<<>>) = {} /\ <<>> \in IndexSets
  <2>1. <<>> \in Vectors
    BY EmptySet, InOrderFacts
  <2> QED
    BY <2>1, BeginFacts, EmptySet
<1>6. b \in Builders(low)
  BY <1>3, <1>4, <1>5 DEF Builders
<1>7. Few(b, 0)
  BY <1>4 DEF Few
<1> QED
  BY <1>4, <1>6, <1>7 DEF b

LEMMA FewPushed ==
  ASSUME NEW m \in Vectors, NEW r \in Span, NEW k \in Nat, k < MaxSize,
         Len(m) <= 1, m # <<>> => Len(m[1].data) <= k
  PROVE  LET n == push_back(m, r) IN Len(n) <= 1 /\ (n # <<>> => Len(n[1].data) <= k + 1)
<1> DEFINE n == push_back(m, r)
<1>1. Len(m) \in Nat /\ (m = <<>> <=> Len(m) = 0)
  BY VectorLen
<1>2. CASE m = <<>>
  <2> DEFINE c == ChunkOf(<<r>>)
  <2>1. n = Append(<<>>, c)
    BY <1>2, Zenon DEF push_back
  <2>2. c.data = <<r>> /\ Len(<<r>>) = 1
    BY DEF ChunkOf
  <2> HIDE DEF c, n
  <2>3. Len(n) = 1 /\ n[1] = c
    BY <2>1
  <2>4. Len(n[1].data) = 1
    BY <2>2, <2>3
  <2> DEFINE l == Len(n[1].data)
  <2>5. l <= k + 1 /\ Len(n) <= 1
    BY <2>3, <2>4
  <2> QED
    BY <2>5 DEF n
<1>3. CASE m # <<>>
  <2> DEFINE d == m[1].data
  <2>1. Len(m) = 1 /\ 1 \in 1 .. Len(m)
    <3> DEFINE L == Len(m)
    <3>1. L \in Nat /\ L # 0 /\ L <= 1
      BY <1>1, <1>3, Zenon
    <3> HIDE DEF L
    <3>2. L = 1 /\ 1 \in 1 .. L
      BY <3>1
    <3> QED
      BY <3>2 DEF L
  <2>2. d \in Seq(Span) /\ Len(d) <= k /\ Len(d) \in Nat
    BY <1>3, <2>1, ChunkOfVector, SetAssumption
  <2>3. Last(m) = m[1]
    BY <2>1 DEF Last
  <2>4. Len(Last(m).data) < MaxSize
    BY <2>2, <2>3, SetAssumption
  <2> DEFINE ch == [data |-> Append(m[Len(m)].data, r), begin |-> m[Len(m)].begin, end |-> r[2],
                    count |-> m[Len(m)].count + Size(r)]
  <2>5. n = [m EXCEPT ![Len(m)] = ch]
    BY <1>3, <2>4, Zenon DEF push_back
  <2>6. ch.data = Append(d, r)
    BY <2>1
  <2> HIDE DEF ch, n, d
  <2>7. Len(n) = 1 /\ n[1] = ch
    BY <2>1, <2>5 DEF Vectors
  <2>8. Len(Append(d, r)) = Len(d) + 1
    BY <2>2
  <2> QED
    BY <2>2, <2>6, <2>7, <2>8 DEF n
<1> QED
  BY <1>2, <1>3

LEMMA BuildFacts ==
  ASSUME NEW low \in Int, NEW b \in Builders(low), NEW r \in Filled, low <= r[1], Counted(b, r)
  PROVE  LET n == Build(b, r)
         IN /\ n \in Builders(r[2]) /\ n.room = b.room /\ EndsAt(n, r[2])
            /\ \A k \in Nat : Few(b, k) => /\ k < MaxSize => Few(n, k + 1)
                                           /\ EndsAt(b, r[1]) => Few(n, k)
<1> DEFINE m == finalize(b)
           b2 == Build(b, r)
           n == finalize(b2)
           e == Pred(m, End(m))
           f == Pred(n, End(n))
<1>1. b \in Open /\ m \in IndexSets /\ m \in Vectors /\ \A p \in Iterators(m) : At(m, p)[2] <= low
  BY InOrderFacts DEF Builders
<1>2. r \in Span /\ r[1] \in Int /\ r[2] \in Int /\ r[1] < r[2]
  BY DEF Filled, Span
<1>3. /\ b2 \in Open /\ b2.room = b.room
      /\ IF m # <<>> /\ At(m, e)[2] = r[1] THEN Grown(m, n, r) ELSE n = push_back(m, r)
  <2>1. CASE b.chunks = <<>>
    <3>1. m = <<>> /\ b2 \in Open /\ b2.room = b.room /\ n = push_back(<<>>, r)
      BY <1>1, <1>2, <2>1, BuildFirst
    <3> HIDE DEF m, e, n, b2
    <3> QED
      BY <3>1
  <2>2. CASE b.chunks # <<>>
    <3>1. Size(r) = 1 \/ Len(m) < b.room \/ Len(Last(m).data) < MaxSize
      BY DEF Counted
    <3>2. /\ b2 \in Open /\ b2.room = b.room
          /\ IF At(m, e)[2] = r[1] THEN Grown(m, n, r) ELSE n = push_back(m, r)
      BY <1>1, <1>2, <2>2, <3>1, BuildMore
    <3>3. m # <<>>
      BY <1>1, <2>2, Filling
    <3> HIDE DEF m, e, n, b2
    <3> QED
      BY <3>2, <3>3
  <2> QED
    BY <2>1, <2>2
<1> HIDE DEF m, n, b2
<1>4. ASSUME NEW k \in Nat, Few(b, k)
      PROVE  Len(m) <= 1 /\ (m # <<>> => Len(m[1].data) <= k)
  BY <1>4 DEF Few, m
<1>5. CASE m # <<>> /\ At(m, e)[2] = r[1]
  <2>1. Grown(m, n, r)
    BY <1>3, <1>5
  <2>2. /\ n \in Vectors /\ SameShape(m, n) /\ e \in Iterators(m)
        /\ \A p \in Iterators(m) : At(n, p) = IF p = e THEN <<At(m, e)[1], r[2]>> ELSE At(m, p)
    BY <2>1 DEF Grown
  <2>3. /\ e = <<Len(m), Len(m[Len(m)].data)>>
        /\ \A p \in Iterators(m) : p = e \/ Before(p, e)
    BY <1>1, <1>5, LastIterator
  <2>4. Iterators(n) = Iterators(m)
    BY <1>1, <2>2, ShapeFacts
  <2> DEFINE a == At(m, e)[1]
             z == r[2]
  <2>5. a \in Int /\ a < r[1] /\ a < z /\ z \in Int
    <3>1. At(m, e)[1] \in Int /\ At(m, e)[2] \in Int /\ At(m, e)[1] < At(m, e)[2]
      BY <1>1, <2>2, InOrderFacts
    <3> HIDE DEF e
    <3> QED
      BY <1>2, <1>5, <3>1
  <2>6. n \in IndexSets
    <3>1. \A p \in Iterators(m) : /\ Before(p, e) => At(m, p)[2] < a
                                  /\ Before(e, p) => z < At(m, p)[1]
      <4>1. ASSUME NEW p \in Iterators(m)
            PROVE  ~Before(e, p) /\ (Before(p, e) => At(m, p)[2] < a)
        <5>1. p \in Positions /\ e \in Positions
          BY <1>1, <2>2, InOrderFacts
        <5>2. ~Before(e, p)
          BY <2>3, <5>1, Order
        <5> QED
          BY <1>1, <2>2, <5>2, InOrderFacts
      <4> QED
        BY <4>1
    <3>2. \A p \in Iterators(m) : At(n, p) = IF p = e THEN <<a, z>> ELSE At(m, p)
      BY <2>2
    <3> HIDE DEF a, z, e
    <3> QED
      BY <1>1, <2>2, <2>5, <3>1, <3>2, ChangedInOrder
  <2>7. \A p \in Iterators(n) : At(n, p)[2] <= r[2]
    <3>1. ASSUME NEW p \in Iterators(m)
          PROVE  At(n, p)[2] <= r[2]
      <4>1. CASE p = e
        <5>1. At(n, p) = <<a, z>>
          BY <2>2, <4>1
        <5> HIDE DEF a
        <5> QED
          BY <1>2, <5>1
      <4>2. CASE p # e
        <5>1. At(n, p) = At(m, p) /\ At(m, p)[2] <= low /\ At(m, p)[2] \in Int
          BY <1>1, <2>2, <4>2, InOrderFacts
        <5> QED
          BY <1>2, <5>1
      <4> QED
        BY <4>1, <4>2
    <3> QED
      BY <2>4, <3>1
  <2>8. n # <<>> /\ f = e
    <3>1. n # <<>> /\ Len(n) = Len(m) /\ Len(m) \in 1 .. Len(m)
      BY <1>1, <1>5, <2>2, VectorLen DEF SameShape
    <3>2. f = <<Len(n), Len(n[Len(n)].data)>>
      BY <2>2, <3>1, LastIterator
    <3>3. Len(n[Len(n)].data) = Len(m[Len(m)].data)
      BY <2>2, <3>1 DEF SameShape
    <3> HIDE DEF e, f
    <3> QED
      BY <2>3, <3>1, <3>2, <3>3
  <2>9. EndsAt(b2, r[2])
    <3>1. At(n, f) = <<a, z>>
      BY <2>2, <2>8
    <3> HIDE DEF a
    <3>2. At(n, f)[2] = r[2]
      BY <3>1
    <3> QED
      BY <2>8, <3>2 DEF EndsAt, n
  <2>10. ASSUME NEW k \in Nat, Few(b, k)
         PROVE  Few(b2, k) /\ (k < MaxSize => Few(b2, k + 1))
    <3>1. Len(m) <= 1 /\ Len(m[1].data) <= k /\ 1 \in 1 .. Len(m)
      BY <1>1, <1>4, <1>5, <2>10, VectorLen
    <3>2. Len(n) <= 1 /\ Len(n[1].data) <= k
      BY <2>2, <3>1 DEF SameShape
    <3>3. Len(n[1].data) \in Nat
      <4>1. 1 \in 1 .. Len(n)
        BY <2>2, <3>1 DEF SameShape
      <4> QED
        BY <2>2, <4>1, ChunkOfVector, SetAssumption
    <3>4. Len(n[1].data) <= k + 1
      BY <3>2, <3>3
    <3> QED
      BY <3>2, <3>4 DEF Few, n
  <2>11. b2 \in Builders(r[2])
    BY <1>3, <2>6, <2>7 DEF Builders, n
  <2> QED
    BY <1>3, <2>9, <2>10, <2>11 DEF b2
<1>6. CASE ~(m # <<>> /\ At(m, e)[2] = r[1])
  <2>1. n = push_back(m, r)
    BY <1>3, <1>6
  <2>2. /\ n \in Vectors /\ n # <<>> /\ f \in Positions /\ f \notin Iterators(m) /\ At(n, f) = r
        /\ Iterators(n) = Iterators(m) \cup {f}
        /\ \A p \in Iterators(m) : At(n, p) = At(m, p) /\ Before(p, f)
    BY <1>1, <1>2, <2>1, PushedBack
  <2> HIDE DEF f
  <2>3. ASSUME NEW p \in Iterators(m)
        PROVE  /\ p \in Positions /\ At(m, p)[1] \in Int /\ At(m, p)[2] \in Int
               /\ At(m, p)[1] < At(m, p)[2] /\ At(m, p)[2] < r[1]
    <3>1. p \in Positions /\ At(m, p)[1] \in Int /\ At(m, p)[2] \in Int
          /\ At(m, p)[1] < At(m, p)[2] /\ At(m, p)[2] <= low
      BY <1>1, InOrderFacts
    <3>2. m # <<>> /\ e \in Iterators(m) /\ (p = e \/ Before(p, e))
      BY <1>1, BeginFacts, LastIterator
    <3>3. At(m, e)[2] # r[1] /\ At(m, e)[2] <= low /\ At(m, e)[1] \in Int /\ At(m, e)[2] \in Int
          /\ At(m, e)[1] < At(m, e)[2]
      BY <1>1, <1>6, <3>2, InOrderFacts
    <3>4. Before(p, e) => At(m, p)[2] < At(m, e)[1]
      BY <1>1, <3>2, InOrderFacts
    <3> HIDE DEF e
    <3>5. At(m, p)[2] <= At(m, e)[2]
      BY <3>1, <3>2, <3>3, <3>4
    <3> QED
      BY <1>2, <3>1, <3>3, <3>5
  <2>4. n \in IndexSets
    <3>1. \A p \in Iterators(n) : At(n, p)[1] < At(n, p)[2]
      BY <1>2, <2>2, <2>3
    <3>2. ASSUME NEW p \in Iterators(n), NEW q \in Iterators(n), Before(p, q)
          PROVE  At(n, p)[2] < At(n, q)[1]
      <4>1. p # f
        <5>1. ASSUME p = f
              PROVE  FALSE
          <6>1. q \in Iterators(m) \/ q = f
            BY <2>2
          <6>2. q \in Positions /\ p \in Positions
            BY <2>2, <2>3, <5>1, <6>1
          <6>3. Before(q, p) \/ q = p
            BY <2>2, <5>1, <6>1
          <6> QED
            BY <3>2, <6>2, <6>3, Order
        <5> QED
          BY <5>1
      <4>2. p \in Iterators(m) /\ At(n, p) = At(m, p)
        BY <2>2, <4>1
      <4>3. CASE q = f
        BY <2>2, <2>3, <4>2, <4>3
      <4>4. CASE q # f
        <5>1. q \in Iterators(m) /\ At(n, q) = At(m, q)
          BY <2>2, <4>4
        <5> QED
          BY <1>1, <3>2, <4>2, <5>1, InOrderFacts
      <4> QED
        BY <4>3, <4>4
    <3> QED
      BY <2>2, <3>1, <3>2 DEF IndexSets, InOrder, Apart
  <2>5. \A p \in Iterators(n) : At(n, p)[2] <= r[2]
    <3>1. ASSUME NEW p \in Iterators(m)
          PROVE  At(n, p)[2] <= r[2]
      BY <1>2, <2>2, <2>3
    <3> QED
      BY <1>2, <2>2, <3>1
  <2>6. EndsAt(b2, r[2])
    BY <2>2 DEF EndsAt, n, f
  <2>7. ASSUME NEW k \in Nat, Few(b, k), k < MaxSize
        PROVE  Few(b2, k + 1)
    <3>1. Len(n) <= 1 /\ (n # <<>> => Len(n[1].data) <= k + 1)
      BY <1>1, <1>2, <1>4, <2>1, <2>7, FewPushed
    <3> QED
      BY <3>1 DEF Few, n
  <2>8. ~EndsAt(b, r[1])
    BY <1>6 DEF EndsAt, m
  <2>9. b2 \in Builders(r[2])
    BY <1>3, <2>4, <2>5 DEF Builders, n
  <2> QED
    BY <1>3, <2>6, <2>7, <2>8, <2>9 DEF b2
<1> QED
  BY <1>5, <1>6

LEMMA BuildIndexFacts ==
  ASSUME NEW low \in Int, NEW b \in Builders(low), NEW index \in Int, low <= index
  PROVE  LET n == BuildIndex(b, index)
         IN /\ n \in Builders(index + 1) /\ n.room = b.room /\ EndsAt(n, index + 1)
            /\ \A k \in Nat : Few(b, k) => /\ k < MaxSize => Few(n, k + 1)
                                           /\ EndsAt(b, index) => Few(n, k)
<1> DEFINE r == <<index, index + 1>>
<1>1. r \in Filled /\ r[1] = index /\ r[2] = index + 1 /\ low <= r[1] /\ Size(r) = 1
  BY DEF Filled, Span, Size
<1>2. BuildIndex(b, index) = Build(b, r)
  BY DEF BuildIndex
<1> HIDE DEF r
<1>3. Counted(b, r)
  BY <1>1 DEF Counted
<1>4. LET n == Build(b, r)
      IN /\ n \in Builders(r[2]) /\ n.room = b.room /\ EndsAt(n, r[2])
         /\ \A k \in Nat : Few(b, k) => /\ k < MaxSize => Few(n, k + 1)
                                        /\ EndsAt(b, r[1]) => Few(n, k)
  BY <1>1, <1>3, BuildFacts
<1> DEFINE n == Build(b, r)
<1> HIDE DEF n
<1>5. /\ n \in Builders(r[2]) /\ n.room = b.room /\ EndsAt(n, r[2])
      /\ \A k \in Nat : Few(b, k) => /\ k < MaxSize => Few(n, k + 1)
                                     /\ EndsAt(b, r[1]) => Few(n, k)
  BY <1>4 DEF n
<1> QED
  BY <1>1, <1>2, <1>5 DEF n

\* The indices of a range make one range.
LEMMA BuildRangeFacts ==
  ASSUME NEW low \in Int, NEW b \in Builders(low), NEW r \in Filled, low <= r[1]
  PROVE  LET n == BuildRange(b, r)
         IN /\ n \in Builders(r[2]) /\ n.room = b.room
            /\ \A k \in Nat : Few(b, k) /\ k < MaxSize => Few(n, k + 1)
<1> DEFINE first == r[1]
           Now(k, v) == /\ v \in Builders(first + k) /\ v.room = b.room
                        /\ IF k = 0 THEN v = b
                           ELSE /\ EndsAt(v, first + k)
                                /\ \A j \in Nat : Few(b, j) /\ j < MaxSize => Few(v, j + 1)
<1> DEFINE N == Size(r)
           I == {p \in (0 .. N) \X Open : Now(p[1], p[2])}
           Step(v, k) == BuildIndex(v, first + k - 1)
           F == [p \in I |-> Step(p[2], p[1] + 1)]
           Eq(f) == f = [k \in 0 .. N |-> IF k = 0 THEN b ELSE Step(f[k - 1], k)]
           loop == CHOOSE f : Eq(f)
<1>0. /\ first \in Int /\ N \in Nat /\ N >= 1 /\ first + N = r[2] /\ low <= first
      /\ b \in Open
  BY DEF Filled, Span, Size, Builders
<1> HIDE DEF first
<1>1. N \in Nat /\ <<0, b>> \in I
  <2>1. b \in Builders(first + 0)
    <3> DEFINE z == first + 0
    <3>1. z \in Int /\ low <= z
      BY <1>0
    <3> HIDE DEF z
    <3>2. b \in Builders(z)
      BY <3>1, BuildersMore
    <3> QED
      BY <3>2 DEF z
  <2>2. Now(0, b)
    BY <2>1
  <2> DEFINE p == <<0, b>>
  <2>3. p[1] = 0 /\ p[2] = b /\ p \in (0 .. N) \X Open
    BY <1>0
  <2> HIDE DEF p, N, Now
  <2>4. p \in I
    BY <2>2, <2>3
  <2> QED
    BY <1>0, <2>4 DEF p
<1>2. ASSUME NEW k \in 1 .. N, NEW v, <<k - 1, v>> \in I
      PROVE  <<k, Step(v, k)>> \in I
  <2> DEFINE p == <<k - 1, v>>
             n == BuildIndex(v, first + k - 1)
             q == <<k, n>>
             i == first + k - 1
             i0 == first + (k - 1)
  <2>1. k \in Int /\ k >= 1 /\ k \in 0 .. N /\ k # 0 /\ i = i0 /\ i + 1 = first + k /\ i \in Int
    BY <1>0
  <2>2. Now(k - 1, v)
    <3>1. p[1] = k - 1 /\ p[2] = v
      OBVIOUS
    <3>2. p \in I
      BY <1>2
    <3> HIDE DEF p, N, Now
    <3> QED
      BY <3>1, <3>2
  <2>3. v \in Builders(i) /\ v.room = b.room
    <3>1. v \in Builders(i0) /\ v.room = b.room
      BY <2>2
    <3> HIDE DEF i, i0
    <3> QED
      BY <2>1, <3>1
  <2>4. n = BuildIndex(v, i)
    OBVIOUS
  <2> HIDE DEF i, n
  <2>5. /\ n \in Builders(i + 1) /\ n.room = v.room /\ EndsAt(n, i + 1)
        /\ \A j \in Nat : Few(v, j) => /\ j < MaxSize => Few(n, j + 1)
                                       /\ EndsAt(v, i) => Few(n, j)
    <3>1. i <= i
      BY <2>1
    <3>2. i \in Int /\ v \in Builders(i)
      BY <2>1, <2>3
    <3>3. LET a == BuildIndex(v, i)
          IN /\ a \in Builders(i + 1) /\ a.room = v.room /\ EndsAt(a, i + 1)
             /\ \A j \in Nat : Few(v, j) => /\ j < MaxSize => Few(a, j + 1)
                                            /\ EndsAt(v, i) => Few(a, j)
      BY <3>1, <3>2, BuildIndexFacts
    <3> QED
      BY <2>4, <3>3
  <2>6. ASSUME NEW j \in Nat, Few(b, j), j < MaxSize
        PROVE  Few(n, j + 1)
    <3>1. CASE k = 1
      <4>1. k - 1 = 0
        BY <3>1
      <4>2. v = b
        BY <2>2, <4>1
      <4> QED
        BY <2>5, <2>6, <4>2
    <3>2. CASE k # 1
      <4>1. k - 1 # 0
        BY <2>1, <3>2
      <4>2. EndsAt(v, i0) /\ Few(v, j + 1)
        BY <2>2, <2>6, <4>1
      <4> HIDE DEF i0
      <4>3. EndsAt(v, i)
        BY <2>1, <4>2
      <4>4. j + 1 \in Nat
        OBVIOUS
      <4> QED
        BY <2>5, <4>2, <4>3, <4>4
    <3> QED
      BY <3>1, <3>2
  <2>7. Now(k, n)
    <3>1. n \in Builders(first + k) /\ n.room = b.room /\ EndsAt(n, first + k)
      BY <2>1, <2>3, <2>5
    <3> QED
      BY <2>1, <2>6, <3>1
  <2>8. n \in Open
    BY <2>5 DEF Builders
  <2>9. q \in I
    <3>1. q[1] = k /\ q[2] = n /\ q \in (0 .. N) \X Open
      BY <2>1, <2>8
    <3> HIDE DEF q, N, Now
    <3> QED
      BY <2>7, <3>1
  <2> QED
    BY <2>9 DEF n
<1>3. Within(N, I, loop) /\ loop[0] = b
  <2> HIDE DEF I, N, Step
  <2>1. ASSUME NEW k \in 1 .. N, NEW v, <<k - 1, v>> \in I
        PROVE  F[<<k - 1, v>>] = Step(v, k)
    <3>1. k - 1 + 1 = k
      BY <1>1
    <3> QED
      BY <2>1, <3>1
  <2>2. PICK f : LedBy(N, b, F, f) /\ Within(N, I, f)
    <3>1. \A k \in 1 .. N : \A v : <<k - 1, v>> \in I => <<k, F[<<k - 1, v>>]>> \in I
      BY <1>2, <2>1
    <3> HIDE DEF F
    <3> QED
      BY <1>1, <3>1, Rounds, Zenon
  <2>3. Eq(f)
    <3>1. ASSUME NEW k \in 1 .. N
          PROVE  f[k] = Step(f[k - 1], k)
      <4>1. k - 1 \in 0 .. N
        BY <1>1
      <4>2. <<k - 1, f[k - 1]>> \in I /\ f[k] = F[<<k - 1, f[k - 1]>>]
        BY <2>2, <4>1 DEF LedBy, Within
      <4> HIDE DEF F
      <4> QED
        BY <2>1, <4>2
    <3>2. f = [k \in 0 .. N |-> f[k]] /\ f[0] = b
      BY <2>2 DEF LedBy
    <3> DEFINE h == [k \in 0 .. N |-> IF k = 0 THEN b ELSE Step(f[k - 1], k)]
    <3>3. ASSUME NEW k \in 0 .. N
          PROVE  h[k] = f[k]
      <4>1. k = 0 \/ k \in 1 .. N
        BY <1>1
      <4> QED
        BY <3>1, <3>2, <4>1
    <3>4. h = [k \in 0 .. N |-> h[k]]
      OBVIOUS
    <3>5. h = f
      <4> HIDE DEF h
      <4> QED
        BY <3>2, <3>3, <3>4
    <3> QED
      BY <3>5
  <2>4. Eq(loop)
    <3> HIDE DEF Eq
    <3> QED
      BY <2>3
  <2> HIDE DEF loop, F
  <2>5. loop[0] = b /\ \A k \in 1 .. N : loop[k] = Step(loop[k - 1], k)
    <3>1. \A k \in 0 .. N : loop[k] = IF k = 0 THEN b ELSE Step(loop[k - 1], k)
      BY <2>4, Zenon
    <3> QED
      BY <1>1, <3>1
  <2>6. \A k \in 1 .. N : <<k - 1, loop[k - 1]>> \in I => <<k, loop[k]>> \in I
    BY <1>2, <2>5
  <2>7. Within(N, I, loop)
    <3> HIDE DEF F, Eq
    <3> QED
      BY <1>1, <2>5, <2>6, EveryRound
  <2> QED
    BY <2>5, <2>7
<1>4. BuildRange(b, r) = loop[N]
  BY DEF BuildRange, BuildIndex, first
<1> HIDE DEF loop
<1> DEFINE n == loop[N]
<1>5. Now(N, n)
  <2> HIDE DEF N, Now
  <2>1. N \in 0 .. N
    BY <1>1
  <2> DEFINE p == <<N, loop[N]>>
  <2>2. p \in I
    BY <1>3, <2>1 DEF Within
  <2>3. p[1] = N /\ p[2] = loop[N]
    OBVIOUS
  <2> HIDE DEF p
  <2> QED
    BY <2>2, <2>3
<1> HIDE DEF n, N
<1>6. N # 0
  BY <1>0
<1>7. n \in Builders(first + N) /\ n.room = b.room /\ \A j \in Nat : Few(b, j) /\ j < MaxSize => Few(n, j + 1)
  BY <1>5, <1>6
<1> QED
  BY <1>0, <1>4, <1>7 DEF n

-----------------------------------------------------------------------------
(* Two sets merged                                                         *)

LEMMA RisingFacts ==
  ASSUME NEW s \in Rising
  PROVE  /\ Len(s) \in Nat /\ \A k \in 1 .. Len(s) : s[k] \in Int
         /\ \A k \in Nat \ {0} : k + 1 <= Len(s) => s[k] + 1 <= s[k + 1]
<1>1. s \in Seq(Int) /\ Len(s) \in Nat /\ \A i, j \in 1 .. Len(s) : i < j => s[i] < s[j]
  BY DEF Rising
<1>2. \A k \in 1 .. Len(s) : s[k] \in Int
  BY <1>1
<1>3. ASSUME NEW k \in Nat \ {0}, k + 1 <= Len(s)
      PROVE  s[k] + 1 <= s[k + 1]
  <2>1. k \in 1 .. Len(s) /\ k + 1 \in 1 .. Len(s) /\ k < k + 1
    BY <1>1, <1>3
  <2>2. s[k] < s[k + 1] /\ s[k] \in Int /\ s[k + 1] \in Int
    BY <1>1, <1>2, <2>1
  <2> DEFINE x == s[k]
             y == s[k + 1]
  <2> HIDE DEF x, y
  <2>3. x < y /\ x \in Int /\ y \in Int
    BY <2>2 DEF x, y
  <2>4. x + 1 <= y
    BY <2>3
  <2> QED
    BY <2>4 DEF x, y
<1> QED
  BY <1>1, <1>2, <1>3

\* Where the next index of a and of b go at the earliest, by what has been
\* merged: the builder has not passed either.
MergingFrom(s, erasing, a, b, low) ==
  /\ s.builder \in Builders(low)
  /\ s.i <= Len(a) => low <= IF erasing THEN a[s.i] - (s.j - 1) ELSE a[s.i] + s.j - 1
  /\ s.j <= Len(b) => low <= IF erasing THEN b[s.j] - (s.j - 1) ELSE b[s.j]

Merging(erasing, a, b) ==
  {s \in [builder : Open, i : Nat \ {0}, j : Nat \ {0}] : \E low \in Int : MergingFrom(s, erasing, a, b, low)}

LEMMA MergingNext ==
  ASSUME NEW erasing, NEW a, NEW b, NEW s \in Merging(erasing, a, b),
         NEW n \in Open, NEW i \in Nat \ {0}, NEW j \in Nat \ {0}, NEW low \in Int, n \in Builders(low),
         i <= Len(a) => low <= IF erasing THEN a[i] - (j - 1) ELSE a[i] + j - 1,
         j <= Len(b) => low <= IF erasing THEN b[j] - (j - 1) ELSE b[j],
         NEW t, t = [s EXCEPT !.builder = n, !.i = i, !.j = j]
  PROVE  t \in Merging(erasing, a, b)
<1>1. s \in [builder : Open, i : Nat \ {0}, j : Nat \ {0}]
  BY DEF Merging
<1> DEFINE u == [builder |-> n, i |-> i, j |-> j]
<1>2. t = u
  <2> DEFINE s1 == [s EXCEPT !.builder = n]
             s2 == [s1 EXCEPT !.i = i]
             s3 == [s2 EXCEPT !.j = j]
  <2>1. t = s3
    OBVIOUS
  <2>2. s1 = [builder |-> n, i |-> s.i, j |-> s.j]
    BY <1>1
  <2> HIDE DEF s1
  <2>3. s2 = [builder |-> n, i |-> i, j |-> s.j]
    BY <2>2
  <2> HIDE DEF s2
  <2>4. s3 = u
    BY <2>3
  <2> QED
    BY <2>1, <2>4
<1>3. u \in [builder : Open, i : Nat \ {0}, j : Nat \ {0}] /\ u.builder = n /\ u.i = i /\ u.j = j
  OBVIOUS
<1> HIDE DEF u
<1>4. MergingFrom(u, erasing, a, b, low)
  BY <1>3 DEF MergingFrom
<1> QED
  BY <1>2, <1>3, <1>4 DEF Merging

LEMMA MergeInsertFacts ==
  ASSUME NEW a \in Rising, NEW b \in Rising, NEW keep, NEW s \in Merging(FALSE, a, b)
  PROVE  MergeInsert(s, a, b, keep) \in Merging(FALSE, a, b)
<1> DEFINE i == s.i
           j == s.j
           o == s.builder
           x == a[i] + j - 1
           t == MergeInsert(s, a, b, keep)
<1>1. i \in Nat \ {0} /\ j \in Nat \ {0} /\ o \in Open /\ s = [s EXCEPT !.builder = o, !.i = i, !.j = j]
  BY DEF Merging
<1>2. PICK low \in Int : MergingFrom(s, FALSE, a, b, low)
  BY DEF Merging
<1>3. o \in Builders(low) /\ (i <= Len(a) => low <= x) /\ (j <= Len(b) => low <= b[j])
  BY <1>2 DEF MergingFrom
<1>4. /\ Len(a) \in Nat /\ Len(b) \in Nat
      /\ i <= Len(a) => a[i] \in Int
      /\ i + 1 <= Len(a) => a[i] + 1 <= a[i + 1] /\ a[i + 1] \in Int
      /\ j <= Len(b) => b[j] \in Int
      /\ j + 1 <= Len(b) => b[j] + 1 <= b[j + 1] /\ b[j + 1] \in Int
  <2> HIDE DEF i, j
  <2>1. Len(a) \in Nat /\ Len(b) \in Nat /\ (i <= Len(a) => i \in 1 .. Len(a)) /\ (j <= Len(b) => j \in 1 .. Len(b))
        /\ (i + 1 <= Len(a) => i + 1 \in 1 .. Len(a)) /\ (j + 1 <= Len(b) => j + 1 \in 1 .. Len(b))
    BY <1>1, RisingFacts
  <2> QED
    BY <1>1, <2>1, RisingFacts
<1>5. CASE i <= Len(a) /\ (j <= Len(b) => x < b[j])
  <2> DEFINE n == BuildIndex(o, x)
  <2>1. t = [s EXCEPT !.builder = n, !.i = i + 1]
    BY <1>5, Zenon DEF MergeInsert
  <2>2. x \in Int /\ low <= x
    BY <1>1, <1>3, <1>4, <1>5
  <2> HIDE DEF x, o
  <2>3. n \in Builders(x + 1)
    BY <1>3, <2>2, BuildIndexFacts
  <2>4. n \in Open
    BY <2>3 DEF Builders
  <2> DEFINE l == x + 1
             i2 == i + 1
  <2>5. l \in Int /\ i2 \in Nat \ {0}
    BY <1>1, <2>2
  <2>6. i2 <= Len(a) => l <= a[i2] + j - 1
    <3> HIDE DEF i, j
    <3> QED
      BY <1>1, <1>4, <1>5, <2>2 DEF x
  <2>7. j <= Len(b) => l <= b[j]
    <3> HIDE DEF i, j
    <3> QED
      BY <1>1, <1>4, <1>5, <2>2
  <2>8. t = [s EXCEPT !.builder = n, !.i = i2, !.j = j]
    <3>1. [s EXCEPT !.builder = n, !.i = i + 1] = [s EXCEPT !.builder = n, !.i = i + 1, !.j = j]
      <4> HIDE DEF n
      <4> QED
        BY DEF Merging
    <3> QED
      BY <2>1, <3>1
  <2> HIDE DEF n, l, i2, i, j, t
  <2>9. t \in Merging(FALSE, a, b)
    BY <1>1, <2>3, <2>4, <2>5, <2>6, <2>7, <2>8, MergingNext DEF l
  <2> QED
    BY <2>9 DEF t
<1>6. CASE ~(i <= Len(a) /\ (j <= Len(b) => x < b[j])) /\ j <= Len(b)
  <2> DEFINE y == b[j]
             n == IF keep THEN BuildIndex(o, y) ELSE o
             l == IF keep THEN y + 1 ELSE low
             j2 == j + 1
  <2>1. t = [s EXCEPT !.builder = n, !.j = j + 1]
    BY <1>6, Zenon DEF MergeInsert
  <2>2. y \in Int /\ low <= y
    BY <1>3, <1>4, <1>6
  <2>3. n \in Builders(l) /\ l \in Int
    <3> HIDE DEF y, o
    <3>1. CASE keep
      <4>1. BuildIndex(o, y) \in Builders(y + 1)
        BY <1>3, <2>2, BuildIndexFacts
      <4> QED
        BY <2>2, <3>1, <4>1
    <3>2. CASE ~keep
      BY <1>3, <3>2
    <3> QED
      BY <3>1, <3>2
  <2>4. n \in Open /\ j2 \in Nat \ {0}
    <3> HIDE DEF n
    <3> QED
      BY <1>1, <2>3 DEF Builders
  <2>5. i <= Len(a) => l <= a[i] + j2 - 1
    <3>1. CASE i <= Len(a)
      <4>1. y <= x /\ low <= x /\ x \in Int /\ a[i] \in Int
        <5>1. x \in Int /\ a[i] \in Int /\ low <= x
          BY <1>1, <1>3, <1>4, <3>1
        <5>2. ~(x < y)
          BY <1>6, <3>1
        <5> HIDE DEF x, y
        <5> QED
          BY <2>2, <5>1, <5>2
      <4>2. a[i] + j2 - 1 = x + 1
        <5> HIDE DEF i, j
        <5> QED
          BY <1>1, <4>1
      <4> HIDE DEF x, y, j2, i
      <4> QED
        BY <2>2, <4>1, <4>2
    <3> QED
      BY <3>1
  <2>6. j2 <= Len(b) => l <= b[j2]
    <3>1. CASE j2 <= Len(b)
      <4>1. y + 1 <= b[j2] /\ b[j2] \in Int
        BY <1>4, <3>1
      <4> HIDE DEF y, j2
      <4> QED
        BY <2>2, <4>1
    <3> QED
      BY <3>1
  <2>7. t = [s EXCEPT !.builder = n, !.i = i, !.j = j2]
    <3>1. [s EXCEPT !.builder = n, !.j = j + 1] = [s EXCEPT !.builder = n, !.i = i, !.j = j + 1]
      <4> HIDE DEF n
      <4> QED
        BY DEF Merging
    <3> QED
      BY <2>1, <3>1
  <2> HIDE DEF n, l, j2, i, j, t
  <2>8. t \in Merging(FALSE, a, b)
    BY <1>1, <2>3, <2>4, <2>5, <2>6, <2>7, MergingNext
  <2> QED
    BY <2>8 DEF t
<1>7. CASE ~(i <= Len(a) /\ (j <= Len(b) => x < b[j])) /\ ~(j <= Len(b))
  <2>1. t = s
    BY <1>7, Zenon DEF MergeInsert
  <2> QED
    BY <2>1
<1> QED
  BY <1>5, <1>6, <1>7

LEMMA MergeEraseFacts ==
  ASSUME NEW a \in Rising, NEW b \in Rising, NEW s \in Merging(TRUE, a, b)
  PROVE  MergeErase(s, a, b) \in Merging(TRUE, a, b)
<1> DEFINE i == s.i
           j == s.j
           o == s.builder
           x == a[i] - (j - 1)
           t == MergeErase(s, a, b)
<1>1. i \in Nat \ {0} /\ j \in Nat \ {0} /\ o \in Open /\ s = [s EXCEPT !.builder = o, !.i = i, !.j = j]
  BY DEF Merging
<1>2. PICK low \in Int : MergingFrom(s, TRUE, a, b, low)
  BY DEF Merging
<1>3. o \in Builders(low) /\ (i <= Len(a) => low <= x) /\ (j <= Len(b) => low <= b[j] - (j - 1))
  BY <1>2 DEF MergingFrom
<1>4. /\ Len(a) \in Nat /\ Len(b) \in Nat
      /\ i <= Len(a) => a[i] \in Int
      /\ i + 1 <= Len(a) => a[i] + 1 <= a[i + 1] /\ a[i + 1] \in Int
      /\ j <= Len(b) => b[j] \in Int
      /\ j + 1 <= Len(b) => b[j] + 1 <= b[j + 1] /\ b[j + 1] \in Int
  <2> HIDE DEF i, j
  <2>1. Len(a) \in Nat /\ Len(b) \in Nat /\ (i <= Len(a) => i \in 1 .. Len(a)) /\ (j <= Len(b) => j \in 1 .. Len(b))
        /\ (i + 1 <= Len(a) => i + 1 \in 1 .. Len(a)) /\ (j + 1 <= Len(b) => j + 1 \in 1 .. Len(b))
    BY <1>1, RisingFacts
  <2> QED
    BY <1>1, <2>1, RisingFacts
<1>5. CASE ~(i > Len(a)) /\ (j <= Len(b) => a[i] < b[j])
  <2> DEFINE n == BuildIndex(o, x)
             l == x + 1
             i2 == i + 1
  <2>1. t = [s EXCEPT !.builder = n, !.i = i + 1]
    BY <1>5, Zenon DEF MergeErase
  <2>2. x \in Int /\ low <= x /\ i <= Len(a)
    BY <1>1, <1>3, <1>4, <1>5
  <2>3. n \in Builders(x + 1)
    <3> HIDE DEF x, o
    <3> QED
      BY <1>3, <2>2, BuildIndexFacts
  <2>4. n \in Open
    <3> HIDE DEF n
    <3> QED
      BY <2>3 DEF Builders
  <2>5. l \in Int /\ i2 \in Nat \ {0}
    BY <1>1, <2>2
  <2>6. i2 <= Len(a) => l <= a[i2] - (j - 1)
    <3> HIDE DEF i, j
    <3> QED
      BY <1>1, <1>4, <1>5, <2>2 DEF x
  <2>7. j <= Len(b) => l <= b[j] - (j - 1)
    <3> HIDE DEF i, j
    <3> QED
      BY <1>1, <1>4, <1>5, <2>2 DEF x
  <2>8. t = [s EXCEPT !.builder = n, !.i = i2, !.j = j]
    <3>1. [s EXCEPT !.builder = n, !.i = i + 1] = [s EXCEPT !.builder = n, !.i = i + 1, !.j = j]
      <4> HIDE DEF n
      <4> QED
        BY DEF Merging
    <3> QED
      BY <2>1, <3>1
  <2> HIDE DEF n, l, i2, i, j, t
  <2>9. t \in Merging(TRUE, a, b)
    BY <1>1, <2>3, <2>4, <2>5, <2>6, <2>7, <2>8, MergingNext DEF l
  <2> QED
    BY <2>9 DEF t
<1>6. CASE ~(i > Len(a)) /\ ~(j <= Len(b) => a[i] < b[j])
  <2> DEFINE i2 == IF a[i] = b[j] THEN i + 1 ELSE i
             j2 == j + 1
             y == b[j]
  <2>1. t = [s EXCEPT !.i = i2, !.j = j2]
    BY <1>6, Zenon DEF MergeErase
  <2>2. i <= Len(a) /\ j <= Len(b) /\ a[i] \in Int /\ y \in Int /\ y <= a[i] /\ low <= y - (j - 1)
    <3>1. i <= Len(a) /\ j <= Len(b) /\ ~(a[i] < b[j])
      BY <1>1, <1>4, <1>6
    <3> HIDE DEF i, j
    <3> QED
      BY <1>3, <1>4, <3>1
  <2>3. i2 \in Nat \ {0} /\ j2 \in Nat \ {0}
    <3> HIDE DEF i, j
    <3> QED
      BY <1>1
  <2>4. i2 <= Len(a) => low <= a[i2] - (j2 - 1)
    <3>1. CASE i2 <= Len(a)
      <4>1. a[i2] \in Int /\ y + 1 <= a[i2]
        <5>1. CASE a[i] = y
          <6>1. i2 = i + 1
            BY <5>1
          <6> HIDE DEF i2, i, y
          <6> QED
            BY <1>4, <2>2, <3>1, <5>1, <6>1
        <5>2. CASE a[i] # y
          <6>1. i2 = i
            BY <5>2
          <6> HIDE DEF i2, i, y
          <6> QED
            BY <2>2, <5>2, <6>1
        <5> QED
          BY <5>1, <5>2
      <4> HIDE DEF i2, j, y, i
      <4> QED
        BY <1>1, <2>2, <4>1
    <3> QED
      BY <3>1
  <2>5. j2 <= Len(b) => low <= b[j2] - (j2 - 1)
    <3>1. CASE j2 <= Len(b)
      <4>1. y + 1 <= b[j2] /\ b[j2] \in Int
        BY <1>4, <3>1
      <4> DEFINE z == b[j2]
      <4>2. y + 1 <= z /\ z \in Int
        BY <4>1
      <4> HIDE DEF y, z, j, i
      <4>3. low <= z - (j2 - 1)
        BY <1>1, <2>2, <4>2
      <4> QED
        BY <4>3 DEF z
    <3> QED
      BY <3>1
  <2>6. t = [s EXCEPT !.builder = o, !.i = i2, !.j = j2]
    <3>1. [s EXCEPT !.i = i2, !.j = j2] = [s EXCEPT !.builder = o, !.i = i2, !.j = j2]
      <4> HIDE DEF i2, j2
      <4> QED
        BY DEF Merging
    <3> QED
      BY <2>1, <3>1
  <2> HIDE DEF i2, j2, i, j, t, o
  <2>7. t \in Merging(TRUE, a, b)
    BY <1>1, <1>3, <2>3, <2>4, <2>5, <2>6, MergingNext
  <2> QED
    BY <2>7 DEF t
<1>7. CASE i > Len(a)
  <2>1. t = s
    BY <1>7, Zenon DEF MergeErase
  <2> QED
    BY <2>1
<1> QED
  BY <1>5, <1>6, <1>7

\* A number no greater than the first of either sequence, if they have one.
LEMMA LowEnough ==
  ASSUME NEW x \in Int, NEW y \in Int
  PROVE  \E low \in Int : low <= x /\ low <= y
<1>1. min(x, y) \in Int /\ min(x, y) <= x /\ min(x, y) <= y
  BY DEF min
<1> QED
  BY <1>1

LEMMA MergeFacts ==
  ASSUME NEW method \in {"insert", "shift", "erase"}, NEW m \in IndexSets, NEW positions \in IndexSets
  PROVE  Merge(method, m, positions) \in IndexSets
<1> DEFINE a == as_indexes(m)
           b == as_indexes(positions)
           erasing == method = "erase"
           start == [builder |-> Builder(m), i |-> 1, j |-> 1]
<1> DEFINE N == Len(a) + Len(b)
           I == (0 .. N) \X Merging(erasing, a, b)
           Step(v, k) == IF method = "erase" THEN MergeErase(v, a, b) ELSE MergeInsert(v, a, b, method = "insert")
           F == [p \in I |-> Step(p[2], p[1] + 1)]
           Eq(f) == f = [k \in 0 .. N |-> IF k = 0 THEN start ELSE Step(f[k - 1], k)]
           loop == CHOOSE f : Eq(f)
<1>0. a \in Rising /\ b \in Rising /\ Len(a) \in Nat /\ Len(b) \in Nat
  <2>1. a \in Rising /\ b \in Rising
    BY as_indexesRise
  <2> HIDE DEF a, b
  <2> QED
    BY <2>1, RisingFacts
<1> HIDE DEF a, b
<1>1. N \in Nat /\ <<0, start>> \in I
  <2> DEFINE x == IF 1 <= Len(a) THEN a[1] ELSE 0
             y == IF 1 <= Len(b) THEN b[1] ELSE 0
             o == Builder(m)
  <2>1. x \in Int /\ y \in Int
    <3>1. 1 <= Len(a) => a[1] \in Int
      <4>1. 1 <= Len(a) => 1 \in 1 .. Len(a)
        BY <1>0
      <4> QED
        BY <1>0, <4>1, RisingFacts
    <3>2. 1 <= Len(b) => b[1] \in Int
      <4>1. 1 <= Len(b) => 1 \in 1 .. Len(b)
        BY <1>0
      <4> QED
        BY <1>0, <4>1, RisingFacts
    <3> QED
      BY <3>1, <3>2
  <2>2. PICK low \in Int : low <= x /\ low <= y
    <3> HIDE DEF x, y
    <3> QED
      BY <2>1, LowEnough
  <2>3. o \in Builders(low) /\ o \in Open
    <3>1. o \in Builders(low)
      BY EmptyBuilder
    <3> QED
      BY <3>1 DEF Builders
  <2> HIDE DEF o
  <2>4. start.builder = o /\ start.i = 1 /\ start.j = 1 /\ start \in [builder : Open, i : Nat \ {0}, j : Nat \ {0}]
    BY <2>3 DEF o
  <2>5. MergingFrom(start, erasing, a, b, low)
    <3>1. 1 <= Len(a) => low <= a[1] - (1 - 1) /\ low <= a[1] + 1 - 1
      BY <2>1, <2>2
    <3>2. 1 <= Len(b) => low <= b[1] - (1 - 1) /\ low <= b[1]
      BY <2>1, <2>2
    <3> HIDE DEF start, erasing, x, y
    <3> QED
      BY <2>3, <2>4, <3>1, <3>2 DEF MergingFrom
  <2>6. start \in Merging(erasing, a, b)
    <3> HIDE DEF start, erasing
    <3> QED
      BY <2>4, <2>5 DEF Merging
  <2> HIDE DEF start
  <2> QED
    BY <1>0, <2>6
<1> HIDE DEF start
<1>2. ASSUME NEW k \in 1 .. N, NEW v, <<k - 1, v>> \in I
      PROVE  <<k, Step(v, k)>> \in I
  <2>1. v \in Merging(erasing, a, b) /\ k \in 0 .. N
    BY <1>1, <1>2
  <2>2. Step(v, k) \in Merging(erasing, a, b)
    <3>1. CASE method = "erase"
      <4>1. erasing = TRUE
        BY <3>1
      <4>2. MergeErase(v, a, b) \in Merging(erasing, a, b)
        <5> HIDE DEF erasing
        <5> QED
          BY <1>0, <2>1, <4>1, MergeEraseFacts
      <4> QED
        BY <3>1, <4>2
    <3>2. CASE method # "erase"
      <4>1. erasing = FALSE
        BY <3>2
      <4>2. MergeInsert(v, a, b, method = "insert") \in Merging(erasing, a, b)
        <5> DEFINE keep == method = "insert"
        <5> HIDE DEF erasing, keep
        <5>1. MergeInsert(v, a, b, keep) \in Merging(erasing, a, b)
          BY <1>0, <2>1, <4>1, MergeInsertFacts
        <5> QED
          BY <5>1 DEF keep
      <4> QED
        BY <3>2, <4>2
    <3> QED
      BY <3>1, <3>2
  <2> HIDE DEF Step, N
  <2> QED
    BY <2>1, <2>2
<1>3. Within(N, I, loop) /\ loop[0] = start
  <2> HIDE DEF I, N, Step
  <2>1. ASSUME NEW k \in 1 .. N, NEW v, <<k - 1, v>> \in I
        PROVE  F[<<k - 1, v>>] = Step(v, k)
    <3>1. k - 1 + 1 = k
      BY <1>1
    <3> QED
      BY <2>1, <3>1
  <2>2. PICK f : LedBy(N, start, F, f) /\ Within(N, I, f)
    <3>1. \A k \in 1 .. N : \A v : <<k - 1, v>> \in I => <<k, F[<<k - 1, v>>]>> \in I
      BY <1>2, <2>1
    <3> HIDE DEF F
    <3> QED
      BY <1>1, <3>1, Rounds, Zenon
  <2>3. Eq(f)
    <3>1. ASSUME NEW k \in 1 .. N
          PROVE  f[k] = Step(f[k - 1], k)
      <4>1. k - 1 \in 0 .. N
        BY <1>1
      <4>2. <<k - 1, f[k - 1]>> \in I /\ f[k] = F[<<k - 1, f[k - 1]>>]
        BY <2>2, <4>1 DEF LedBy, Within
      <4> HIDE DEF F
      <4> QED
        BY <2>1, <4>2
    <3>2. f = [k \in 0 .. N |-> f[k]] /\ f[0] = start
      BY <2>2 DEF LedBy
    <3> DEFINE h == [k \in 0 .. N |-> IF k = 0 THEN start ELSE Step(f[k - 1], k)]
    <3>3. ASSUME NEW k \in 0 .. N
          PROVE  h[k] = f[k]
      <4>1. k = 0 \/ k \in 1 .. N
        BY <1>1
      <4> QED
        BY <3>1, <3>2, <4>1
    <3>4. h = [k \in 0 .. N |-> h[k]]
      OBVIOUS
    <3>5. h = f
      <4> HIDE DEF h
      <4> QED
        BY <3>2, <3>3, <3>4
    <3> QED
      BY <3>5
  <2>4. Eq(loop)
    <3> HIDE DEF Eq
    <3> QED
      BY <2>3
  <2> HIDE DEF loop, F
  <2>5. loop[0] = start /\ \A k \in 1 .. N : loop[k] = Step(loop[k - 1], k)
    <3>1. \A k \in 0 .. N : loop[k] = IF k = 0 THEN start ELSE Step(loop[k - 1], k)
      BY <2>4, Zenon
    <3> QED
      BY <1>1, <3>1
  <2>6. \A k \in 1 .. N : <<k - 1, loop[k - 1]>> \in I => <<k, loop[k]>> \in I
    BY <1>2, <2>5
  <2>7. Within(N, I, loop)
    <3> HIDE DEF F, Eq
    <3> QED
      BY <1>1, <2>5, <2>6, EveryRound
  <2> QED
    BY <2>5, <2>7
<1> DEFINE n == loop[N]
<1>4. Merge(method, m, positions) = finalize(n.builder)
  BY DEF Merge, a, b, start
<1> HIDE DEF loop
<1>5. n \in Merging(erasing, a, b)
  <2> HIDE DEF N
  <2>1. N \in 0 .. N
    BY <1>1
  <2>2. <<N, loop[N]>> \in I
    BY <1>3, <2>1 DEF Within
  <2> QED
    BY <2>2
<1> HIDE DEF n, erasing
<1>6. finalize(n.builder) \in IndexSets
  BY <1>5 DEF Merging, MergingFrom, Builders
<1> QED
  BY <1>4, <1>6

LEMMA InsertAllAtFacts ==
  ASSUME NEW m \in IndexSets, NEW positions \in IndexSets
  PROVE  insert_all_at(m, positions) \in IndexSets
BY MergeFacts DEF insert_all_at

LEMMA ShiftForInsertAllAtFacts ==
  ASSUME NEW m \in IndexSets, NEW values \in IndexSets
  PROVE  shift_for_insert_all_at(m, values) \in IndexSets
<1>1. CASE m = <<>> \/ values = <<>> \/ Head(values).begin >= Last(m).end
  BY <1>1, Zenon DEF shift_for_insert_all_at
<1>2. CASE ~(m = <<>> \/ values = <<>> \/ Head(values).begin >= Last(m).end)
  <2>1. shift_for_insert_all_at(m, values) = Merge("shift", m, values)
    BY <1>2, Zenon DEF shift_for_insert_all_at
  <2> QED
    BY <2>1, MergeFacts
<1> QED
  BY <1>1, <1>2

LEMMA EraseAllAtFacts ==
  ASSUME NEW m \in IndexSets, NEW positions \in IndexSets
  PROVE  erase_all_at(m, positions) \in IndexSets
BY MergeFacts DEF erase_all_at

-----------------------------------------------------------------------------
(* add_shifted_by, where the set and the values fill no more than a chunk   *)

LEMMA FewCounted ==
  ASSUME NEW low, NEW b \in Builders(low), NEW k \in Nat, k < MaxSize, Few(b, k), NEW r
  PROVE  Counted(b, r)
<1> DEFINE m == finalize(b)
<1>1. m \in Vectors /\ b.room \in Nat \ {0}
  BY InOrderFacts DEF Builders, Open
<1>2. Len(m) <= 1 /\ (m # <<>> => Len(m[1].data) <= k)
  BY DEF Few
<1> HIDE DEF m
<1>3. Len(m) \in Nat /\ (m = <<>> <=> Len(m) = 0)
  BY <1>1, VectorLen
<1>4. CASE m = <<>>
  <2>1. Len(m) < b.room
    BY <1>1, <1>3, <1>4
  <2> QED
    BY <2>1 DEF Counted, m
<1>5. CASE m # <<>>
  <2> DEFINE L == Len(m)
  <2>1. L = 1 /\ 1 \in 1 .. L
    <3>1. L \in Nat /\ L # 0 /\ L <= 1
      BY <1>2, <1>3, <1>5, Zenon
    <3> HIDE DEF L
    <3> QED
      BY <3>1
  <2>2. Last(m) = m[1]
    BY <2>1 DEF Last
  <2>3. Len(m[1].data) \in Nat /\ Len(m[1].data) <= k
    BY <1>1, <1>2, <1>5, <2>1, ChunkOfVector, SetAssumption
  <2>4. Len(Last(m).data) < MaxSize
    BY <2>2, <2>3, SetAssumption
  <2> QED
    BY <1>5, <2>4 DEF Counted, m
<1> QED
  BY <1>4, <1>5

\* low is where the next range of the set and, moved by the shifts so far, the
\* next of shifted_by and of the values go at the earliest; the builder has
\* one range at most for each range and value passed.
ShiftingFrom(s, old, by, values, low) ==
  /\ s.builder \in Builders(low) /\ Few(s.builder, (s.old - 1) + (s.n - 1))
  /\ s.old <= Len(old) => low <= old[s.old][1]
  /\ s.by <= Len(by) => low + s.new_shift - s.old_shift <= by[s.by][1]
  /\ s.n <= Len(values) => \/ low + s.new_shift - s.old_shift <= values[s.n]
                           \/ low + s.new_shift - s.old_shift <= s.skip_until

ShiftingState(old, by, values) ==
  [builder : Open, old : 1 .. Len(old) + 1, by : 1 .. Len(by) + 1, n : 1 .. Len(values) + 1,
   skip_until : Int, old_shift : Int, new_shift : Int]

Shifting(old, by, values) ==
  {s \in ShiftingState(old, by, values) :
     \E low \in Int : ShiftingFrom(s, old, by, values, low)}

LEMMA RowNext ==
  ASSUME NEW s \in Rows, NEW k \in 1 .. Len(s) + 1
  PROVE  /\ k <= Len(s) => /\ s[k] \in Filled /\ s[k][1] \in Int /\ s[k][2] \in Int /\ s[k][1] < s[k][2]
                           /\ Size(s[k]) \in Int /\ s[k][1] + Size(s[k]) = s[k][2] /\ k + 1 \in 1 .. Len(s) + 1
         /\ k + 1 <= Len(s) => s[k][2] < s[k + 1][1] /\ s[k + 1][1] \in Int
<1>1. Len(s) \in Nat /\ s \in Seq(Filled)
  BY RowFacts DEF Rows
<1>2. CASE k <= Len(s)
  <2>1. k \in 1 .. Len(s) /\ k + 1 \in 1 .. Len(s) + 1
    BY <1>1, <1>2
  <2>2. s[k] \in Filled
    BY <1>1, <2>1
  <2>3. s[k][1] \in Int /\ s[k][2] \in Int /\ s[k][1] < s[k][2] /\ Size(s[k]) \in Nat
        /\ s[k][1] + Size(s[k]) = s[k][2]
    BY <2>1, RowFacts
  <2>4. k + 1 <= Len(s) => s[k][2] < s[k + 1][1] /\ s[k + 1][1] \in Int
    <3>1. CASE k + 1 <= Len(s)
      <4>1. k + 1 \in 1 .. Len(s) /\ k < k + 1
        BY <1>1, <2>1, <3>1
      <4> QED
        BY <2>1, <4>1, RowFacts
    <3> QED
      BY <3>1
  <2> QED
    BY <2>1, <2>2, <2>3, <2>4
<1>3. CASE ~(k <= Len(s))
  <2>1. ~(k + 1 <= Len(s))
    BY <1>1, <1>3
  <2> QED
    BY <1>3, <2>1
<1> QED
  BY <1>2, <1>3

LEMMA AddShiftedStep ==
  ASSUME NEW old \in Rows, NEW by \in Rows, NEW values \in Rising, Len(old) + Len(values) <= MaxSize,
         NEW s \in Shifting(old, by, values)
  PROVE  AddShifted(s, old, by, values) \in Shifting(old, by, values)
<1> DEFINE o == s.builder
           i == s.old
           j == s.by
           n == s.n
           os == s.old_shift
           ns == s.new_shift
           skip == s.skip_until
           k == (i - 1) + (n - 1)
           index == values[n]
           new == index - ns + os
           r == old[i]
           q == by[j]
           a == Len(old)
           c == Len(by)
           d == Len(values)
           t == AddShifted(s, old, by, values)
<1>1. /\ s \in ShiftingState(old, by, values) /\ o \in Open /\ i \in 1 .. a + 1 /\ j \in 1 .. c + 1 /\ n \in 1 .. d + 1
      /\ skip \in Int /\ os \in Int /\ ns \in Int
  BY DEF Shifting, ShiftingState
<1>2. PICK low \in Int : ShiftingFrom(s, old, by, values, low)
  BY DEF Shifting
<1> DEFINE next == low + ns - os
<1>3. /\ o \in Builders(low) /\ Few(o, k) /\ (i <= a => low <= r[1]) /\ (j <= c => next <= q[1])
      /\ n <= d => next <= index \/ next <= skip
  BY <1>2 DEF ShiftingFrom
<1>4. a \in Nat /\ c \in Nat /\ d \in Nat
  BY RowFacts, RisingFacts
<1>5. /\ i <= a => /\ r \in Filled /\ r[1] \in Int /\ r[2] \in Int /\ r[1] < r[2]
                   /\ Size(r) \in Int /\ r[1] + Size(r) = r[2] /\ i + 1 \in 1 .. a + 1
      /\ i + 1 <= a => r[2] < old[i + 1][1] /\ old[i + 1][1] \in Int
      /\ j <= c => /\ q[1] \in Int /\ q[2] \in Int /\ q[1] < q[2]
                   /\ Size(q) \in Int /\ q[1] + Size(q) = q[2] /\ j + 1 \in 1 .. c + 1
      /\ j + 1 <= c => q[2] < by[j + 1][1] /\ by[j + 1][1] \in Int
  <2> HIDE DEF i, j
  <2> QED
    BY <1>1, RowNext
<1>6. /\ n <= d => index \in Int /\ n + 1 \in 1 .. d + 1
      /\ n + 1 <= d => index + 1 <= values[n + 1] /\ values[n + 1] \in Int
  <2> HIDE DEF n
  <2>1. /\ n <= d => n \in 1 .. d /\ n + 1 \in 1 .. d + 1
        /\ n + 1 <= d => n \in Nat \ {0} /\ n + 1 \in 1 .. d
    BY <1>1, <1>4
  <2> QED
    BY <2>1, RisingFacts
<1> HIDE DEF a, c, d
<1>8. CASE n > d
  <2>1. t = s
    BY <1>8, Zenon DEF AddShifted, d
  <2> QED
    BY <2>1
<1>9. CASE ~(n > d) /\ j <= c /\ q[1] <= index
  <2>1. t = [s EXCEPT !.by = j + 1, !.new_shift = ns + Size(q), !.skip_until = q[2]]
    BY <1>9, Zenon DEF AddShifted, c, d
  <2> DEFINE j2 == j + 1
             ns2 == ns + Size(q)
             z == q[2]
  <2>2. j2 \in 1 .. c + 1 /\ ns2 \in Int /\ z \in Int
    <3> HIDE DEF q, j, ns
    <3> QED
      BY <1>1, <1>5, <1>9
  <2>3. /\ t \in ShiftingState(old, by, values) /\ t.builder = o /\ t.old = i /\ t.by = j2 /\ t.n = n
        /\ t.skip_until = z /\ t.old_shift = os /\ t.new_shift = ns2
    <3>1. t = [s EXCEPT !.by = j2, !.new_shift = ns2, !.skip_until = z]
      BY <2>1
    <3> HIDE DEF t, j2, ns2, z
    <3> QED
      BY <1>1, <2>2, <3>1 DEF ShiftingState, c
  <2>4. low + ns2 - os <= z
    <3> DEFINE x == q[1]
               y == Size(q)
    <3>1. x + y = z /\ x \in Int /\ y \in Int /\ next <= x
      BY <1>3, <1>5, <1>9
    <3>2. ns2 = ns + y
      OBVIOUS
    <3> HIDE DEF x, y, z, ns, os, ns2
    <3> QED
      BY <1>1, <3>1, <3>2
  <2>5. j2 <= c => low + ns2 - os <= by[j2][1]
    <3> DEFINE x == by[j2][1]
               y == low + ns2 - os
    <3>1. CASE j2 <= c
      <4>1. z < x /\ x \in Int /\ z \in Int /\ y \in Int
        BY <1>1, <1>5, <2>2, <3>1
      <4> HIDE DEF z, x, y
      <4>2. y <= x
        BY <2>4, <4>1 DEF y
      <4> QED
        BY <4>2 DEF x, y
    <3> QED
      BY <3>1
  <2> HIDE DEF o, i, j2, n, z, os, ns2, t
  <2>6. ShiftingFrom(t, old, by, values, low)
    BY <1>3, <2>3, <2>4, <2>5 DEF ShiftingFrom, a, c, d
  <2> QED
    BY <2>3, <2>6 DEF Shifting, t
<1>10. CASE ~(n > d) /\ ~(j <= c /\ q[1] <= index) /\ index < skip
  <2> DEFINE n2 == n + 1
             k2 == (i - 1) + (n2 - 1)
  <2>1. t = [s EXCEPT !.n = n2]
    BY <1>10, Zenon DEF AddShifted, c, d
  <2>2. n <= d /\ n2 \in 1 .. d + 1 /\ k \in Nat /\ k2 \in Nat /\ k <= k2
    <3>1. n <= d
      BY <1>1, <1>4, <1>10
    <3> HIDE DEF n, i
    <3> QED
      BY <1>1, <1>4, <1>6, <3>1
  <2>3. /\ t \in ShiftingState(old, by, values) /\ t.builder = o /\ t.old = i /\ t.by = j /\ t.n = n2
        /\ t.skip_until = skip /\ t.old_shift = os /\ t.new_shift = ns
    <3> HIDE DEF t, n2
    <3> QED
      BY <1>1, <2>1, <2>2 DEF ShiftingState, d
  <2>4. Few(o, k2)
    <3> HIDE DEF o, k, k2
    <3> QED
      BY <1>3, <2>2, FewMore
  <2>5. n2 <= d => next <= values[n2] \/ next <= skip
    <3> DEFINE x == values[n2]
    <3>1. CASE n2 <= d
      <4>1. index + 1 <= x /\ x \in Int /\ index \in Int /\ next \in Int
        BY <1>1, <1>6, <2>2, <3>1
      <4>2. next <= index \/ next <= skip
        BY <1>3, <2>2
      <4> HIDE DEF index, next, x, n2, skip, n
      <4>3. next <= x \/ next <= skip
        BY <4>1, <4>2
      <4> QED
        BY <4>3 DEF x
    <3> QED
      BY <3>1
  <2> HIDE DEF o, i, j, n2, skip, os, ns, t
  <2>6. ShiftingFrom(t, old, by, values, low)
    BY <1>3, <2>3, <2>4, <2>5 DEF ShiftingFrom, a, c, d
  <2> QED
    BY <2>3, <2>6 DEF Shifting, t
\* From here the value is not left out, so nothing built is past its place.
<1>11. ASSUME ~(n > d), ~(j <= c /\ q[1] <= index), ~(index < skip)
       PROVE  /\ n <= d /\ new \in Int /\ low <= new /\ new + ns - os = index /\ index \in Int
              /\ n + 1 \in 1 .. d + 1 /\ (j <= c => index + 1 <= q[1])
              /\ k \in Nat /\ k < MaxSize /\ (i - 1) + (n + 1 - 1) = k + 1
              /\ (i + 1 - 1) + (n - 1) = k + 1
  <2>1. n <= d
    BY <1>1, <1>4, <1>11
  <2>2. index \in Int /\ n + 1 \in 1 .. d + 1
    BY <1>6, <2>1
  <2>3. next <= index
    <3>1. next \in Int
      BY <1>1
    <3> HIDE DEF next, index, skip
    <3> QED
      BY <1>1, <1>3, <1>11, <2>1, <2>2, <3>1
  <2>4. new \in Int /\ low <= new /\ new + ns - os = index
    <3> HIDE DEF index, os, ns
    <3> QED
      BY <1>1, <2>2, <2>3
  <2>5. j <= c => index + 1 <= q[1]
    <3> HIDE DEF index, q, j
    <3> QED
      BY <1>5, <1>11, <2>2
  <2>6. /\ k \in Nat /\ k < MaxSize /\ (i - 1) + (n + 1 - 1) = k + 1
        /\ (i + 1 - 1) + (n - 1) = k + 1
    <3>1. a + d <= MaxSize
      BY DEF a, d
    <3> HIDE DEF i, n
    <3> QED
      BY <1>1, <1>4, <2>1, <3>1, SetAssumption
  <2> QED
    BY <2>1, <2>2, <2>4, <2>5, <2>6
<1>12. CASE ~(n > d) /\ ~(j <= c /\ q[1] <= index) /\ ~(index < skip) /\ (i <= a /\ r[1] <= new)
  <2> DEFINE o2 == BuildRange(o, r)
             os2 == os + Size(r)
             i2 == i + 1
             high == r[2]
  <2>1. t = [s EXCEPT !.old = i2, !.old_shift = os2, !.builder = o2]
    BY <1>12, Zenon DEF AddShifted, a, c, d
  <2>2. /\ n <= d /\ new \in Int /\ low <= new /\ new + ns - os = index /\ index \in Int
        /\ (j <= c => index + 1 <= q[1]) /\ k \in Nat /\ k < MaxSize /\ (i + 1 - 1) + (n - 1) = k + 1
    <3> HIDE DEF new, index, q, skip, k, r, n, j, i, ns, os
    <3>1. ~(n > d) /\ ~(j <= c /\ q[1] <= index) /\ ~(index < skip)
      BY <1>12, Zenon
    <3>2. /\ n <= d /\ new \in Int /\ low <= new /\ new + ns - os = index /\ index \in Int
          /\ (j <= c => index + 1 <= q[1]) /\ k \in Nat /\ k < MaxSize /\ (i + 1 - 1) + (n - 1) = k + 1
      BY <1>11, <3>1, Zenon
    <3> QED
      BY <3>2, Zenon
  <2>3. r \in Filled /\ r[1] \in Int /\ high \in Int /\ Size(r) \in Int /\ r[1] + Size(r) = high /\ low <= r[1]
        /\ i2 \in 1 .. a + 1 /\ r[1] <= new
    BY <1>3, <1>5, <1>12
  <2>4. o2 \in Builders(high) /\ Few(o2, k + 1)
    <3> HIDE DEF o, r, k
    <3>1. LET z == BuildRange(o, r)
          IN z \in Builders(r[2]) /\ \A l \in Nat : Few(o, l) /\ l < MaxSize => Few(z, l + 1)
      BY <1>3, <2>3, BuildRangeFacts
    <3> QED
      BY <1>3, <2>2, <3>1
  <2>5. o2 \in Open /\ os2 \in Int
    <3> HIDE DEF o2
    <3>1. o2 \in Open
      BY <2>4 DEF Builders
    <3> QED
      BY <1>1, <2>3, <3>1
  <2>6. /\ t \in ShiftingState(old, by, values) /\ t.builder = o2 /\ t.old = i2 /\ t.by = j /\ t.n = n
        /\ t.skip_until = skip /\ t.old_shift = os2 /\ t.new_shift = ns
    <3> HIDE DEF t, i2, os2, o2
    <3> QED
      BY <1>1, <2>1, <2>3, <2>5 DEF ShiftingState, a
  <2> DEFINE next2 == high + ns - os2
  <2>7. next2 <= index /\ next2 \in Int
    <3> DEFINE x == r[1]
               y == Size(r)
    <3>1. x \in Int /\ y \in Int /\ x + y = high /\ x <= new
      BY <2>3
    <3> HIDE DEF x, y, high, new
    <3>2. next2 = x + ns - os
      BY <1>1, <3>1 DEF y
    <3> HIDE DEF os2, next2, ns, os
    <3> QED
      BY <1>1, <2>2, <3>1, <3>2
  <2>8. i2 <= a => high <= old[i2][1]
    <3> DEFINE x == old[i2][1]
    <3>1. CASE i2 <= a
      <4>1. high < x /\ x \in Int
        BY <1>5, <3>1
      <4> HIDE DEF x, high
      <4>2. high <= x
        BY <2>3, <4>1
      <4> QED
        BY <4>2 DEF x
    <3> QED
      BY <3>1
  <2>9. j <= c => next2 <= q[1]
    <3> DEFINE x == q[1]
    <3>1. CASE j <= c
      <4>1. index + 1 <= x /\ x \in Int
        BY <1>5, <2>2, <3>1
      <4> HIDE DEF x, index, next2
      <4>2. next2 <= x
        BY <2>2, <2>7, <4>1
      <4> QED
        BY <4>2 DEF x
    <3> QED
      BY <3>1
  <2>10. Few(o2, (i2 - 1) + (n - 1))
    <3> DEFINE l == (i2 - 1) + (n - 1)
               l2 == k + 1
    <3>1. l = l2
      <4> HIDE DEF i, n
      <4> QED
        BY <1>1
    <3> HIDE DEF o2, l, l2
    <3>2. Few(o2, l)
      BY <2>4, <3>1 DEF l2
    <3> QED
      BY <3>2 DEF l
  <2> HIDE DEF o2, i2, j, n, skip, os2, ns, t, high
  <2>11. ShiftingFrom(t, old, by, values, high)
    BY <2>4, <2>6, <2>7, <2>8, <2>9, <2>10 DEF ShiftingFrom, a, c, d
  <2> QED
    BY <2>3, <2>6, <2>11 DEF Shifting, t
<1>13. CASE ~(n > d) /\ ~(j <= c /\ q[1] <= index) /\ ~(index < skip) /\ ~(i <= a /\ r[1] <= new)
  <2> DEFINE o2 == BuildIndex(o, new)
             n2 == n + 1
             high == new + 1
  <2>1. t = [s EXCEPT !.n = n2, !.builder = o2]
    BY <1>13, Zenon DEF AddShifted, a, c, d
  <2>2. /\ n <= d /\ new \in Int /\ low <= new /\ new + ns - os = index /\ index \in Int /\ n + 1 \in 1 .. d + 1
        /\ (j <= c => index + 1 <= q[1]) /\ k \in Nat /\ (i - 1) + (n + 1 - 1) = k + 1
        /\ k < MaxSize
    <3> HIDE DEF new, index, q, skip, k, r, n, j, i, ns, os
    <3>1. ~(n > d) /\ ~(j <= c /\ q[1] <= index) /\ ~(index < skip)
      BY <1>13, Zenon
    <3>2. /\ n <= d /\ new \in Int /\ low <= new /\ new + ns - os = index /\ index \in Int /\ n + 1 \in 1 .. d + 1
          /\ (j <= c => index + 1 <= q[1]) /\ k \in Nat /\ (i - 1) + (n + 1 - 1) = k + 1
          /\ k < MaxSize
      BY <1>11, <3>1, Zenon
    <3> QED
      BY <3>2, Zenon
  <2>3. k < MaxSize
    BY <2>2
  <2>4. o2 \in Builders(high) /\ Few(o2, k + 1)
    <3> HIDE DEF o, new, k
    <3>1. LET z == BuildIndex(o, new)
          IN z \in Builders(new + 1) /\ \A l \in Nat : Few(o, l) => (l < MaxSize => Few(z, l + 1))
      BY <1>3, <2>2, BuildIndexFacts
    <3> QED
      BY <1>3, <2>2, <2>3, <3>1
  <2>5. o2 \in Open /\ high \in Int
    <3> HIDE DEF o2
    <3>1. o2 \in Open
      BY <2>4 DEF Builders
    <3> QED
      BY <2>2, <3>1
  <2>6. /\ t \in ShiftingState(old, by, values) /\ t.builder = o2 /\ t.old = i /\ t.by = j /\ t.n = n2
        /\ t.skip_until = skip /\ t.old_shift = os /\ t.new_shift = ns
    <3>1. n2 \in 1 .. d + 1
      BY <2>2
    <3> HIDE DEF t, n2, o2
    <3> QED
      BY <1>1, <2>1, <2>5, <3>1 DEF ShiftingState, d
  <2> DEFINE next2 == high + ns - os
  <2>7. next2 = index + 1
    <3> HIDE DEF new, os, ns, index
    <3> QED
      BY <1>1, <2>2
  <2>8. i <= a => high <= r[1]
    <3> DEFINE x == r[1]
    <3>1. CASE i <= a
      <4>1. x \in Int /\ ~(x <= new)
        BY <1>5, <1>13, <3>1
      <4> HIDE DEF x, new
      <4>2. high <= x
        BY <2>2, <4>1
      <4> QED
        BY <4>2 DEF x
    <3> QED
      BY <3>1
  <2>9. (j <= c => next2 <= q[1]) /\ (n2 <= d => next2 <= values[n2])
    <3> HIDE DEF next2
    <3> QED
      BY <1>6, <2>2, <2>7
  <2>10. Few(o2, (i - 1) + (n2 - 1))
    <3> DEFINE l == (i - 1) + (n2 - 1)
               l2 == k + 1
    <3>1. l = l2
      <4> HIDE DEF i, n
      <4> QED
        BY <1>1
    <3> HIDE DEF o2, l, l2
    <3>2. Few(o2, l)
      BY <2>4, <3>1 DEF l2
    <3> QED
      BY <3>2 DEF l
  <2> HIDE DEF o2, i, j, n2, skip, os, ns, t, high
  <2>11. ShiftingFrom(t, old, by, values, high)
    BY <2>4, <2>6, <2>8, <2>9, <2>10 DEF ShiftingFrom, a, c, d
  <2> QED
    BY <2>5, <2>6, <2>11 DEF Shifting, t
<1> HIDE DEF t, index, new, q, r, o, i, j, n, os, ns, skip
<1> QED
  BY <1>8, <1>9, <1>10, <1>12, <1>13

LEMMA CopyRestFacts ==
  ASSUME NEW low \in Int, NEW b \in Builders(low), NEW ranges \in Rows, NEW j \in 1 .. Len(ranges) + 1,
         j <= Len(ranges) => low <= ranges[j][1],
         NEW extra \in Nat, Few(b, (j - 1) + extra), Len(ranges) + extra <= MaxSize
  PROVE  finalize(CopyRest(b, ranges, j)) \in IndexSets
<1> DEFINE Now(k, v) == IF k < j THEN v = b ELSE v \in Builders(ranges[k][2]) /\ Few(v, k + extra)
<1> DEFINE N == Len(ranges)
           I == {p \in (0 .. N) \X Open : Now(p[1], p[2])}
           Step(v, k) == IF k < j THEN v ELSE Build(v, ranges[k])
           F == [p \in I |-> Step(p[2], p[1] + 1)]
           Eq(f) == f = [k \in 0 .. N |-> IF k = 0 THEN b ELSE Step(f[k - 1], k)]
           loop == CHOOSE f : Eq(f)
<1>0. N \in Nat /\ b \in Open /\ \A k \in 1 .. N : k \in 1 .. N + 1
  BY RowFacts DEF Builders
<1>1. N \in Nat /\ <<0, b>> \in I
  <2>1. Now(0, b)
    BY <1>0
  <2> DEFINE p == <<0, b>>
  <2>2. p[1] = 0 /\ p[2] = b /\ p \in (0 .. N) \X Open
    BY <1>0
  <2> HIDE DEF p, N, Now
  <2>3. p \in I
    BY <2>1, <2>2
  <2> QED
    BY <1>0, <2>3 DEF p
<1>2. ASSUME NEW k \in 1 .. N, NEW v, <<k - 1, v>> \in I
      PROVE  <<k, Step(v, k)>> \in I
  <2> DEFINE r == ranges[k]
             n == Build(v, r)
  <2>1. Now(k - 1, v) /\ v \in Open /\ k \in 0 .. N
    <3> DEFINE p == <<k - 1, v>>
    <3>1. p[1] = k - 1 /\ p[2] = v /\ k \in 0 .. N
      BY <1>0
    <3>2. p \in I
      BY <1>2
    <3> HIDE DEF p, N, Now
    <3> QED
      BY <3>1, <3>2
  <2>2. ASSUME NEW t \in Open, Now(k, t)
        PROVE  <<k, t>> \in I
    <3> DEFINE q == <<k, t>>
    <3>1. q[1] = k /\ q[2] = t /\ q \in (0 .. N) \X Open
      BY <2>1
    <3> HIDE DEF q, N, Now
    <3>2. q \in I
      BY <2>2, <3>1
    <3> QED
      BY <3>2 DEF q
  <2>3. CASE k < j
    <3>1. Now(k, v) /\ Step(v, k) = v
      <4>1. k - 1 < j
        BY <2>3
      <4> QED
        BY <2>1, <2>3, <4>1
    <3> HIDE DEF Step, I, Now
    <3> QED
      BY <2>1, <2>2, <3>1
  <2>4. CASE ~(k < j)
    <3> DEFINE few == k - 1 + extra
               low2 == IF k = j THEN low ELSE ranges[k - 1][2]
    <3>1. Step(v, k) = n
      BY <2>4
    <3>2. /\ r \in Filled /\ r[1] \in Int /\ few \in Nat /\ few < MaxSize /\ few + 1 = k + extra /\ k - 1 + 1 = k
          /\ (k # j => k - 1 \in 1 .. N + 1 /\ ~(k - 1 < j)) /\ j <= N
      <4>1. k \in 1 .. N + 1 /\ k <= N
        BY <1>0
      <4>2. r \in Filled /\ r[1] \in Int
        <5> HIDE DEF N
        <5> QED
          BY <4>1, RowNext DEF N
      <4>3. /\ few \in Nat /\ few < MaxSize /\ few + 1 = k + extra /\ k - 1 + 1 = k
            /\ (k # j => k - 1 \in 1 .. N + 1 /\ ~(k - 1 < j)) /\ j <= N
        BY <1>0, <2>4, SetAssumption
      <4> QED
        BY <4>2, <4>3
    <3>3. low2 \in Int /\ v \in Builders(low2) /\ low2 <= r[1] /\ Few(v, few)
      <4>1. CASE k = j
        <5>1. v = b
          <6>1. k - 1 < j
            BY <4>1
          <6> QED
            BY <2>1, <6>1
        <5>2. low2 = low /\ few = (j - 1) + extra
          BY <4>1
        <5>3. low <= r[1]
          BY <3>2, <4>1
        <5> HIDE DEF low2, few
        <5>4. Few(v, few)
          BY <5>1, <5>2, Zenon
        <5> QED
          BY <5>1, <5>2, <5>3, <5>4
      <4>2. CASE k # j
        <5> DEFINE l == k - 1
        <5>1. low2 = ranges[l][2] /\ l \in 1 .. N + 1 /\ ~(l < j) /\ l + 1 = k /\ l <= N /\ k <= N
          BY <1>0, <3>2, <4>2
        <5> HIDE DEF l, N
        <5>2. ranges[l][2] \in Int /\ ranges[l][2] < r[1]
          BY <5>1, RowNext DEF N
        <5> DEFINE z == ranges[l][2]
                   y == r[1]
        <5>6. low2 = z /\ z \in Int /\ y \in Int /\ z < y
          BY <3>2, <5>1, <5>2
        <5> HIDE DEF low2, y, z
        <5>7. low2 \in Int /\ low2 <= y
          BY <5>6
        <5>3. low2 \in Int /\ low2 <= r[1]
          BY <5>7 DEF y
        <5> HIDE DEF r
        <5>4. v \in Builders(ranges[l][2]) /\ Few(v, l + extra)
          BY <2>1, <5>1 DEF l
        <5>5. Few(v, few)
          BY <5>4 DEF l
        <5> QED
          BY <5>1, <5>3, <5>4, <5>5
      <4> QED
        BY <4>1, <4>2
    <3> HIDE DEF low2, few, r
    <3>4. Counted(v, r)
      BY <3>2, <3>3, FewCounted
    <3>5. LET a == Build(v, r)
          IN a \in Builders(r[2]) /\ \A x \in Nat : Few(v, x) => (x < MaxSize => Few(a, x + 1))
      BY <3>2, <3>3, <3>4, BuildFacts
    <3>6. n \in Builders(r[2]) /\ Few(n, few + 1)
      BY <3>2, <3>3, <3>5
    <3> HIDE DEF n
    <3>7. n \in Open
      BY <3>6 DEF Builders
    <3>8. Now(k, n)
      <4>1. Few(n, k + extra)
        BY <3>2, <3>6, Zenon
      <4> QED
        BY <2>4, <3>6, <4>1 DEF r
    <3> HIDE DEF Step, I, Now
    <3> QED
      BY <2>2, <3>1, <3>7, <3>8
  <2> QED
    BY <2>3, <2>4
<1>3. Within(N, I, loop) /\ loop[0] = b
  <2> HIDE DEF I, N, Step
  <2>1. ASSUME NEW k \in 1 .. N, NEW v, <<k - 1, v>> \in I
        PROVE  F[<<k - 1, v>>] = Step(v, k)
    <3>1. k - 1 + 1 = k
      BY <1>1
    <3> QED
      BY <2>1, <3>1
  <2>2. PICK f : LedBy(N, b, F, f) /\ Within(N, I, f)
    <3>1. \A k \in 1 .. N : \A v : <<k - 1, v>> \in I => <<k, F[<<k - 1, v>>]>> \in I
      BY <1>2, <2>1
    <3> HIDE DEF F
    <3> QED
      BY <1>1, <3>1, Rounds, Zenon
  <2>3. Eq(f)
    <3>1. ASSUME NEW k \in 1 .. N
          PROVE  f[k] = Step(f[k - 1], k)
      <4>1. k - 1 \in 0 .. N
        BY <1>1
      <4>2. <<k - 1, f[k - 1]>> \in I /\ f[k] = F[<<k - 1, f[k - 1]>>]
        BY <2>2, <4>1 DEF LedBy, Within
      <4> HIDE DEF F
      <4> QED
        BY <2>1, <4>2
    <3>2. f = [k \in 0 .. N |-> f[k]] /\ f[0] = b
      BY <2>2 DEF LedBy
    <3> DEFINE h == [k \in 0 .. N |-> IF k = 0 THEN b ELSE Step(f[k - 1], k)]
    <3>3. ASSUME NEW k \in 0 .. N
          PROVE  h[k] = f[k]
      <4>1. k = 0 \/ k \in 1 .. N
        BY <1>1
      <4> QED
        BY <3>1, <3>2, <4>1
    <3>4. h = [k \in 0 .. N |-> h[k]]
      OBVIOUS
    <3>5. h = f
      <4> HIDE DEF h
      <4> QED
        BY <3>2, <3>3, <3>4
    <3> QED
      BY <3>5
  <2>4. Eq(loop)
    <3> HIDE DEF Eq
    <3> QED
      BY <2>3
  <2> HIDE DEF loop, F
  <2>5. loop[0] = b /\ \A k \in 1 .. N : loop[k] = Step(loop[k - 1], k)
    <3>1. \A k \in 0 .. N : loop[k] = IF k = 0 THEN b ELSE Step(loop[k - 1], k)
      BY <2>4, Zenon
    <3> QED
      BY <1>1, <3>1
  <2>6. \A k \in 1 .. N : <<k - 1, loop[k - 1]>> \in I => <<k, loop[k]>> \in I
    BY <1>2, <2>5
  <2>7. Within(N, I, loop)
    <3> HIDE DEF F, Eq
    <3> QED
      BY <1>1, <2>5, <2>6, EveryRound
  <2> QED
    BY <2>5, <2>7
<1> DEFINE n == loop[N]
<1>4. CopyRest(b, ranges, j) = n
  BY DEF CopyRest
<1> HIDE DEF loop
<1>5. Now(N, n)
  <2> HIDE DEF N, Now
  <2>1. N \in 0 .. N
    BY <1>1
  <2> DEFINE p == <<N, loop[N]>>
  <2>2. p \in I
    BY <1>3, <2>1 DEF Within
  <2>3. p[1] = N /\ p[2] = loop[N]
    OBVIOUS
  <2> HIDE DEF p
  <2> QED
    BY <2>2, <2>3
<1> HIDE DEF n, N
<1>6. finalize(n) \in IndexSets
  <2>1. n = b \/ n \in Builders(ranges[N][2])
    BY <1>5
  <2> QED
    BY <2>1 DEF Builders
<1> QED
  BY <1>4, <1>6

LEMMA AddShiftedByFacts ==
  ASSUME NEW m \in IndexSets, NEW shifted_by \in IndexSets, NEW values \in IndexSets,
         Len(Ranges(m)) + Len(as_indexes(values)) <= MaxSize
  PROVE  add_shifted_by(m, shifted_by, values) \in IndexSets
<1> DEFINE old == Ranges(m)
           by == Ranges(shifted_by)
           indexes == as_indexes(values)
           start == [builder |-> Builder(m), old |-> 1, by |-> 1, n |-> 1,
                     skip_until |-> 0, old_shift |-> 0, new_shift |-> 0]
<1> DEFINE N == Len(old) + Len(by) + Len(indexes)
           I == (0 .. N) \X Shifting(old, by, indexes)
           Step(v, k) == AddShifted(v, old, by, indexes)
           F == [p \in I |-> Step(p[2], p[1] + 1)]
           Eq(f) == f = [k \in 0 .. N |-> IF k = 0 THEN start ELSE Step(f[k - 1], k)]
           loop == CHOOSE f : Eq(f)
<1>0. /\ old \in Rows /\ by \in Rows /\ indexes \in Rising /\ Len(old) + Len(indexes) <= MaxSize
      /\ Len(old) \in Nat /\ Len(by) \in Nat /\ Len(indexes) \in Nat
  <2>1. old \in Rows /\ by \in Rows /\ indexes \in Rising
    BY RangesInOrder, as_indexesRise
  <2> HIDE DEF old, by, indexes
  <2>2. Len(old) \in Nat /\ Len(by) \in Nat /\ Len(indexes) \in Nat
    BY <2>1, RowFacts, RisingFacts
  <2> QED
    BY <2>1, <2>2 DEF old, indexes
<1> HIDE DEF old, by, indexes
<1>1. N \in Nat /\ <<0, start>> \in I
  <2> DEFINE x == IF 1 <= Len(old) THEN old[1][1] ELSE 0
             y == IF 1 <= Len(by) THEN by[1][1] ELSE 0
             w == IF 1 <= Len(indexes) THEN indexes[1] ELSE 0
             o == Builder(m)
  <2>1. x \in Int /\ y \in Int /\ w \in Int
    <3>1. 1 \in 1 .. Len(old) + 1 /\ 1 \in 1 .. Len(by) + 1 /\ (1 <= Len(indexes) => 1 \in 1 .. Len(indexes))
      BY <1>0
    <3>2. (1 <= Len(old) => old[1][1] \in Int) /\ (1 <= Len(by) => by[1][1] \in Int)
      BY <1>0, <3>1, RowNext
    <3>3. 1 <= Len(indexes) => indexes[1] \in Int
      BY <1>0, <3>1, RisingFacts
    <3> QED
      BY <3>2, <3>3
  <2>2. PICK low1 \in Int : low1 <= x /\ low1 <= y
    <3> HIDE DEF x, y
    <3> QED
      BY <2>1, LowEnough
  <2>3. PICK low \in Int : low <= low1 /\ low <= w
    <3> HIDE DEF w
    <3> QED
      BY <2>1, <2>2, LowEnough
  <2>4. o \in Builders(low) /\ o \in Open /\ Few(o, 0)
    <3>1. o \in Builders(low) /\ Few(o, 0)
      BY EmptyBuilder
    <3> QED
      BY <3>1 DEF Builders
  <2> HIDE DEF o
  <2>5. /\ start.builder = o /\ start.old = 1 /\ start.by = 1 /\ start.n = 1
        /\ start.skip_until = 0 /\ start.old_shift = 0 /\ start.new_shift = 0
        /\ start \in ShiftingState(old, by, indexes)
    BY <1>0, <2>4 DEF o, ShiftingState
  <2>6. ShiftingFrom(start, old, by, indexes, low)
    <3>1. /\ 1 <= Len(old) => low <= old[1][1]
          /\ 1 <= Len(by) => low + 0 - 0 <= by[1][1]
          /\ 1 <= Len(indexes) => low + 0 - 0 <= indexes[1]
      BY <2>1, <2>2, <2>3
    <3>2. Few(o, (1 - 1) + (1 - 1))
      <4> DEFINE k == (1 - 1) + (1 - 1)
      <4>1. k = 0
        OBVIOUS
      <4> HIDE DEF k
      <4>2. Few(o, k)
        BY <2>4, <4>1
      <4> QED
        BY <4>2 DEF k
    <3> HIDE DEF start, x, y, w
    <3> QED
      BY <2>4, <2>5, <3>1, <3>2 DEF ShiftingFrom
  <2>7. start \in Shifting(old, by, indexes)
    <3> HIDE DEF start
    <3> QED
      BY <2>5, <2>6 DEF Shifting
  <2> HIDE DEF start
  <2> QED
    BY <1>0, <2>7
<1> HIDE DEF start
<1>2. ASSUME NEW k \in 1 .. N, NEW v, <<k - 1, v>> \in I
      PROVE  <<k, Step(v, k)>> \in I
  <2>1. v \in Shifting(old, by, indexes) /\ k \in 0 .. N
    BY <1>1, <1>2
  <2>2. Step(v, k) \in Shifting(old, by, indexes)
    BY <1>0, <2>1, AddShiftedStep
  <2> HIDE DEF Step, N
  <2> QED
    BY <2>1, <2>2
<1>3. Within(N, I, loop) /\ loop[0] = start
  <2> HIDE DEF I, N, Step
  <2>1. ASSUME NEW k \in 1 .. N, NEW v, <<k - 1, v>> \in I
        PROVE  F[<<k - 1, v>>] = Step(v, k)
    <3>1. k - 1 + 1 = k
      BY <1>1
    <3> QED
      BY <2>1, <3>1
  <2>2. PICK f : LedBy(N, start, F, f) /\ Within(N, I, f)
    <3>1. \A k \in 1 .. N : \A v : <<k - 1, v>> \in I => <<k, F[<<k - 1, v>>]>> \in I
      BY <1>2, <2>1
    <3> HIDE DEF F
    <3> QED
      BY <1>1, <3>1, Rounds, Zenon
  <2>3. Eq(f)
    <3>1. ASSUME NEW k \in 1 .. N
          PROVE  f[k] = Step(f[k - 1], k)
      <4>1. k - 1 \in 0 .. N
        BY <1>1
      <4>2. <<k - 1, f[k - 1]>> \in I /\ f[k] = F[<<k - 1, f[k - 1]>>]
        BY <2>2, <4>1 DEF LedBy, Within
      <4> HIDE DEF F
      <4> QED
        BY <2>1, <4>2
    <3>2. f = [k \in 0 .. N |-> f[k]] /\ f[0] = start
      BY <2>2 DEF LedBy
    <3> DEFINE h == [k \in 0 .. N |-> IF k = 0 THEN start ELSE Step(f[k - 1], k)]
    <3>3. ASSUME NEW k \in 0 .. N
          PROVE  h[k] = f[k]
      <4>1. k = 0 \/ k \in 1 .. N
        BY <1>1
      <4> QED
        BY <3>1, <3>2, <4>1
    <3>4. h = [k \in 0 .. N |-> h[k]]
      OBVIOUS
    <3>5. h = f
      <4> HIDE DEF h
      <4> QED
        BY <3>2, <3>3, <3>4
    <3> QED
      BY <3>5
  <2>4. Eq(loop)
    <3> HIDE DEF Eq
    <3> QED
      BY <2>3
  <2> HIDE DEF loop, F
  <2>5. loop[0] = start /\ \A k \in 1 .. N : loop[k] = Step(loop[k - 1], k)
    <3>1. \A k \in 0 .. N : loop[k] = IF k = 0 THEN start ELSE Step(loop[k - 1], k)
      BY <2>4, Zenon
    <3> QED
      BY <1>1, <3>1
  <2>6. \A k \in 1 .. N : <<k - 1, loop[k - 1]>> \in I => <<k, loop[k]>> \in I
    BY <1>2, <2>5
  <2>7. Within(N, I, loop)
    <3> HIDE DEF F, Eq
    <3> QED
      BY <1>1, <2>5, <2>6, EveryRound
  <2> QED
    BY <2>5, <2>7
<1> DEFINE s == loop[N]
           rest == CopyRest(s.builder, old, s.old)
<1>4. add_shifted_by(m, shifted_by, values) = IF values = <<>> THEN m ELSE finalize(rest)
  BY DEF add_shifted_by, old, by, indexes, start
<1> HIDE DEF loop
<1>5. s \in Shifting(old, by, indexes)
  <2> HIDE DEF N
  <2>1. N \in 0 .. N
    BY <1>1
  <2>2. <<N, loop[N]>> \in I
    BY <1>3, <2>1 DEF Within
  <2> QED
    BY <2>2
<1> HIDE DEF s
<1> DEFINE b == s.builder
           j == s.old
           extra == s.n - 1
<1>6. j \in 1 .. Len(old) + 1 /\ extra \in Nat /\ Len(old) + extra <= MaxSize
  <2>1. j \in 1 .. Len(old) + 1 /\ s.n \in 1 .. Len(indexes) + 1
    BY <1>5 DEF Shifting, ShiftingState
  <2> DEFINE n == s.n
  <2> HIDE DEF j, n
  <2>2. n - 1 \in Nat /\ Len(old) + (n - 1) <= MaxSize
    BY <1>0, <2>1, SetAssumption DEF n
  <2> QED
    BY <2>1, <2>2 DEF n
<1>7. PICK low \in Int : ShiftingFrom(s, old, by, indexes, low)
  BY <1>5 DEF Shifting
<1>8. b \in Builders(low) /\ Few(b, (j - 1) + extra) /\ (j <= Len(old) => low <= old[j][1])
  BY <1>7 DEF ShiftingFrom
<1> HIDE DEF b, j, extra
<1>9. finalize(CopyRest(b, old, j)) \in IndexSets
  BY <1>0, <1>6, <1>8, CopyRestFacts
<1> QED
  BY <1>4, <1>9 DEF b, j

-----------------------------------------------------------------------------
(* Every method                                                            *)

LEMMA VerifyFacts ==
  ASSUME NEW m \in IndexSets
  PROVE  Verify(m)
<1>1. m \in Vectors /\ DOMAIN m = 1 .. Len(m)
  BY InOrderFacts, VectorLen
<1>2. ASSUME NEW o \in DOMAIN m
      PROVE  m[o].data # <<>> /\ m[o] = ChunkOf(m[o].data)
  <2> DEFINE c == m[o]
             d == c.data
  <2>1. c \in Chunks /\ d \in Seq(Span)
    BY <1>1, ChunkOfVector
  <2> HIDE DEF c
  <2>2. c \in Chunk /\ Right(c)
    BY <2>1 DEF Chunks
  <2>3. d # <<>> /\ c.begin = d[1][1] /\ c.end = d[Len(d)][2] /\ c.count = Sizes(d)
    BY <2>2 DEF Right
  <2>4. Head(d) = d[1] /\ Last(d) = d[Len(d)]
    <3> HIDE DEF d
    <3> QED
      BY <2>1, <2>3 DEF Last
  <2>5. c = [data |-> d, begin |-> c.begin, end |-> c.end, count |-> c.count]
    BY <2>2 DEF Chunk
  <2>6. ChunkOf(d) = [data |-> d, begin |-> c.begin, end |-> c.end, count |-> c.count]
    BY <2>3, <2>4 DEF ChunkOf
  <2>7. c = ChunkOf(d)
    BY <2>5, <2>6
  <2> QED
    BY <2>3, <2>7 DEF c
<1>3. ASSUME NEW it \in Iterators(m)
      PROVE  /\ At(m, it)[1] < At(m, it)[2]
             /\ it # Begin(m) => At(m, it)[1] > At(m, Pred(m, it))[2]
  <2>1. At(m, it)[1] < At(m, it)[2] /\ At(m, it)[1] \in Int
    BY InOrderFacts
  <2>2. ASSUME it # Begin(m)
        PROVE  At(m, it)[1] > At(m, Pred(m, it))[2]
    <3> DEFINE p == Pred(m, it)
    <3>1. p \in Iterators(m) /\ Before(p, it)
      BY <2>2, PrevFacts
    <3> HIDE DEF p
    <3>2. At(m, p)[2] < At(m, it)[1] /\ At(m, p)[2] \in Int
      BY <3>1, InOrderFacts
    <3>3. At(m, it)[1] > At(m, p)[2]
      BY <2>1, <3>2
    <3> QED
      BY <3>3 DEF p
  <2> QED
    BY <2>1, <2>2
<1> QED
  BY <1>2, <1>3 DEF Verify

LEMMA IndexInt == Index \subseteq Nat /\ Index \subseteq Int
BY SetAssumption DEF Index

\* The invariant: the chunks right and the ranges in order and apart.
LEMMA NextKeepsOrder ==
  ASSUME OneChunk, m_data \in IndexSets, Next
  PROVE  m_data' \in IndexSets
<1>1. CASE CallAdd
  BY <1>1, AddFacts, IndexInt DEF CallAdd, Call
<1>2. CASE CallAddShifted
  <2>1. PICK i \in Index : m_data' = add_shifted(m_data, i)[1]
    BY <1>2 DEF CallAddShifted, Call
  <2> QED
    BY <2>1, AddShiftedFacts, IndexInt
<1>3. CASE CallAddAll
  BY <1>3, AddAllFacts, IndexSetOfFacts DEF CallAddAll, Call
<1>4. CASE CallAddShiftedBy
  <2>0. PICK V \in Given :
          /\ Len(Ranges(m_data)) + Len(as_indexes(IndexSetOf(V))) <= MaxSize
          /\ \E B \in Given : m_data' = add_shifted_by(m_data, IndexSetOf(B), IndexSetOf(V))
    BY <1>4 DEF CallAddShiftedBy, Call
  <2>1. PICK B \in Given : m_data' = add_shifted_by(m_data, IndexSetOf(B), IndexSetOf(V))
    BY <2>0
  <2> DEFINE b == IndexSetOf(B)
             v == IndexSetOf(V)
  <2>2. b \in IndexSets /\ v \in IndexSets
    BY IndexSetOfFacts
  <2> HIDE DEF b, v
  <2>3. m_data' = add_shifted_by(m_data, b, v) /\ Len(Ranges(m_data)) + Len(as_indexes(v)) <= MaxSize
    BY <2>0, <2>1 DEF b, v
  <2> QED
    BY <2>2, <2>3, AddShiftedByFacts
<1>5. CASE CallSet
  BY <1>5, SetFacts, IndexInt DEF CallSet, Call
<1>6. CASE CallInsertAt
  <2>1. PICK i \in Index, n \in 1 .. 2 : m_data' = insert_at(m_data, i, n)
    BY <1>6 DEF CallInsertAt, Call
  <2>2. i \in Int /\ n \in Nat
    BY IndexInt
  <2> QED
    BY <2>1, <2>2, InsertAtFacts
<1>7. CASE CallInsertAllAt
  BY <1>7, InsertAllAtFacts, IndexSetOfFacts DEF CallInsertAllAt, Call
<1>8. CASE CallShiftForInsertAt
  <2>1. PICK i \in Index, n \in 1 .. 2 : m_data' = shift_for_insert_at(m_data, i, n)
    BY <1>8 DEF CallShiftForInsertAt, Call
  <2>2. i \in Int /\ n \in Nat \ {0}
    BY IndexInt
  <2> QED
    BY <2>1, <2>2, ShiftForInsertAtFacts
<1>9. CASE CallShiftForInsertAllAt
  BY <1>9, ShiftForInsertAllAtFacts, IndexSetOfFacts DEF CallShiftForInsertAllAt, Call
<1>10. CASE CallEraseAt
  BY <1>10, EraseAtFacts, IndexInt DEF CallEraseAt, Call
<1>11. CASE CallEraseAllAt
  BY <1>11, EraseAllAtFacts, IndexSetOfFacts DEF CallEraseAllAt, Call
<1>12. CASE CallEraseOrUnshift
  <2>1. PICK i \in Index : m_data' = erase_or_unshift(m_data, i)[1]
    BY <1>12 DEF CallEraseOrUnshift, Call
  <2> QED
    BY <2>1, EraseOrUnshiftFacts, IndexInt
<1>13. CASE CallRemove
  <2>1. PICK i \in Index, n \in 1 .. MaxIndex : m_data' = remove(m_data, i, n)
    BY <1>13 DEF CallRemove, Call
  <2>2. i \in Int /\ n \in Nat \ {0}
    BY IndexInt, SetAssumption
  <2> QED
    BY <2>1, <2>2, RemoveFacts
<1>14. CASE CallRemoveAll
  BY <1>14, RemoveAllFacts, IndexSetOfFacts DEF CallRemoveAll, Call
<1>15. CASE CallContains \/ CallShift \/ CallUnshift \/ CallCount
  <2>1. m_data' = m_data
    BY <1>15 DEF CallContains, CallShift, CallUnshift, CallCount, Call
  <2> QED
    BY <2>1
<1> QED
  BY <1>1, <1>2, <1>3, <1>4, <1>5, <1>6, <1>7, <1>8, <1>9, <1>10, <1>11, <1>12, <1>13, <1>14, <1>15
  DEF Next

\* Whatever methods are called and in whatever order, verify() holds after
\* each: the ranges are in order, apart and not empty, no chunk is empty, and
\* each chunk's begin, end and number of indices are those of its ranges. It
\* needs add_shifted_by to stay within a chunk: beyond that the builder counts
\* a range as one index.
THEOREM AlwaysVerified ==
  ASSUME OneChunk
  PROVE  Spec => []Verified
<1> DEFINE Inv == m_data \in IndexSets
<1>1. Init => Inv
  BY EmptySet DEF Init
<1>2. Inv /\ [Next]_vars => Inv'
  <2> SUFFICES ASSUME Inv, [Next]_vars PROVE Inv'
    OBVIOUS
  <2>1. CASE Next
    BY <2>1, NextKeepsOrder
  <2>2. CASE UNCHANGED vars
    BY <2>2 DEF vars
  <2> QED
    BY <2>1, <2>2
<1>3. Inv => Verified
  BY VerifyFacts DEF Verified
<1> HIDE DEF Inv
<1> QED
  BY <1>1, <1>2, <1>3, PTL DEF Spec

=============================================================================
