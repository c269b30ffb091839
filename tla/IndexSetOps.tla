----------------------------- MODULE IndexSetOps -----------------------------
(***************************************************************************)
(* What the operations of Realm's IndexSet do to a set of row indices.     *)
(* Indices count from 0. The comments on the methods in index_set.hpp are  *)
(* the reference; IndexSet.tla is the code that implements them on chunks  *)
(* of ranges, and the change calculations are written with these.          *)
(***************************************************************************)
EXTENDS Integers, FiniteSets

\* size_t(-1), "no index".
npos == -1

Below(S, i) == Cardinality({x \in S : x < i})

\* The index that has i indices outside S before it.
shift(S, i) ==
  CHOOSE j \in i .. i + Cardinality(S) : j \notin S /\ j - Below(S, j) = i

\* Where index i, not in S, ends up when the indices of S are deleted.
unshift(S, i) == i - Below(S, i)

insert_at(S, i, n) ==
  {x \in S : x < i} \cup (i .. i + n - 1) \cup {x + n : x \in {y \in S : y >= i}}

shift_for_insert_at(S, i, n) ==
  {x \in S : x < i} \cup {x + n : x \in {y \in S : y >= i}}

erase_at(S, i) == {x \in S : x < i} \cup {x - 1 : x \in {y \in S : y > i}}

\* The same for a set P of positions: those of the rows once inserted, or of
\* the rows before any is erased.
insert_all_at(S, P) == P \cup {shift(P, x) : x \in S}
shift_for_insert_all_at(S, P) == {shift(P, x) : x \in S}
erase_all_at(S, P) == {unshift(P, x) : x \in S \ P}

\* The indices V, those of B left out, told without the indices of B and then
\* with the indices of S, joined to S.
add_shifted_by(S, B, V) == S \cup {shift(S, unshift(B, v)) : v \in V \ B}

erase_or_unshift(S, i) == IF i \in S THEN npos ELSE unshift(S, i)

count(S, i, j) == Cardinality({x \in S : i <= x /\ x < j})
=============================================================================
