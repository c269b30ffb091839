-------------------------- MODULE ChangeCalculation --------------------------
(***************************************************************************)
(* CollectionChangeBuilder::calculate: the difference between the rows a   *)
(* query found before (prev_rows, npos for one deleted since) and those it *)
(* finds now (next_rows). Rows of a sorted query are matched block by      *)
(* block; those of a query in table order are walked once, only the        *)
(* move_candidates being able to have moved.                               *)
(*                                                                         *)
(* Of equal rows, whose order std::sort leaves open, any are taken for the *)
(* same; of the longest blocks any: the code prefers the one it counts     *)
(* fewer modified rows in.                                                 *)
(***************************************************************************)
EXTENDS IndexSetOps, Sequences

CONSTANTS
  MaxFound, MaxRow,     (* bounds of a sorted query: rows found, of the table *)
  MaxInOrder, MaxRowInOrder,                (* the same for one in table order *)
  Swaps                  (* whether rows of the table are swapped or merged *)

ASSUME CalcBounds ==
  /\ MaxFound \in Nat /\ MaxRow \in Nat
  /\ MaxInOrder \in Nat /\ MaxRowInOrder \in Nat
  /\ Swaps \in BOOLEAN

VARIABLES
  prev_rows, next_rows,
  move_candidates,      (* <<rows>> of a query in table order, <<>> of a sorted *)
  ret,                  (* the changes: deletions, insertions, moves       *)
  new_rows,             (* the rows found now, those found before too      *)
  todo,                 (* ranges find_longest_matches has still to do     *)
  matches,              (* m_longest_matches                               *)
  state

calcVars ==
  <<prev_rows, next_rows, move_candidates, ret, new_rows, todo, matches, state>>

Lists(n, S) == UNION {[1 .. k -> S] : k \in 0 .. n}
Distinct(l) == \A i, j \in DOMAIN l : i < j /\ l[i] # npos => l[i] # l[j]
Ascending(l) == \A i, j \in DOMAIN l : i < j => l[i] < l[j]
\* Rows found in table order, of which only those of moved are elsewhere now:
\* the others have the index they had, with room for the rows before them. Only
\* a swap takes a row to a higher index; move_last_over fills a lower one.
FoundInOrder(l, moved) ==
  \A j \in DOMAIN l :
    l[j] \notin moved \cup {npos} =>
      /\ l[j] >= j - 1
      /\ \A i \in 1 .. j - 1 :
           l[i] # npos /\ (Swaps => l[i] \notin moved) => l[j] - l[i] >= j - i

CalcInit ==
  /\ \/ /\ move_candidates = <<>>
        /\ prev_rows \in Lists(MaxFound, 0 .. MaxRow \cup {npos})
        /\ next_rows \in Lists(MaxFound, 0 .. MaxRow)
     \/ \E moved \in SUBSET (0 .. MaxRowInOrder) :
          /\ move_candidates = <<moved>>
          /\ prev_rows \in {l \in Lists(MaxInOrder, 0 .. MaxRowInOrder \cup {npos}) :
                              Distinct(l) /\ FoundInOrder(l, moved)}
          /\ next_rows \in {l \in Lists(MaxInOrder, 0 .. MaxRowInOrder) : Ascending(l)}
  /\ ret = [deletions |-> {}, insertions |-> {}, moves |-> {}]
  /\ new_rows = <<>> /\ todo = {} /\ matches = {}
  /\ state = "calculate"

RowAt(l, i) == l[i + 1]
Indexes(l) == 0 .. Len(l) - 1
RowsOf(l) == {RowAt(l, i) : i \in Indexes(l)}
Positions(l, row) == {i \in Indexes(l) : RowAt(l, i) = row}
\* The indices of S in ascending order.
InOrder(S) == [k \in 1 .. Cardinality(S) |-> CHOOSE i \in S : Below(S, i) = k - 1]

-----------------------------------------------------------------------------
(* Matching of rows found before and now                                   *)

Deleted == Positions(prev_rows, npos)

\* As many of each row as both lists have: positions in both.
SameRows ==
  {kept \in (SUBSET (Indexes(prev_rows) \ Deleted)) \X (SUBSET Indexes(next_rows)) :
    \A row \in (RowsOf(prev_rows) \ {npos}) \cup RowsOf(next_rows) :
      LET p == Positions(prev_rows, row)  n == Positions(next_rows, row)
          both == IF Cardinality(p) < Cardinality(n) THEN Cardinality(p) ELSE Cardinality(n)
      IN Cardinality(kept[1] \cap p) = both /\ Cardinality(kept[2] \cap n) = both}

\* The old place of a kept row: of equal ones the first is the first before.
OldIndex(kept, tv) ==
  LET row == RowAt(next_rows, tv)
  IN CHOOSE i \in kept[1] \cap Positions(prev_rows, row) :
       Below(kept[1] \cap Positions(prev_rows, row), i)
         = Below(kept[2] \cap Positions(next_rows, row), tv)

\* new_rows in the order found, each with its old place, and that place
\* without the rows deleted before it.
RowInfo(kept, tv) ==
  [row_index |-> RowAt(next_rows, tv), tv_index |-> tv,
   prev_tv_index |-> OldIndex(kept, tv),
   shifted_tv_index |-> unshift(Deleted, OldIndex(kept, tv))]
NewRows(kept) == [k \in 1 .. Cardinality(kept[2]) |-> RowInfo(kept, InOrder(kept[2])[k])]

NoLonger(kept) == Indexes(prev_rows) \ (kept[1] \cup Deleted)
OnlyNow(kept) == Indexes(next_rows) \ kept[2]

\* The old places of the kept rows, ascending, and the rows there.
OldPlaces(new) == InOrder({new[k].prev_tv_index : k \in DOMAIN new})
OldRow(k) == RowAt(prev_rows, OldPlaces(new_rows)[k])

-----------------------------------------------------------------------------
(* In table order                                                          *)

\* Mutant: the expected place is told with the rows inserted before.
WalkInserted(s, row) ==
  LET calc_expected == row.tv_index + count(s.removed, 0, row.prev_tv_index)
  IN IF row.shifted_tv_index \in {s.expected, calc_expected} \/ row.row_index \notin move_candidates[1]
     THEN [s EXCEPT !.expected = row.shifted_tv_index + 1]
     ELSE [s EXCEPT !.moves = @ \cup {[from |-> row.prev_tv_index, to |-> row.tv_index]},
                    !.insertions = @ \cup {row.tv_index},
                    !.removed = @ \cup {row.prev_tv_index}]

\* Mutant: a move is told from the place without the deleted rows.
WalkShifted(s, row) ==
  IF row.shifted_tv_index = s.expected \/ row.row_index \notin move_candidates[1]
  THEN [s EXCEPT !.expected = row.shifted_tv_index + 1]
  ELSE [s EXCEPT !.moves = @ \cup {[from |-> row.shifted_tv_index, to |-> row.tv_index]},
                 !.insertions = @ \cup {row.tv_index},
                 !.removed = @ \cup {row.prev_tv_index}]

\* One row: where it was expected; where it must be, as it cannot have moved;
\* where the insertions and removals before put it; or moved.
Walk(s, row) ==
  LET calc_expected == row.tv_index - count(s.insertions, 0, row.tv_index)
                       + count(s.removed, 0, row.prev_tv_index)
  IN IF row.shifted_tv_index = s.expected THEN [s EXCEPT !.expected = @ + 1]
     ELSE IF row.row_index \notin move_candidates[1]
     THEN [s EXCEPT !.expected = row.shifted_tv_index + 1]
     ELSE IF row.shifted_tv_index = calc_expected
     THEN [s EXCEPT !.expected = calc_expected + 1]
     ELSE [s EXCEPT !.moves = @ \cup {[from |-> row.prev_tv_index, to |-> row.tv_index]},
                    !.insertions = @ \cup {row.tv_index},
                    !.removed = @ \cup {row.prev_tv_index}]

\* The state after each of the rows.
Walked(new, first) ==
  LET walk[k \in 0 .. Len(new)] == IF k = 0 THEN first ELSE Walk(walk[k - 1], new[k])
  IN walk

calculate_moves_unsorted ==
  /\ state = "calculate" /\ move_candidates # <<>>
  /\ \E kept \in SameRows :
       LET new == NewRows(kept)
           s == Walked(new, [expected |-> 0, moves |-> {}, removed |-> NoLonger(kept),
                             insertions |-> OnlyNow(kept)])[Len(new)]
       IN /\ new_rows' = new
          /\ ret' = [deletions |-> Deleted \cup s.removed, insertions |-> s.insertions,
                     moves |-> s.moves]
  /\ state' = "done"
  /\ UNCHANGED <<prev_rows, next_rows, move_candidates, todo, matches>>

-----------------------------------------------------------------------------
(* Sorted                                                                  *)

FirstDifference(new) ==
  LET old == OldPlaces(new)
      differ == {k \in DOMAIN new : RowAt(prev_rows, old[k]) # new[k].row_index}
  IN IF differ = {} THEN npos ELSE CHOOSE k \in differ : \A l \in differ : k <= l

\* Everything from the first difference on is to be matched.
calculate_moves_sorted ==
  /\ state = "calculate" /\ move_candidates = <<>>
  /\ \E kept \in SameRows :
       LET new == NewRows(kept)  first == FirstDifference(new)  n == Len(new) + 1
       IN /\ new_rows' = new
          /\ ret' = [deletions |-> Deleted \cup NoLonger(kept),
                     insertions |-> OnlyNow(kept), moves |-> {}]
          /\ todo' = IF first = npos THEN {} ELSE {<<first, n, first, n>>}
          /\ matches' = IF first = npos THEN {} ELSE {[i |-> 1, j |-> 1, size |-> first - 1]}
          /\ state' = IF first = npos THEN "done" ELSE "match"
  /\ UNCHANGED <<prev_rows, next_rows, move_candidates>>

IsBlock(i, j, size) ==
  \A k \in 0 .. size - 1 : OldRow(i + k) = new_rows[j + k].row_index

\* The longest blocks of rows that follow each other in both ranges.
LongestBlocks(range) ==
  LET blocks == {m \in [i : range[1] .. range[2] - 1, j : range[3] .. range[4] - 1,
                        size : 1 .. Len(new_rows)] :
                  /\ m.i + m.size <= range[2] /\ m.j + m.size <= range[4]
                  /\ IsBlock(m.i, m.j, m.size)}
  IN {m \in blocks : \A other \in blocks : other.size <= m.size}

\* Mutant: behind the match everything of the range is matched again.
MatchBehindAll(range) ==
  LET best == LongestBlocks(range)
  IN /\ state = "match" /\ range \in todo
     /\ \/ best = {} /\ todo' = todo \ {range} /\ UNCHANGED matches
        \/ \E m \in best :
             /\ todo' = (todo \ {range}) \cup {<<m.i + m.size, range[2], range[3], m.j>>}
             /\ matches' = matches \cup {m}
     /\ UNCHANGED <<prev_rows, next_rows, move_candidates, ret, new_rows, state>>

\* One call of find_longest_matches: a longest block, what is before it in
\* both and what is behind it in both left to do. The end compared with m.i is
\* the one of the other range.
find_longest_matches(range) ==
  LET best == LongestBlocks(range)
      Before(m) == IF m.i > range[1] /\ m.j > range[3]
                   THEN {<<range[1], m.i, range[3], m.j>>} ELSE {}
      After(m) == IF m.i + m.size < range[4] /\ m.j + m.size < range[4]
                  THEN {<<m.i + m.size, range[2], m.j + m.size, range[4]>>} ELSE {}
  IN /\ state = "match" /\ range \in todo
     /\ \/ best = {} /\ todo' = todo \ {range} /\ UNCHANGED matches
        \/ \E m \in best :
             /\ todo' = (todo \ {range}) \cup Before(m) \cup After(m)
             /\ matches' = matches \cup {m}
     /\ UNCHANGED <<prev_rows, next_rows, move_candidates, ret, new_rows, state>>

\* The rows, by their places in the old and in the new order, that no match holds.
OldUnmatched ==
  {k \in DOMAIN new_rows : ~\E m \in matches : m.i <= k /\ k < m.i + m.size}
NewUnmatched ==
  {k \in DOMAIN new_rows : ~\E m \in matches : m.j <= k /\ k < m.j + m.size}

\* Mutant: the insertions are told as places among the rows found before too.
AlignKept ==
  /\ state = "match" /\ todo = {}
  /\ ret' = [ret EXCEPT
      !.deletions = @ \cup {OldPlaces(new_rows)[k] : k \in OldUnmatched},
      !.insertions = @ \cup {k - 1 : k \in NewUnmatched}]
  /\ state' = "done"
  /\ UNCHANGED <<prev_rows, next_rows, move_candidates, new_rows, todo, matches>>

\* Rows between the matches are deleted where they were and inserted where
\* they are.
align ==
  /\ state = "match" /\ todo = {}
  /\ ret' = [ret EXCEPT
      !.deletions = @ \cup {OldPlaces(new_rows)[k] : k \in OldUnmatched},
      !.insertions = @ \cup {new_rows[k].tv_index : k \in NewUnmatched}]
  /\ state' = "done"
  /\ UNCHANGED <<prev_rows, next_rows, move_candidates, new_rows, todo, matches>>

CalcNext ==
  \/ calculate_moves_unsorted
  \/ calculate_moves_sorted
  \/ \E range \in todo : find_longest_matches(range)
  \/ align

CalcSpec == CalcInit /\ [][CalcNext]_calcVars

-----------------------------------------------------------------------------
(* Properties                                                              *)

Remaining(l, S) ==
  LET left == InOrder(Indexes(l) \ S)
  IN [k \in DOMAIN left |-> RowAt(l, left[k])]

\* Applying the deletions and then the insertions to the rows found before
\* gives the rows found now: what debug builds verify, and what a table view
\* that animates the changes relies on.
AppliedGivesNext ==
  state = "done" =>
    /\ ret.deletions \subseteq Indexes(prev_rows)
    /\ ret.insertions \subseteq Indexes(next_rows)
    /\ Remaining(prev_rows, ret.deletions) = Remaining(next_rows, ret.insertions)

\* A reported move is one of a row found both times, told as deleted and
\* inserted too (the comment on CollectionChangeSet::moves).
MovesAreMoves ==
  \A m \in ret.moves :
    /\ m.from \in ret.deletions /\ m.to \in ret.insertions
    /\ RowAt(prev_rows, m.from) = RowAt(next_rows, m.to)

\* Blocks are matched in the same order in both lists and never overlap, so
\* that the one pass over them that deletes and inserts meets them all.
MatchesInOrder ==
  \A m, n \in matches :
    m # n => \/ m.i + m.size <= n.i /\ m.j + m.size <= n.j
             \/ n.i + n.size <= m.i /\ n.j + n.size <= m.j

\* The difference of two results of a query leads from the one to the other, by
\* moves of rows of both and by blocks matched in order.
ChangesApply == AppliedGivesNext /\ MovesAreMoves /\ MatchesInOrder
=============================================================================
