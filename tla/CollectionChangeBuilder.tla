----------------------- MODULE CollectionChangeBuilder -----------------------
(***************************************************************************)
(* The changes of a collection, kept while a transaction log is read and   *)
(* merged over transactions. A builder c has the sets deletions (indices   *)
(* in the old collection), insertions and modifications (in the new one),  *)
(* the moves, a sequence of [from, to] in the order the code keeps, and    *)
(* mapping, m_move_mapping: the new index of a moved table row to its old  *)
(* one. The sets of single columns change as modifications does and are    *)
(* left out. IndexSets are sets here: IndexSet.tla shows that they are.    *)
(***************************************************************************)
EXTENDS IndexSetOps, Sequences, Functions, SequencesExt

NoChanges ==
  [deletions |-> {}, insertions |-> {}, modifications |-> {}, moves |-> <<>>,
   mapping |-> << >>]

empty(c) == c.deletions \cup c.insertions \cup c.modifications = {} /\ c.moves = <<>>

\* add_shifted(i) on the set: all of it, and the index it returns.
AddShifted(S, i) == S \cup {shift(S, i)}

\* mapping[to] = from, and mapping.erase(to).
Mapped(mapping, to, from) ==
  [k \in DOMAIN mapping \cup {to} |-> IF k = to THEN from ELSE mapping[k]]
Unmapped(mapping, to) == Restrict(mapping, DOMAIN mapping \ {to})

MovesTo(c, to) == {k \in DOMAIN c.moves : c.moves[k].to = to}

\* The moves at the positions K, in the order they have.
KeepMove(kept, moves, K, k) == IF k \in K THEN Append(kept, moves[k]) ELSE kept

MovesAt(moves, K) ==
  LET kept[k \in 0 .. Len(moves)] ==
        IF k = 0 THEN <<>> ELSE KeepMove(kept[k - 1], moves, K, k)
  IN kept[Len(moves)]

-----------------------------------------------------------------------------
(* Operations of lists and of tables                                       *)

\* The moves and the mapping when n rows appear at index: the moves, which only
\* lists have, shift by one, whatever n.
MovesInserted(moves, index) ==
  [k \in DOMAIN moves |-> [moves[k] EXCEPT !.to = IF @ >= index THEN @ + 1 ELSE @]]

MappingInserted(mapping, index, n) ==
  LET later(to) == IF to >= index THEN to + n ELSE to
  IN [to \in {later(t) : t \in DOMAIN mapping} |->
       mapping[CHOOSE t \in DOMAIN mapping : later(t) = to]]

insert(c, index, n, track_moves) ==
  LET modified == [c EXCEPT !.modifications = shift_for_insert_at(@, index, n)]
  IN IF ~track_moves THEN modified
     ELSE [modified EXCEPT !.insertions = insert_at(@, index, n),
                           !.moves = MovesInserted(@, index),
                           !.mapping = MappingInserted(@, index, n)]

modify(c, index) == [c EXCEPT !.modifications = @ \cup {index}]

\* A row that was inserted leaves the insertions, another is a deletion.
Erased(c, index) ==
  LET unshifted == erase_or_unshift(c.insertions, index)
  IN [c EXCEPT !.insertions = erase_at(@, index),
               !.deletions = IF unshifted = npos THEN @ ELSE AddShifted(@, unshifted)]

\* The moves to index go, the later ones shift.
MovesErased(moves, index) ==
  LET kept == MovesAt(moves, {k \in DOMAIN moves : moves[k].to # index})
  IN [k \in DOMAIN kept |-> [kept[k] EXCEPT !.to = IF @ > index THEN @ - 1 ELSE @]]

\* Mutant: the modifications are not erased.
EraseUnmodified(c, index) ==
  [Erased(c, index) EXCEPT !.moves = MovesErased(@, index)]

erase(c, index) ==
  [Erased(c, index) EXCEPT !.modifications = erase_at(@, index),
                           !.moves = MovesErased(@, index)]

\* Lists give their old size. Tables give the largest size_t, for which rows
\* stands here: more than any table has.
clear(c, old_size) ==
  [NoChanges EXCEPT
    !.deletions = 0 .. old_size + Cardinality(c.deletions) - Cardinality(c.insertions) - 1]
clear_table(rows) == [NoChanges EXCEPT !.deletions = 0 .. rows - 1]

-----------------------------------------------------------------------------
(* Operations of lists                                                     *)

Moved(S, from, to) ==
  LET erased == erase_at(S, from)
  IN IF from \in S THEN insert_at(erased, to, 1) ELSE shift_for_insert_at(erased, to, 1)

\* The moves to rows that the moved one passes shift by one.
MovesPassed(moves, from, to) ==
  LET passed(m) ==
        IF m.to = from THEN [m EXCEPT !.to = to]
        ELSE IF m.to >= to /\ m.to < from THEN [m EXCEPT !.to = @ + 1]
        ELSE IF m.to <= to /\ m.to > from THEN [m EXCEPT !.to = @ - 1]
        ELSE m
  IN [k \in DOMAIN moves |-> passed(moves[k])]

\* A row that was moved before keeps the one move, from where it was first.
move(c, from, to) ==
  LET unshifted == erase_or_unshift(c.insertions, from)
      new == MovesTo(c, from) = {} /\ unshifted # npos
      shifted == shift(c.deletions, unshifted)
      others == MovesPassed(c.moves, from, to)
  IN [c EXCEPT
       !.moves = IF new THEN Append(others, [from |-> shifted, to |-> to]) ELSE others,
       !.deletions = IF new THEN @ \cup {shifted} ELSE @,
       !.insertions = insert_at(erase_at(@, from), to, 1),
       !.modifications = Moved(@, from, to)]

\* Mutant: only a move back to the same index counts as stale.
CleanUpSameIndex(c) ==
  FoldLeft(LAMBDA s, m :
             IF m.from # m.to THEN [s EXCEPT !.moves = Append(@, m)]
             ELSE [s EXCEPT !.deletions = @ \ {m.from}, !.insertions = @ \ {m.to}],
           [c EXCEPT !.moves = <<>>], c.moves)

\* A move that leaves the row where it was among the rows that stay is dropped
\* with its deletion and insertion.
CleanUp(s, m) ==
  IF m.from - Below(s.deletions, m.from) # m.to - Below(s.insertions, m.to)
  THEN [s EXCEPT !.moves = Append(@, m)]
  ELSE [s EXCEPT !.deletions = @ \ {m.from}, !.insertions = @ \ {m.to}]

\* One move after the other.
CleanedUp(c) ==
  LET s[k \in 0 .. Len(c.moves)] ==
        IF k = 0 THEN [c EXCEPT !.moves = <<>>] ELSE CleanUp(s[k - 1], c.moves[k])
  IN s

clean_up_stale_moves(c) == CleanedUp(c)[Len(c.moves)]

-----------------------------------------------------------------------------
(* Operations of tables                                                    *)

\* Mutant: the last row, deleted, stays mapped.
MoveOverKeepsMapping(c, row_ndx, last_row, track_moves) ==
  LET gone == [Erased(c, row_ndx) EXCEPT !.modifications = @ \ {row_ndx}]
  IN IF row_ndx = last_row THEN gone ELSE c

\* Mutant: a row moved over twice is mapped at both places.
MoveOverTwice(c, row_ndx, last_row, track_moves) ==
  LET old == IF last_row \in DOMAIN c.mapping THEN c.mapping[last_row] ELSE last_row
  IN [c EXCEPT !.mapping = Mapped(@, row_ndx, old), !.insertions = @ \cup {row_ndx},
               !.deletions = @ \cup {old}]

\* Mutant: the modification of the last row is not moved with it.
MoveOverForgets(c, row_ndx, last_row, track_moves) ==
  [c EXCEPT !.modifications = @ \ {row_ndx, last_row}]

\* The last row takes the place of the one deleted.
move_over(c, row_ndx, last_row, track_moves) ==
  LET modified ==
        [c EXCEPT !.modifications =
          (@ \ {row_ndx, last_row})
          \cup IF last_row \in @ /\ row_ndx # last_row THEN {row_ndx} ELSE {}]
      row_is_insertion == row_ndx \in c.insertions
      last_is_insertion == last_row \in c.insertions
      already == last_is_insertion /\ last_row \in DOMAIN c.mapping
      mapping ==
        IF already
        THEN Mapped(Unmapped(c.mapping, last_row), row_ndx, c.mapping[last_row])
        ELSE IF row_is_insertion THEN Unmapped(c.mapping, row_ndx)
        ELSE c.mapping
      \* The last row, then the row, as they were before the transaction.
      last_from == shift(c.deletions, unshift(c.insertions, last_row))
      moved == IF last_is_insertion THEN c.deletions ELSE c.deletions \cup {last_from}
      insertions == c.insertions \ {last_row}
  IN IF row_ndx = last_row
     THEN IF ~track_moves THEN modified
          ELSE [Erased(modified, row_ndx) EXCEPT !.mapping = Unmapped(@, row_ndx)]
     ELSE IF ~track_moves THEN modified
     ELSE [modified EXCEPT
            !.mapping = IF last_is_insertion THEN mapping
                        ELSE Mapped(mapping, row_ndx, last_from),
            !.deletions = IF row_is_insertion THEN moved
                          ELSE AddShifted(moved, unshift(insertions, row_ndx)),
            !.insertions = IF row_is_insertion THEN insertions
                           ELSE insertions \cup {row_ndx}]

\* The row at index, not inserted so far, is told as moved to `to'.
MoveOut(c, index, to) ==
  LET from == shift(c.deletions, unshift(c.insertions, index))
  IN [c EXCEPT !.deletions = @ \cup {from}, !.insertions = @ \cup {index},
               !.mapping = Mapped(@, to, from)]

Unless(inserted, c, d) == IF inserted THEN c ELSE d

\* Mutant: the first row is moved out before the second.
SwapFirst(c, ndx_1, ndx_2, track_moves) ==
  LET first == Unless(ndx_1 \in c.insertions, c, MoveOut(c, ndx_1, ndx_2))
  IN Unless(ndx_2 \in first.insertions, first, MoveOut(first, ndx_2, ndx_1))

\* Mutant: the modifications stay at the indices.
SwapUnmodified(c, ndx_1, ndx_2, track_moves) == c

\* ndx_1 < ndx_2. The second row is moved out before the first.
swap(c, ndx_1, ndx_2, track_moves) ==
  LET one == {ndx_1, ndx_2} \cap c.modifications
      modified ==
        IF Cardinality(one) # 1 THEN c
        ELSE [c EXCEPT !.modifications = (@ \ one) \cup ({ndx_1, ndx_2} \ one)]
      \* update_move: the move to b goes to a, and a to b unless it is new.
      update_move(a, b) ==
        LET u == [modified EXCEPT !.mapping = Mapped(Unmapped(@, b), a, @[b])]
        IN Unless(a \in c.insertions, u, MoveOut(u, a, b))
      second == Unless(ndx_2 \in c.insertions, modified, MoveOut(modified, ndx_2, ndx_1))
  IN IF ~track_moves THEN modified
     ELSE IF {ndx_1, ndx_2} \subseteq DOMAIN c.mapping
     THEN [modified EXCEPT !.mapping =
            [@ EXCEPT ![ndx_1] = c.mapping[ndx_2], ![ndx_2] = c.mapping[ndx_1]]]
     ELSE IF ndx_1 \in DOMAIN c.mapping THEN update_move(ndx_2, ndx_1)
     ELSE IF ndx_2 \in DOMAIN c.mapping THEN update_move(ndx_1, ndx_2)
     ELSE Unless(ndx_1 \in second.insertions, second, MoveOut(second, ndx_1, ndx_2))

\* The row new_ndx, an insertion, stands for the row old_ndx from now on.
subsume(c, old_ndx, new_ndx, track_moves) ==
  LET modified == IF old_ndx \in c.modifications THEN modify(c, new_ndx) ELSE c
  IN IF ~track_moves THEN modified
     ELSE IF old_ndx \in DOMAIN c.mapping
     THEN [modified EXCEPT
            !.mapping = Mapped(Unmapped(@, old_ndx), new_ndx, @[old_ndx])]
     ELSE IF old_ndx \in c.insertions THEN modified
     ELSE [modified EXCEPT
            !.mapping = Mapped(@, new_ndx,
                               shift(c.deletions, unshift(c.insertions, old_ndx)))]

\* Moves of different sources, sorted by them.
Sorted(moves) ==
  LET sources == {m.from : m \in moves}
  IN [j \in 1 .. Cardinality(sources) |->
       CHOOSE m \in moves : Below(sources, m.from) = j - 1]

\* The mapped rows become moves, sorted by source; one back where it was is
\* none at all.
parse_complete(c) ==
  LET moved == {to \in DOMAIN c.mapping : c.mapping[to] # to}
      stale == DOMAIN c.mapping \ moved
      new == {[from |-> c.mapping[to], to |-> to] : to \in moved} \cup ToSet(c.moves)
  IN [c EXCEPT !.deletions = @ \ stale, !.insertions = @ \ stale,
               !.moves = Sorted(new),
               !.mapping = << >>]

-----------------------------------------------------------------------------
(* Merging the changes of two transactions                                 *)

\* Mutant: whether the row was deleted is asked before whether it moved again,
\* which deletes it too.
OldMoveDropped(c1, c2, s, old) ==
  IF old.to \in c2.deletions THEN s
  ELSE [s EXCEPT !.old =
         Append(@, [old EXCEPT !.to = shift(c2.insertions, unshift(c2.deletions, @))])]

\* What becomes of the moves of the first: s has the moves kept, those of the
\* second that are left, and what the second modified.
OldMove(c1, c2, s, old) ==
  LET again == {k \in DOMAIN s.new : s.new[k].from = old.to}
      k == CHOOSE j \in again : \A i \in again : j <= i
      to == s.new[k].to
  IN IF again # {}
     THEN [old |-> Append(s.old, [old EXCEPT !.to = to]),
           new |-> Front([s.new EXCEPT ![k] = Last(s.new)]),
           modified |-> IF old.to \in c1.modifications THEN s.modified \cup {to}
                                                       ELSE s.modified]
     ELSE IF old.to \in c2.deletions THEN s
     ELSE [s EXCEPT !.old =
            Append(@, [old EXCEPT !.to = shift(c2.insertions, unshift(c2.deletions, @))])]

\* One move of the first after the other.
OldMoves(c1, c2) ==
  LET s[k \in 0 .. Len(c1.moves)] ==
        IF k = 0 THEN [old |-> <<>>, new |-> c2.moves, modified |-> c2.modifications]
        ELSE OldMove(c1, c2, s[k - 1], c1.moves[k])
  IN s

\* Mutant: the sources are left as they were between the transactions.
NewMovesUnshifted(c1, moves) ==
  MovesAt(moves, {k \in DOMAIN moves : moves[k].from \notin c1.insertions})

\* The moves of the second of rows inserted by the first are left out, the
\* others told from where the row was before the first.
NewMoves(c1, moves) ==
  LET kept == MovesAt(moves, {k \in DOMAIN moves : moves[k].from \notin c1.insertions})
  IN [k \in DOMAIN kept |->
       [kept[k] EXCEPT !.from = shift(c1.deletions, unshift(c1.insertions, @))]]

\* What is left for clean_up_stale_moves. A row that was modified and then
\* moved is modified still.
Merged(c1, c2) ==
  LET s == OldMoves(c1, c2)[Len(c1.moves)]
      alsoMoved == {m.to : m \in {n \in ToSet(s.new) : /\ n.from \notin c1.insertions
                                                       /\ n.from \in c1.modifications}}
  IN [deletions |-> add_shifted_by(c1.deletions, c1.insertions, c2.deletions),
      insertions |-> insert_all_at(erase_all_at(c1.insertions, c2.deletions),
                                   c2.insertions),
      modifications |->
        shift_for_insert_all_at(erase_all_at(c1.modifications, c2.deletions),
                                c2.insertions) \cup s.modified \cup alsoMoved,
      moves |-> s.old \o NewMoves(c1, s.new),
      mapping |-> c1.mapping]

\* Mutant: a row that was modified, then moved, is forgotten.
MergeForgetsMoved(c1, c2) ==
  LET modified == shift_for_insert_all_at(erase_all_at(c1.modifications, c2.deletions),
                                          c2.insertions)
                  \cup OldMoves(c1, c2)[Len(c1.moves)].modified
  IN IF empty(c2) THEN c1
     ELSE IF empty(c1) THEN c2
     ELSE clean_up_stale_moves([Merged(c1, c2) EXCEPT !.modifications = modified])

\* The new deletions are indices of a list or table that existed, and few. Those
\* of a cleared table are not: what becomes of them is in TableChanges.
merge(c1, c2) ==
  IF empty(c2) THEN c1
  ELSE IF empty(c1) THEN c2
  ELSE clean_up_stale_moves(Merged(c1, c2))

\* Mutant: the insertions are not taken off the old modifications.
FinalizeInserted(c) ==
  [deletions |-> c.deletions, insertions |-> c.insertions, moves |-> c.moves,
   modifications |-> shift_for_insert_all_at(c.modifications, c.deletions),
   modifications_new |-> c.modifications \ c.insertions]

\* What the callbacks get: the modifications also as they were in the old
\* collection, without the insertions.
finalize(c) ==
  [deletions |-> c.deletions, insertions |-> c.insertions, moves |-> c.moves,
   modifications |-> shift_for_insert_all_at(erase_all_at(c.modifications, c.insertions),
                                             c.deletions),
   modifications_new |-> c.modifications \ c.insertions]
=============================================================================
