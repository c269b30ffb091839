---------------------------- MODULE TableChanges -----------------------------
(***************************************************************************)
(* A table whose transaction logs TransactLogObserver reads, and the       *)
(* merging of the changes from the versions of several new notifiers       *)
(* (IncrementalChangeInfo). The rows are kept beside the changes: a row    *)
(* has the index it had in the oldest of these versions (base) and at the  *)
(* start of the log being read (start), npos for a later one, and whether  *)
(* it was changed since (dirty, touched).                                  *)
(***************************************************************************)
EXTENDS CollectionChangeBuilder

CONSTANTS
  MaxRows,      (* bound: rows of the table                                *)
  MaxTableOps,  (* bound: operations on it                                 *)
  MaxLogs,      (* bound: logs read; one, when no moves are asked for      *)
  ClearedLogs,  (* bound: logs, the first ones, in which it is cleared     *)
  SizeMax       (* the largest size_t: more rows than any table has        *)

ASSUME TableBounds ==
  /\ MaxRows \in Nat /\ MaxTableOps \in Nat /\ MaxLogs \in Nat /\ ClearedLogs \in 0 .. 2
  /\ SizeMax \in Nat /\ MaxRows < SizeMax

VARIABLES
  table,        (* the rows now                                            *)
  first_size,   (* the number of rows in the oldest version                *)
  start_size,   (* the number of rows at the start of the log being read   *)
  changes,      (* changes of the table in the log being read              *)
  infos,        (* m_info: the changes of each log read                    *)
  moves_needed, (* need_move_info(): a notifier of a query asks for moves  *)
  table_ops     (* operations                                              *)

tableVars == <<table, first_size, start_size, changes, infos, moves_needed, table_ops>>

Row(b, s) == [base |-> b, start |-> s, dirty |-> FALSE, touched |-> FALSE]

TableInit ==
  /\ first_size \in 0 .. MaxRows /\ start_size = first_size
  /\ table = [k \in 1 .. first_size |-> Row(k - 1, k - 1)]
  /\ changes = NoChanges /\ infos = <<>>
  /\ moves_needed \in BOOLEAN
  /\ table_ops = 0

RowIndices == 0 .. Len(table) - 1
LastRow == Len(table) - 1

TableStep(c, rows) ==
  /\ table_ops < MaxTableOps /\ table_ops' = table_ops + 1
  /\ changes' = c /\ table' = rows
  /\ UNCHANGED <<first_size, start_size, infos, moves_needed>>

\* Rows are only ever added at the end.
insert_empty_rows(n) ==
  /\ Len(table) + n <= MaxRows
  /\ TableStep(insert(changes, Len(table), n, moves_needed),
               table \o [k \in 1 .. n |-> Row(npos, npos)])

Changed(row) == [row EXCEPT !.dirty = TRUE, !.touched = TRUE]

mark_dirty(i) == TableStep(modify(changes, i), [table EXCEPT ![i + 1] = Changed(@)])

\* The last row takes the place of row i. So are objects erased; the branch that
\* keeps the order (`unordered' not set) is not modelled.
WithoutRow(rows, i) ==
  [k \in 1 .. Len(rows) - 1 |-> IF k = i + 1 THEN rows[Len(rows)] ELSE rows[k]]

erase_rows(i) ==
  TableStep(move_over(changes, i, LastRow, moves_needed), WithoutRow(table, i))

swap_rows(i, j) ==
  TableStep(swap(changes, i, j, moves_needed),
            [table EXCEPT ![i + 1] = table[j + 1], ![j + 1] = table[i + 1]])

\* What row `to' is once it stands for row from, too.
MergedRow(one, other) ==
  [one EXCEPT !.dirty = @ \/ other.dirty, !.touched = @ \/ other.touched]

\* Row `to', new in this transaction, becomes what row from was; the log goes
\* on with the deletion of row from.
merge_rows(from, to) ==
  /\ table[to + 1].start = npos
  /\ TableStep(move_over(subsume(changes, from, to, moves_needed),
                         from, LastRow, moves_needed),
               WithoutRow([table EXCEPT ![to + 1] = MergedRow(table[from + 1],
                                                              table[to + 1])], from))

\* Told as SIZE_MAX rows deleted.
ClearTable == Len(infos) < ClearedLogs /\ TableStep(clear_table(SizeMax), <<>>)

\* Row k at the start of the next log.
Started(row, k) == [row EXCEPT !.start = k, !.touched = FALSE]

\* The end of a log: advance_incremental goes on with the next.
parse_complete_table ==
  /\ changes # NoChanges
  /\ Len(infos) < MaxLogs /\ (moves_needed \/ infos = <<>>)
  /\ infos' = Append(infos, parse_complete(changes))
  /\ changes' = NoChanges
  /\ start_size' = Len(table)
  /\ table' = [k \in DOMAIN table |-> Started(table[k], k - 1)]
  /\ UNCHANGED <<first_size, moves_needed, table_ops>>

\* The last logs merged, each into the one before it.
MergedLogs ==
  LET merged[j \in 0 .. Len(infos)] ==
        IF j = 0 THEN NoChanges ELSE merge(infos[Len(infos) + 1 - j], merged[j - 1])
  IN merged

\* The changes c tell that the table was cleared.
Clears(c) == SizeMax - 1 \in c.deletions

\* A clear is merged into changes of before it. Then add_shifted_by goes through
\* the SIZE_MAX deletions one by one, which with 64 bits does not end. With two
\* cleared logs at most, none but the last merge does so.
ClearMerged == Len(infos) > 1 /\ ~empty(infos[1]) /\ Clears(infos[2])

\* With 32 bits it ends, with all indices from 0 on in one range whose end, a
\* size_t, starts from 0 again once it is past the largest.
Wrapped(D) == IF SizeMax \in D THEN 0 .. (Cardinality(D) % (SizeMax + 1)) - 1 ELSE D

\* What a notifier of the oldest version gets; if ClearMerged, with 32 bits only.
advance_to_final ==
  LET merged == MergedLogs[Len(infos)]
  IN IF ClearMerged THEN [merged EXCEPT !.deletions = Wrapped(@)] ELSE merged

TableNext ==
  \/ \E n \in 1 .. 2 : insert_empty_rows(n)
  \/ \E i \in RowIndices : mark_dirty(i) \/ erase_rows(i)
  \/ \E i, j \in RowIndices : (i < j /\ swap_rows(i, j)) \/ (i # j /\ merge_rows(i, j))
  \/ ClearTable
  \/ parse_complete_table

TableSpec == TableInit /\ [][TableNext]_tableVars

-----------------------------------------------------------------------------
(* Properties                                                              *)

FirstIndex(k) == table[k + 1].base

\* The changes c of the table of the oldest version: clear deletes rows the
\* table never had, the others did exist; rows neither deleted nor inserted
\* are where they were, and every row of both tables that is told as deleted
\* and inserted is told as moved.
TellsTable(c) ==
  LET deleted == c.deletions \cap 0 .. first_size - 1
  IN /\ c.insertions \subseteq RowIndices
     /\ \A i \in 0 .. first_size - 1 :
          (\A k \in RowIndices : FirstIndex(k) # i) => i \in deleted
     /\ \A k \in RowIndices \ c.insertions :
          /\ FirstIndex(k) # npos /\ FirstIndex(k) \notin deleted
          /\ unshift(c.deletions, FirstIndex(k)) = unshift(c.insertions, k)
     /\ \A k \in c.insertions :
          {m \in ToSet(c.moves) : m.to = k} =
            IF FirstIndex(k) = npos THEN {} ELSE {[from |-> FirstIndex(k), to |-> k]}
     /\ \A m \in ToSet(c.moves) : m.from \in deleted /\ m.to \in c.insertions

TableTypeOK ==
  /\ table \in Seq([base : npos .. MaxRows - 1, start : npos .. MaxRows - 1,
                    dirty : BOOLEAN, touched : BOOLEAN])
  /\ Len(table) \in 0 .. MaxRows
  /\ first_size \in 0 .. MaxRows /\ start_size \in 0 .. MaxRows
  /\ moves_needed \in BOOLEAN /\ table_ops \in 0 .. MaxTableOps
  /\ changes.insertions \cup changes.modifications \cup DOMAIN changes.mapping
       \subseteq RowIndices
  /\ changes.moves = <<>> /\ advance_to_final.mapping = << >>

\* Two rows are never mapped to one old row, and the mapped rows are told as
\* inserted, their old ones as deleted: parse_complete asserts it.
MappingConsistent ==
  /\ IsInjective(changes.mapping)
  /\ DOMAIN changes.mapping \subseteq changes.insertions
  /\ Range(changes.mapping) \subseteq changes.deletions

\* The changes of the logs tell which row of the oldest version is where: its
\* notifier sees the complete set of changes from its first version to the most
\* recent one (the comment in advance_to_final).
SeesAllChanges == moves_needed /\ changes = NoChanges => TellsTable(advance_to_final)

\* However rows were deleted, swapped and merged, all changes are seen, unless a
\* clear is merged into earlier changes.
RowsTold == ~ClearMerged => SeesAllChanges

\* Exactly the rows changed in a log are told as modified, with moves or not.
LogModifications == changes.modifications = {k \in RowIndices : table[k + 1].touched}

\* Of the rows there all the time exactly those changed in any of the logs
\* merged are told as modified, wherever the later logs moved them; here, too, no
\* clear is merged.
MergedModifications ==
  moves_needed /\ changes = NoChanges /\ ~ClearMerged =>
    LET merged == advance_to_final
    IN \A k \in RowIndices :
         FirstIndex(k) # npos => (k \in merged.modifications <=> table[k + 1].dirty)

\* What the notifiers of a table are told is what happened to it: in the log
\* being read, and merged over all the logs read unless that merges a clear.
MergeTold ==
  /\ TableTypeOK
  /\ MappingConsistent
  /\ RowsTold
  /\ LogModifications
  /\ MergedModifications
=============================================================================
