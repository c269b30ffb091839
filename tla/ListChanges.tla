----------------------------- MODULE ListChanges -----------------------------
(***************************************************************************)
(* A list of links whose transaction logs are read one after the other     *)
(* (TransactLogObserver) and whose changes are merged until they are       *)
(* delivered. The list is kept beside them: an entry has the index it had  *)
(* at the last delivery (base), npos when it was not there yet, and whether*)
(* it was set since (dirty). The changes must tell how the one list became *)
(* the other.                                                              *)
(***************************************************************************)
EXTENDS CollectionChangeBuilder

CONSTANTS MaxLen, (* bound: entries of the list                            *)
          MaxOps  (* bound: operations since the last delivery             *)

ASSUME ListBounds == MaxLen \in Nat /\ MaxOps \in Nat

VARIABLES
  list,         (* the entries now                                         *)
  base,         (* the number of entries at the last delivery              *)
  cur,          (* CollectionChangeBuilder of the transaction being read   *)
  acc,          (* m_accumulated_changes: of the transactions read         *)
  ops           (* operations since the last delivery                      *)

listVars == <<list, base, cur, acc, ops>>

Entry(i) == [base |-> i, dirty |-> FALSE]

ListInit ==
  /\ base \in 0 .. MaxLen
  /\ list = [k \in 1 .. base |-> Entry(k - 1)]
  /\ cur = NoChanges /\ acc = NoChanges
  /\ ops = 0

Len0 == Len(list)
Indices == 0 .. Len(list) - 1

\* An entry set: of a new one there is nothing to remember.
Touch(e) == [e EXCEPT !.dirty = e.base # npos]

Step(c, l) ==
  /\ ops < MaxOps /\ ops' = ops + 1
  /\ cur' = c /\ list' = l
  /\ UNCHANGED <<base, acc>>

link_list_insert(i) ==
  /\ Len0 < MaxLen
  /\ Step(insert(cur, i, 1, TRUE),
          InsertAt(list, i + 1, Entry(npos)))

link_list_erase(i) == Step(erase(cur, i), RemoveAt(list, i + 1))

link_list_set(i) == Step(modify(cur, i), [list EXCEPT ![i + 1] = Touch(@)])

link_list_move(i, j) ==
  Step(move(cur, i, j), InsertAt(RemoveAt(list, i + 1), j + 1, list[i + 1]))

\* Told as the two entries set.
link_list_swap(i, j) ==
  Step(modify(modify(cur, i), j),
       [list EXCEPT ![i + 1] = Touch(@), ![j + 1] = Touch(@)])

link_list_clear == Step(clear(cur, Len0), <<>>)

\* The end of the log: stale moves go, the changes join those before. Nothing
\* is merged when nothing was changed.
parse_complete_list ==
  /\ cur # NoChanges
  /\ acc' = merge(acc, clean_up_stale_moves(cur))
  /\ cur' = NoChanges
  /\ UNCHANGED <<list, base, ops>>

\* The changes are delivered: m_accumulated_changes starts anew.
deliver_list ==
  /\ cur = NoChanges /\ acc # NoChanges
  /\ acc' = NoChanges
  /\ base' = Len0
  /\ list' = [k \in DOMAIN list |-> Entry(k - 1)]
  /\ ops' = 0
  /\ UNCHANGED cur

ListNext ==
  \/ \E i \in 0 .. Len0 : link_list_insert(i)
  \/ \E i \in Indices : link_list_erase(i) \/ link_list_set(i)
  \/ \E i, j \in Indices : i # j /\ (link_list_move(i, j) \/ (i < j /\ link_list_swap(i, j)))
  \/ link_list_clear
  \/ parse_complete_list
  \/ deliver_list

ListSpec == ListInit /\ [][ListNext]_listVars

-----------------------------------------------------------------------------
(* Properties                                                              *)

\* The changes c of an old list of n entries, of which Old(k) became entry k,
\* npos for a new one: the entries that are neither deleted nor inserted are
\* the same in the same order, and a move is one of an entry of both lists.
Tells(c, n, Old(_)) ==
  /\ c.deletions \subseteq 0 .. n - 1
  /\ c.insertions \subseteq Indices
  /\ n - Cardinality(c.deletions) = Len0 - Cardinality(c.insertions)
  /\ \A k \in Indices \ c.insertions :
       /\ Old(k) # npos /\ Old(k) \notin c.deletions
       /\ unshift(c.deletions, Old(k)) = unshift(c.insertions, k)
  /\ \A m \in ToSet(c.moves) :
       m.from \in c.deletions /\ m.to \in c.insertions /\ Old(m.to) = m.from

Base(k) == list[k + 1].base

TypeOK ==
  /\ list \in Seq([base : npos .. MaxLen - 1, dirty : BOOLEAN])
  /\ base \in 0 .. MaxLen /\ ops \in 0 .. MaxOps
  /\ \A c \in {cur, acc} :
       /\ c.deletions \cup c.insertions \cup c.modifications \subseteq 0 .. MaxLen - 1
       /\ c.moves \in Seq([from : 0 .. MaxLen - 1, to : 0 .. MaxLen - 1])
       /\ c.mapping = << >>

\* Whatever was inserted, erased and moved, in whatever order, applying the
\* merged changes of all transactions since the last delivery to the list of
\* that time gives the list, and the moves are moves (the comments on
\* CollectionChangeSet), though their indices were in terms of lists that no
\* callback ever saw.
DeliveryTold == cur = NoChanges => Tells(acc, base, Base)

\* An entry of both lists that is told as deleted and inserted is told as
\* moved, across all merges: nobody takes it for another.
MovesKept ==
  cur = NoChanges =>
    \A k \in acc.insertions : Base(k) # npos => [from |-> Base(k), to |-> k] \in ToSet(acc.moves)

\* Exactly the entries set, and not inserted or moved, are told as modified,
\* in the old and in the new list.
ModificationsTold ==
  cur = NoChanges =>
    LET modified == {k \in Indices \ acc.insertions : list[k + 1].dirty}
    IN /\ finalize(acc).modifications_new = modified
       /\ finalize(acc).modifications = {Base(k) : k \in modified}

\* A callback is never told of a move that leaves the entry where it was among
\* the others: the stale moves of merged transactions are all found.
NoStaleMoves ==
  cur = NoChanges =>
    \A m \in ToSet(acc.moves) :
      unshift(acc.deletions, m.from) # unshift(acc.insertions, m.to)
=============================================================================
