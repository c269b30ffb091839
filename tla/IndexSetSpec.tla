---------------------------- MODULE IndexSetSpec -----------------------------
(***************************************************************************)
(* What an IndexSet promises its callers: a set of indices whose methods   *)
(* do and answer what IndexSetOps says, whatever was called before.        *)
(***************************************************************************)
EXTENDS IndexSetOps, Sequences

VARIABLES
  indices,          (* the indices in the set                                  *)
  call          (* the last call: method, argument, answer                 *)

none == "none"

Init == indices = {} /\ call = <<none, none, none>>

\* The method op leaves T in the set and answers a.
Method(op, T, a) == call'[1] = op /\ indices' = T /\ call'[3] = a

Next ==
  LET a == call'[2] IN
  \/ Method("add", indices \cup {a}, none)
  \/ Method("add_shifted", indices \cup {shift(indices, a)}, shift(indices, a))
  \/ Method("add_all", indices \cup a, none)
  \/ Method("add_shifted_by", add_shifted_by(indices, a[1], a[2]), none)
  \/ Method("set", 0 .. a - 1, none)
  \/ Method("insert_at", insert_at(indices, a[1], a[2]), none)
  \/ Method("insert_all_at", insert_all_at(indices, a), none)
  \/ Method("shift_for_insert_at", shift_for_insert_at(indices, a[1], a[2]), none)
  \/ Method("shift_for_insert_all_at", shift_for_insert_all_at(indices, a), none)
  \/ Method("erase_at", erase_at(indices, a), none)
  \/ Method("erase_all_at", erase_all_at(indices, a), none)
  \/ Method("erase_or_unshift", erase_at(indices, a), erase_or_unshift(indices, a))
  \/ Method("remove", indices \ (a[1] .. a[1] + a[2] - 1), none)
  \/ Method("remove_all", indices \ a, none)
  \/ Method("contains", indices, a \in indices)
  \/ Method("shift", indices, shift(indices, a))
  \/ Method("unshift", indices, unshift(indices, a))
  \/ Method("count", indices, count(indices, a[1], a[2]))

Spec == Init /\ [][Next]_<<indices, call>>
=============================================================================
