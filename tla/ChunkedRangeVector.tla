-------------------------- MODULE ChunkedRangeVector --------------------------
(***************************************************************************)
(* The vector an IndexSet is kept in: chunks, each a vector of at most     *)
(* max_size disjoint ranges with its begin, end and number of indices      *)
(* cached beside it. m is m_data, a range is a pair <<first, second>> that *)
(* stops before second, an iterator a pair <<outer, inner>> counting from  *)
(* 1, <<Len(m) + 1, 0>> at the end.                                        *)
(***************************************************************************)
EXTENDS Integers, Sequences, SequencesExt

CONSTANTS
  MaxSize,      (* ranges in a chunk: 4 in debug builds, 256 in release    *)
  MaxIndex,     (* bound: the indices used                                 *)
  MaxOther,     (* bound: the indices of the set given to a method         *)
  OneChunk      (* bound: count and add_shifted_by stay within one chunk   *)

\* A full chunk is split into two halves of one size.
ASSUME SetAssumption ==
  /\ MaxSize \in Nat \ {0} /\ MaxSize = 2 * (MaxSize \div 2)
  /\ MaxIndex \in Nat /\ MaxOther \in Nat /\ OneChunk \in BOOLEAN

VARIABLE m_data

-----------------------------------------------------------------------------
Size(r) == r[2] - r[1]
Sizes(ranges) ==
  LET upto[k \in 0 .. Len(ranges)] == IF k = 0 THEN 0 ELSE upto[k - 1] + Size(ranges[k])
  IN upto[Len(ranges)]

ChunkOf(ranges) ==
  [data |-> ranges, begin |-> Head(ranges)[1], end |-> Last(ranges)[2],
   count |-> Sizes(ranges)]

End(m) == <<Len(m) + 1, 0>>
Begin(m) == IF m = <<>> THEN End(m) ELSE <<1, 1>>
At(m, it) == m[it[1]].data[it[2]]
AtEnd(m, it) == it = End(m)
Offset(it) == it[2] - 1

next_chunk(m, it) == IF it[1] = Len(m) THEN End(m) ELSE <<it[1] + 1, 1>>

Succ(m, it) ==
  IF it[2] < Len(m[it[1]].data) THEN <<it[1], it[2] + 1>> ELSE next_chunk(m, it)

Pred(m, it) ==
  IF it[2] > 1 THEN <<it[1], it[2] - 1>>
               ELSE <<it[1] - 1, Len(m[it[1] - 1].data)>>

Iterators(m) == UNION {{o} \X (1 .. Len(m[o].data)) : o \in DOMAIN m}

\* verify(), which only debug builds run.
Verify(m) ==
  /\ \A o \in DOMAIN m : m[o].data # <<>> /\ m[o] = ChunkOf(m[o].data)
  /\ \A it \in Iterators(m) :
       /\ At(m, it)[1] < At(m, it)[2]
       /\ it # Begin(m) => At(m, it)[1] > At(m, Pred(m, it))[2]

\* What debug builds assert after a method: the ranges in order, apart and
\* not empty, no chunk without one, and the cached begin, end and number of
\* indices those of the chunk's ranges. A stale cache makes later searches
\* and counts skip indices.
Verified == Verify(m_data)
==============================================================================
