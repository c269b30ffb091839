------------------------------ MODULE IndexSet -------------------------------
(***************************************************************************)
(* Realm's IndexSet: a set of indices, kept as a ChunkedRangeVector. One   *)
(* operator per method; methods that return an iterator too give           *)
(* <<m, iterator>>.                                                        *)
(*                                                                         *)
(* The code's loops are functions of the number of rounds: walk[k] is what *)
(* k rounds leave, and a round past the loop's end changes nothing.        *)
(*                                                                         *)
(* The state machine at the end calls the methods in every order.          *)
(***************************************************************************)
EXTENDS ChunkedRangeVector, FiniteSetsExt

VARIABLE call          (* the last call: method, argument, answer           *)

-----------------------------------------------------------------------------
(* The methods of the vector and of its iterators                          *)

min(a, b) == IF a < b THEN a ELSE b
max(a, b) == IF a < b THEN b ELSE a

\* The range at it starts front and stops back further on.
adjust(m, it, front, back) ==
  LET c == m[it[1]]
  IN [m EXCEPT ![it[1]] =
       [data  |-> [c.data EXCEPT ![it[2]] = <<@[1] + front, @[2] + back>>],
        begin |-> IF it[2] = 1 THEN c.begin + front ELSE c.begin,
        end   |-> IF it[2] = Len(c.data) THEN c.end + back ELSE c.end,
        count |-> c.count - front + back]]

SetRange(m, it, front, back) ==
  adjust(m, it, front - At(m, it)[1], back - At(m, it)[2])

Before(p, q) == p[1] < q[1] \/ (p[1] = q[1] /\ p[2] < q[2])

\* shift(distance) on the ranges of a chunk behind the first n, and on it and
\* every iterator after it.
ShiftRanges(c, n, distance) ==
  [data  |-> SubSeq(c.data, 1, n)
             \o [k \in 1 .. Len(c.data) - n |->
                  <<c.data[n + k][1] + distance, c.data[n + k][2] + distance>>],
   begin |-> IF n = 0 THEN c.begin + distance ELSE c.begin,
   end   |-> c.end + distance,
   count |-> c.count]

ShiftToEnd(m, it, distance) ==
  LET o == it[1]
  IN SubSeq(m, 1, o - 1)
     \o [k \in 1 .. Len(m) + 1 - o |->
          ShiftRanges(m[o + k - 1], IF k = 1 THEN it[2] - 1 ELSE 0, distance)]

push_back(m, r) ==
  IF m # <<>> /\ Len(Last(m).data) < MaxSize
  THEN [m EXCEPT ![Len(m)] =
         [data |-> Append(@.data, r), begin |-> @.begin, end |-> r[2],
          count |-> @.count + Size(r)]]
  ELSE Append(m, ChunkOf(<<r>>))

\* A full chunk is split in half before a range is inserted.
ensure_space(m, it) ==
  LET o == it[1]  data == m[o].data  half == MaxSize \div 2
  IN IF Len(data) < MaxSize THEN <<m, it>>
     ELSE LET kept == SubSeq(data, 1, Len(data) - half)
              moved == ChunkOf(SubSeq(data, Len(data) - half + 1, Len(data)))
          IN << InsertAt([m EXCEPT ![o] =
                           [data |-> kept, begin |-> @.begin, end |-> Last(kept)[2],
                            count |-> @.count - moved.count]], o + 1, moved),
                IF it[2] > half THEN <<o + 1, it[2] - half>> ELSE it >>

insert(m, it, r) ==
  IF AtEnd(m, it) THEN LET n == push_back(m, r) IN <<n, Pred(n, End(n))>>
  ELSE LET s == ensure_space(m, it)  at == s[2]
       IN << [s[1] EXCEPT ![at[1]] =
               [data  |-> InsertAt(@.data, at[2], r),
                begin |-> min(@.begin, r[1]), end |-> max(@.end, r[2]),
                count |-> @.count + Size(r)]],
             at >>

\* Mutant: the chunk keeps the end of the range erased last in it.
EraseStaleEnd(m, it) ==
  LET o == it[1]  data == RemoveAt(m[o].data, it[2])
  IN IF data = <<>> THEN LET n == RemoveAt(m, o) IN <<n, End(n)>>
     ELSE LET n == [m EXCEPT ![o] =
                     [data |-> data, begin |-> Head(data)[1], end |-> @.end,
                      count |-> @.count - Size(At(m, it))]]
          IN <<n, IF it[2] <= Len(data) THEN it ELSE next_chunk(n, it)>>

erase(m, it) ==
  LET o == it[1]  data == RemoveAt(m[o].data, it[2])
  IN IF data = <<>>
     THEN LET n == RemoveAt(m, o) IN <<n, IF o > Len(n) THEN End(n) ELSE <<o, 1>>>>
     ELSE LET n == [m EXCEPT ![o] =
                     [data |-> data, begin |-> Head(data)[1], end |-> Last(data)[2],
                      count |-> @.count - Size(At(m, it))]]
          IN <<n, IF it[2] <= Len(data) THEN it ELSE next_chunk(n, it)>>

Ranges(m) == FlattenSeq([o \in 1 .. Len(m) |-> m[o].data])

Members(m) == UNION {At(m, it)[1] .. At(m, it)[2] - 1 : it \in Iterators(m)}

Indexes(ranges) ==
  FlattenSeq([k \in DOMAIN ranges |->
               [j \in 1 .. Size(ranges[k]) |-> ranges[k][1] + j - 1]])

as_indexes(m) == Indexes(Ranges(m))

-----------------------------------------------------------------------------
(* ChunkedRangeVectorBuilder: the chunks up to the one being filled, whose  *)
(* end is set later, and the number of chunks there are from the start.     *)

\* Room for as many ranges as the set has now.
Builder(m) == [chunks |-> <<>>, room |-> (Len(Ranges(m)) \div MaxSize) + 1]

Build(b, r) ==
  LET chunk == Last(b.chunks)
      data == chunk.data
      full == [chunk EXCEPT !.end = Last(data)[2]]
      next == [data |-> <<r>>, begin |-> r[1], end |-> 0,
               count |-> IF Len(b.chunks) < b.room THEN Size(r) ELSE 1]
      With(d) == [b EXCEPT !.chunks =
                   Append(Front(@), [chunk EXCEPT !.data = d,
                                                !.count = chunk.count + Size(r)])]
  IN IF b.chunks = <<>> THEN [b EXCEPT !.chunks = <<next>>]
     ELSE IF r[1] = Last(data)[2] THEN With(Append(Front(data), <<Last(data)[1], r[2]>>))
     ELSE IF Len(data) < MaxSize THEN With(Append(data, r))
     ELSE [b EXCEPT !.chunks = Front(@) \o <<full, next>>]

BuildIndex(b, index) == Build(b, <<index, index + 1>>)

\* The indices of a range one after the other.
BuildRange(b, r) ==
  LET after[k \in 0 .. Size(r)] ==
        IF k = 0 THEN b ELSE BuildIndex(after[k - 1], r[1] + k - 1)
  IN after[Size(r)]

finalize(b) ==
  LET chunk == Last(b.chunks)
  IN IF b.chunks = <<>> THEN <<>>
     ELSE Append(Front(b.chunks), [chunk EXCEPT !.end = Last(chunk.data)[2]])

-----------------------------------------------------------------------------
(* Walking the ranges                                                      *)

From(m, from) == {p \in Iterators(m) : ~Before(p, from)}

\* The first of the iterators, the end of m if there is none.
First(m, its) ==
  IF its = {} THEN End(m) ELSE CHOOSE p \in its : \A q \in its : ~Before(q, p)

\* The indices in the ranges from one iterator up to another.
SizesIn(m, from, to) ==
  MapThenSumSet(LAMBDA p : Size(At(m, p)), {p \in From(m, from) : Before(p, to)})

\* The range that holds the index or the first one after it, from a hint on.
find(m, index, from) ==
  LET outer == {o \in from[1] .. Len(m) : m[o].end > index}
      o == Min(outer)
      inner == {k \in DOMAIN m[o].data :
                 (o = from[1] => k >= from[2]) /\ m[o].data[k][2] > index}
  IN IF outer = {} THEN End(m)
     ELSE IF index < m[o].begin THEN <<o, 1>> ELSE <<o, Min(inner)>>

contains(m, index) ==
  LET it == find(m, index, Begin(m)) IN ~AtEnd(m, it) /\ At(m, it)[1] <= index

\* The rest of the chunk of the start, the whole chunks, the ranges of the
\* last chunk and the part of the last range, each counted its own way.
count(m, start, end) ==
  LET it == find(m, start, Begin(m))
      first == At(m, it)[1]
      second == At(m, it)[2]
      Part(p) == IF ~AtEnd(m, p) /\ At(m, p)[1] < end THEN end - At(m, p)[1] ELSE 0
      \* The iterator the first loop stops at, and what it has counted.
      rest == First(m, {p \in From(m, Succ(m, it)) : At(m, p)[2] >= end \/ Offset(p) = 0})
      inChunk == second - max(first, start) + SizesIn(m, Succ(m, it), rest)
                 + IF Offset(rest) # 0 THEN Part(rest) ELSE 0
      FromChunk(p, n) ==
        LET chunk == First(m, {q \in From(m, p) : m[q[1]].end > end})
            last == First(m, {q \in From(m, chunk) : At(m, q)[2] > end})
        IN n + MapThenSumSet(LAMBDA o : m[o].count, p[1] .. chunk[1] - 1)
             + SizesIn(m, chunk, last) + Part(last)
  IN IF AtEnd(m, it) \/ first >= end THEN 0
     ELSE IF second >= end THEN min(second, end) - max(first, start)
     ELSE IF start <= first /\ Offset(it) = 0 THEN FromChunk(it, 0)
     ELSE IF AtEnd(m, rest) \/ At(m, rest)[2] >= end THEN inChunk
     ELSE FromChunk(rest, inChunk)

\* index shifted by the whole chunks before it: the iterator reached and the
\* index.
SkipChunks(m, index) ==
  LET skip[o \in 0 .. Len(m)] ==
        IF o = 0 THEN <<Begin(m), index>>
        ELSE LET s == skip[o - 1]
             IN IF s[1][1] = o /\ m[o].end <= s[2]
                THEN <<next_chunk(m, s[1]), s[2] + m[o].count>> ELSE s
  IN skip[Len(m)]

\* The same by the ranges of one chunk, then of all from an iterator on.
SkipInChunk(ranges, from, index) ==
  LET skip[k \in 0 .. Len(ranges)] ==
        IF k = 0 THEN <<from, index>>
        ELSE LET s == skip[k - 1]
             IN IF s[1] = k /\ ranges[k][1] <= s[2]
                THEN <<k + 1, s[2] + Size(ranges[k])>> ELSE s
  IN skip[Len(ranges)]

SkipRanges(m, from, index) ==
  LET skip[o \in 0 .. Len(m)] ==
        IF o = 0 THEN <<from, index>>
        ELSE LET s == skip[o - 1]
                 r == SkipInChunk(m[o].data, s[1][2], s[2])
             IN IF s[1][1] # o THEN s
                ELSE <<IF r[1] <= Len(m[o].data) THEN <<o, r[1]>> ELSE next_chunk(m, s[1]),
                       r[2]>>
  IN skip[Len(m)]

shift(m, index) == SkipRanges(m, Begin(m), index)[2]

unshift(m, index) == index - count(m, 0, index)
-----------------------------------------------------------------------------
(* One index at a time                                                     *)

\* The index joins the ranges it touches or makes one of its own.
do_add(m, it, index) ==
  LET before == it # Begin(m)
      valid == ~AtEnd(m, it)
      prev == Pred(m, it)
      joined == adjust(m, prev, 0, Size(At(m, it)) + 1)
  IN IF valid /\ At(m, it)[1] <= index /\ At(m, it)[2] > index THEN <<m, it>>
     ELSE IF before /\ At(m, prev)[2] = index
     THEN IF valid /\ At(m, it)[1] = index + 1
          THEN LET e == erase(joined, it) IN <<e[1], Pred(e[1], e[2])>>
          ELSE <<adjust(m, prev, 0, 1), prev>>
     ELSE IF valid /\ At(m, it)[1] = index + 1 THEN <<adjust(m, it, -1, 0), it>>
     ELSE insert(m, it, <<index, index + 1>>)

add(m, index) == do_add(m, find(m, index, Begin(m)), index)[1]

\* The indices in increasing order.
IndexSetOf(S) ==
  LET built[k \in 0 .. MaxOther + 1] ==
        IF k = 0 THEN <<>>
        ELSE IF k - 1 \in S THEN add(built[k - 1], k - 1) ELSE built[k - 1]
  IN built[MaxOther + 1]

\* Each search starts where the last index was added.
add_all(m, other) ==
  LET indexes == as_indexes(other)
      added[k \in 0 .. Len(indexes)] ==
        IF k = 0 THEN <<m, Begin(m)>>
        ELSE LET a == added[k - 1]
             IN do_add(a[1], find(a[1], indexes[k], a[2]), indexes[k])
  IN added[Len(indexes)][1]

add_shifted(m, index) ==
  LET c == SkipChunks(m, index)
      r == SkipRanges(m, c[1], c[2])
  IN <<do_add(m, r[1], r[2])[1], r[2]>>

set(len) == IF len = 0 THEN <<>> ELSE push_back(<<>>, <<0, len>>)

\* The range that holds the index grows by n, or the n indices are added in
\* the gap, once the ranges behind it have moved.
AddRun(m, it, index, n) ==
  LET added[k \in 0 .. n] ==
        IF k = 0 THEN <<m, it>>
        ELSE LET a == do_add(added[k - 1][1], added[k - 1][2], index + k - 1)
             IN <<a[1], Succ(a[1], a[2])>>
  IN added[n][1]

insert_at(m, index, n) ==
  LET it == find(m, index, Begin(m))
  IN IF AtEnd(m, it) THEN AddRun(m, it, index, n)
     ELSE IF At(m, it)[1] <= index
     THEN ShiftToEnd(adjust(m, it, 0, n), Succ(m, it), n)
     ELSE AddRun(ShiftToEnd(m, it, n), it, index, n)

\* A range around the index is split, its head moved back.
shift_for_insert_at(m, index, n) ==
  LET it == find(m, index, Begin(m))
      s == ShiftToEnd(m, it, n)
      r == At(s, it)
      split == SetRange(s, it, r[1] - n, index)
  IN IF AtEnd(m, it) THEN m
     ELSE IF r[1] < index + n
     THEN insert(split, Succ(split, it), <<index + n, r[2]>>)[1]
     ELSE s

\* Mutant: the range that loses the index moves back too.
EraseShiftsTrimmed(m, it, index) ==
  LET r == At(m, it)
      e == IF r[1] > index THEN <<m, it>>
           ELSE IF r[1] + 1 = r[2] THEN erase(m, it)
           ELSE <<adjust(m, it, 0, -1), it>>
  IN ShiftToEnd(e[1], e[2], -1)

\* The range without the index, or the two ranges around it joined; those
\* behind it move back.
do_erase(m, it, index) ==
  LET r == At(m, it)
      prev == Pred(m, it)
      e == IF r[1] <= index
           THEN IF r[1] + 1 = r[2] THEN erase(m, it)
                ELSE <<adjust(m, it, 0, -1), Succ(m, it)>>
           ELSE IF it # Begin(m) /\ At(m, prev)[2] + 1 = r[1]
           THEN erase(adjust(m, prev, 0, Size(r)), it)
           ELSE <<m, it>>
  IN ShiftToEnd(e[1], e[2], -1)

erase_at(m, index) ==
  LET it == find(m, index, Begin(m))
  IN IF AtEnd(m, it) THEN m ELSE do_erase(m, it, index)

npos == -1

\* Where the index is once the set's are gone, npos for one of the set's.
erase_or_unshift(m, index) ==
  LET chunk == First(m, {p \in Iterators(m) : m[p[1]].end > index})
      it == First(m, {p \in From(m, chunk) : At(m, p)[2] > index})
      shifted == index - MapThenSumSet(LAMBDA o : m[o].count, 1 .. chunk[1] - 1)
                 - SizesIn(m, chunk, it)
  IN IF AtEnd(m, it) THEN <<m, shifted>>
     ELSE <<do_erase(m, it, index), IF At(m, it)[1] <= index THEN npos ELSE shifted>>

\* The range found, at s.it, split, trimmed or erased, and the next one found.
RemoveOne(s, end) ==
  LET m == s.m
      it == s.it
      r == At(m, it)
      begin == max(r[1], s.begin)
      split == SetRange(m, it, r[1], begin)
      i == insert(split, Succ(split, it), <<end, r[2]>>)
      Found(n, from) == [m |-> n, it |-> find(n, begin, from), begin |-> begin]
  IN IF AtEnd(m, it) \/ r[1] >= end THEN s
     ELSE IF r[1] < begin /\ r[2] > end THEN Found(i[1], Pred(i[1], i[2]))
     ELSE IF begin = r[1] /\ end >= r[2]
     THEN LET e == erase(m, it) IN Found(e[1], e[2])
     ELSE IF begin = r[1] THEN Found(SetRange(m, it, end, r[2]), it)
     ELSE Found(split, it)

\* Every range that meets begin .. end - 1; each round leaves fewer of these.
do_remove(m, from, begin, end) ==
  LET removed[k \in 0 .. end - begin] ==
        IF k = 0 THEN [m |-> m, it |-> find(m, begin, from), begin |-> begin]
        ELSE RemoveOne(removed[k - 1], end)
      s == removed[end - begin]
  IN <<s.m, s.it>>

remove(m, index, n) == do_remove(m, find(m, index, Begin(m)), index, index + n)[1]

remove_all(m, values) ==
  LET ranges == Ranges(values)
      removed[k \in 0 .. Len(ranges)] ==
        IF k = 0 THEN <<m, Begin(m)>>
        ELSE LET a == removed[k - 1]
             IN IF k > 1 /\ AtEnd(a[1], a[2]) THEN a
                ELSE do_remove(a[1], a[2], ranges[k][1], ranges[k][2])
  IN removed[Len(ranges)][1]

-----------------------------------------------------------------------------
(* Two sets walked side by side, the result built anew. s is the builder   *)
(* and the next of the indices a and b.                                    *)

\* The indices of a, moved past those of b; the indices of b where keep.
MergeInsert(s, a, b, keep) ==
  IF s.i <= Len(a) /\ (s.j <= Len(b) => a[s.i] + s.j - 1 < b[s.j])
  THEN [s EXCEPT !.builder = BuildIndex(@, a[s.i] + s.j - 1), !.i = @ + 1]
  ELSE IF s.j <= Len(b)
  THEN [s EXCEPT !.builder = IF keep THEN BuildIndex(@, b[s.j]) ELSE @, !.j = @ + 1]
  ELSE s

\* The indices of a that are not in b, moved back over those that are.
MergeErase(s, a, b) ==
  IF s.i > Len(a) THEN s
  ELSE IF s.j <= Len(b) => a[s.i] < b[s.j]
  THEN [s EXCEPT !.builder = BuildIndex(@, a[s.i] - (s.j - 1)), !.i = @ + 1]
  ELSE [s EXCEPT !.i = IF a[s.i] = b[s.j] THEN @ + 1 ELSE @, !.j = @ + 1]

Merge(method, m, positions) ==
  LET a == as_indexes(m)
      b == as_indexes(positions)
      merged[k \in 0 .. Len(a) + Len(b)] ==
        IF k = 0 THEN [builder |-> Builder(m), i |-> 1, j |-> 1]
        ELSE IF method = "erase" THEN MergeErase(merged[k - 1], a, b)
        ELSE MergeInsert(merged[k - 1], a, b, method = "insert")
  IN finalize(merged[Len(a) + Len(b)].builder)

insert_all_at(m, positions) ==
  IF positions = <<>> THEN m ELSE IF m = <<>> THEN positions
  ELSE Merge("insert", m, positions)

shift_for_insert_all_at(m, values) ==
  IF m = <<>> \/ values = <<>> \/ Head(values).begin >= Last(m).end THEN m
  ELSE Merge("shift", m, values)

erase_all_at(m, positions) ==
  IF m = <<>> \/ positions = <<>> THEN m ELSE Merge("erase", m, positions)

\* Mutant: an index that shifted_by holds is not left out.
AddShiftedAll(s, old, by, values) ==
  LET index == values[s.n]
      new == index - s.new_shift + s.old_shift
  IN IF s.n > Len(values) THEN s
     ELSE IF s.by <= Len(by) /\ by[s.by][1] <= index
     THEN [s EXCEPT !.by = @ + 1, !.new_shift = @ + Size(by[s.by])]
     ELSE IF s.old <= Len(old) /\ old[s.old][1] <= new
     THEN [s EXCEPT !.old = @ + 1, !.old_shift = @ + Size(old[s.old]),
                    !.builder = BuildRange(@, old[s.old])]
     ELSE [s EXCEPT !.n = @ + 1, !.builder = BuildIndex(@, new)]

\* The next of the set's ranges (s.old), of shifted_by's (s.by) and of the
\* values (s.n): a range of shifted_by that starts before the value is passed,
\* a value it holds is left out, the set's own ranges before the value's place
\* come first.
AddShifted(s, old, by, values) ==
  LET index == values[s.n]
      new == index - s.new_shift + s.old_shift
  IN IF s.n > Len(values) THEN s
     ELSE IF s.by <= Len(by) /\ by[s.by][1] <= index
     THEN [s EXCEPT !.by = @ + 1, !.new_shift = @ + Size(by[s.by]),
                    !.skip_until = by[s.by][2]]
     ELSE IF index < s.skip_until THEN [s EXCEPT !.n = @ + 1]
     ELSE IF s.old <= Len(old) /\ old[s.old][1] <= new
     THEN [s EXCEPT !.old = @ + 1, !.old_shift = @ + Size(old[s.old]),
                    !.builder = BuildRange(@, old[s.old])]
     ELSE [s EXCEPT !.n = @ + 1, !.builder = BuildIndex(@, new)]

\* copy(old_it, old_end): the ranges from the one at j on.
CopyRest(b, ranges, j) ==
  LET copied[k \in 0 .. Len(ranges)] ==
        IF k = 0 THEN b
        ELSE IF k < j THEN copied[k - 1] ELSE Build(copied[k - 1], ranges[k])
  IN copied[Len(ranges)]

add_shifted_by(m, shifted_by, values) ==
  LET old == Ranges(m)
      by == Ranges(shifted_by)
      indexes == as_indexes(values)
      rounds == Len(old) + Len(by) + Len(indexes)
      added[k \in 0 .. rounds] ==
        IF k = 0 THEN [builder |-> Builder(m), old |-> 1, by |-> 1, n |-> 1,
                       skip_until |-> 0, old_shift |-> 0, new_shift |-> 0]
        ELSE AddShifted(added[k - 1], old, by, indexes)
      s == added[rounds]
  IN IF values = <<>> THEN m ELSE finalize(CopyRest(s.builder, old, s.old))

-----------------------------------------------------------------------------
(* The methods called in any order                                         *)

none == "none"
vars == <<m_data, call>>

Init == m_data = <<>> /\ call = <<none, none, none>>

Index == 0 .. MaxIndex
Given == SUBSET (0 .. MaxOther)
\* The call of op on the argument leaves m and answers a.
Call(op, arg, m, a) ==
  /\ Members(m) \subseteq Index
  /\ m_data' = m
  /\ call' = <<op, arg, a>>

CallAdd == \E i \in Index : Call("add", i, add(m_data, i), none)
CallAddShifted ==
  \E i \in Index :
    LET r == add_shifted(m_data, i) IN Call("add_shifted", i, r[1], r[2])
CallAddAll ==
  \E S \in Given :
    Call("add_all", S, add_all(m_data, IndexSetOf(S)), none)
CallAddShiftedBy ==
  \E V \in Given :
    /\ OneChunk => Len(Ranges(m_data)) + Len(as_indexes(IndexSetOf(V))) <= MaxSize
    /\ \E B \in Given :
         Call("add_shifted_by", <<B, V>>, add_shifted_by(m_data, IndexSetOf(B), IndexSetOf(V)), none)
CallSet == \E n \in Index : Call("set", n, set(n), none)
CallInsertAt ==
  \E i \in Index, n \in 1 .. 2 :
    Call("insert_at", <<i, n>>, insert_at(m_data, i, n), none)
CallInsertAllAt ==
  \E S \in Given :
    Call("insert_all_at", S, insert_all_at(m_data, IndexSetOf(S)), none)
CallShiftForInsertAt ==
  \E i \in Index, n \in 1 .. 2 :
    Call("shift_for_insert_at", <<i, n>>, shift_for_insert_at(m_data, i, n), none)
CallShiftForInsertAllAt ==
  \E S \in Given :
    Call("shift_for_insert_all_at", S, shift_for_insert_all_at(m_data, IndexSetOf(S)), none)
CallEraseAt ==
  \E i \in Index :
    Call("erase_at", i, erase_at(m_data, i), none)
CallEraseAllAt ==
  \E S \in Given :
    Call("erase_all_at", S, erase_all_at(m_data, IndexSetOf(S)), none)
CallEraseOrUnshift ==
  \E i \in Index :
    LET r == erase_or_unshift(m_data, i) IN Call("erase_or_unshift", i, r[1], r[2])
CallRemove ==
  \E i \in Index, n \in 1 .. MaxIndex :
    Call("remove", <<i, n>>, remove(m_data, i, n), none)
CallRemoveAll ==
  \E S \in Given :
    Call("remove_all", S, remove_all(m_data, IndexSetOf(S)), none)
CallContains ==
  \E i \in Index :
    Call("contains", i, m_data, contains(m_data, i))
CallShift == \E i \in Index : Call("shift", i, m_data, shift(m_data, i))
\* Only asked about an index that is not in the set.
CallUnshift ==
  \E i \in Index \ Members(m_data) :
    Call("unshift", i, m_data, unshift(m_data, i))
CallCount ==
  (OneChunk => Len(m_data) <= 1) /\ \E i \in Index : \E j \in i .. MaxIndex :
    Call("count", <<i, j>>, m_data, count(m_data, i, j))

Next ==
  \/ CallAdd \/ CallAddShifted \/ CallAddAll \/ CallAddShiftedBy \/ CallSet
  \/ CallInsertAt \/ CallInsertAllAt \/ CallShiftForInsertAt \/ CallShiftForInsertAllAt
  \/ CallEraseAt \/ CallEraseAllAt \/ CallEraseOrUnshift \/ CallRemove
  \/ CallRemoveAll \/ CallContains \/ CallShift \/ CallUnshift \/ CallCount

Spec == Init /\ [][Next]_vars

-----------------------------------------------------------------------------
(* Properties                                                              *)

Abs == INSTANCE IndexSetSpec WITH indices <- Members(m_data)

\* However the ranges were split, joined and moved between chunks before,
\* each method leaves the indices, and gives the answer, the header says.
ImplementsIndexSet == Abs!Spec
=============================================================================
