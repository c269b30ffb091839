---------------------------- MODULE Changes_proofs ----------------------------
(***************************************************************************)
(* That the changes a callback is given lead from the rows of the last     *)
(* delivery to those now: of a list, recorded as its operations are read;  *)
(* of a query's result, calculated as the difference of two of them; of a  *)
(* table, in the log being read and merged over all logs.                  *)
(*                                                                         *)
(* They hold whatever the number of rows, operations and logs. The         *)
(* invariant of a list speaks of a list no variable has: the one at the    *)
(* end of the last log read, to which acc leads and from which cur does.   *)
(* The difference is right for lists of every length, whichever of equal   *)
(* rows and of equally long blocks are taken. The rows of a table do not   *)
(* shift: one that was not told as inserted is at the index it had, which  *)
(* makes the invariant of the log simple; the one of the merge speaks of   *)
(* versions no variable has. All rest on what CollectionChangeBuilder_     *)
(* proofs says of sets of indices.                                         *)
(***************************************************************************)
EXTENDS ListChanges, ChangeCalculation, TableChanges, CollectionChangeBuilder_proofs,
        SequenceTheorems

-----------------------------------------------------------------------------
(* Sequences counted from 0                                                *)

\* r is s with e at i.
WithEntry(r, V, s, i, e) ==
  /\ r \in Seq(V) /\ Len(r) = Len(s) + 1
  /\ \A k \in 0 .. Len(s) :
       r[k + 1] = IF k < i THEN s[k + 1] ELSE IF k = i THEN e ELSE s[k]

LEMMA InsertAtList ==
  ASSUME NEW V, NEW s \in Seq(V), NEW e \in V, NEW i \in 0 .. Len(s),
         NEW r, r = InsertAt(s, i + 1, e)
  PROVE  WithEntry(r, V, s, i, e)
<1>0. i \in Int /\ Len(s) \in Nat /\ (i + 1) - 1 = i
  OBVIOUS
<1>1. r = SubSeq(s, 1, i) \o <<e>> \o SubSeq(s, i + 1, Len(s))
  <2>1. r = SubSeq(s, 1, (i + 1) - 1) \o <<e>> \o SubSeq(s, i + 1, Len(s))
    BY DEF InsertAt
  <2> QED
    BY <1>0, <2>1
<1>2. PICK a : a = SubSeq(s, 1, i)
  OBVIOUS
<1>3. PICK b : b = SubSeq(s, i + 1, Len(s))
  OBVIOUS
<1>4. a \in Seq(V) /\ Len(a) = i /\ \A k \in 1 .. i : a[k] = s[k]
  BY <1>2
<1>5. /\ b \in Seq(V) /\ Len(b) = Len(s) - i
      /\ \A k \in 1 .. Len(s) - i : b[k] = s[i + k]
  BY <1>3
<1>6. r = a \o <<e>> \o b
  BY <1>1, <1>2, <1>3
<1>9. PICK t : t = a \o <<e>>
  OBVIOUS
<1>10. /\ t \in Seq(V) /\ Len(t) = i + 1
       /\ \A k \in 1 .. i + 1 : t[k] = IF k <= i THEN a[k] ELSE e
  <2>1. <<e>> \in Seq(V) /\ Len(<<e>>) = 1 /\ <<e>>[1] = e
    OBVIOUS
  <2>2. /\ t \in Seq(V) /\ Len(t) = i + 1
        /\ \A k \in 1 .. i + 1 : t[k] = IF k <= i THEN a[k] ELSE <<e>>[k - i]
    BY <1>4, <1>9, <2>1, ConcatProperties
  <2>3. \A k \in 1 .. i + 1 : k <= i \/ k - i = 1
    BY <1>0
  <2> QED
    BY <2>1, <2>2, <2>3
<1>11. /\ r \in Seq(V) /\ Len(r) = (i + 1) + (Len(s) - i)
       /\ \A k \in 1 .. (i + 1) + (Len(s) - i) :
            r[k] = IF k <= i + 1 THEN t[k] ELSE b[k - (i + 1)]
  <2>1. r = t \o b
    BY <1>6, <1>9
  <2>2. /\ t \o b \in Seq(V) /\ Len(t \o b) = Len(t) + Len(b)
        /\ \A k \in 1 .. Len(t) + Len(b) :
             (t \o b)[k] = IF k <= Len(t) THEN t[k] ELSE b[k - Len(t)]
    BY <1>5, <1>10, ConcatProperties, Zenon
  <2> QED
    BY <1>5, <1>10, <2>1, <2>2
<1>7. r \in Seq(V) /\ Len(r) = Len(s) + 1
  BY <1>0, <1>11
<1>8. ASSUME NEW k \in 0 .. Len(s)
      PROVE  r[k + 1] = IF k < i THEN s[k + 1] ELSE IF k = i THEN e ELSE s[k]
  <2>1. r[k + 1] = IF k + 1 <= i THEN a[k + 1] ELSE IF k = i THEN e ELSE b[k - i]
    <3>1. k + 1 \in 1 .. (i + 1) + (Len(s) - i) /\ k + 1 - (i + 1) = k - i
      BY <1>0
    <3>2. r[k + 1] = IF k + 1 <= i + 1 THEN t[k + 1] ELSE b[k - i]
      BY <1>11, <3>1
    <3>3. k + 1 <= i + 1 => k + 1 \in 1 .. i + 1
      BY <1>0
    <3> QED
      BY <1>0, <1>10, <3>2, <3>3
  <2>2. k < i => a[k + 1] = s[k + 1]
    BY <1>4
  <2>3. k > i => b[k - i] = s[k]
    <3>1. k > i => k - i \in 1 .. Len(s) - i /\ i + (k - i) = k
      OBVIOUS
    <3> QED
      BY <1>5, <3>1
  <2> QED
    BY <2>1, <2>2, <2>3
<1> QED
  BY <1>7, <1>8 DEF WithEntry

\* r is s without its entry at i.
WithoutEntry(r, V, s, i) ==
  /\ r \in Seq(V) /\ Len(r) = Len(s) - 1
  /\ \A k \in 0 .. Len(s) - 2 : r[k + 1] = IF k < i THEN s[k + 1] ELSE s[k + 2]

LEMMA RemoveAtList ==
  ASSUME NEW V, NEW s \in Seq(V), NEW i \in 0 .. Len(s) - 1,
         NEW r, r = RemoveAt(s, i + 1)
  PROVE  WithoutEntry(r, V, s, i)
<1>0. i \in Int /\ Len(s) \in Nat /\ (i + 1) - 1 = i /\ (i + 1) + 1 = i + 2
  OBVIOUS
<1>1. r = SubSeq(s, 1, i) \o SubSeq(s, i + 2, Len(s))
  <2>1. r = SubSeq(s, 1, (i + 1) - 1) \o SubSeq(s, (i + 1) + 1, Len(s))
    BY DEF RemoveAt
  <2> QED
    BY <1>0, <2>1
<1>2. PICK a : a = SubSeq(s, 1, i)
  OBVIOUS
<1>3. PICK b : b = SubSeq(s, i + 2, Len(s))
  OBVIOUS
<1>4. a \in Seq(V) /\ Len(a) = i /\ \A k \in 1 .. i : a[k] = s[k]
  BY <1>2
<1>5. /\ b \in Seq(V) /\ Len(b) = Len(s) - i - 1
      /\ \A k \in 1 .. Len(s) - i - 1 : b[k] = s[i + 1 + k]
  BY <1>3
<1>6. r = a \o b
  BY <1>1, <1>2, <1>3
<1>9. /\ r \in Seq(V) /\ Len(r) = i + (Len(s) - i - 1)
      /\ \A k \in 1 .. i + (Len(s) - i - 1) : r[k] = IF k <= i THEN a[k] ELSE b[k - i]
  <2>1. /\ a \o b \in Seq(V) /\ Len(a \o b) = Len(a) + Len(b)
        /\ \A k \in 1 .. Len(a) + Len(b) :
             (a \o b)[k] = IF k <= Len(a) THEN a[k] ELSE b[k - Len(a)]
    BY <1>4, <1>5, ConcatProperties, Zenon
  <2> QED
    BY <1>4, <1>5, <1>6, <2>1
<1>7. r \in Seq(V) /\ Len(r) = Len(s) - 1
  BY <1>0, <1>9
<1>8. ASSUME NEW k \in 0 .. Len(s) - 2
      PROVE  r[k + 1] = IF k < i THEN s[k + 1] ELSE s[k + 2]
  <2>1. r[k + 1] = IF k + 1 <= i THEN a[k + 1] ELSE b[k + 1 - i]
    <3>1. k + 1 \in 1 .. i + (Len(s) - i - 1)
      BY <1>0
    <3> QED
      BY <1>9, <3>1
  <2>2. k < i => a[k + 1] = s[k + 1]
    BY <1>4
  <2>3. k >= i => b[k + 1 - i] = s[k + 2]
    <3>1. k >= i => k + 1 - i \in 1 .. Len(s) - i - 1 /\ i + 1 + (k + 1 - i) = k + 2
      OBVIOUS
    <3> QED
      BY <1>5, <3>1
  <2> QED
    BY <2>1, <2>2, <2>3
<1> QED
  BY <1>7, <1>8 DEF WithoutEntry

-----------------------------------------------------------------------------
(* The invariant                                                           *)

Entries == [base : npos .. MaxLen - 1, dirty : BOOLEAN]

\* The entries of l know what the changes a and then c tell of them, when mid
\* and f are the indices before a and before c.
EntriesTold(l, a, c, mid, f) ==
  \A k \in 0 .. Len(l) - 1 :
    /\ l[k + 1].base = IF f[k] = npos THEN npos ELSE mid[f[k]]
    /\ l[k + 1].base # npos =>
         (l[k + 1].dirty <=> f[k] \in a.modifications \/ k \in c.modifications)

\* a leads from the b entries of the last delivery to m, c from there to l.
ListTold(l, b, c, a, m, mid, f) ==
  /\ Told(a, b, m, mid) /\ NonStale(a) /\ a.modifications \in Intervals(m)
  /\ Told(c, m, Len(l), f) /\ c.modifications \in Intervals(Len(l))
  /\ EntriesTold(l, a, c, mid, f)

ListInv(l, b, c, a, n) ==
  /\ l \in Seq(Entries) /\ Len(l) \in 0 .. MaxLen
  /\ b \in 0 .. MaxLen /\ n \in 0 .. MaxOps
  /\ \E m \in 0 .. MaxLen :
       \E mid \in Origins(b, m), f \in Origins(m, Len(l)) :
         ListTold(l, b, c, a, m, mid, f)

LInv == ListInv(list, base, cur, acc, ops)

\* The entries r are new, or those of l, with what f and c tell of them.
Stay(l, c, f, r, d, g) ==
  \A k \in 0 .. Len(r) - 1 :
    \/ g[k] = npos /\ r[k + 1].base = npos
    \/ \E h \in 0 .. Len(l) - 1 :
         /\ r[k + 1] = l[h + 1] /\ g[k] = f[h]
         /\ k \in d.modifications <=> h \in c.modifications

LEMMA EntriesStay ==
  ASSUME NEW l, NEW a, NEW c, NEW mid, NEW f, EntriesTold(l, a, c, mid, f),
         NEW r, NEW d, NEW g, Stay(l, c, f, r, d, g)
  PROVE  EntriesTold(r, a, d, mid, g)
<1>1. ASSUME NEW k \in 0 .. Len(r) - 1
      PROVE  /\ r[k + 1].base = IF g[k] = npos THEN npos ELSE mid[g[k]]
             /\ r[k + 1].base # npos =>
                  (r[k + 1].dirty <=> g[k] \in a.modifications \/ k \in d.modifications)
  <2>1. CASE g[k] = npos /\ r[k + 1].base = npos
    BY <2>1
  <2>2. ASSUME NEW h \in 0 .. Len(l) - 1,
               r[k + 1] = l[h + 1] /\ g[k] = f[h],
               k \in d.modifications <=> h \in c.modifications
        PROVE  /\ r[k + 1].base = IF g[k] = npos THEN npos ELSE mid[g[k]]
               /\ r[k + 1].base # npos =>
                    (r[k + 1].dirty <=> g[k] \in a.modifications \/ k \in d.modifications)
    <3>1. /\ l[h + 1].base = IF f[h] = npos THEN npos ELSE mid[f[h]]
          /\ l[h + 1].base # npos =>
               (l[h + 1].dirty <=> f[h] \in a.modifications \/ h \in c.modifications)
      BY DEF EntriesTold
    <3> QED
      BY <2>2, <3>1
  <2> QED
    BY <2>1, <2>2 DEF Stay
<1> QED
  BY <1>1 DEF EntriesTold

LEMMA NewEntry == ASSUME MaxLen \in Nat PROVE Entry(npos) \in Entries /\ Entry(npos).base = npos
  BY DEF Entry, Entries, npos

LEMMA ListInsert ==
  ASSUME MaxLen \in Nat,
         NEW l \in Seq(Entries), NEW b \in Nat, NEW c, NEW a, NEW m \in Nat, NEW mid, NEW f,
         ListTold(l, b, c, a, m, mid, f), NEW i \in 0 .. Len(l),
         NEW r, r = InsertAt(l, i + 1, Entry(npos)),
         NEW d, d = insert(c, i, 1, TRUE)
  PROVE  /\ r \in Seq(Entries) /\ Len(r) = Len(l) + 1
         /\ ListTold(r, b, d, a, m, mid, Inserted(f, Len(l), i))
<1>1. /\ Told(a, b, m, mid) /\ NonStale(a) /\ a.modifications \in Intervals(m)
      /\ Told(c, m, Len(l), f) /\ c.modifications \in Intervals(Len(l))
      /\ EntriesTold(l, a, c, mid, f)
  BY DEF ListTold
<1>2. PICK p \in Nat : p = Len(l)
  OBVIOUS
<1>3. /\ r \in Seq(Entries) /\ Len(r) = p + 1
      /\ \A k \in 0 .. p :
           r[k + 1] = IF k < i THEN l[k + 1] ELSE IF k = i THEN Entry(npos) ELSE l[k]
  <2>1. PICK e \in Entries : e = Entry(npos)
    BY NewEntry
  <2>2. r = InsertAt(l, i + 1, e)
    BY <2>1
  <2>3. /\ r \in Seq(Entries) /\ Len(r) = Len(l) + 1
        /\ \A k \in 0 .. Len(l) :
             r[k + 1] = IF k < i THEN l[k + 1] ELSE IF k = i THEN e ELSE l[k]
    <3>1. WithEntry(r, Entries, l, i, e)
      BY <2>2, InsertAtList
    <3> QED
      BY <3>1 DEF WithEntry
  <2> QED
    BY <1>2, <2>1, <2>3
<1>4. PICK g : g = Inserted(f, p, i)
  OBVIOUS
<1>5. \A k \in 0 .. p : g[k] = IF k < i THEN f[k] ELSE IF k = i THEN npos ELSE f[k - 1]
  BY <1>4 DEF Inserted
<1>6. Told(d, m, p + 1, g)
  BY <1>1, <1>2, <1>4, InsertTold
<1>7. d.modifications = shift_for_insert_at(c.modifications, i, 1)
  <2>1. c \in Builders /\ i \in Nat
    BY <1>1 DEF Told
  <2> QED
    BY <2>1, InsertIs
<1>8. /\ d.modifications \in Intervals(p + 1)
      /\ \A x \in Nat : x \in d.modifications
           <=> IF x < i THEN x \in c.modifications ELSE x # i /\ x - 1 \in c.modifications
  <2>1. PICK S \in Intervals(p) : S = c.modifications
    BY <1>1, <1>2
  <2>2. i \in 0 .. p
    BY <1>2
  <2>3. /\ shift_for_insert_at(S, i, 1) \in Intervals(p + 1)
        /\ \A x \in Nat : x \in shift_for_insert_at(S, i, 1)
             <=> IF x < i THEN x \in S ELSE x # i /\ x - 1 \in S
    BY <2>2, ShiftForInsertAtSet
  <2> QED
    BY <1>7, <2>1, <2>3
<1>9. ASSUME NEW k \in 0 .. Len(r) - 1
      PROVE  \/ g[k] = npos /\ r[k + 1].base = npos
             \/ \E h \in 0 .. Len(l) - 1 :
                  /\ r[k + 1] = l[h + 1] /\ g[k] = f[h]
                  /\ k \in d.modifications <=> h \in c.modifications
  <2>1. k \in 0 .. p /\ k \in Nat
    BY <1>3
  <2>2. CASE k < i
    <3>1. k \in 0 .. Len(l) - 1
      BY <2>1, <2>2
    <3>2. /\ r[k + 1] = l[k + 1] /\ g[k] = f[k]
          /\ k \in d.modifications <=> k \in c.modifications
      BY <1>3, <1>5, <1>8, <2>1, <2>2
    <3> QED
      BY <3>1, <3>2
  <2>3. CASE k = i
    <3>1. r[k + 1] = Entry(npos) /\ g[k] = npos
      BY <1>3, <1>5, <2>1, <2>3
    <3>2. Entry(npos).base = npos
      BY DEF Entry
    <3> QED
      BY <3>1, <3>2
  <2>4. CASE k > i
    <3>1. k - 1 \in 0 .. Len(l) - 1 /\ k - 1 + 1 = k
      BY <1>2, <2>1, <2>4
    <3>2. r[k + 1] = l[k - 1 + 1] /\ g[k] = f[k - 1]
      BY <1>3, <1>5, <2>1, <2>4, <3>1
    <3>3. k \in d.modifications <=> k - 1 \in c.modifications
      <4>1. k \in d.modifications
              <=> IF k < i THEN k \in c.modifications ELSE k # i /\ k - 1 \in c.modifications
        BY <1>8, <2>1
      <4>2. ~(k < i) /\ k # i
        BY <2>1, <2>4
      <4> QED
        BY <4>1, <4>2
    <3> QED
      BY <3>1, <3>2, <3>3
  <2>5. k < i \/ k = i \/ k > i
    BY <2>1
  <2> QED
    BY <2>2, <2>3, <2>4, <2>5
<1>10. EntriesTold(r, a, d, mid, g)
  <2>1. Stay(l, c, f, r, d, g)
    BY <1>9 DEF Stay
  <2> QED
    BY <1>1, <2>1, EntriesStay
<1>11. ListTold(r, b, d, a, m, mid, g)
  BY <1>1, <1>3, <1>6, <1>8, <1>10 DEF ListTold
<1> QED
  BY <1>2, <1>3, <1>4, <1>11

LEMMA ListErase ==
  ASSUME NEW l \in Seq(Entries), NEW b \in Nat, NEW c, NEW a, NEW m \in Nat, NEW mid, NEW f,
         ListTold(l, b, c, a, m, mid, f), NEW i \in 0 .. Len(l) - 1,
         NEW r, r = RemoveAt(l, i + 1),
         NEW d, d = erase(c, i)
  PROVE  /\ r \in Seq(Entries) /\ Len(r) = Len(l) - 1
         /\ ListTold(r, b, d, a, m, mid, Removed(f, Len(l), i))
<1>1. /\ Told(a, b, m, mid) /\ NonStale(a) /\ a.modifications \in Intervals(m)
      /\ Told(c, m, Len(l), f) /\ c.modifications \in Intervals(Len(l))
      /\ EntriesTold(l, a, c, mid, f)
  BY DEF ListTold
<1>2. PICK p \in Nat : p = Len(l)
  OBVIOUS
<1>3. /\ r \in Seq(Entries) /\ Len(r) = p - 1
      /\ \A k \in 0 .. p - 2 : r[k + 1] = IF k < i THEN l[k + 1] ELSE l[k + 2]
  <2>1. WithoutEntry(r, Entries, l, i)
    BY RemoveAtList
  <2> QED
    BY <1>2, <2>1 DEF WithoutEntry
<1>4. PICK g : g = Removed(f, p, i)
  OBVIOUS
<1>5. \A k \in 0 .. p - 2 : g[k] = IF k < i THEN f[k] ELSE f[k + 1]
  BY <1>4 DEF Removed
<1>6. Told(d, m, p - 1, g)
  BY <1>1, <1>2, <1>4, EraseTold
<1>7. d.modifications = erase_at(c.modifications, i)
  <2>1. c \in Builders /\ i \in Nat /\ c.insertions \in FiniteIndices
    BY <1>1, <1>2, IntervalsFinite DEF Told, Kept
  <2> QED
    BY <2>1, EraseIs
<1>8. /\ d.modifications \in Intervals(p - 1)
      /\ \A x \in Nat : x \in d.modifications
           <=> IF x < i THEN x \in c.modifications ELSE x + 1 \in c.modifications
  <2>1. PICK S \in Intervals(p) : S = c.modifications
    BY <1>1, <1>2
  <2>2. i \in 0 .. p - 1
    BY <1>2
  <2>3. /\ erase_at(S, i) \in Intervals(p - 1)
        /\ \A x \in Nat : x \in erase_at(S, i) <=> IF x < i THEN x \in S ELSE x + 1 \in S
    BY <2>2, EraseAtSet
  <2> QED
    BY <1>7, <2>1, <2>3
<1>9. ASSUME NEW k \in 0 .. Len(r) - 1
      PROVE  \/ g[k] = npos /\ r[k + 1].base = npos
             \/ \E h \in 0 .. Len(l) - 1 :
                  /\ r[k + 1] = l[h + 1] /\ g[k] = f[h]
                  /\ k \in d.modifications <=> h \in c.modifications
  <2>1. k \in 0 .. p - 2 /\ k \in Nat
    BY <1>3
  <2>2. CASE k < i
    <3>1. k \in 0 .. Len(l) - 1
      BY <1>2, <2>1, <2>2
    <3>2. /\ r[k + 1] = l[k + 1] /\ g[k] = f[k]
          /\ k \in d.modifications <=> k \in c.modifications
      BY <1>3, <1>5, <1>8, <2>1, <2>2
    <3> QED
      BY <3>1, <3>2
  <2>3. CASE k >= i
    <3>1. k + 1 \in 0 .. Len(l) - 1 /\ k + 1 + 1 = k + 2
      BY <1>2, <2>1
    <3>2. r[k + 1] = l[k + 1 + 1] /\ g[k] = f[k + 1]
      BY <1>3, <1>5, <2>1, <2>3, <3>1
    <3>3. k \in d.modifications <=> k + 1 \in c.modifications
      <4>1. k \in d.modifications
              <=> IF k < i THEN k \in c.modifications ELSE k + 1 \in c.modifications
        BY <1>8, <2>1
      <4>2. ~(k < i)
        BY <2>1, <2>3
      <4> QED
        BY <4>1, <4>2
    <3> QED
      BY <3>1, <3>2, <3>3
  <2> QED
    BY <2>1, <2>2, <2>3
<1>10. EntriesTold(r, a, d, mid, g)
  <2>1. Stay(l, c, f, r, d, g)
    BY <1>9 DEF Stay
  <2> QED
    BY <1>1, <2>1, EntriesStay
<1>11. ListTold(r, b, d, a, m, mid, g)
  BY <1>1, <1>3, <1>6, <1>8, <1>10 DEF ListTold
<1> QED
  BY <1>2, <1>3, <1>4, <1>11

LEMMA ListMove ==
  ASSUME NEW l \in Seq(Entries), NEW b \in Nat, NEW c, NEW a, NEW m \in Nat, NEW mid, NEW f,
         ListTold(l, b, c, a, m, mid, f),
         NEW i \in 0 .. Len(l) - 1, NEW j \in 0 .. Len(l) - 1,
         NEW r, r = InsertAt(RemoveAt(l, i + 1), j + 1, l[i + 1]),
         NEW d, d = move(c, i, j)
  PROVE  /\ r \in Seq(Entries) /\ Len(r) = Len(l)
         /\ ListTold(r, b, d, a, m, mid, MovedTo(f, Len(l), i, j))
<1>1. /\ Told(a, b, m, mid) /\ NonStale(a) /\ a.modifications \in Intervals(m)
      /\ Told(c, m, Len(l), f) /\ c.modifications \in Intervals(Len(l))
      /\ EntriesTold(l, a, c, mid, f)
  BY DEF ListTold
<1>2. PICK p \in Nat : p = Len(l)
  OBVIOUS
<1>3. PICK e \in Entries : e = l[i + 1]
  OBVIOUS
<1>4. PICK u : u = RemoveAt(l, i + 1)
  OBVIOUS
<1>5. /\ u \in Seq(Entries) /\ Len(u) = p - 1
      /\ \A k \in 0 .. p - 2 : u[k + 1] = IF k < i THEN l[k + 1] ELSE l[k + 2]
  <2>1. WithoutEntry(u, Entries, l, i)
    BY <1>4, RemoveAtList
  <2> QED
    BY <1>2, <2>1 DEF WithoutEntry
<1>6. /\ r \in Seq(Entries) /\ Len(r) = p
      /\ \A k \in 0 .. p - 1 :
           r[k + 1] = IF k < j THEN u[k + 1] ELSE IF k = j THEN e ELSE u[k]
  <2>1. r = InsertAt(u, j + 1, e)
    BY <1>3, <1>4
  <2>2. j \in 0 .. Len(u)
    BY <1>2, <1>5
  <2>3. WithEntry(r, Entries, u, j, e)
    BY <1>5, <2>1, <2>2, InsertAtList
  <2> QED
    BY <1>2, <1>5, <2>3 DEF WithEntry
<1>7. \A k \in 0 .. p - 1 :
        r[k + 1] = IF k = j THEN l[i + 1]
                   ELSE IF k < j THEN IF k < i THEN l[k + 1] ELSE l[k + 2]
                   ELSE IF k - 1 < i THEN l[k] ELSE l[k + 1]
  <2>1. ASSUME NEW k \in 0 .. p - 1
        PROVE  r[k + 1] = IF k = j THEN l[i + 1]
                          ELSE IF k < j THEN IF k < i THEN l[k + 1] ELSE l[k + 2]
                          ELSE IF k - 1 < i THEN l[k] ELSE l[k + 1]
    <3>1. k < j => u[k + 1] = IF k < i THEN l[k + 1] ELSE l[k + 2]
      <4>1. k < j => k \in 0 .. p - 2
        BY <1>2
      <4> QED
        BY <1>5, <4>1
    <3>2. k > j => u[k] = IF k - 1 < i THEN l[k] ELSE l[k + 1]
      <4>1. k > j => k - 1 \in 0 .. p - 2 /\ (k - 1) + 1 = k /\ (k - 1) + 2 = k + 1
        BY <1>2
      <4> QED
        BY <1>5, <4>1
    <3> QED
      <4>1. r[k + 1] = IF k < j THEN u[k + 1] ELSE IF k = j THEN e ELSE u[k]
        BY <1>6
      <4>2. k \in Int /\ j \in Int
        BY <1>2
      <4>3. CASE k < j
        BY <3>1, <4>1, <4>2, <4>3
      <4>4. CASE k = j
        BY <1>3, <4>1, <4>2, <4>4
      <4>5. CASE k > j
        BY <3>2, <4>1, <4>2, <4>5
      <4> QED
        BY <4>2, <4>3, <4>4, <4>5
  <2> QED
    BY <2>1
<1>8. PICK g : g = MovedTo(f, p, i, j)
  OBVIOUS
<1>9. \A k \in 0 .. p - 1 : g[k] = IF k = j THEN f[i]
                                   ELSE IF k < j THEN IF k < i THEN f[k] ELSE f[k + 1]
                                   ELSE IF k - 1 < i THEN f[k - 1] ELSE f[k]
  <2>1. f \in Origins(m, p) /\ i \in 0 .. p - 1 /\ j \in 0 .. p - 1
    BY <1>1, <1>2 DEF Told
  <2> QED
    <3>1. IsMovedTo(g, m, p, f, i, j)
      BY <1>8, <2>1, OriginsMoved
    <3> QED
      BY <3>1 DEF IsMovedTo
<1>10. Told(d, m, p, g)
  BY <1>1, <1>2, <1>8, MoveTold
<1>11. d.modifications = Moved(c.modifications, i, j)
  <2>1. /\ c \in Builders /\ c.insertions \in FiniteIndices
        /\ \A x \in ToSet(c.moves) : x.to \in c.insertions
    BY <1>1, <1>2, IntervalsFinite DEF Told, Kept, MovesTold
  <2>2. i \in Nat /\ j \in Nat
    BY <1>2
  <2>3. IsMoved(d, c, i, j)
    BY <2>1, <2>2, MoveIs
  <2> QED
    BY <2>3 DEF IsMoved
<1>12. /\ d.modifications \in Intervals(p)
       /\ \A x \in 0 .. p - 1 : x \in d.modifications
            <=> IF x = j THEN i \in c.modifications
                ELSE IF x < j THEN IF x < i THEN x \in c.modifications
                                            ELSE x + 1 \in c.modifications
                ELSE IF x - 1 < i THEN x - 1 \in c.modifications ELSE x \in c.modifications
  <2>1. PICK S \in Intervals(p) : S = c.modifications
    BY <1>1, <1>2
  <2>2. i \in 0 .. p - 1 /\ j \in 0 .. p - 1
    BY <1>2
  <2>3. /\ Moved(S, i, j) \in Intervals(p)
        /\ \A x \in 0 .. p - 1 : x \in Moved(S, i, j)
             <=> IF x = j THEN i \in S
                 ELSE IF x < j THEN IF x < i THEN x \in S ELSE x + 1 \in S
                 ELSE IF x - 1 < i THEN x - 1 \in S ELSE x \in S
    BY <2>2, MovedSet
  <2> QED
    BY <1>11, <2>1, <2>3
<1>13. ASSUME NEW k \in 0 .. p - 1
       PROVE  \E h \in 0 .. p - 1 :
                /\ r[k + 1] = l[h + 1] /\ g[k] = f[h]
                /\ k \in d.modifications <=> h \in c.modifications
  <2>1. /\ r[k + 1] = IF k = j THEN l[i + 1]
                      ELSE IF k < j THEN IF k < i THEN l[k + 1] ELSE l[k + 2]
                      ELSE IF k - 1 < i THEN l[k] ELSE l[k + 1]
        /\ g[k] = IF k = j THEN f[i]
                  ELSE IF k < j THEN IF k < i THEN f[k] ELSE f[k + 1]
                  ELSE IF k - 1 < i THEN f[k - 1] ELSE f[k]
    BY <1>7, <1>9
  <2>2. k \in d.modifications
          <=> IF k = j THEN i \in c.modifications
              ELSE IF k < j THEN IF k < i THEN k \in c.modifications
                                          ELSE k + 1 \in c.modifications
              ELSE IF k - 1 < i THEN k - 1 \in c.modifications ELSE k \in c.modifications
    BY <1>12
  <2>3. CASE k = j
    <3>1. i \in 0 .. p - 1
      BY <1>2
    <3>2. k \in d.modifications <=> i \in c.modifications
      BY <2>2, <2>3
    <3> QED
      BY <2>1, <2>3, <3>1, <3>2
  <2>4. CASE k < j /\ k >= i
    <3>1. k + 1 \in 0 .. p - 1 /\ (k + 1) + 1 = k + 2 /\ k # j /\ ~(k < i)
      BY <1>2, <2>4
    <3>2. k \in d.modifications <=> k + 1 \in c.modifications
      BY <2>2, <2>4, <3>1
    <3>3. r[k + 1] = l[(k + 1) + 1] /\ g[k] = f[k + 1]
      BY <2>1, <2>4, <3>1
    <3> QED
      BY <3>1, <3>2, <3>3
  <2>5. CASE k > j /\ k - 1 < i
    <3>1. k - 1 \in 0 .. p - 1 /\ (k - 1) + 1 = k /\ k # j /\ ~(k < j)
      BY <1>2, <2>5
    <3>2. k \in d.modifications <=> k - 1 \in c.modifications
      BY <2>2, <2>5, <3>1
    <3>3. r[k + 1] = l[(k - 1) + 1] /\ g[k] = f[k - 1]
      BY <2>1, <2>5, <3>1
    <3> QED
      BY <3>1, <3>2, <3>3
  <2>6. CASE (k < j /\ k < i) \/ (k > j /\ k - 1 >= i)
    <3>1. k # j /\ (k < j => k < i) /\ (~(k < j) => ~(k - 1 < i))
      BY <1>2, <2>6
    <3>2. k \in d.modifications <=> k \in c.modifications
      BY <2>2, <3>1
    <3>3. r[k + 1] = l[k + 1] /\ g[k] = f[k]
      BY <2>1, <3>1
    <3> QED
      BY <3>2, <3>3
  <2>7. i \in Int /\ j \in Int /\ k \in Int
    BY <1>2
  <2> QED
    BY <2>3, <2>4, <2>5, <2>6, <2>7
<1>14. Stay(l, c, f, r, d, g)
  BY <1>2, <1>6, <1>13 DEF Stay
<1>15. EntriesTold(r, a, d, mid, g)
  BY <1>1, <1>14, EntriesStay
<1>16. ListTold(r, b, d, a, m, mid, g)
  BY <1>1, <1>6, <1>10, <1>12, <1>15 DEF ListTold
<1> QED
  BY <1>2, <1>6, <1>8, <1>16

\* An entry of l is set.
EntrySet(r, l, i) == r = [l EXCEPT ![i + 1] = Touch(@)]

LEMMA ListSet ==
  ASSUME NEW l \in Seq(Entries), NEW b \in Nat, NEW c, NEW a, NEW m \in Nat, NEW mid, NEW f,
         ListTold(l, b, c, a, m, mid, f), NEW i \in 0 .. Len(l) - 1,
         NEW r, EntrySet(r, l, i), NEW d, d = modify(c, i)
  PROVE  /\ r \in Seq(Entries) /\ Len(r) = Len(l)
         /\ ListTold(r, b, d, a, m, mid, f)
<1>1. /\ Told(a, b, m, mid) /\ NonStale(a) /\ a.modifications \in Intervals(m)
      /\ Told(c, m, Len(l), f) /\ c.modifications \in Intervals(Len(l))
      /\ EntriesTold(l, a, c, mid, f)
  BY DEF ListTold
<1>2. PICK p \in Nat : p = Len(l)
  OBVIOUS
<1>4. ASSUME NEW x \in Entries
      PROVE  /\ Touch(x) \in Entries /\ Touch(x).base = x.base
             /\ Touch(x).dirty <=> x.base # npos
  <2>1. PICK v \in BOOLEAN : v = (x.base # npos)
    OBVIOUS
  <2>2. x.base \in npos .. MaxLen - 1 /\ x = [base |-> x.base, dirty |-> x.dirty]
    BY DEF Entries
  <2>3. Touch(x) = [x EXCEPT !.dirty = v]
    BY <2>1 DEF Touch
  <2>4. Touch(x) = [base |-> x.base, dirty |-> v]
    BY <2>2, <2>3
  <2>5. Touch(x).base = x.base /\ Touch(x).dirty = v
    BY <2>4
  <2>6. [base |-> x.base, dirty |-> v] \in Entries
    BY <2>2 DEF Entries
  <2>7. v <=> x.base # npos
    BY <2>1, Zenon
  <2> QED
    BY <2>4, <2>5, <2>6, <2>7, Zenon
<1>5. l \in [1 .. p -> Entries] /\ i + 1 \in 1 .. p
  BY <1>2
<1>6. r \in [1 .. p -> Entries]
      /\ \A k \in 1 .. p : r[k] = IF k = i + 1 THEN Touch(l[k]) ELSE l[k]
  BY <1>4, <1>5 DEF EntrySet
<1>7. r \in Seq(Entries) /\ Len(r) = p
  BY <1>6, SeqFunction
<1>8. Told(d, m, p, f) /\ d.modifications = c.modifications \cup {i}
  BY <1>1, <1>2, ModifyTold
<1>9. d.modifications \in Intervals(p)
  BY <1>1, <1>2, <1>8 DEF Intervals
<1>10. ASSUME NEW k \in 0 .. p - 1
       PROVE  /\ r[k + 1].base = IF f[k] = npos THEN npos ELSE mid[f[k]]
              /\ r[k + 1].base # npos =>
                   (r[k + 1].dirty <=> f[k] \in a.modifications \/ k \in d.modifications)
  <2>1. /\ l[k + 1].base = IF f[k] = npos THEN npos ELSE mid[f[k]]
        /\ l[k + 1].base # npos =>
             (l[k + 1].dirty <=> f[k] \in a.modifications \/ k \in c.modifications)
    BY <1>1, <1>2 DEF EntriesTold
  <2>2. k + 1 \in 1 .. p /\ (k + 1 = i + 1 <=> k = i)
    BY <1>2
  <2>3. PICK x \in Entries : x = l[k + 1]
    BY <1>5, <2>2
  <2>4. CASE k = i
    <3>1. r[k + 1] = Touch(x) /\ k \in d.modifications
      BY <1>6, <1>8, <2>2, <2>3, <2>4
    <3> QED
      BY <1>4, <2>1, <2>3, <3>1
  <2>5. CASE k # i
    <3>1. r[k + 1] = l[k + 1] /\ (k \in d.modifications <=> k \in c.modifications)
      BY <1>6, <1>8, <2>2, <2>5
    <3> QED
      BY <2>1, <3>1
  <2> QED
    BY <2>4, <2>5
<1>11. EntriesTold(r, a, d, mid, f)
  BY <1>7, <1>10 DEF EntriesTold
<1>12. ListTold(r, b, d, a, m, mid, f)
  BY <1>1, <1>7, <1>8, <1>9, <1>11 DEF ListTold
<1> QED
  BY <1>2, <1>7, <1>12

LEMMA ListClear ==
  ASSUME NEW l \in Seq(Entries), NEW b \in Nat, NEW c, NEW a, NEW m \in Nat, NEW mid, NEW f,
         ListTold(l, b, c, a, m, mid, f),
         NEW d, d = clear(c, Len(l)), NEW g, g = [k \in 0 .. 0 - 1 |-> npos]
  PROVE  ListTold(<<>>, b, d, a, m, mid, g)
<1>1. /\ Told(a, b, m, mid) /\ NonStale(a) /\ a.modifications \in Intervals(m)
      /\ Told(c, m, Len(l), f)
  BY DEF ListTold
<1>2. PICK p \in Nat : p = Len(l)
  OBVIOUS
<1>3. Told(clear(c, p), m, 0, g)
  BY <1>1, <1>2, ClearTold
<1>4. Told(d, m, 0, g)
  BY <1>2, <1>3
<1>5. d.modifications = {}
  BY DEF clear, NoChanges
<1>6. PICK e : e = <<>>
  OBVIOUS
<1>7. Len(e) = 0 /\ \A k \in 0 .. Len(e) - 1 : FALSE
  BY <1>6
<1>8. EntriesTold(e, a, d, mid, g)
  BY <1>7 DEF EntriesTold
<1>9. d.modifications \in Intervals(0)
  BY <1>5 DEF Intervals
<1>10. ListTold(e, b, d, a, m, mid, g)
  BY <1>1, <1>4, <1>7, <1>8, <1>9 DEF ListTold
<1> QED
  BY <1>6, <1>10

\* Two entries of l are set.
EntriesSet(r, l, i, j) == r = [l EXCEPT ![i + 1] = Touch(@), ![j + 1] = Touch(@)]

LEMMA ListSwap ==
  ASSUME NEW l \in Seq(Entries), NEW b \in Nat, NEW c, NEW a, NEW m \in Nat, NEW mid, NEW f,
         ListTold(l, b, c, a, m, mid, f), NEW i \in 0 .. Len(l) - 1, NEW j \in 0 .. Len(l) - 1, i # j,
         NEW r, EntriesSet(r, l, i, j), NEW d, d = modify(modify(c, i), j)
  PROVE  /\ r \in Seq(Entries) /\ Len(r) = Len(l)
         /\ ListTold(r, b, d, a, m, mid, f)
<1>1. PICK s : s = [l EXCEPT ![i + 1] = Touch(@)]
  OBVIOUS
<1>2. PICK e : e = modify(c, i)
  OBVIOUS
<1>3. s \in Seq(Entries) /\ Len(s) = Len(l) /\ ListTold(s, b, e, a, m, mid, f)
  <2>1. EntrySet(s, l, i)
    BY <1>1 DEF EntrySet
  <2> QED
    BY ONLY <1>2, <2>1, ListSet, l \in Seq(Entries), b \in Nat, m \in Nat,
            i \in 0 .. Len(l) - 1, ListTold(l, b, c, a, m, mid, f)
<1>4. EntrySet(r, s, j) /\ d = modify(e, j)
  <2>1. s[j + 1] = l[j + 1]
    BY <1>1
  <2>2. r = [s EXCEPT ![j + 1] = Touch(l[j + 1])]
    BY <1>1 DEF EntriesSet
  <2> QED
    BY <1>2, <2>1, <2>2 DEF EntrySet
<1>5. j \in 0 .. Len(s) - 1
  BY <1>3
<1>6. r \in Seq(Entries) /\ Len(r) = Len(s) /\ ListTold(r, b, d, a, m, mid, f)
  BY <1>3, <1>4, <1>5, ListSet
<1> QED
  BY <1>3, <1>6

\* The changes of the log read join those before.
LEMMA ListParsed ==
  ASSUME NEW l \in Seq(Entries), NEW b \in Nat, NEW c, NEW a, NEW m \in Nat, NEW mid, NEW f,
         ListTold(l, b, c, a, m, mid, f),
         NEW d, d = merge(a, clean_up_stale_moves(c)),
         NEW id, id = [k \in 0 .. Len(l) - 1 |-> k]
  PROVE  ListTold(l, b, NoChanges, d, Len(l), Composed(mid, f, Len(l)), id)
<1>1. /\ Told(a, b, m, mid) /\ NonStale(a) /\ a.modifications \in Intervals(m)
      /\ Told(c, m, Len(l), f) /\ c.modifications \in Intervals(Len(l))
      /\ EntriesTold(l, a, c, mid, f)
  BY DEF ListTold
<1>2. PICK p \in Nat : p = Len(l)
  OBVIOUS
<1>3. PICK e : e = clean_up_stale_moves(c)
  OBVIOUS
<1>4. Told(e, m, p, f) /\ NonStale(e) /\ e.modifications = c.modifications
  <2>1. Told(c, m, p, f)
    BY <1>1, <1>2
  <2> QED
    BY ONLY <1>3, <2>1, m \in Nat, p \in Nat, CleanUpTold
<1>5. e.modifications \in Intervals(p) /\ d = merge(a, e)
  BY <1>1, <1>2, <1>3, <1>4
<1>6. /\ Told(d, b, p, Composed(mid, f, p)) /\ NonStale(d)
      /\ ModifiedByEither(d, a, e, p, mid, f)
  BY <1>1, <1>4, <1>5, MergedChangesTold
<1>7. PICK o : o = Composed(mid, f, p)
  OBVIOUS
<1>8. o = [k \in 0 .. p - 1 |-> IF f[k] = npos THEN npos ELSE mid[f[k]]]
  BY <1>7 DEF Composed
<1>9. /\ d.modifications \in Intervals(p)
      /\ \A k \in 0 .. p - 1 :
           o[k] # npos =>
             (k \in d.modifications <=> f[k] \in a.modifications \/ k \in e.modifications)
  BY <1>6, <1>7 DEF ModifiedByEither
<1>10. id = [k \in 0 .. p - 1 |-> k]
  BY <1>2
<1>11. Told(NoChanges, p, p, id)
  BY <1>10, NoChangesTold
<1>12. NoChanges.modifications = {} /\ {} \in Intervals(p)
  BY DEF NoChanges, Intervals
<1>13. ASSUME NEW k \in 0 .. p - 1
       PROVE  /\ l[k + 1].base = IF id[k] = npos THEN npos ELSE o[id[k]]
              /\ l[k + 1].base # npos =>
                   (l[k + 1].dirty <=> id[k] \in d.modifications
                                       \/ k \in NoChanges.modifications)
  <2>1. id[k] = k /\ k # npos
    BY <1>10 DEF npos
  <2>2. /\ l[k + 1].base = IF f[k] = npos THEN npos ELSE mid[f[k]]
        /\ l[k + 1].base # npos =>
             (l[k + 1].dirty <=> f[k] \in a.modifications \/ k \in c.modifications)
    BY <1>1, <1>2 DEF EntriesTold
  <2>3. l[k + 1].base = o[k]
    BY <1>8, <2>2
  <2>4. o[k] # npos =>
          (k \in d.modifications <=> f[k] \in a.modifications \/ k \in c.modifications)
    BY <1>4, <1>9
  <2> QED
    BY <1>12, <2>1, <2>2, <2>3, <2>4
<1>14. EntriesTold(l, d, NoChanges, o, id)
  BY <1>2, <1>13 DEF EntriesTold
<1>15. ListTold(l, b, NoChanges, d, p, o, id)
  BY <1>2, <1>6, <1>7, <1>9, <1>11, <1>12, <1>14 DEF ListTold
<1> QED
  BY <1>2, <1>7, <1>15

\* The list as it is delivered, or as it is first.
LEMMA ListDelivered ==
  ASSUME MaxLen \in Nat, NEW n \in 0 .. MaxLen,
         NEW r, r = [k \in 1 .. n |-> Entry(k - 1)],
         NEW id, id = [k \in 0 .. n - 1 |-> k]
  PROVE  /\ r \in Seq(Entries) /\ Len(r) = n
         /\ ListTold(r, n, NoChanges, NoChanges, n, id, id)
<1>1. ASSUME NEW k \in 1 .. n
      PROVE  /\ Entry(k - 1) \in Entries /\ Entry(k - 1).base = k - 1
             /\ Entry(k - 1).dirty = FALSE
  <2>1. k - 1 \in npos .. MaxLen - 1
    BY DEF npos
  <2> QED
    BY <2>1 DEF Entry, Entries
<1>2. r \in [1 .. n -> Entries] /\ \A k \in 1 .. n : r[k] = Entry(k - 1)
  BY <1>1
<1>3. r \in Seq(Entries) /\ Len(r) = n
  BY <1>2, SeqFunction
<1>4. n \in Nat
  OBVIOUS
<1>5. Told(NoChanges, n, n, id)
  BY <1>4, NoChangesTold
<1>6. NoChanges.modifications = {} /\ {} \in Intervals(n)
  BY DEF NoChanges, Intervals
<1>7. NonStale(NoChanges)
  BY NoMoves DEF NoChanges, NonStale
<1>8. ASSUME NEW k \in 0 .. n - 1
      PROVE  /\ r[k + 1].base = IF id[k] = npos THEN npos ELSE id[id[k]]
             /\ r[k + 1].base # npos =>
                  (r[k + 1].dirty <=> id[k] \in NoChanges.modifications
                                      \/ k \in NoChanges.modifications)
  <2>1. id[k] = k /\ k # npos
    BY DEF npos
  <2>2. k + 1 \in 1 .. n /\ (k + 1) - 1 = k
    OBVIOUS
  <2>3. r[k + 1].base = k /\ r[k + 1].dirty = FALSE
    BY <1>1, <1>2, <2>2
  <2> QED
    BY <1>6, <2>1, <2>3
<1>9. EntriesTold(r, NoChanges, NoChanges, id, id)
  BY <1>3, <1>8 DEF EntriesTold
<1>10. ListTold(r, n, NoChanges, NoChanges, n, id, id)
  BY <1>3, <1>5, <1>6, <1>7, <1>9 DEF ListTold
<1> QED
  BY <1>3, <1>10

-----------------------------------------------------------------------------
(* The invariant is inductive                                              *)

LEMMA ListInvFrom ==
  ASSUME NEW l \in Seq(Entries), Len(l) \in 0 .. MaxLen, NEW b \in 0 .. MaxLen,
         NEW n \in 0 .. MaxOps, NEW m \in 0 .. MaxLen, NEW c, NEW a, NEW mid, NEW f,
         ListTold(l, b, c, a, m, mid, f)
  PROVE  ListInv(l, b, c, a, n)
<1>1. mid \in Origins(b, m) /\ f \in Origins(m, Len(l))
  BY DEF ListTold, Told
<1> QED
  BY <1>1 DEF ListInv

LEMMA LInvInit ==
  ASSUME MaxLen \in Nat, MaxOps \in Nat, ListInit
  PROVE  LInv
<1>1. PICK n \in 0 .. MaxLen : n = base
  BY DEF ListInit
<1>2. PICK r : r = [k \in 1 .. n |-> Entry(k - 1)]
  OBVIOUS
<1>3. PICK id : id = [k \in 0 .. n - 1 |-> k]
  OBVIOUS
<1>4. /\ r \in Seq(Entries) /\ Len(r) = n
      /\ ListTold(r, n, NoChanges, NoChanges, n, id, id)
  BY <1>2, <1>3, ListDelivered
<1>5. 0 \in 0 .. MaxOps /\ Len(r) \in 0 .. MaxLen
  BY <1>4
<1>6. ListInv(r, n, NoChanges, NoChanges, 0)
  BY <1>4, <1>5, ListInvFrom
<1>7. list = r /\ cur = NoChanges /\ acc = NoChanges /\ ops = 0
  BY <1>1, <1>2 DEF ListInit
<1> QED
  BY <1>1, <1>6, <1>7 DEF LInv

\* The step of an operation of the list, whatever it is.
LEMMA ListInvStep ==
  ASSUME MaxLen \in Nat, MaxOps \in Nat, NEW l \in Seq(Entries), Len(l) \in 0 .. MaxLen,
         NEW b \in 0 .. MaxLen, NEW m \in 0 .. MaxLen, NEW c, NEW a, NEW mid, NEW f,
         ListTold(l, b, c, a, m, mid, f), ops \in 0 .. MaxOps, a = acc, b = base,
         Step(c, l)
  PROVE  LInv'
<1>1. PICK n \in 0 .. MaxOps : n = ops'
  BY DEF Step
<1>2. list' = l /\ cur' = c /\ base' = b /\ acc' = a
  BY DEF Step
<1>3. ListInv(l, b, c, a, n)
  BY ListInvFrom
<1> QED
  BY <1>1, <1>2, <1>3 DEF LInv

\* Whatever step is taken, the changes still tell how the list of the last
\* delivery became the list at the end of the last log, and that one the list.
LEMMA LInvNext ==
  ASSUME MaxLen \in Nat, MaxOps \in Nat, LInv, [ListNext]_listVars
  PROVE  LInv'
<1>1. PICK l \in Seq(Entries) : l = list
  BY DEF LInv, ListInv
<1>2. PICK b \in 0 .. MaxLen : b = base
  BY DEF LInv, ListInv
<1>3. PICK c : c = cur
  OBVIOUS
<1>4. PICK a : a = acc
  OBVIOUS
<1>5. Len(l) \in 0 .. MaxLen /\ ops \in 0 .. MaxOps
  BY <1>1 DEF LInv, ListInv
<1>6. PICK m \in 0 .. MaxLen :
        \E mid \in Origins(b, m), f \in Origins(m, Len(l)) : ListTold(l, b, c, a, m, mid, f)
  BY <1>1, <1>2, <1>3, <1>4 DEF LInv, ListInv
<1>7. PICK mid \in Origins(b, m), f \in Origins(m, Len(l)) : ListTold(l, b, c, a, m, mid, f)
  BY <1>6
<1>8. b \in Nat /\ m \in Nat
  OBVIOUS
<1>9. ASSUME NEW i \in 0 .. Len0, link_list_insert(i)
      PROVE  LInv'
  <2>1. PICK r : r = InsertAt(l, i + 1, Entry(npos))
    OBVIOUS
  <2>2. PICK d : d = insert(c, i, 1, TRUE)
    OBVIOUS
  <2>3. Step(d, r) /\ Len(l) < MaxLen /\ i \in 0 .. Len(l)
    BY <1>1, <1>3, <1>9, <2>1, <2>2 DEF link_list_insert, Len0
  <2>4. /\ r \in Seq(Entries) /\ Len(r) = Len(l) + 1
        /\ ListTold(r, b, d, a, m, mid, Inserted(f, Len(l), i))
    BY ONLY MaxLen \in Nat, l \in Seq(Entries), <1>7, <1>8, <2>1, <2>2, <2>3, ListInsert
  <2>5. Len(r) \in 0 .. MaxLen
    BY <1>5, <2>3, <2>4
  <2> QED
    BY <1>2, <1>4, <1>5, <2>3, <2>4, <2>5, ListInvStep
<1>10. ASSUME NEW i \in Indices, link_list_erase(i)
       PROVE  LInv'
  <2>1. PICK r : r = RemoveAt(l, i + 1)
    OBVIOUS
  <2>2. PICK d : d = erase(c, i)
    OBVIOUS
  <2>3. Step(d, r) /\ i \in 0 .. Len(l) - 1
    BY <1>1, <1>3, <1>10, <2>1, <2>2 DEF link_list_erase, Indices
  <2>4. /\ r \in Seq(Entries) /\ Len(r) = Len(l) - 1
        /\ ListTold(r, b, d, a, m, mid, Removed(f, Len(l), i))
    BY ONLY l \in Seq(Entries), <1>7, <1>8, <2>1, <2>2, <2>3, ListErase
  <2>5. Len(r) \in 0 .. MaxLen
    BY <1>5, <2>3, <2>4
  <2> QED
    BY <1>2, <1>4, <1>5, <2>3, <2>4, <2>5, ListInvStep
<1>11. ASSUME NEW i \in Indices, link_list_set(i)
       PROVE  LInv'
  <2>1. PICK r : r = [l EXCEPT ![i + 1] = Touch(@)]
    OBVIOUS
  <2>2. PICK d : d = modify(c, i)
    OBVIOUS
  <2>3. Step(d, r) /\ i \in 0 .. Len(l) - 1
    BY <1>1, <1>3, <1>11, <2>1, <2>2 DEF link_list_set, Indices
  <2>4. EntrySet(r, l, i)
    BY <2>1 DEF EntrySet
  <2>5. r \in Seq(Entries) /\ Len(r) = Len(l) /\ ListTold(r, b, d, a, m, mid, f)
    BY ONLY l \in Seq(Entries), <1>7, <1>8, <2>2, <2>3, <2>4, ListSet
  <2>6. Len(r) \in 0 .. MaxLen
    BY <1>5, <2>5
  <2> QED
    BY <1>2, <1>4, <1>5, <2>3, <2>5, <2>6, ListInvStep
<1>12. ASSUME NEW i \in Indices, NEW j \in Indices, link_list_move(i, j)
       PROVE  LInv'
  <2>1. PICK r : r = InsertAt(RemoveAt(l, i + 1), j + 1, l[i + 1])
    OBVIOUS
  <2>2. PICK d : d = move(c, i, j)
    OBVIOUS
  <2>3. Step(d, r) /\ i \in 0 .. Len(l) - 1 /\ j \in 0 .. Len(l) - 1
    BY <1>1, <1>3, <1>12, <2>1, <2>2 DEF link_list_move, Indices
  <2>4. /\ r \in Seq(Entries) /\ Len(r) = Len(l)
        /\ ListTold(r, b, d, a, m, mid, MovedTo(f, Len(l), i, j))
    BY ONLY l \in Seq(Entries), <1>7, <1>8, <2>1, <2>2, <2>3, ListMove
  <2>5. Len(r) \in 0 .. MaxLen
    BY <1>5, <2>4
  <2> QED
    BY <1>2, <1>4, <1>5, <2>3, <2>4, <2>5, ListInvStep
<1>13. ASSUME NEW i \in Indices, NEW j \in Indices, i # j, link_list_swap(i, j)
       PROVE  LInv'
  <2>1. PICK r : r = [l EXCEPT ![i + 1] = Touch(@), ![j + 1] = Touch(@)]
    OBVIOUS
  <2>2. PICK d : d = modify(modify(c, i), j)
    OBVIOUS
  <2>3. Step(d, r) /\ i \in 0 .. Len(l) - 1 /\ j \in 0 .. Len(l) - 1
    BY <1>1, <1>3, <1>13, <2>1, <2>2 DEF link_list_swap, Indices
  <2>4. EntriesSet(r, l, i, j) /\ i # j
    BY <1>13, <2>1 DEF EntriesSet
  <2>5. /\ r \in Seq(Entries) /\ Len(r) = Len(l) /\ ListTold(r, b, d, a, m, mid, f)
    BY ONLY l \in Seq(Entries), <1>7, <1>8, <2>2, <2>3, <2>4, ListSwap
  <2>6. Len(r) \in 0 .. MaxLen
    BY <1>5, <2>5
  <2> QED
    BY <1>2, <1>4, <1>5, <2>3, <2>5, <2>6, ListInvStep
<1>14. ASSUME link_list_clear
       PROVE  LInv'
  <2>1. PICK r : r = <<>>
    OBVIOUS
  <2>2. PICK d : d = clear(c, Len(l))
    OBVIOUS
  <2>3. PICK g : g = [k \in 0 .. 0 - 1 |-> npos]
    OBVIOUS
  <2>4. Step(d, r)
    BY <1>1, <1>3, <1>14, <2>1, <2>2 DEF link_list_clear, Len0
  <2>5. ListTold(<<>>, b, d, a, m, mid, g)
    BY ONLY l \in Seq(Entries), <1>7, <1>8, <2>2, <2>3, ListClear
  <2>6. r \in Seq(Entries) /\ Len(r) \in 0 .. MaxLen /\ ListTold(r, b, d, a, m, mid, g)
    BY <2>1, <2>5
  <2> QED
    BY <1>2, <1>4, <1>5, <2>4, <2>6, ListInvStep
<1>15. ASSUME parse_complete_list
       PROVE  LInv'
  <2>1. PICK d : d = merge(a, clean_up_stale_moves(c))
    OBVIOUS
  <2>2. PICK id : id = [k \in 0 .. Len(l) - 1 |-> k]
    OBVIOUS
  <2>3. PICK n \in 0 .. MaxLen : n = Len(l)
    BY <1>5
  <2>4. PICK o : o = Composed(mid, f, Len(l))
    OBVIOUS
  <2>5. ListTold(l, b, NoChanges, d, Len(l), Composed(mid, f, Len(l)), id)
    BY ONLY l \in Seq(Entries), <1>7, <1>8, <2>1, <2>2, ListParsed
  <2>6. ListTold(l, b, NoChanges, d, n, o, id)
    BY <2>3, <2>4, <2>5
  <2>7. PICK e \in 0 .. MaxOps : e = ops
    BY <1>5
  <2>8. ListInv(l, b, NoChanges, d, e)
    BY <1>5, <2>6, ListInvFrom
  <2>9. list' = l /\ base' = b /\ cur' = NoChanges /\ acc' = d /\ ops' = e
    BY <1>1, <1>2, <1>3, <1>4, <1>15, <2>1, <2>7 DEF parse_complete_list
  <2> QED
    BY <2>8, <2>9 DEF LInv
<1>16. ASSUME deliver_list
       PROVE  LInv'
  <2>1. PICK n \in 0 .. MaxLen : n = Len(l)
    BY <1>5
  <2>2. PICK r : r = [k \in 1 .. n |-> Entry(k - 1)]
    OBVIOUS
  <2>3. PICK id : id = [k \in 0 .. n - 1 |-> k]
    OBVIOUS
  <2>4. /\ r \in Seq(Entries) /\ Len(r) = n
        /\ ListTold(r, n, NoChanges, NoChanges, n, id, id)
    BY <2>2, <2>3, ListDelivered
  <2>5. 0 \in 0 .. MaxOps /\ Len(r) \in 0 .. MaxLen
    BY <2>4
  <2>6. ListInv(r, n, NoChanges, NoChanges, 0)
    BY <2>4, <2>5, ListInvFrom
  <2>7. DOMAIN l = 1 .. n
    BY <2>1
  <2>8. list' = r /\ base' = n /\ cur' = NoChanges /\ acc' = NoChanges /\ ops' = 0
    BY <1>1, <1>16, <2>1, <2>2, <2>7 DEF deliver_list, Len0
  <2> QED
    BY <2>6, <2>8 DEF LInv
<1>17. CASE UNCHANGED listVars
  BY <1>17 DEF LInv, ListInv, listVars
<1> QED
  BY <1>9, <1>10, <1>11, <1>12, <1>13, <1>14, <1>15, <1>16, <1>17 DEF ListNext

\* From every start, after every number of operations, logs and deliveries.
LEMMA LInvHolds == ListSpec => []LInv
<1>1. ListInit => LInv
  BY LInvInit, ListBounds
<1>2. LInv /\ [ListNext]_listVars => LInv'
  BY LInvNext, ListBounds
<1> QED
  BY <1>1, <1>2, PTL DEF ListSpec

-----------------------------------------------------------------------------
(* What is delivered                                                       *)

\* a leads from the b entries of the last delivery to l.
DeliveredList(l, b, a, mid) ==
  /\ Told(a, b, Len(l), mid) /\ NonStale(a) /\ a.modifications \in Intervals(Len(l))
  /\ \A k \in 0 .. Len(l) - 1 :
       /\ l[k + 1].base = mid[k]
       /\ mid[k] # npos => (l[k + 1].dirty <=> k \in a.modifications)

\* Between two logs the list at the end of the last log is the list.
LEMMA Delivered ==
  ASSUME LInv, cur = NoChanges
  PROVE  \E l \in Seq(Entries), b \in Nat : \E a, mid :
           list = l /\ base = b /\ acc = a /\ DeliveredList(l, b, a, mid)
<1>1. PICK l \in Seq(Entries) : l = list
  BY DEF LInv, ListInv
<1>2. PICK b \in 0 .. MaxLen : b = base
  BY DEF LInv, ListInv
<1>3. PICK c : c = NoChanges
  OBVIOUS
<1>4. PICK a : a = acc
  OBVIOUS
<1>5. PICK m \in 0 .. MaxLen :
        \E mid \in Origins(b, m), f \in Origins(m, Len(l)) : ListTold(l, b, c, a, m, mid, f)
  BY <1>1, <1>2, <1>3, <1>4 DEF LInv, ListInv
<1>6. PICK mid \in Origins(b, m), f \in Origins(m, Len(l)) : ListTold(l, b, c, a, m, mid, f)
  BY <1>5
<1>7. /\ Told(a, b, m, mid) /\ NonStale(a) /\ a.modifications \in Intervals(m)
      /\ Told(c, m, Len(l), f) /\ EntriesTold(l, a, c, mid, f)
  BY <1>6 DEF ListTold
<1>8. b \in Nat /\ m \in Nat /\ Len(l) \in Nat
  OBVIOUS
<1>9. c.deletions = {} /\ c.insertions = {} /\ c.modifications = {}
  BY <1>3 DEF NoChanges
<1>10. Len(l) = m /\ \A k \in 0 .. m - 1 : f[k] = k
  BY ONLY <1>7, <1>8, <1>9, ToldNoChanges
<1>11. ASSUME NEW k \in 0 .. Len(l) - 1
       PROVE  /\ l[k + 1].base = mid[k]
              /\ mid[k] # npos => (l[k + 1].dirty <=> k \in a.modifications)
  <2>1. f[k] = k /\ k # npos
    BY <1>10 DEF npos
  <2>2. /\ l[k + 1].base = IF f[k] = npos THEN npos ELSE mid[f[k]]
        /\ l[k + 1].base # npos =>
             (l[k + 1].dirty <=> f[k] \in a.modifications \/ k \in c.modifications)
    BY <1>7 DEF EntriesTold
  <2>3. l[k + 1].base = mid[k]
    BY <2>1, <2>2
  <2> QED
    BY <1>9, <2>1, <2>2, <2>3
<1>12. DeliveredList(l, b, a, mid)
  BY <1>7, <1>10, <1>11 DEF DeliveredList
<1> QED
  BY <1>1, <1>2, <1>4, <1>8, <1>12

LEMMA DeliveredTold == ASSUME LInv PROVE DeliveryTold
<1>1. SUFFICES ASSUME cur = NoChanges PROVE Tells(acc, base, Base)
  BY DEF DeliveryTold
<1>0. PICK l \in Seq(Entries), b \in Nat :
        \E a, mid : list = l /\ base = b /\ acc = a /\ DeliveredList(l, b, a, mid)
  BY <1>1, Delivered
<1>2. PICK a, mid : list = l /\ base = b /\ acc = a /\ DeliveredList(l, b, a, mid)
  BY <1>0
<1>3. PICK p \in Nat : p = Len(l)
  OBVIOUS
<1>4. /\ Kept(a.deletions, a.insertions, b, p, mid) /\ MovesTold(a, mid)
      /\ \A k \in 0 .. p - 1 : l[k + 1].base = mid[k]
  BY <1>2, <1>3 DEF DeliveredList, Told
<1>5. PICK D : D = a.deletions
  OBVIOUS
<1>6. PICK I : I = a.insertions
  OBVIOUS
<1>7. /\ D \in Intervals(b) /\ I \in Intervals(p) /\ unshift(D, b) = unshift(I, p)
      /\ \A k \in (0 .. p - 1) \ I : /\ mid[k] \in (0 .. b - 1) \ D
                                     /\ unshift(D, mid[k]) = unshift(I, k)
  BY <1>4, <1>5, <1>6 DEF Kept
<1>8. unshift(D, b) = b - Cardinality(D) /\ unshift(I, p) = p - Cardinality(I)
  BY <1>7, IntervalsFinite
<1>9. Indices = 0 .. p - 1 /\ Len0 = p /\ \A k \in 0 .. p - 1 : Base(k) = mid[k]
  BY <1>2, <1>3, <1>4 DEF Indices, Len0, Base
<1>10. D \subseteq 0 .. b - 1 /\ I \subseteq 0 .. p - 1
  BY <1>7 DEF Intervals
<1>11. b - Cardinality(D) = p - Cardinality(I)
  BY <1>7, <1>8
<1>12. ASSUME NEW k \in Indices \ I
       PROVE  /\ Base(k) # npos /\ Base(k) \notin D
              /\ unshift(D, Base(k)) = unshift(I, k)
  <2>1. Base(k) = mid[k] /\ mid[k] \in (0 .. b - 1) \ D /\ unshift(D, mid[k]) = unshift(I, k)
    BY <1>7, <1>9
  <2> QED
    BY <2>1 DEF npos
<1>13. ASSUME NEW m \in ToSet(a.moves)
       PROVE  m.from \in D /\ m.to \in I /\ Base(m.to) = m.from
  <2>1. m.from \in D /\ m.to \in I /\ mid[m.to] = m.from
    BY <1>4, <1>5, <1>6 DEF MovesTold
  <2> QED
    BY <1>9, <1>10, <2>1
<1> QED
  BY <1>2, <1>5, <1>6, <1>9, <1>10, <1>11, <1>12, <1>13 DEF Tells

LEMMA DeliveredMoves == ASSUME LInv PROVE MovesKept
<1>1. SUFFICES ASSUME cur = NoChanges, NEW k \in acc.insertions, Base(k) # npos
               PROVE  [from |-> Base(k), to |-> k] \in ToSet(acc.moves)
  BY DEF MovesKept
<1>0. PICK l \in Seq(Entries), b \in Nat :
        \E a, mid : list = l /\ base = b /\ acc = a /\ DeliveredList(l, b, a, mid)
  BY <1>1, Delivered
<1>2. PICK a, mid : list = l /\ base = b /\ acc = a /\ DeliveredList(l, b, a, mid)
  BY <1>0
<1>3. /\ Kept(a.deletions, a.insertions, b, Len(l), mid) /\ MovesTold(a, mid)
      /\ \A j \in 0 .. Len(l) - 1 : l[j + 1].base = mid[j]
  BY <1>2 DEF DeliveredList, Told
<1>4. k \in a.insertions /\ a.insertions \subseteq 0 .. Len(l) - 1
  BY <1>1, <1>2, <1>3 DEF Kept, Intervals
<1>5. Base(k) = mid[k]
  BY <1>2, <1>3, <1>4 DEF Base
<1>6. mid[k] # npos
  BY <1>1, <1>5
<1>7. [from |-> mid[k], to |-> k] \in ToSet(a.moves)
  BY <1>3, <1>4, <1>6 DEF MovesTold
<1> QED
  BY <1>2, <1>5, <1>7

LEMMA DeliveredModifications == ASSUME LInv PROVE ModificationsTold
<1>1. SUFFICES ASSUME cur = NoChanges,
                      NEW M, M = {k \in Indices \ acc.insertions : list[k + 1].dirty}
               PROVE  /\ finalize(acc).modifications_new = M
                      /\ finalize(acc).modifications = {Base(k) : k \in M}
  BY DEF ModificationsTold
<1>0. PICK l \in Seq(Entries), b \in Nat :
        \E a, mid : list = l /\ base = b /\ acc = a /\ DeliveredList(l, b, a, mid)
  BY <1>1, Delivered
<1>2. PICK a, mid : list = l /\ base = b /\ acc = a /\ DeliveredList(l, b, a, mid)
  BY <1>0
<1>3. PICK p \in Nat : p = Len(l)
  OBVIOUS
<1>4. /\ Kept(a.deletions, a.insertions, b, p, mid) /\ a.modifications \in Intervals(p)
      /\ \A k \in 0 .. p - 1 :
           /\ l[k + 1].base = mid[k]
           /\ mid[k] # npos => (l[k + 1].dirty <=> k \in a.modifications)
  BY <1>2, <1>3 DEF DeliveredList, Told
<1>5. PICK D : D = a.deletions
  OBVIOUS
<1>6. PICK I : I = a.insertions
  OBVIOUS
<1>7. PICK N \in Intervals(p) : N = a.modifications
  BY <1>4
<1>8. Kept(D, I, b, p, mid) /\ \A k \in (0 .. p - 1) \ I : mid[k] # npos
  BY <1>4, <1>5, <1>6 DEF Kept, npos
<1>9. Indices = 0 .. p - 1 /\ N \subseteq 0 .. p - 1
  BY <1>2, <1>3 DEF Indices, Len0, Intervals
<1>10. M = N \ I
  <2>1. ASSUME NEW k
        PROVE  k \in M <=> k \in N \ I
    <3>1. k \in M <=> k \in (0 .. p - 1) \ I /\ l[k + 1].dirty
      BY <1>1, <1>2, <1>6, <1>9
    <3>2. k \in (0 .. p - 1) \ I => (l[k + 1].dirty <=> k \in N)
      BY <1>4, <1>7, <1>8
    <3> QED
      BY <1>9, <3>1, <3>2
  <2> QED
    BY <2>1
<1>11. finalize(a).modifications_new = M
  BY <1>6, <1>7, <1>10 DEF finalize
<1>12. finalize(a).modifications = shift_for_insert_all_at(erase_all_at(N, I), D)
  BY <1>5, <1>6, <1>7 DEF finalize
<1>13. ASSUME NEW k \in M
       PROVE  shift(D, unshift(I, k)) = Base(k)
  <2>1. k \in (0 .. p - 1) \ I
    BY <1>9, <1>10
  <2>2. shift(D, unshift(I, k)) = mid[k]
    BY ONLY b \in Nat, p \in Nat, <1>8, <2>1, KeptShift
  <2>3. Base(k) = mid[k]
    BY <1>2, <1>4, <2>1 DEF Base
  <2> QED
    BY <2>2, <2>3
<1>14. shift_for_insert_all_at(erase_all_at(N, I), D) = {shift(D, unshift(I, k)) : k \in M}
  BY <1>10 DEF shift_for_insert_all_at, erase_all_at
<1>15. {shift(D, unshift(I, k)) : k \in M} = {Base(k) : k \in M}
  BY <1>13
<1> QED
  BY <1>2, <1>11, <1>12, <1>14, <1>15

LEMMA DeliveredNonStale == ASSUME LInv PROVE NoStaleMoves
<1>1. SUFFICES ASSUME cur = NoChanges PROVE NonStale(acc)
  BY DEF NoStaleMoves, NonStale
<1> QED
  BY <1>1, Delivered DEF DeliveredList

\* The indices told stay below the bound, and no list has mapped rows.
Bounded(c) ==
  /\ c.deletions \cup c.insertions \cup c.modifications \subseteq 0 .. MaxLen - 1
  /\ c.moves \in Seq([from : 0 .. MaxLen - 1, to : 0 .. MaxLen - 1])
  /\ c.mapping = << >>

LEMMA ToldBounded ==
  ASSUME MaxLen \in Nat, NEW n \in 0 .. MaxLen, NEW p \in 0 .. MaxLen, NEW c, NEW o,
         Told(c, n, p, o), c.modifications \in Intervals(p)
  PROVE  Bounded(c)
<1>1. /\ c.moves \in Seq(Moves) /\ c.mapping = << >>
      /\ c.deletions \subseteq 0 .. n - 1 /\ c.insertions \subseteq 0 .. p - 1
      /\ c.modifications \subseteq 0 .. p - 1
      /\ \A m \in ToSet(c.moves) : m.from \in c.deletions /\ m.to \in c.insertions
  BY DEF Told, MovesTold, Kept, Intervals, Builders
<1>2. /\ c.deletions \subseteq 0 .. MaxLen - 1 /\ c.insertions \subseteq 0 .. MaxLen - 1
      /\ c.modifications \subseteq 0 .. MaxLen - 1
  BY <1>1
<1>3. /\ Len(c.moves) \in Nat /\ DOMAIN c.moves = 1 .. Len(c.moves)
      /\ \A k \in 1 .. Len(c.moves) : c.moves[k] \in Moves
  BY <1>1, SeqIndices
<1>4. ASSUME NEW k \in 1 .. Len(c.moves)
      PROVE  c.moves[k] \in [from : 0 .. MaxLen - 1, to : 0 .. MaxLen - 1]
  <2>1. PICK m \in Moves : m = c.moves[k]
    BY <1>3
  <2>2. m \in ToSet(c.moves)
    BY <1>3, <2>1 DEF ToSet
  <2>3. m.from \in 0 .. MaxLen - 1 /\ m.to \in 0 .. MaxLen - 1
    BY <1>1, <1>2, <2>2
  <2>4. m = [from |-> m.from, to |-> m.to]
    BY DEF Moves
  <2> QED
    BY <2>1, <2>3, <2>4
<1>5. c.moves \in [1 .. Len(c.moves) -> [from : 0 .. MaxLen - 1, to : 0 .. MaxLen - 1]]
  <2>1. c.moves = [k \in 1 .. Len(c.moves) |-> c.moves[k]]
    BY <1>1
  <2> QED
    BY <1>4, <2>1
<1>6. c.moves \in Seq([from : 0 .. MaxLen - 1, to : 0 .. MaxLen - 1])
  BY <1>3, <1>5, SeqFunction
<1> QED
  BY <1>1, <1>2, <1>6 DEF Bounded

LEMMA TypeHolds == ASSUME MaxLen \in Nat, LInv PROVE TypeOK
<1>1. PICK l \in Seq(Entries) : l = list
  BY DEF LInv, ListInv
<1>2. PICK b \in 0 .. MaxLen : b = base
  BY DEF LInv, ListInv
<1>3. PICK c : c = cur
  OBVIOUS
<1>4. PICK a : a = acc
  OBVIOUS
<1>5. Len(l) \in 0 .. MaxLen /\ ops \in 0 .. MaxOps
  BY <1>1 DEF LInv, ListInv
<1>6. PICK m \in 0 .. MaxLen :
        \E mid \in Origins(b, m), f \in Origins(m, Len(l)) : ListTold(l, b, c, a, m, mid, f)
  BY <1>1, <1>2, <1>3, <1>4 DEF LInv, ListInv
<1>7. PICK mid \in Origins(b, m), f \in Origins(m, Len(l)) : ListTold(l, b, c, a, m, mid, f)
  BY <1>6
<1>8. Bounded(a)
  BY <1>7, ToldBounded DEF ListTold
<1>9. PICK p \in 0 .. MaxLen : p = Len(l)
  BY <1>5
<1>10. Told(c, m, p, f) /\ c.modifications \in Intervals(p)
  BY <1>7, <1>9 DEF ListTold
<1>11. Bounded(c)
  BY <1>10, ToldBounded
<1> QED
  BY <1>1, <1>2, <1>3, <1>4, <1>5, <1>8, <1>11 DEF TypeOK, Bounded, Entries

-----------------------------------------------------------------------------
(* The theorems about lists                                                *)

\* Whatever is done to the list, the indices told are indices of lists within
\* the bound, and the moves are told as moves only: the lists have no mapping
\* (CollectionChangeBuilder of LinkViewObserver's transact_log_handler.cpp).
THEOREM ListTypeOK == ListSpec => []TypeOK
<1>1. LInv => TypeOK
  BY TypeHolds, ListBounds
<1> QED
  BY <1>1, LInvHolds, PTL

\* Applying the changes delivered to the list of the last delivery gives the
\* list, for lists of every length and every sequence of inserts, erases,
\* moves, swaps, sets and clears in any number of transactions, merged as
\* CollectionChangeBuilder::merge does.
THEOREM EveryDeliveryTold == ListSpec => []DeliveryTold
<1>1. LInv => DeliveryTold
  BY DeliveredTold
<1> QED
  BY <1>1, LInvHolds, PTL

\* A row that is told as deleted and inserted, and is the same row, is told as
\* moved: CollectionChangeBuilder never loses a move.
THEOREM EveryMoveKept == ListSpec => []MovesKept
<1>1. LInv => MovesKept
  BY DeliveredMoves
<1> QED
  BY <1>1, LInvHolds, PTL

\* finalize tells exactly the rows set since the last delivery as modified, at
\* their old and at their new indices.
THEOREM EveryModificationTold == ListSpec => []ModificationsTold
<1>1. LInv => ModificationsTold
  BY DeliveredModifications
<1> QED
  BY <1>1, LInvHolds, PTL

\* clean_up_stale_moves, called at the end of a log and of a merge, leaves no
\* move of a row that stayed where it was among the rows that stayed.
THEOREM NeverStaleMoves == ListSpec => []NoStaleMoves
<1>1. LInv => NoStaleMoves
  BY DeliveredNonStale
<1> QED
  BY <1>1, LInvHolds, PTL

-----------------------------------------------------------------------------
(* Indices in ascending order                                              *)

IsInOrder(s, S) ==
  /\ DOMAIN s = 1 .. Cardinality(S) /\ Cardinality(S) \in Nat
  /\ \A k \in 1 .. Cardinality(S) : s[k] \in S /\ Below(S, s[k]) = k - 1
  /\ \A i \in S : \E k \in 1 .. Cardinality(S) : s[k] = i
  /\ \A j, k \in 1 .. Cardinality(S) : j < k => s[j] < s[k]

LEMMA InOrderIs ==
  ASSUME NEW n \in Nat, NEW S \in Intervals(n)
  PROVE  IsInOrder(InOrder(S), S)
<1>1. S \in FiniteIndices /\ \A x \in S : x \in Nat
  BY IntervalsFinite
<1>2. PICK N \in Nat : N = Cardinality(S)
  BY <1>1, BelowFinite
<1>3. PICK s : s = InOrder(S) /\ s = [k \in 1 .. N |-> CHOOSE i \in S : Below(S, i) = k - 1]
  BY <1>2 DEF InOrder
<1>4. \A k \in 1 .. N : s[k] \in S /\ Below(S, s[k]) = k - 1
  <2> TAKE k \in 1 .. N
  <2>1. k - 1 \in Nat /\ k - 1 < N
    OBVIOUS
  <2>2. \E x \in S : Below(S, x) = k - 1
    BY <1>2, <2>1, RankExists
  <2> QED
    BY <1>3, <2>2
<1>5. ASSUME NEW i \in S PROVE \E k \in 1 .. N : s[k] = i
  <2>1. PICK r \in Nat : r = Below(S, i) /\ r < N
    BY <1>2, RankOne
  <2>2. r + 1 \in 1 .. N /\ (r + 1) - 1 = r
    BY <2>1
  <2>3. s[r + 1] \in S /\ Below(S, s[r + 1]) = r
    BY <1>4, <2>2
  <2> QED
    BY <2>1, <2>2, <2>3, RankOne
<1>6. ASSUME NEW j \in 1 .. N, NEW k \in 1 .. N, j < k PROVE s[j] < s[k]
  <2>1. s[j] \in S /\ s[k] \in S /\ Below(S, s[j]) = j - 1 /\ Below(S, s[k]) = k - 1
    BY <1>4
  <2>2. s[j] \in Nat /\ s[k] \in Nat
    BY <1>1, <2>1
  <2>3. s[k] <= s[j] => Below(S, s[k]) <= Below(S, s[j])
    BY <1>1, <2>2, BelowGrows
  <2> QED
    BY <1>6, <2>1, <2>2, <2>3
<1>7. DOMAIN s = 1 .. N
  BY <1>3
<1> QED
  BY <1>2, <1>3, <1>4, <1>5, <1>6, <1>7 DEF IsInOrder

\* Two sets of indices paired in order.
Paired(S, T, P) ==
  /\ \A p \in P : p[1] \in S /\ p[2] \in T
  /\ \A x \in S : \E p \in P : p[1] = x
  /\ \A y \in T : \E p \in P : p[2] = y
  /\ \A p, q \in P : p[1] < q[1] <=> p[2] < q[2]

\* The partner of each index, and those of the indices before one.
LEMMA PairedFunction ==
  ASSUME NEW n \in Nat, NEW S \in Intervals(n), NEW m \in Nat, NEW T \in Intervals(m),
         NEW P, Paired(S, T, P),
         NEW f, f = [x \in S |-> (CHOOSE p \in P : p[1] = x)[2]]
  PROVE  /\ \A p \in P : f[p[1]] = p[2]
         /\ Cardinality(S) = Cardinality(T)
         /\ \A x \in S : f[x] \in T /\ Below(T, f[x]) = Below(S, x)
<1>1. \A x \in S : x \in Nat /\ x < n
  BY IntervalsFinite
<1>2. \A y \in T : y \in Nat /\ y < m
  BY IntervalsFinite
<1>3. ASSUME NEW p \in P PROVE f[p[1]] = p[2]
  <2>1. PICK q : q = CHOOSE r \in P : r[1] = p[1]
    OBVIOUS
  <2>2. q \in P /\ q[1] = p[1]
    BY <2>1
  <2>3. p[1] \in S /\ f[p[1]] = q[2]
    BY <2>1 DEF Paired
  <2>4. p[1] \in Nat /\ p[2] \in Nat /\ q[2] \in Nat
    BY <1>1, <1>2, <2>2 DEF Paired
  <2>5. ~(p[2] < q[2]) /\ ~(q[2] < p[2])
    BY <2>2, <2>4 DEF Paired
  <2> QED
    BY <2>3, <2>4, <2>5
<1>4. f \in [S -> T]
  <2>1. \A x \in S : f[x] \in T
    BY <1>3 DEF Paired
  <2> QED
    BY <2>1
<1>5. \A x, y \in S : x < y <=> f[x] < f[y]
  BY <1>3 DEF Paired
<1>6. \A y \in T : \E x \in S : f[x] = y
  BY <1>3 DEF Paired
<1>7. ASSUME NEW x \in S, NEW y \in S, f[x] = f[y] PROVE x = y
  <2>1. x \in Nat /\ y \in Nat /\ f[x] \in Nat
    BY <1>1, <1>2, <1>4
  <2>2. ~(x < y) /\ ~(y < x)
    BY <1>5, <1>7, <2>1
  <2> QED
    BY <2>1, <2>2
<1>8. f \in Bijection(S, T)
  BY <1>4, <1>6, <1>7 DEF Bijection, Injection, Surjection, IsInjective
<1>9. ASSUME NEW x \in S PROVE Below(T, f[x]) = Below(S, x)
  <2> DEFINE A == {y \in S : y < x}
             B == {y \in T : y < f[x]}
             g == [y \in A |-> f[y]]
  <2>1. g \in [A -> B]
    BY <1>4, <1>5
  <2>2. \A y \in B : \E z \in A : g[z] = y
    BY <1>5, <1>6
  <2>3. \A y, z \in A : g[y] = g[z] => y = z
    BY <1>7
  <2>4. g \in Bijection(A, B)
    BY <2>1, <2>2, <2>3 DEF Bijection, Injection, Surjection, IsInjective
  <2>5. IsFiniteSet(A)
    BY <1>1, BeforeFinite, IntervalsFinite
  <2>6. Cardinality(A) = Cardinality(B)
    <3> HIDE DEF A, B, g
    <3> QED
      BY <2>4, <2>5, FS_Bijection DEF ExistsBijection
  <2> QED
    BY <2>6 DEF Below
<1>10. Cardinality(S) = Cardinality(T)
  <2>1. IsFiniteSet(S)
    BY IntervalsFinite DEF FiniteIndices
  <2> QED
    BY <1>8, <2>1, FS_Bijection DEF ExistsBijection
<1> QED
  BY <1>3, <1>4, <1>9, <1>10

\* The partner of the k-th index is the k-th.
LEMMA PairedInOrder ==
  ASSUME NEW n \in Nat, NEW S \in Intervals(n), NEW m \in Nat, NEW T \in Intervals(m),
         NEW P, Paired(S, T, P)
  PROVE  /\ Cardinality(S) = Cardinality(T)
         /\ \A k \in 1 .. Cardinality(S) :
              \E p \in P : p[1] = InOrder(S)[k] /\ p[2] = InOrder(T)[k]
<1>1. PICK f : f = [x \in S |-> (CHOOSE p \in P : p[1] = x)[2]]
  OBVIOUS
<1>2. /\ \A p \in P : f[p[1]] = p[2]
      /\ Cardinality(S) = Cardinality(T)
      /\ \A x \in S : f[x] \in T /\ Below(T, f[x]) = Below(S, x)
  BY <1>1, PairedFunction
<1>3. IsInOrder(InOrder(S), S) /\ IsInOrder(InOrder(T), T)
  BY InOrderIs
<1>4. ASSUME NEW k \in 1 .. Cardinality(S)
      PROVE  \E p \in P : p[1] = InOrder(S)[k] /\ p[2] = InOrder(T)[k]
  <2>1. PICK x \in S : x = InOrder(S)[k] /\ Below(S, x) = k - 1
    BY <1>3 DEF IsInOrder
  <2>2. PICK y \in T : y = InOrder(T)[k] /\ Below(T, y) = k - 1
    BY <1>2, <1>3 DEF IsInOrder
  <2>3. f[x] \in T /\ Below(T, f[x]) = Below(T, y)
    BY <1>2, <2>1, <2>2
  <2>4. f[x] = y
    BY <2>3, RankOne
  <2>5. PICK p \in P : p[1] = x
    BY DEF Paired
  <2> QED
    BY <1>2, <2>1, <2>2, <2>4, <2>5
<1> QED
  BY <1>2, <1>4

\* What remains of two lists is the same when it is paired in order.
LEMMA RemainingSame ==
  ASSUME NEW l, NEW n, Len(l) \in Nat, Len(n) \in Nat, NEW D, NEW I, NEW P,
         Paired(Indexes(l) \ D, Indexes(n) \ I, P),
         \A p \in P : RowAt(l, p[1]) = RowAt(n, p[2])
  PROVE  Remaining(l, D) = Remaining(n, I)
<1>1. PICK S \in Intervals(Len(l)) : S = Indexes(l) \ D
  BY DEF Indexes, Intervals
<1>2. PICK T \in Intervals(Len(n)) : T = Indexes(n) \ I
  BY DEF Indexes, Intervals
<1>3. Paired(S, T, P)
  BY <1>1, <1>2
<1>4. PICK s, t : s = InOrder(S) /\ t = InOrder(T)
  OBVIOUS
<1>5. DOMAIN s = 1 .. Cardinality(S) /\ DOMAIN t = 1 .. Cardinality(T)
  BY <1>4, InOrderIs DEF IsInOrder
<1>6. Cardinality(S) = Cardinality(T)
  BY <1>3, PairedInOrder
<1>7. \A k \in 1 .. Cardinality(S) : \E p \in P : p[1] = s[k] /\ p[2] = t[k]
  BY <1>3, <1>4, PairedInOrder
<1>8. \A k \in DOMAIN s : RowAt(l, s[k]) = RowAt(n, t[k])
  BY <1>5, <1>7
<1>9. DOMAIN s = DOMAIN t
  BY <1>5, <1>6
<1>10. Remaining(l, D) = [k \in DOMAIN s |-> RowAt(l, s[k])]
  BY <1>1, <1>4 DEF Remaining
<1>11. Remaining(n, I) = [k \in DOMAIN t |-> RowAt(n, t[k])]
  BY <1>2, <1>4 DEF Remaining
<1> QED
  BY <1>8, <1>9, <1>10, <1>11

-----------------------------------------------------------------------------
(* The rows found both times                                               *)

\* The lists a query found.
Found == prev_rows \in Seq(Nat \cup {npos}) /\ next_rows \in Seq(Nat)

LEMMA KeptCounts ==
  ASSUME Found, NEW kept \in SameRows
  PROVE  /\ kept[1] \in Intervals(Len(prev_rows)) /\ kept[2] \in Intervals(Len(next_rows))
         /\ kept[1] \cap Deleted = {}
         /\ \A row \in (RowsOf(prev_rows) \ {npos}) \cup RowsOf(next_rows) :
              Cardinality(kept[1] \cap Positions(prev_rows, row))
                = Cardinality(kept[2] \cap Positions(next_rows, row))
<1>1. kept \in (SUBSET (Indexes(prev_rows) \ Deleted)) \X (SUBSET Indexes(next_rows))
  BY DEF SameRows
<1>2. kept[1] \in SUBSET (Indexes(prev_rows) \ Deleted) /\ kept[2] \in SUBSET Indexes(next_rows)
  BY <1>1
<1>3. kept[1] \in Intervals(Len(prev_rows)) /\ kept[2] \in Intervals(Len(next_rows))
      /\ kept[1] \cap Deleted = {}
  BY <1>2 DEF Intervals, Indexes
<1>4. ASSUME NEW row \in (RowsOf(prev_rows) \ {npos}) \cup RowsOf(next_rows)
      PROVE  Cardinality(kept[1] \cap Positions(prev_rows, row))
               = Cardinality(kept[2] \cap Positions(next_rows, row))
  BY <1>4 DEF SameRows
<1> QED
  BY <1>3, <1>4

\* The positions of one row in a set of them.
LEMMA PositionsOf ==
  ASSUME Found, NEW kept \in SameRows, NEW row
  PROVE  /\ kept[1] \cap Positions(prev_rows, row) \in Intervals(Len(prev_rows))
         /\ kept[2] \cap Positions(next_rows, row) \in Intervals(Len(next_rows))
         /\ \A i \in kept[1] : i \in Positions(prev_rows, row) <=> RowAt(prev_rows, i) = row
         /\ \A i \in kept[2] : i \in Positions(next_rows, row) <=> RowAt(next_rows, i) = row
<1>1. kept[1] \in Intervals(Len(prev_rows)) /\ kept[2] \in Intervals(Len(next_rows))
  BY KeptCounts
<1> QED
  BY <1>1 DEF Intervals, Positions, Indexes

LEMMA OldIndexIs ==
  ASSUME Found, NEW kept \in SameRows, NEW tv \in kept[2], NEW row, row = RowAt(next_rows, tv)
  PROVE  /\ OldIndex(kept, tv) \in kept[1] /\ RowAt(prev_rows, OldIndex(kept, tv)) = row
         /\ Below(kept[1] \cap Positions(prev_rows, row), OldIndex(kept, tv))
              = Below(kept[2] \cap Positions(next_rows, row), tv)
<1>1. PICK p \in Intervals(Len(prev_rows)) : p = kept[1] \cap Positions(prev_rows, row)
  BY PositionsOf
<1>2. PICK q \in Intervals(Len(next_rows)) : q = kept[2] \cap Positions(next_rows, row)
  BY PositionsOf
<1>3. tv \in q /\ row \in RowsOf(next_rows)
  <2>1. tv \in Indexes(next_rows)
    BY KeptCounts DEF Intervals, Indexes
  <2> QED
    BY <1>2, <2>1, PositionsOf DEF RowsOf
<1>4. Cardinality(p) = Cardinality(q)
  BY <1>1, <1>2, <1>3, KeptCounts
<1>5. Len(prev_rows) \in Nat /\ Len(next_rows) \in Nat
  BY DEF Found
<1>6. PICK r \in Nat : r = Below(q, tv) /\ r < Cardinality(p)
  BY <1>3, <1>4, <1>5, RankOne
<1>7. \E i \in p : Below(p, i) = r
  BY <1>5, <1>6, RankExists
<1>8. OldIndex(kept, tv) = CHOOSE i \in p : Below(p, i) = r
  BY <1>1, <1>2, <1>6 DEF OldIndex
<1>9. OldIndex(kept, tv) \in p /\ Below(p, OldIndex(kept, tv)) = r
  BY <1>7, <1>8
<1>10. OldIndex(kept, tv) \in kept[1] /\ RowAt(prev_rows, OldIndex(kept, tv)) = row
  BY <1>1, <1>9, PositionsOf
<1> QED
  BY <1>1, <1>2, <1>6, <1>9, <1>10

LEMMA OldIndexOne ==
  ASSUME Found, NEW kept \in SameRows, NEW x \in kept[2], NEW y \in kept[2],
         OldIndex(kept, x) = OldIndex(kept, y)
  PROVE  x = y
<1>1. PICK row : row = RowAt(next_rows, x)
  OBVIOUS
<1>2. RowAt(next_rows, y) = row
  BY <1>1, OldIndexIs
<1>3. PICK q \in Intervals(Len(next_rows)) : q = kept[2] \cap Positions(next_rows, row)
  BY PositionsOf
<1>4. x \in q /\ y \in q
  BY <1>1, <1>2, <1>3, PositionsOf
<1>5. Below(q, x) = Below(q, y)
  <2>1. PICK p : p = kept[1] \cap Positions(prev_rows, row)
    OBVIOUS
  <2>2. Below(p, OldIndex(kept, x)) = Below(q, x)
    BY <1>1, <1>3, <2>1, OldIndexIs
  <2>3. Below(p, OldIndex(kept, y)) = Below(q, y)
    BY <1>2, <1>3, <2>1, OldIndexIs
  <2> QED
    BY <2>2, <2>3
<1>6. Len(next_rows) \in Nat
  BY DEF Found
<1> QED
  BY <1>4, <1>5, <1>6, RankOne

LEMMA OldIndexOnto ==
  ASSUME Found, NEW kept \in SameRows, NEW i \in kept[1]
  PROVE  \E tv \in kept[2] : OldIndex(kept, tv) = i
<1>1. PICK row : row = RowAt(prev_rows, i)
  OBVIOUS
<1>2. PICK p \in Intervals(Len(prev_rows)) : p = kept[1] \cap Positions(prev_rows, row)
  BY PositionsOf
<1>3. PICK q \in Intervals(Len(next_rows)) : q = kept[2] \cap Positions(next_rows, row)
  BY PositionsOf
<1>4. i \in p /\ row \in RowsOf(prev_rows) \ {npos}
  <2>1. i \in Indexes(prev_rows) /\ i \notin Deleted
    BY KeptCounts DEF Intervals, Indexes
  <2> QED
    BY <1>1, <1>2, <2>1, PositionsOf DEF RowsOf, Deleted, Positions
<1>5. Cardinality(p) = Cardinality(q)
  BY <1>2, <1>3, <1>4, KeptCounts
<1>6. Len(prev_rows) \in Nat /\ Len(next_rows) \in Nat
  BY DEF Found
<1>7. PICK r \in Nat : r = Below(p, i) /\ r < Cardinality(q)
  BY <1>4, <1>5, <1>6, RankOne
<1>8. PICK tv \in q : Below(q, tv) = r
  BY <1>6, <1>7, RankExists
<1>9. tv \in kept[2] /\ RowAt(next_rows, tv) = row
  BY <1>3, <1>8, PositionsOf
<1>10. PICK o : o = OldIndex(kept, tv)
  OBVIOUS
<1>11. o \in kept[1] /\ RowAt(prev_rows, o) = row /\ Below(p, o) = r
  BY <1>2, <1>3, <1>8, <1>9, <1>10, OldIndexIs
<1>12. o \in p
  BY <1>2, <1>11, PositionsOf
<1> QED
  BY <1>4, <1>6, <1>7, <1>9, <1>10, <1>11, <1>12, RankOne

\* What new_rows tells: in the order of the list now, each with a place of its
\* own in the list before, of the same row.
KeptRows(new, l, n) ==
  /\ Len(new) \in Nat /\ DOMAIN new = 1 .. Len(new)
  /\ \A k \in 1 .. Len(new) :
       /\ new[k].tv_index \in Indexes(n) /\ new[k].prev_tv_index \in Indexes(l)
       /\ RowAt(n, new[k].tv_index) = new[k].row_index
       /\ RowAt(l, new[k].prev_tv_index) = new[k].row_index
  /\ \A j, k \in 1 .. Len(new) : j < k => new[j].tv_index < new[k].tv_index
  /\ \A j, k \in 1 .. Len(new) : new[j].prev_tv_index = new[k].prev_tv_index => j = k

OldOf(new) == {new[k].prev_tv_index : k \in 1 .. Len(new)}
NewOf(new) == {new[k].tv_index : k \in 1 .. Len(new)}

IsNewRows(new, kept) ==
  /\ KeptRows(new, prev_rows, next_rows)
  /\ OldOf(new) = kept[1] /\ NewOf(new) = kept[2]
  /\ \A k \in 1 .. Len(new) :
       new[k].shifted_tv_index = unshift(Deleted, new[k].prev_tv_index)

LEMMA NewRowsKept ==
  ASSUME Found, NEW kept \in SameRows
  PROVE  IsNewRows(NewRows(kept), kept)
<1>0. kept[1] \in Intervals(Len(prev_rows)) /\ kept[2] \in Intervals(Len(next_rows))
  BY KeptCounts
<1>1. Len(prev_rows) \in Nat /\ Len(next_rows) \in Nat
  BY DEF Found
<1>2. PICK s : s = InOrder(kept[2]) /\ IsInOrder(s, kept[2])
  BY <1>0, <1>1, InOrderIs
<1>3. PICK N \in Nat : N = Cardinality(kept[2])
  BY <1>2 DEF IsInOrder
<1>4. PICK new : new = NewRows(kept) /\ new = [k \in 1 .. N |-> RowInfo(kept, s[k])]
  BY <1>2, <1>3 DEF NewRows
<1>5. Len(new) = N /\ DOMAIN new = 1 .. N
  <2>1. PICK V : V = {RowInfo(kept, s[k]) : k \in 1 .. N}
    OBVIOUS
  <2>2. new \in [1 .. N -> V]
    BY <1>4, <2>1
  <2> QED
    BY <2>2, SeqFunction
<1>6. \A k \in 1 .. N : s[k] \in kept[2]
  BY <1>2, <1>3 DEF IsInOrder
<1>7. \A k \in 1 .. N :
        /\ new[k].tv_index = s[k] /\ new[k].prev_tv_index = OldIndex(kept, s[k])
        /\ new[k].row_index = RowAt(next_rows, s[k])
        /\ new[k].shifted_tv_index = unshift(Deleted, OldIndex(kept, s[k]))
  BY <1>4 DEF RowInfo
<1>8. \A k \in 1 .. N :
        OldIndex(kept, s[k]) \in kept[1]
        /\ RowAt(prev_rows, OldIndex(kept, s[k])) = RowAt(next_rows, s[k])
  BY <1>6, OldIndexIs
<1>9. \A k \in 1 .. N : s[k] \in Indexes(next_rows) /\ OldIndex(kept, s[k]) \in Indexes(prev_rows)
  BY <1>0, <1>6, <1>8 DEF Intervals, Indexes
<1>10. \A j, k \in 1 .. N : j < k => s[j] < s[k]
  BY <1>2, <1>3 DEF IsInOrder
<1>11. ASSUME NEW j \in 1 .. N, NEW k \in 1 .. N, OldIndex(kept, s[j]) = OldIndex(kept, s[k])
       PROVE  j = k
  <2>1. s[j] = s[k]
    BY <1>6, <1>11, OldIndexOne
  <2>2. s[j] \in Nat
    BY <1>9, <1>1 DEF Indexes
  <2> QED
    BY <1>10, <2>1, <2>2
<1>12. KeptRows(new, prev_rows, next_rows)
  BY <1>5, <1>7, <1>8, <1>9, <1>10, <1>11 DEF KeptRows
<1>13. NewOf(new) = kept[2]
  <2>1. \A i \in kept[2] : \E k \in 1 .. N : s[k] = i
    BY <1>2, <1>3 DEF IsInOrder
  <2>2. NewOf(new) = {new[k].tv_index : k \in 1 .. N}
    BY <1>5 DEF NewOf
  <2>3. \A i : i \in NewOf(new) <=> \E k \in 1 .. N : s[k] = i
    BY <1>7, <2>2
  <2> QED
    BY <1>6, <2>1, <2>3
<1>14. OldOf(new) = kept[1]
  <2>1. ASSUME NEW i \in kept[1] PROVE \E k \in 1 .. N : OldIndex(kept, s[k]) = i
    <3>1. PICK tv \in kept[2] : OldIndex(kept, tv) = i
      BY OldIndexOnto
    <3> QED
      BY <1>2, <1>3, <3>1 DEF IsInOrder
  <2>2. OldOf(new) = {new[k].prev_tv_index : k \in 1 .. N}
    BY <1>5 DEF OldOf
  <2>3. \A i : i \in OldOf(new) <=> \E k \in 1 .. N : OldIndex(kept, s[k]) = i
    BY <1>7, <2>2
  <2> QED
    BY <1>8, <2>1, <2>3
<1> QED
  BY <1>4, <1>5, <1>7, <1>12, <1>13, <1>14 DEF IsNewRows

-----------------------------------------------------------------------------
(* The walk over the rows in table order                                   *)

WalkStates ==
  [expected : Int, moves : SUBSET Moves, removed : SUBSET Nat, insertions : SUBSET Nat]

CalcExpected(s, row) ==
  row.tv_index - count(s.insertions, 0, row.tv_index) + count(s.removed, 0, row.prev_tv_index)

\* t is s after a row that is where it was, and after one that moved.
StaysAt(t, s, row) ==
  /\ t.expected = row.shifted_tv_index + 1
  /\ t.moves = s.moves /\ t.removed = s.removed /\ t.insertions = s.insertions
HasMoved(t, s, row) ==
  /\ t.expected = s.expected
  /\ t.moves = s.moves \cup {[from |-> row.prev_tv_index, to |-> row.tv_index]}
  /\ t.insertions = s.insertions \cup {row.tv_index}
  /\ t.removed = s.removed \cup {row.prev_tv_index}
MayStay(s, row) ==
  \/ row.shifted_tv_index = s.expected
  \/ row.row_index \notin move_candidates[1]
  \/ row.shifted_tv_index = CalcExpected(s, row)

WalkedTo(t, s, row) ==
  t \in WalkStates /\ ((StaysAt(t, s, row) /\ MayStay(s, row)) \/ HasMoved(t, s, row))

LEMMA WalkIs ==
  ASSUME NEW s \in WalkStates, NEW row, row.shifted_tv_index \in Int,
         row.tv_index \in Nat, row.prev_tv_index \in Nat
  PROVE  WalkedTo(Walk(s, row), s, row)
<1>1. PICK e, c, t, m :
        /\ e = row.shifted_tv_index + 1 /\ c = CalcExpected(s, row) /\ t = Walk(s, row)
        /\ m = [from |-> row.prev_tv_index, to |-> row.tv_index]
  OBVIOUS
<1>2. /\ e \in Int /\ m \in Moves
      /\ s.expected \in Int /\ s.moves \in SUBSET Moves /\ s.removed \in SUBSET Nat
      /\ s.insertions \in SUBSET Nat
  BY <1>1 DEF WalkStates, Moves
<1>3. s = [expected |-> s.expected, moves |-> s.moves, removed |-> s.removed,
           insertions |-> s.insertions]
  BY DEF WalkStates
<1>4. t = IF row.shifted_tv_index = s.expected THEN [s EXCEPT !.expected = @ + 1]
          ELSE IF row.row_index \notin move_candidates[1] THEN [s EXCEPT !.expected = e]
          ELSE IF row.shifted_tv_index = c THEN [s EXCEPT !.expected = c + 1]
          ELSE [s EXCEPT !.moves = @ \cup {m}, !.insertions = @ \cup {row.tv_index},
                         !.removed = @ \cup {row.prev_tv_index}]
  BY <1>1 DEF Walk, CalcExpected
<1>5. CASE MayStay(s, row)
  <2>1. t = [expected |-> e, moves |-> s.moves, removed |-> s.removed,
             insertions |-> s.insertions]
    BY <1>1, <1>3, <1>4, <1>5 DEF MayStay
  <2> QED
    BY <1>1, <1>2, <1>5, <2>1 DEF WalkedTo, StaysAt, WalkStates
<1>6. CASE ~MayStay(s, row)
  <2>1. t = [expected |-> s.expected, moves |-> s.moves \cup {m},
             removed |-> s.removed \cup {row.prev_tv_index},
             insertions |-> s.insertions \cup {row.tv_index}]
    BY <1>1, <1>3, <1>4, <1>6 DEF MayStay
  <2> QED
    BY <1>1, <1>2, <2>1 DEF WalkedTo, HasMoved, WalkStates
<1> QED
  BY <1>5, <1>6

WalkRow(new, k) ==
  /\ new[k].shifted_tv_index \in Int /\ new[k].tv_index \in Nat
  /\ new[k].prev_tv_index \in Nat

LEMMA WalkedSteps ==
  ASSUME NEW new, Len(new) \in Nat, \A k \in 1 .. Len(new) : WalkRow(new, k),
         NEW first \in WalkStates
  PROVE  /\ Walked(new, first)[0] = first
         /\ \A k \in 1 .. Len(new) :
              /\ Walked(new, first)[k] = Walk(Walked(new, first)[k - 1], new[k])
              /\ Walked(new, first)[k] \in WalkStates
<1> DEFINE N == Len(new)
           V == WalkStates
           F == [p \in V \X (1 .. N) |-> Walk(p[1], new[p[2]])]
           Rec(f) == f = [k \in 0 .. N |-> IF k = 0 THEN first ELSE Walk(f[k - 1], new[k])]
           s == CHOOSE f : Rec(f)
<1>1. \A d \in V : \A k \in 1 .. N : Walk(d, new[k]) \in V
  BY WalkIs DEF WalkRow, WalkedTo
<1>2. F \in [V \X (1 .. N) -> V]
  <2> HIDE DEF V, N
  <2> QED
    BY <1>1
<1>3. Recursive(N, V, first, F) # {}
  <2>1. N \in Nat /\ first \in V
    OBVIOUS
  <2> HIDE DEF F, V, N
  <2> QED
    BY <2>1, <1>2, Recursion, Zenon
<1>4. PICK f \in [0 .. N -> V] :
             f[0] = first /\ \A k \in 1 .. N : f[k] = F[<<f[k - 1], k>>]
  <2> HIDE DEF F, V, N
  <2> QED
    BY <1>3 DEF Recursive
<1>5. Rec(f)
  <2>1. ASSUME NEW k \in 1 .. N
        PROVE  f[k] = Walk(f[k - 1], new[k])
    <3>1. k - 1 \in 0 .. N
      OBVIOUS
    <3>2. <<f[k - 1], k>> \in V \X (1 .. N)
      BY <3>1
    <3> HIDE DEF V, N
    <3> QED
      BY <1>4, <3>2
  <2> HIDE DEF V, F
  <2> QED
    BY <1>4, <2>1
<1>6. Rec(s)
  <2> HIDE DEF Rec
  <2> QED
    BY <1>5
<1>7. s[0] = first /\ \A k \in 1 .. N : s[k] = Walk(s[k - 1], new[k])
  <2>0. N \in Nat
    OBVIOUS
  <2> HIDE DEF s, N
  <2>1. s = [k \in 0 .. N |-> IF k = 0 THEN first ELSE Walk(s[k - 1], new[k])]
    BY <1>6
  <2>2. ASSUME NEW k \in 0 .. N
        PROVE  s[k] = IF k = 0 THEN first ELSE Walk(s[k - 1], new[k])
    BY <2>1, Zenon
  <2>3. 0 \in 0 .. N /\ \A k \in 1 .. N : k \in 0 .. N /\ k # 0
    BY <2>0
  <2> QED
    BY <2>2, <2>3
<1>8. Walked(new, first) = s
  BY DEF Walked
<1>9. \A k \in 0 .. N : s[k] \in V
  <2> DEFINE T == {k \in 0 .. N : s[k] \in V}
  <2>1. 0 \in T
    BY <1>7
  <2>2. ASSUME NEW k \in 0 .. N - 1, k \in T PROVE k + 1 \in T
    <3>1. k + 1 \in 1 .. N /\ (k + 1) - 1 = k /\ k + 1 \in 0 .. N
      OBVIOUS
    <3> HIDE DEF s, V
    <3>2. s[k] \in V
      BY <2>2
    <3>3. s[k + 1] = Walk(s[k], new[k + 1])
      BY <1>7, <3>1
    <3> QED
      BY <1>1, <3>1, <3>2, <3>3
  <2>3. N \in Nat
    OBVIOUS
  <2>4. \A k \in 0 .. N : k \in T
    <3> HIDE DEF T, N
    <3> QED
      BY <2>1, <2>2, <2>3, Induction
  <2> QED
    BY <2>4
<1> HIDE DEF s, V
<1>10. \A k \in 1 .. N : k \in 0 .. N
  OBVIOUS
<1> QED
  BY <1>7, <1>8, <1>9, <1>10 DEF V

\* After k rows of which those of U stayed: the others are told as moved, and
\* the rows that stayed are in order, all rows still to come behind them.
WalkInv(new, kept, k, U, s) ==
  /\ U \in SUBSET (1 .. k)
  /\ s.insertions = OnlyNow(kept) \cup {new[j].tv_index : j \in (1 .. k) \ U}
  /\ s.removed = NoLonger(kept) \cup {new[j].prev_tv_index : j \in (1 .. k) \ U}
  /\ s.moves = {[from |-> new[j].prev_tv_index, to |-> new[j].tv_index] : j \in (1 .. k) \ U}
  /\ \A u \in U : \A j \in 1 .. Len(new) :
       u < j /\ (j \in U \/ k < j) => new[u].prev_tv_index < new[j].prev_tv_index
  /\ \/ U = {} /\ s.expected = 0
     \/ \E u \in U : s.expected = new[u].shifted_tv_index + 1 /\ \A v \in U : v <= u

\* No row still to come was before row k.
NoneBefore(new, k) ==
  \A j \in 1 .. Len(new) : k < j => new[k].prev_tv_index < new[j].prev_tv_index

LEMMA NewRowsTypes ==
  ASSUME Found, NEW kept \in SameRows, NEW new, IsNewRows(new, kept)
  PROVE  /\ Len(new) \in Nat /\ Deleted \in FiniteIndices
         /\ \A k \in 1 .. Len(new) :
              /\ WalkRow(new, k)
              /\ new[k].prev_tv_index \in Nat \ Deleted
              /\ new[k].prev_tv_index < Len(prev_rows) /\ new[k].tv_index < Len(next_rows)
              /\ new[k].row_index \in Nat
              /\ new[k].shifted_tv_index = unshift(Deleted, new[k].prev_tv_index)
<1>1. /\ Len(prev_rows) \in Nat /\ Len(next_rows) \in Nat
      /\ \A i \in 1 .. Len(next_rows) : next_rows[i] \in Nat
  BY DEF Found
<1>2. Deleted \in Intervals(Len(prev_rows))
  BY DEF Deleted, Positions, Indexes, Intervals
<1>3. Deleted \in FiniteIndices
  BY <1>1, <1>2, IntervalsFinite
<1>4. KeptRows(new, prev_rows, next_rows) /\ OldOf(new) = kept[1]
  BY DEF IsNewRows
<1>5. ASSUME NEW k \in 1 .. Len(new)
      PROVE  /\ WalkRow(new, k)
             /\ new[k].prev_tv_index \in Nat \ Deleted
             /\ new[k].prev_tv_index < Len(prev_rows) /\ new[k].tv_index < Len(next_rows)
             /\ new[k].row_index \in Nat
             /\ new[k].shifted_tv_index = unshift(Deleted, new[k].prev_tv_index)
  <2>1. new[k].prev_tv_index \in Indexes(prev_rows) /\ new[k].tv_index \in Indexes(next_rows)
        /\ RowAt(next_rows, new[k].tv_index) = new[k].row_index
    BY <1>4 DEF KeptRows
  <2>2. /\ new[k].prev_tv_index \in Nat /\ new[k].prev_tv_index < Len(prev_rows)
        /\ new[k].tv_index \in Nat /\ new[k].tv_index < Len(next_rows)
    BY <1>1, <2>1 DEF Indexes
  <2>3. new[k].row_index \in Nat
    BY <1>1, <2>1, <2>2 DEF RowAt
  <2>4. new[k].shifted_tv_index = unshift(Deleted, new[k].prev_tv_index)
    BY DEF IsNewRows
  <2>5. new[k].shifted_tv_index \in Nat
    BY <1>3, <2>2, <2>4, UnshiftNat
  <2>6. new[k].prev_tv_index \notin Deleted
    BY <1>4, KeptCounts DEF OldOf
  <2> QED
    BY <2>2, <2>3, <2>4, <2>5, <2>6 DEF WalkRow
<1> QED
  BY <1>3, <1>4, <1>5 DEF KeptRows

\* A row that cannot have moved.
LEMMA NotMoved ==
  ASSUME Found, NEW kept \in SameRows, NEW new, IsNewRows(new, kept), ~Swaps,
         Ascending(next_rows), FoundInOrder(prev_rows, move_candidates[1]),
         NEW k \in 1 .. Len(new), new[k].row_index \notin move_candidates[1]
  PROVE  NoneBefore(new, k)
<1>1. KeptRows(new, prev_rows, next_rows)
  BY DEF IsNewRows
<1>2. SUFFICES ASSUME NEW j \in 1 .. Len(new), k < j
               PROVE  new[k].prev_tv_index < new[j].prev_tv_index
  BY DEF NoneBefore
<1>3. PICK p, q, x, y :
        p = new[k].prev_tv_index /\ q = new[j].prev_tv_index
        /\ x = new[k].row_index /\ y = new[j].row_index
  OBVIOUS
<1>4. /\ Len(new) \in Nat /\ p \in Nat /\ q \in Nat /\ x \in Nat /\ y \in Nat
      /\ p < Len(prev_rows) /\ q < Len(prev_rows)
  BY <1>3, NewRowsTypes
<1>5. prev_rows[p + 1] = x /\ prev_rows[q + 1] = y
  BY <1>1, <1>3 DEF KeptRows, RowAt
<1>6. p # q
  BY <1>1, <1>2, <1>3, <1>4 DEF KeptRows
<1>7. x < y
  <2>1. PICK t, u : t = new[k].tv_index /\ u = new[j].tv_index
    OBVIOUS
  <2>2. t < u /\ next_rows[t + 1] = x /\ next_rows[u + 1] = y
    BY <1>1, <1>2, <1>3, <2>1 DEF KeptRows, RowAt
  <2>3. t \in Nat /\ u \in Nat /\ t < Len(next_rows) /\ u < Len(next_rows)
        /\ DOMAIN next_rows = 1 .. Len(next_rows)
    BY <2>1, NewRowsTypes DEF WalkRow, Found
  <2>4. t + 1 \in DOMAIN next_rows /\ u + 1 \in DOMAIN next_rows /\ t + 1 < u + 1
    BY <2>2, <2>3
  <2> QED
    BY <2>2, <2>4 DEF Ascending
<1>8. CASE q < p
  <2>1. p + 1 \in DOMAIN prev_rows /\ q + 1 \in 1 .. (p + 1) - 1
    BY <1>4, <1>8 DEF Found
  <2>2. prev_rows[p + 1] \notin move_candidates[1] \cup {npos} /\ prev_rows[q + 1] # npos
    BY <1>3, <1>4, <1>5 DEF npos
  <2>3. prev_rows[p + 1] - prev_rows[q + 1] >= (p + 1) - (q + 1)
    BY <2>1, <2>2 DEF FoundInOrder
  <2> QED
    BY <1>4, <1>5, <1>7, <1>8, <2>3
<1> QED
  BY <1>3, <1>4, <1>6, <1>8

\* A row where the walk expected one.
LEMMA ExpectedNow ==
  ASSUME Found, NEW kept \in SameRows, NEW new, IsNewRows(new, kept),
         NEW k \in Nat, k + 1 \in 1 .. Len(new), NEW U, NEW s, WalkInv(new, kept, k, U, s),
         new[k + 1].shifted_tv_index = s.expected
  PROVE  NoneBefore(new, k + 1)
<1>1. KeptRows(new, prev_rows, next_rows)
  BY DEF IsNewRows
<1>2. SUFFICES ASSUME NEW j \in 1 .. Len(new), k + 1 < j
               PROVE  new[k + 1].prev_tv_index < new[j].prev_tv_index
  BY DEF NoneBefore
<1>3. PICK p, q : p = new[k + 1].prev_tv_index /\ q = new[j].prev_tv_index
  OBVIOUS
<1>4. /\ Len(new) \in Nat /\ p \in Nat \ Deleted /\ q \in Nat \ Deleted
      /\ Deleted \in FiniteIndices /\ s.expected = unshift(Deleted, p)
  BY <1>3, NewRowsTypes
<1>5. p # q
  BY <1>1, <1>2, <1>3, <1>4 DEF KeptRows
<1>6. unshift(Deleted, p) \in Nat /\ unshift(Deleted, q) \in Nat
  BY <1>4, UnshiftNat
<1>7. CASE q < p
  <2>1. unshift(Deleted, q) < unshift(Deleted, p)
    BY <1>4, <1>7, UnshiftLess
  <2>2. CASE U = {} /\ s.expected = 0
    BY <1>4, <1>6, <2>1, <2>2
  <2>3. CASE \E u \in U : s.expected = new[u].shifted_tv_index + 1 /\ \A v \in U : v <= u
    <3>1. PICK u \in U : s.expected = new[u].shifted_tv_index + 1
      BY <2>3
    <3>2. u \in 1 .. k
      BY DEF WalkInv
    <3>3. u \in 1 .. Len(new) /\ u < j /\ k < j
      BY <1>2, <1>4, <3>2
    <3>4. PICK o : o = new[u].prev_tv_index
      OBVIOUS
    <3>5. o \in Nat \ Deleted /\ new[u].shifted_tv_index = unshift(Deleted, o)
      BY <3>3, <3>4, NewRowsTypes
    <3>6. o < q
      BY <1>3, <3>3, <3>4 DEF WalkInv
    <3>7. unshift(Deleted, o) < unshift(Deleted, q)
      BY <1>4, <3>5, <3>6, UnshiftLess
    <3>8. unshift(Deleted, o) \in Nat
      BY <1>4, <3>5, UnshiftNat
    <3> QED
      BY <1>4, <1>6, <2>1, <3>1, <3>5, <3>7, <3>8
  <2> QED
    BY <2>2, <2>3 DEF WalkInv
<1> QED
  BY <1>3, <1>4, <1>5, <1>7

LEMMA IntervalCount ==
  ASSUME NEW t \in Nat
  PROVE  IsFiniteSet(0 .. t - 1) /\ Cardinality(0 .. t - 1) = t
<1>1. PICK u \in Int : u = t - 1
  OBVIOUS
<1>2. IsFiniteSet(0 .. u) /\ Cardinality(0 .. u) = IF 0 > u THEN 0 ELSE u - 0 + 1
  BY FS_Interval
<1> QED
  BY <1>1, <1>2

\* The rows that stayed, by their places before and now.
OldAmong(new, U) == {new[u].prev_tv_index : u \in U}
NewAmong(new, U) == {new[u].tv_index : u \in U}
Stayed(new, U) == {<<new[u].prev_tv_index, new[u].tv_index>> : u \in U}

LEMMA StayedPaired ==
  ASSUME Found, NEW kept \in SameRows, NEW new, IsNewRows(new, kept),
         NEW k \in 0 .. Len(new), NEW U, NEW s, WalkInv(new, kept, k, U, s)
  PROVE  Paired(OldAmong(new, U), NewAmong(new, U), Stayed(new, U))
<1>1. U \in SUBSET (1 .. Len(new)) /\ Len(new) \in Nat
  BY NewRowsTypes DEF WalkInv
<1>2. \A u \in U : u \in 1 .. Len(new) /\ u \in Nat
                   /\ new[u].prev_tv_index \in Nat /\ new[u].tv_index \in Nat
  BY <1>1, NewRowsTypes DEF WalkRow
<1>3. \A u, v \in U : u < v => /\ new[u].prev_tv_index < new[v].prev_tv_index
                               /\ new[u].tv_index < new[v].tv_index
  BY <1>1 DEF WalkInv, IsNewRows, KeptRows
<1>4. \A u, v \in U : new[u].prev_tv_index < new[v].prev_tv_index
                        <=> new[u].tv_index < new[v].tv_index
  <2> TAKE u, v \in U
  <2>1. u < v \/ v < u \/ u = v
    BY <1>2
  <2> QED
    BY <1>2, <1>3, <2>1
<1>5. \A p, q \in Stayed(new, U) : p[1] < q[1] <=> p[2] < q[2]
  BY <1>4 DEF Stayed
<1>6. \A p \in Stayed(new, U) : p[1] \in OldAmong(new, U) /\ p[2] \in NewAmong(new, U)
  BY DEF Stayed, OldAmong, NewAmong
<1>0. \A u \in U : \E p \in Stayed(new, U) :
                      p[1] = new[u].prev_tv_index /\ p[2] = new[u].tv_index
  <2> TAKE u \in U
  <2>1. PICK p : p = <<new[u].prev_tv_index, new[u].tv_index>>
    OBVIOUS
  <2> QED
    BY <2>1 DEF Stayed
<1>7. \A x \in OldAmong(new, U) : \E p \in Stayed(new, U) : p[1] = x
  BY <1>0 DEF OldAmong
<1>8. \A y \in NewAmong(new, U) : \E p \in Stayed(new, U) : p[2] = y
  BY <1>0 DEF NewAmong
<1> QED
  BY <1>5, <1>6, <1>7, <1>8 DEF Paired

LEMMA InsertedBefore ==
  ASSUME Found, NEW kept \in SameRows, NEW new, IsNewRows(new, kept),
         NEW k \in Nat, k + 1 \in 1 .. Len(new), NEW U, NEW s, WalkInv(new, kept, k, U, s),
         NEW t, t = new[k + 1].tv_index
  PROVE  /\ NewAmong(new, U) \in Intervals(t) /\ t \in Nat
         /\ count(s.insertions, 0, t) = t - Cardinality(NewAmong(new, U))
<1>1. KeptRows(new, prev_rows, next_rows) /\ NewOf(new) = kept[2]
  BY DEF IsNewRows
<1>2. t \in Nat /\ t < Len(next_rows) /\ Len(next_rows) \in Nat /\ Len(new) \in Nat
  BY NewRowsTypes DEF WalkRow, Found
<1>3. U \in SUBSET (1 .. k)
  BY DEF WalkInv
<1>4. \A j \in 1 .. Len(new) : new[j].tv_index \in Nat
  BY NewRowsTypes DEF WalkRow
<1>5. \A j \in 1 .. Len(new) : new[j].tv_index < t <=> j \in 1 .. k
  <2> TAKE j \in 1 .. Len(new)
  <2>1. j \in 1 .. k <=> j < k + 1
    OBVIOUS
  <2>2. j < k + 1 => new[j].tv_index < t
    BY <1>1 DEF KeptRows
  <2>3. k + 1 < j => t < new[j].tv_index
    BY <1>1 DEF KeptRows
  <2>4. j < k + 1 \/ k + 1 < j \/ j = k + 1
    OBVIOUS
  <2> QED
    BY <1>2, <1>4, <2>1, <2>2, <2>3, <2>4
<1>6. \A i, j \in 1 .. Len(new) : new[i].tv_index = new[j].tv_index => i = j
  <2> TAKE i, j \in 1 .. Len(new)
  <2>1. i < j \/ j < i \/ i = j
    OBVIOUS
  <2> QED
    BY <1>1, <1>4, <2>1 DEF KeptRows
<1>7. PICK X : X = NewAmong(new, U)
  OBVIOUS
<1>8. \A u \in U : u \in 1 .. Len(new) /\ u \in 1 .. k
  BY <1>2, <1>3
<1>9. X \in Intervals(t)
  <2>1. \A u \in U : new[u].tv_index \in Nat /\ new[u].tv_index < t
    BY <1>4, <1>5, <1>8
  <2> QED
    BY <1>2, <1>7, <2>1 DEF NewAmong, Intervals
<1>10. ASSUME NEW x \in 0 .. t - 1
       PROVE  x \in s.insertions <=> x \notin X
  <2>1. x \in Nat /\ x < t /\ x \in Indexes(next_rows)
    BY <1>2 DEF Indexes
  <2>2. CASE x \in NewOf(new)
    <3>1. PICK j \in 1 .. Len(new) : x = new[j].tv_index
      BY <2>2 DEF NewOf
    <3>2. j \in 1 .. k
      BY <1>5, <2>1, <3>1
    <3>3. x \in X <=> j \in U
      BY <1>6, <1>7, <1>8, <3>1 DEF NewAmong
    <3>4. x \notin OnlyNow(kept)
      BY <1>1, <2>2 DEF OnlyNow
    <3>5. x \in s.insertions <=> \E i \in (1 .. k) \ U : x = new[i].tv_index
      BY <3>4 DEF WalkInv
    <3>6. \A i \in 1 .. k : i \in 1 .. Len(new)
      BY <1>2
    <3>7. x \in s.insertions <=> j \notin U
      BY <1>6, <3>1, <3>2, <3>5, <3>6
    <3> QED
      BY <3>3, <3>7
  <2>3. CASE x \notin NewOf(new)
    <3>1. x \in OnlyNow(kept)
      BY <1>1, <2>1, <2>3 DEF OnlyNow
    <3>2. x \in s.insertions
      BY <3>1 DEF WalkInv
    <3>3. x \notin X
      BY <1>7, <1>8, <2>3 DEF NewAmong, NewOf
    <3> QED
      BY <3>2, <3>3
  <2> QED
    BY <2>2, <2>3
<1>11. {x \in s.insertions : 0 <= x /\ x < t} = (0 .. t - 1) \ X
  <2>1. s.insertions \subseteq Int
    <3>1. \A j \in (1 .. k) \ U : new[j].tv_index \in Nat
      BY <1>2, <1>4
    <3> QED
      BY <1>2, <3>1 DEF WalkInv, OnlyNow, Indexes
  <2>2. \A x \in s.insertions : 0 <= x /\ x < t <=> x \in 0 .. t - 1
    BY <1>2, <2>1
  <2> QED
    BY <1>10, <2>2
<1>12. Cardinality((0 .. t - 1) \ X) = t - Cardinality(X)
  <2>1. PICK W : W = (0 .. t - 1) \ X
    OBVIOUS
  <2>2. IsFiniteSet(0 .. t - 1) /\ Cardinality(0 .. t - 1) = t
    BY <1>2, IntervalCount
  <2>3. IsFiniteSet(X) /\ IsFiniteSet(W) /\ X \cap W = {} /\ X \cup W = 0 .. t - 1
    BY <1>9, <2>1, <2>2, FS_Subset DEF Intervals
  <2>4. Cardinality(X \cup W) = Cardinality(X) + Cardinality(W) - Cardinality(X \cap W)
    BY <2>3, FS_Union
  <2>5. Cardinality(X) \in Nat /\ Cardinality(W) \in Nat /\ Cardinality(X \cap W) = 0
    BY <2>3, FS_CardinalityType, FS_EmptySet
  <2>6. t = Cardinality(X) + Cardinality(W)
    <3>1. Cardinality(X \cup W) = t
      BY <2>2, <2>3
    <3>2. PICK a, b, c, d : /\ a = Cardinality(X \cup W) /\ b = Cardinality(X)
                            /\ c = Cardinality(W) /\ d = Cardinality(X \cap W)
      OBVIOUS
    <3>3. a = b + c - d /\ b \in Nat /\ c \in Nat /\ d = 0 /\ a = t
      BY <2>4, <2>5, <3>1, <3>2
    <3> QED
      BY ONLY <3>2, <3>3
  <2>7. Cardinality(W) = t - Cardinality(X)
    BY ONLY <1>2, <2>5, <2>6
  <2> QED
    BY <2>1, <2>7
<1> QED
  BY <1>2, <1>7, <1>9, <1>11, <1>12 DEF count

LEMMA DisjointCount ==
  ASSUME NEW S, NEW T, IsFiniteSet(S), IsFiniteSet(T), S \cap T = {}
  PROVE  /\ IsFiniteSet(S \cup T) /\ Cardinality(S) \in Nat /\ Cardinality(T) \in Nat
         /\ Cardinality(S \cup T) = Cardinality(S) + Cardinality(T)
<1>1. PICK a, b, c, d : /\ a = Cardinality(S \cup T) /\ b = Cardinality(S)
                        /\ c = Cardinality(T) /\ d = Cardinality(S \cap T)
  OBVIOUS
<1>2. a = b + c - d /\ IsFiniteSet(S \cup T)
  BY <1>1, FS_Union
<1>3. b \in Nat /\ c \in Nat /\ d = 0
  BY <1>1, FS_CardinalityType, FS_EmptySet
<1>4. a = b + c
  BY ONLY <1>2, <1>3
<1> QED
  BY <1>1, <1>2, <1>3, <1>4

\* A row that is where the insertions and removals so far put it: the rows
\* before it, those that stayed apart, were all deleted or removed.
LEMMA PutThere ==
  ASSUME Found, NEW kept \in SameRows, NEW new, IsNewRows(new, kept),
         NEW k \in Nat, k + 1 \in 1 .. Len(new), NEW U, NEW s, WalkInv(new, kept, k, U, s),
         new[k + 1].shifted_tv_index = CalcExpected(s, new[k + 1])
  PROVE  NoneBefore(new, k + 1)
<1>1. KeptRows(new, prev_rows, next_rows) /\ OldOf(new) = kept[1]
  BY DEF IsNewRows
<1>2. PICK p, t : p = new[k + 1].prev_tv_index /\ t = new[k + 1].tv_index
  OBVIOUS
<1>3. /\ Len(new) \in Nat /\ p \in Nat /\ Deleted \in FiniteIndices
      /\ new[k + 1].shifted_tv_index = unshift(Deleted, p)
      /\ \A j \in 1 .. Len(new) : new[j].prev_tv_index \in Nat \ Deleted
  BY <1>2, NewRowsTypes
<1>4. PICK A, B, X, Y :
        /\ A = {x \in Deleted : x < p}
        /\ B = {x \in s.removed : 0 <= x /\ x < p}
        /\ X = NewAmong(new, U) /\ Y = OldAmong(new, U)
  OBVIOUS
<1>5. \A u \in U : u \in 1 .. Len(new) /\ u \in 1 .. k
  BY <1>3 DEF WalkInv
<1>6. \A i, j \in 1 .. Len(new) : new[i].prev_tv_index = new[j].prev_tv_index => i = j
  BY <1>1 DEF KeptRows
<1>7. Y \in SUBSET (0 .. p - 1)
  <2>1. ASSUME NEW u \in U
        PROVE  new[u].prev_tv_index \in 0 .. p - 1
    <3>1. u < k + 1 /\ u \in 1 .. Len(new) /\ k < k + 1
      BY <1>5
    <3>2. new[u].prev_tv_index < p
      BY <1>2, <3>1 DEF WalkInv
    <3> QED
      BY <1>3, <3>1, <3>2
  <2> QED
    BY <1>4, <2>1 DEF OldAmong
<1>8. A \in SUBSET (0 .. p - 1) /\ B \in SUBSET (0 .. p - 1)
  <2>1. Deleted \subseteq Nat
    BY <1>3 DEF FiniteIndices
  <2>2. s.removed \subseteq Int
    <3>1. \A j \in (1 .. k) \ U : new[j].prev_tv_index \in Nat
      BY <1>3
    <3>2. NoLonger(kept) \subseteq Int
      BY DEF NoLonger, Indexes
    <3> QED
      BY <3>1, <3>2 DEF WalkInv
  <2> QED
    BY <1>3, <1>4, <2>1, <2>2
<1>9. \A x \in s.removed : x \notin Deleted /\ x \notin Y
  <2> TAKE x \in s.removed
  <2>1. CASE x \in NoLonger(kept)
    <3>1. x \notin kept[1] /\ x \notin Deleted
      BY <2>1 DEF NoLonger
    <3> QED
      BY <1>1, <1>4, <1>5, <3>1 DEF OldAmong, OldOf
  <2>2. CASE \E j \in (1 .. k) \ U : x = new[j].prev_tv_index
    <3>1. PICK j \in 1 .. Len(new) : j \notin U /\ x = new[j].prev_tv_index
      BY <1>3, <2>2
    <3>2. x \notin Deleted
      BY <1>3, <3>1
    <3>3. x \notin Y
      BY <1>4, <1>5, <1>6, <3>1 DEF OldAmong
    <3> QED
      BY <3>2, <3>3
  <2> QED
    BY <2>1, <2>2 DEF WalkInv
<1>10. A \cap B = {} /\ (A \cup B) \cap Y = {}
  <2>1. \A y \in Y : y \notin Deleted
    BY <1>3, <1>4, <1>5 DEF OldAmong
  <2> QED
    BY <1>4, <1>9, <2>1
<1>11. PICK a, b, y, w :
         /\ a = Cardinality(A) /\ b = Cardinality(B) /\ y = Cardinality(Y)
         /\ w = Cardinality(A \cup B \cup Y)
  OBVIOUS
<1>12. IsFiniteSet(0 .. p - 1) /\ Cardinality(0 .. p - 1) = p
  BY <1>3, IntervalCount
<1>13. IsFiniteSet(A) /\ IsFiniteSet(B) /\ IsFiniteSet(Y)
  BY <1>7, <1>8, <1>12, FS_Subset
<1>14. a \in Nat /\ b \in Nat /\ y \in Nat /\ w = a + b + y
  <2>1. IsFiniteSet(A \cup B) /\ Cardinality(A \cup B) = a + b /\ a \in Nat /\ b \in Nat
    BY <1>10, <1>11, <1>13, DisjointCount
  <2>2. y \in Nat /\ w = Cardinality(A \cup B) + y
    BY <1>10, <1>11, <1>13, <2>1, DisjointCount
  <2> QED
    BY <2>1, <2>2
<1>15. unshift(Deleted, p) = p - a
  BY <1>4, <1>11 DEF unshift, Below
<1>16. count(s.removed, 0, p) = b
  BY <1>4, <1>11 DEF count
<1>17. t \in Nat /\ count(s.insertions, 0, t) = t - y
  <2>1. X \in Intervals(t) /\ t \in Nat /\ count(s.insertions, 0, t) = t - Cardinality(X)
    BY <1>2, <1>4, InsertedBefore
  <2>2. k \in 0 .. Len(new)
    BY <1>3
  <2>3. Paired(Y, X, Stayed(new, U))
    BY <1>4, <2>2, StayedPaired
  <2>4. Y \in Intervals(p)
    BY <1>7 DEF Intervals
  <2>5. Cardinality(Y) = Cardinality(X)
    BY <1>3, <2>1, <2>3, <2>4, PairedInOrder
  <2> QED
    BY <1>11, <2>1, <2>5
<1>18. p - a = t - (t - y) + b
  BY <1>2, <1>3, <1>15, <1>16, <1>17 DEF CalcExpected
<1>19. w = p
  <2>1. a \in Nat /\ b \in Nat /\ y \in Nat /\ t \in Nat /\ p \in Nat
    BY ONLY <1>3, <1>14, <1>17
  <2>2. w = a + b + y /\ p - a = t - (t - y) + b
    BY ONLY <1>14, <1>18
  <2> QED
    BY ONLY <2>1, <2>2
<1>20. A \cup B \cup Y = 0 .. p - 1
  <2>1. A \cup B \cup Y \in SUBSET (0 .. p - 1)
    BY <1>7, <1>8
  <2> QED
    BY <1>11, <1>12, <1>19, <2>1, FS_Subset
<1>21. ASSUME NEW j \in 1 .. Len(new), k + 1 < j
       PROVE  p < new[j].prev_tv_index
  <2>1. PICK q : q = new[j].prev_tv_index
    OBVIOUS
  <2>2. q \in Nat /\ q \notin Deleted
    BY <1>3, <2>1
  <2>3. q # p
    BY <1>2, <1>3, <1>6, <1>21, <2>1
  <2>4. j \notin U /\ j \notin 1 .. k
    BY <1>5, <1>21
  <2>5. q \notin Y
    BY <1>4, <1>5, <1>6, <2>1, <2>4 DEF OldAmong
  <2>6. q \notin s.removed
    <3>1. q \in kept[1]
      BY <1>1, <2>1 DEF OldOf
    <3>2. q \notin NoLonger(kept)
      BY <3>1 DEF NoLonger
    <3>3. ASSUME NEW i \in (1 .. k) \ U PROVE q # new[i].prev_tv_index
      BY <1>3, <1>6, <2>1, <2>4
    <3> QED
      BY <3>2, <3>3 DEF WalkInv
  <2>7. q \notin 0 .. p - 1
    BY <1>4, <1>20, <2>2, <2>5, <2>6
  <2> QED
    BY <1>3, <2>1, <2>2, <2>3, <2>7
<1> QED
  BY <1>2, <1>21 DEF NoneBefore

\* A query in table order whose rows are not swapped.
InTableOrder ==
  ~Swaps /\ Ascending(next_rows) /\ FoundInOrder(prev_rows, move_candidates[1])

LEMMA StayStep ==
  ASSUME Found, InTableOrder, NEW kept \in SameRows, NEW new, IsNewRows(new, kept),
         NEW k \in Nat, k + 1 \in 1 .. Len(new), NEW U, NEW s, WalkInv(new, kept, k, U, s),
         NEW t, StaysAt(t, s, new[k + 1]), MayStay(s, new[k + 1])
  PROVE  WalkInv(new, kept, k + 1, U \cup {k + 1}, t)
<1>1. NoneBefore(new, k + 1)
  <2>1. CASE new[k + 1].shifted_tv_index = s.expected
    BY <2>1, ExpectedNow
  <2>2. CASE new[k + 1].row_index \notin move_candidates[1]
    BY <2>2, NotMoved DEF InTableOrder
  <2>3. CASE new[k + 1].shifted_tv_index = CalcExpected(s, new[k + 1])
    BY <2>3, PutThere
  <2> QED
    BY <2>1, <2>2, <2>3 DEF MayStay
<1>2. PICK W : W = U \cup {k + 1}
  OBVIOUS
<1>3. U \in SUBSET (1 .. k)
  BY DEF WalkInv
<1>4. W \in SUBSET (1 .. k + 1) /\ (1 .. k + 1) \ W = (1 .. k) \ U
  BY <1>2, <1>3
<1>5. /\ t.insertions = OnlyNow(kept) \cup {new[j].tv_index : j \in (1 .. k + 1) \ W}
      /\ t.removed = NoLonger(kept) \cup {new[j].prev_tv_index : j \in (1 .. k + 1) \ W}
      /\ t.moves = {[from |-> new[j].prev_tv_index, to |-> new[j].tv_index] :
                    j \in (1 .. k + 1) \ W}
  BY <1>4 DEF StaysAt, WalkInv
<1>6. ASSUME NEW u \in W, NEW j \in 1 .. Len(new), u < j, j \in W \/ k + 1 < j
      PROVE  new[u].prev_tv_index < new[j].prev_tv_index
  <2>1. CASE u = k + 1
    <3>1. k + 1 < j
      BY <1>4, <1>6, <2>1
    <3> QED
      BY <1>1, <2>1, <3>1 DEF NoneBefore
  <2>2. CASE u # k + 1
    <3>1. u \in U
      BY <1>2, <2>2
    <3>2. j \in U \/ k < j
      BY <1>2, <1>6
    <3> QED
      BY <1>6, <3>1, <3>2 DEF WalkInv
  <2> QED
    BY <2>1, <2>2
<1>7. k + 1 \in W /\ t.expected = new[k + 1].shifted_tv_index + 1 /\ \A v \in W : v <= k + 1
  BY <1>2, <1>4 DEF StaysAt
<1>8. WalkInv(new, kept, k + 1, W, t)
  BY <1>4, <1>5, <1>6, <1>7 DEF WalkInv
<1> QED
  BY <1>2, <1>8

LEMMA MoveStep ==
  ASSUME NEW kept, NEW new,
         NEW k \in Nat, k + 1 \in 1 .. Len(new), NEW U, NEW s, WalkInv(new, kept, k, U, s),
         NEW t, HasMoved(t, s, new[k + 1])
  PROVE  WalkInv(new, kept, k + 1, U, t)
<1>1. U \in SUBSET (1 .. k) /\ U \in SUBSET (1 .. k + 1)
  BY DEF WalkInv
<1>2. PICK M, N : M = (1 .. k) \ U /\ N = (1 .. k + 1) \ U
  OBVIOUS
<1>3. \A j : j \in N <=> j \in M \/ j = k + 1
  BY <1>1, <1>2
<1>4. t.insertions = OnlyNow(kept) \cup {new[j].tv_index : j \in N}
  <2>1. s.insertions = OnlyNow(kept) \cup {new[j].tv_index : j \in M}
    BY <1>2 DEF WalkInv
  <2> QED
    BY <1>3, <2>1 DEF HasMoved
<1>5. t.removed = NoLonger(kept) \cup {new[j].prev_tv_index : j \in N}
  <2>1. s.removed = NoLonger(kept) \cup {new[j].prev_tv_index : j \in M}
    BY <1>2 DEF WalkInv
  <2> QED
    BY <1>3, <2>1 DEF HasMoved
<1>6. t.moves = {[from |-> new[j].prev_tv_index, to |-> new[j].tv_index] : j \in N}
  <2>1. s.moves = {[from |-> new[j].prev_tv_index, to |-> new[j].tv_index] : j \in M}
    BY <1>2 DEF WalkInv
  <2> QED
    BY <1>3, <2>1 DEF HasMoved
<1>7. \A u \in U : \A j \in 1 .. Len(new) :
        u < j /\ (j \in U \/ k + 1 < j) => new[u].prev_tv_index < new[j].prev_tv_index
  <2>1. \A j \in 1 .. Len(new) : k + 1 < j => k < j
    OBVIOUS
  <2> QED
    BY <2>1 DEF WalkInv
<1>8. \/ U = {} /\ t.expected = 0
      \/ \E u \in U : t.expected = new[u].shifted_tv_index + 1 /\ \A v \in U : v <= u
  BY DEF WalkInv, HasMoved
<1> QED
  BY <1>1, <1>2, <1>4, <1>5, <1>6, <1>7, <1>8 DEF WalkInv

\* Where the walk begins.
WalkFirst(kept) ==
  [expected |-> 0, moves |-> {}, removed |-> NoLonger(kept), insertions |-> OnlyNow(kept)]

LEMMA WalkEnds ==
  ASSUME Found, InTableOrder, NEW kept \in SameRows, NEW new, IsNewRows(new, kept)
  PROVE  \E U : WalkInv(new, kept, Len(new), U, Walked(new, WalkFirst(kept))[Len(new)])
<1>1. Len(new) \in Nat /\ \A k \in 1 .. Len(new) : WalkRow(new, k)
  BY NewRowsTypes
<1>2. PICK N \in Nat : N = Len(new)
  BY <1>1
<1>3. PICK first : first = WalkFirst(kept)
  OBVIOUS
<1>4. first \in WalkStates
  <2>1. NoLonger(kept) \in SUBSET Nat /\ OnlyNow(kept) \in SUBSET Nat
    BY DEF NoLonger, OnlyNow, Indexes, Found
  <2> QED
    BY <1>3, <2>1 DEF WalkFirst, WalkStates
<1>5. PICK s : s = Walked(new, first)
  OBVIOUS
<1>6. /\ s[0] = first
      /\ \A k \in 1 .. N : s[k] = Walk(s[k - 1], new[k]) /\ s[k] \in WalkStates
  BY <1>1, <1>2, <1>4, <1>5, WalkedSteps
<1> DEFINE P == {k \in 0 .. N : s[k] \in WalkStates /\ \E U : WalkInv(new, kept, k, U, s[k])}
<1>7. 0 \in P
  <2>1. (1 .. 0) \ {} = {}
    OBVIOUS
  <2>2. /\ first.insertions = OnlyNow(kept) /\ first.removed = NoLonger(kept)
        /\ first.moves = {} /\ first.expected = 0
    BY <1>3 DEF WalkFirst
  <2>3. WalkInv(new, kept, 0, {}, first)
    BY <2>1, <2>2 DEF WalkInv
  <2> QED
    BY <1>4, <1>6, <2>3
<1>8. ASSUME NEW k \in 0 .. N - 1, k \in P
      PROVE  k + 1 \in P
  <2>1. /\ k \in Nat /\ k + 1 \in 1 .. Len(new) /\ k + 1 \in 1 .. N /\ (k + 1) - 1 = k
        /\ k + 1 \in 0 .. N
    BY <1>2
  <2>2. PICK r, t, row : r = s[k] /\ t = s[k + 1] /\ row = new[k + 1]
    OBVIOUS
  <2>3. t = Walk(r, row) /\ t \in WalkStates
    BY <1>6, <2>1, <2>2
  <2>4. PICK U : WalkInv(new, kept, k, U, r)
    BY <1>8, <2>2
  <2>5. r \in WalkStates
    BY <1>8, <2>2
  <2>6. WalkedTo(t, r, row)
    BY <1>1, <2>1, <2>2, <2>3, <2>5, WalkIs DEF WalkRow
  <2>7. CASE StaysAt(t, r, row) /\ MayStay(r, row)
    <3>1. WalkInv(new, kept, k + 1, U \cup {k + 1}, t)
      BY <2>1, <2>2, <2>4, <2>7, StayStep
    <3> QED
      BY <2>1, <2>2, <2>3, <3>1
  <2>8. CASE HasMoved(t, r, row)
    <3>1. WalkInv(new, kept, k + 1, U, t)
      BY <2>1, <2>2, <2>4, <2>8, MoveStep
    <3> QED
      BY <2>1, <2>2, <2>3, <3>1
  <2> QED
    BY <2>6, <2>7, <2>8 DEF WalkedTo
<1>9. N \in P
  <2>1. \A k \in 0 .. N : k \in P
    <3> HIDE DEF P
    <3> QED
      BY <1>7, <1>8, Induction
  <2> HIDE DEF P
  <2> QED
    BY <2>1
<1> QED
  BY <1>2, <1>3, <1>5, <1>9

\* Applying deletions d and insertions i to list l gives list n.
Applies(l, n, d, i) ==
  d \subseteq Indexes(l) /\ i \subseteq Indexes(n) /\ Remaining(l, d) = Remaining(n, i)

\* Each of the moves m is one of a row of both lists, told as deleted and
\* inserted.
MovesOf(m, l, n, d, i) ==
  \A x \in m : x.from \in d /\ x.to \in i /\ RowAt(l, x.from) = RowAt(n, x.to)

LEMMA InTableOrderApplies ==
  ASSUME Found, InTableOrder, NEW kept \in SameRows, NEW new, IsNewRows(new, kept),
         NEW s, s = Walked(new, WalkFirst(kept))[Len(new)],
         NEW d, d = Deleted \cup s.removed, NEW i, i = s.insertions
  PROVE  /\ Applies(prev_rows, next_rows, d, i)
         /\ MovesOf(s.moves, prev_rows, next_rows, d, i)
<1>1. PICK N, U : N = Len(new) /\ WalkInv(new, kept, N, U, s)
  BY WalkEnds
<1>2. /\ KeptRows(new, prev_rows, next_rows) /\ OldOf(new) = kept[1] /\ NewOf(new) = kept[2]
      /\ N \in Nat
  BY <1>1 DEF IsNewRows, KeptRows
<1>3. U \in SUBSET (1 .. N)
  BY <1>1 DEF WalkInv
<1>4. /\ i = OnlyNow(kept) \cup {new[j].tv_index : j \in (1 .. N) \ U}
      /\ s.removed = NoLonger(kept) \cup {new[j].prev_tv_index : j \in (1 .. N) \ U}
      /\ s.moves = {[from |-> new[j].prev_tv_index, to |-> new[j].tv_index] :
                    j \in (1 .. N) \ U}
  BY <1>1 DEF WalkInv
<1>5. kept[1] \in Intervals(Len(prev_rows)) /\ kept[1] \cap Deleted = {}
      /\ kept[2] \in Intervals(Len(next_rows))
  BY KeptCounts
<1>6. /\ \A j \in 1 .. N : new[j].prev_tv_index \in Indexes(prev_rows)
      /\ \A j \in 1 .. N : new[j].tv_index \in Indexes(next_rows)
      /\ \A j \in 1 .. N : RowAt(prev_rows, new[j].prev_tv_index) = RowAt(next_rows, new[j].tv_index)
      /\ \A j, k \in 1 .. N : new[j].prev_tv_index = new[k].prev_tv_index => j = k
  BY <1>1, <1>2 DEF KeptRows
<1>7. ASSUME NEW j \in 1 .. N, NEW k \in 1 .. N, new[j].tv_index = new[k].tv_index
      PROVE  j = k
  <2>1. new[j].tv_index \in Nat
    BY <1>6 DEF Indexes
  <2>2. j < k \/ k < j \/ j = k
    OBVIOUS
  <2> QED
    BY <1>1, <1>2, <1>7, <2>1, <2>2 DEF KeptRows
<1>8. d \subseteq Indexes(prev_rows) /\ i \subseteq Indexes(next_rows)
  <2>1. Deleted \subseteq Indexes(prev_rows)
    BY DEF Deleted, Positions
  <2>2. NoLonger(kept) \subseteq Indexes(prev_rows) /\ OnlyNow(kept) \subseteq Indexes(next_rows)
    BY DEF NoLonger, OnlyNow
  <2> QED
    BY <1>4, <1>6, <2>1, <2>2
<1>9. Indexes(prev_rows) \ d = OldAmong(new, U)
  <2>1. ASSUME NEW x \in Indexes(prev_rows)
        PROVE  x \in d <=> x \notin OldAmong(new, U)
    <3>1. CASE x \in OldOf(new)
      <4>1. PICK j \in 1 .. N : x = new[j].prev_tv_index
        BY <1>1, <3>1 DEF OldOf
      <4>2. x \in OldAmong(new, U) <=> j \in U
        BY <1>3, <1>6, <4>1 DEF OldAmong
      <4>3. x \notin Deleted /\ x \notin NoLonger(kept)
        BY <1>2, <1>5, <3>1 DEF NoLonger
      <4>4. x \in d <=> j \notin U
        BY <1>4, <1>6, <4>1, <4>3
      <4> QED
        BY <4>2, <4>4
    <3>2. CASE x \notin OldOf(new)
      <4>1. x \in Deleted \cup NoLonger(kept)
        BY <1>2, <3>2 DEF NoLonger
      <4>2. x \notin OldAmong(new, U)
        BY <1>1, <1>3, <3>2 DEF OldAmong, OldOf
      <4> QED
        BY <1>4, <4>1, <4>2
    <3> QED
      BY <3>1, <3>2
  <2>2. OldAmong(new, U) \subseteq Indexes(prev_rows)
    BY <1>3, <1>6 DEF OldAmong
  <2> QED
    BY <2>1, <2>2
<1>10. Indexes(next_rows) \ i = NewAmong(new, U)
  <2>1. ASSUME NEW x \in Indexes(next_rows)
        PROVE  x \in i <=> x \notin NewAmong(new, U)
    <3>1. CASE x \in NewOf(new)
      <4>1. PICK j \in 1 .. N : x = new[j].tv_index
        BY <1>1, <3>1 DEF NewOf
      <4>2. x \in NewAmong(new, U) <=> j \in U
        BY <1>3, <1>7, <4>1 DEF NewAmong
      <4>3. x \notin OnlyNow(kept)
        BY <1>2, <3>1 DEF OnlyNow
      <4>4. x \in i <=> j \notin U
        BY <1>4, <1>7, <4>1, <4>3
      <4> QED
        BY <4>2, <4>4
    <3>2. CASE x \notin NewOf(new)
      <4>1. x \in OnlyNow(kept)
        BY <1>2, <3>2 DEF OnlyNow
      <4>2. x \notin NewAmong(new, U)
        BY <1>1, <1>3, <3>2 DEF NewAmong, NewOf
      <4> QED
        BY <1>4, <4>1, <4>2
    <3> QED
      BY <3>1, <3>2
  <2>2. NewAmong(new, U) \subseteq Indexes(next_rows)
    BY <1>3, <1>6 DEF NewAmong
  <2> QED
    BY <2>1, <2>2
<1>11. Remaining(prev_rows, d) = Remaining(next_rows, i)
  <2>1. Paired(Indexes(prev_rows) \ d, Indexes(next_rows) \ i, Stayed(new, U))
    <3>1. N \in 0 .. Len(new)
      BY <1>1, <1>2
    <3>2. Paired(OldAmong(new, U), NewAmong(new, U), Stayed(new, U))
      BY <1>1, <3>1, StayedPaired
    <3> QED
      BY <1>9, <1>10, <3>2
  <2>2. \A p \in Stayed(new, U) : RowAt(prev_rows, p[1]) = RowAt(next_rows, p[2])
    BY <1>3, <1>6 DEF Stayed
  <2> QED
    BY <2>1, <2>2, RemainingSame DEF Found
<1>12. MovesOf(s.moves, prev_rows, next_rows, d, i)
  BY <1>4, <1>6 DEF MovesOf
<1> QED
  BY <1>8, <1>11, <1>12 DEF Applies

-----------------------------------------------------------------------------
(* The matching of blocks                                                  *)

\* A part of both lists, from one place up to another in each; one ahead of
\* another in both.
Box(x, N) ==
  /\ x[1] \in 1 .. N + 1 /\ x[2] \in 1 .. N + 1 /\ x[1] <= x[2]
  /\ x[3] \in 1 .. N + 1 /\ x[4] \in 1 .. N + 1 /\ x[3] <= x[4]
Ahead(x, y) == x[2] <= y[1] /\ x[4] <= y[3]
Apart(x, y) == Ahead(x, y) \/ Ahead(y, x)
Within(x, y) == y[1] <= x[1] /\ x[2] <= y[2] /\ y[3] <= x[3] /\ x[4] <= y[4]
BoxOf(m) == <<m.i, m.i + m.size, m.j, m.j + m.size>>

\* The ranges to do and the matches never overlap and have one order.
BoxesApart(N, R, M) ==
  /\ \A r \in R : Box(r, N)
  /\ \A m \in M : Box(BoxOf(m), N)
  /\ \A r, q \in R : r # q => Apart(r, q)
  /\ \A r \in R : \A m \in M : Apart(r, BoxOf(m))
  /\ \A m, p \in M : m # p => Apart(BoxOf(m), BoxOf(p))

LEMMA WithinApart ==
  ASSUME NEW N \in Nat, NEW x, NEW y, NEW z, Box(x, N), Box(y, N), Box(z, N),
         Within(x, y), Apart(y, z)
  PROVE  Apart(x, z) /\ Apart(z, x)
<1>1. /\ x[1] \in Int /\ x[2] \in Int /\ x[3] \in Int /\ x[4] \in Int
      /\ y[1] \in Int /\ y[2] \in Int /\ y[3] \in Int /\ y[4] \in Int
      /\ z[1] \in Int /\ z[2] \in Int /\ z[3] \in Int /\ z[4] \in Int
  BY DEF Box
<1>2. CASE Ahead(y, z)
  BY <1>1, <1>2 DEF Within, Ahead, Apart
<1>3. CASE Ahead(z, y)
  BY <1>1, <1>3 DEF Within, Ahead, Apart
<1> QED
  BY <1>2, <1>3 DEF Apart

LEMMA ApartSymmetric ==
  ASSUME NEW x, NEW y
  PROVE  Apart(x, y) <=> Apart(y, x)
  BY DEF Apart

\* A match in a range, and what of the range is before and what is behind it.
Splits(m, r) ==
  /\ m.i \in Int /\ m.j \in Int /\ m.size \in Nat
  /\ r[1] <= m.i /\ m.i + m.size <= r[2] /\ r[3] <= m.j /\ m.j + m.size <= r[4]
Parts(m, r) ==
  {<<r[1], m.i, r[3], m.j>>, <<m.i + m.size, r[2], m.j + m.size, r[4]>>}

LEMMA RangeDivided ==
  ASSUME NEW N \in Nat, NEW R, NEW M, BoxesApart(N, R, M), NEW r \in R,
         NEW m, Splits(m, r), NEW Q, Q \subseteq (R \ {r}) \cup Parts(m, r)
  PROVE  BoxesApart(N, Q, M \cup {m})
<1>01. PICK b, a : b = <<r[1], m.i, r[3], m.j>> /\ a = <<m.i + m.size, r[2], m.j + m.size, r[4]>>
  OBVIOUS
<1>02. /\ m.i \in Int /\ m.j \in Int /\ m.size \in Nat
       /\ r[1] <= m.i /\ m.i + m.size <= r[2] /\ r[3] <= m.j /\ m.j + m.size <= r[4]
       /\ Q \subseteq (R \ {r}) \cup {b, a}
  BY <1>01 DEF Splits, Parts
<1>1. PICK x : x = BoxOf(m) /\ x = <<m.i, m.i + m.size, m.j, m.j + m.size>>
  BY DEF BoxOf
<1>2. Box(r, N)
  BY DEF BoxesApart
<1>3. /\ r[1] \in 1 .. N + 1 /\ r[2] \in 1 .. N + 1 /\ r[3] \in 1 .. N + 1 /\ r[4] \in 1 .. N + 1
  BY <1>2 DEF Box
<1>4. /\ x[1] = m.i /\ x[2] = m.i + m.size /\ x[3] = m.j /\ x[4] = m.j + m.size
      /\ b[1] = r[1] /\ b[2] = m.i /\ b[3] = r[3] /\ b[4] = m.j
      /\ a[1] = m.i + m.size /\ a[2] = r[2] /\ a[3] = m.j + m.size /\ a[4] = r[4]
  BY <1>1, <1>01
<1>5. Box(x, N) /\ Box(b, N) /\ Box(a, N)
  BY <1>02, <1>3, <1>4 DEF Box
<1>6. Within(x, r) /\ Within(b, r) /\ Within(a, r)
  BY <1>02, <1>3, <1>4 DEF Within
<1>7. Ahead(b, x) /\ Ahead(x, a) /\ Ahead(b, a)
  BY <1>02, <1>3, <1>4 DEF Ahead
<1>8. \A q \in R \ {r} : Box(q, N) /\ Apart(r, q)
  BY DEF BoxesApart
<1>9. \A p \in M : Box(BoxOf(p), N) /\ Apart(r, BoxOf(p))
  BY DEF BoxesApart
<1>10. \A q \in Q : q \in R \ {r} \/ q = b \/ q = a
  BY <1>02
<1>11. \A q \in R \ {r} : /\ Apart(x, q) /\ Apart(b, q) /\ Apart(a, q)
                          /\ Apart(q, x) /\ Apart(q, b) /\ Apart(q, a)
  BY <1>2, <1>5, <1>6, <1>8, WithinApart
<1>12. \A p \in M : /\ Apart(x, BoxOf(p)) /\ Apart(b, BoxOf(p)) /\ Apart(a, BoxOf(p))
                    /\ Apart(BoxOf(p), x)
  BY <1>2, <1>5, <1>6, <1>9, WithinApart
<1>13. Apart(b, a) /\ Apart(a, b) /\ Apart(b, x) /\ Apart(a, x)
  BY <1>7 DEF Apart
<1>14. \A q \in Q : Box(q, N)
  BY <1>5, <1>8, <1>10
<1>15. \A p \in M \cup {m} : Box(BoxOf(p), N)
  BY <1>1, <1>5, <1>9
<1>16. ASSUME NEW q \in Q, NEW p \in Q, q # p PROVE Apart(q, p)
  <2>1. CASE q \in R \ {r} /\ p \in R \ {r}
    BY <1>16, <2>1 DEF BoxesApart
  <2>2. CASE q \in R \ {r} /\ (p = b \/ p = a)
    BY <1>11, <2>2
  <2>3. CASE (q = b \/ q = a) /\ p \in R \ {r}
    BY <1>11, <2>3
  <2>4. CASE (q = b \/ q = a) /\ (p = b \/ p = a)
    BY <1>13, <1>16, <2>4
  <2> QED
    BY <1>10, <2>1, <2>2, <2>3, <2>4
<1>17. ASSUME NEW q \in Q, NEW p \in M \cup {m} PROVE Apart(q, BoxOf(p))
  <2>1. CASE p \in M
    <3>1. q \in R \ {r} => Apart(q, BoxOf(p))
      BY <2>1 DEF BoxesApart
    <3> QED
      BY <1>10, <1>12, <2>1, <3>1
  <2>2. CASE p = m
    BY <1>1, <1>10, <1>11, <1>13, <2>2
  <2> QED
    BY <2>1, <2>2
<1>18. ASSUME NEW q \in M \cup {m}, NEW p \in M \cup {m}, q # p PROVE Apart(BoxOf(q), BoxOf(p))
  <2>1. CASE q \in M /\ p \in M
    BY <1>18, <2>1 DEF BoxesApart
  <2>2. CASE q = m /\ p \in M
    BY <1>1, <1>12, <2>2
  <2>3. CASE q \in M /\ p = m
    BY <1>1, <1>12, <2>3
  <2> QED
    BY <1>18, <2>1, <2>2, <2>3
<1> QED
  BY <1>14, <1>15, <1>16, <1>17, <1>18 DEF BoxesApart

-----------------------------------------------------------------------------
(* The rows found both times, in the order they had                        *)

\* The old places of the rows kept, one for each, ascending.
HasOldPlaces(o, new) ==
  /\ DOMAIN o = 1 .. Len(new)
  /\ \A k \in 1 .. Len(new) : o[k] \in OldOf(new)
  /\ \A x \in OldOf(new) : \E k \in 1 .. Len(new) : o[k] = x
  /\ \A j, k \in 1 .. Len(new) : j < k => o[j] < o[k]

LEMMA OldPlacesIs ==
  ASSUME NEW l, NEW n, NEW new, Len(l) \in Nat, KeptRows(new, l, n)
  PROVE  HasOldPlaces(OldPlaces(new), new)
<1>1. PICK N \in Nat : N = Len(new)
  BY DEF KeptRows
<1>2. PICK S : S = OldOf(new)
  OBVIOUS
<1>3. S \in Intervals(Len(l))
  BY <1>2 DEF OldOf, KeptRows, Intervals, Indexes
<1>4. Cardinality(S) = N
  <2>1. PICK f : f = [k \in 1 .. N |-> new[k].prev_tv_index]
    OBVIOUS
  <2>2. f \in [1 .. N -> S] /\ \A k \in 1 .. N : f[k] = new[k].prev_tv_index
    BY <1>1, <1>2, <2>1 DEF OldOf
  <2>3. \A x \in S : \E k \in 1 .. N : f[k] = x
    BY <1>1, <1>2, <2>2 DEF OldOf
  <2>4. \A j, k \in 1 .. N : f[j] = f[k] => j = k
    BY <1>1, <2>2 DEF KeptRows
  <2>5. f \in Bijection(1 .. N, S)
    BY <2>2, <2>3, <2>4 DEF Bijection, Injection, Surjection, IsInjective
  <2>6. IsFiniteSet(1 .. N) /\ Cardinality(1 .. N) = N
    BY FS_Interval
  <2> QED
    BY <2>5, <2>6, FS_Bijection DEF ExistsBijection
<1>5. PICK o : o = InOrder(S)
  OBVIOUS
<1>6. IsInOrder(o, S)
  BY <1>3, <1>5, InOrderIs
<1>7. OldPlaces(new) = o
  BY <1>2, <1>5 DEF OldPlaces, OldOf, KeptRows
<1>8. HasOldPlaces(o, new)
  BY <1>1, <1>2, <1>4, <1>6 DEF IsInOrder, HasOldPlaces
<1> QED
  BY <1>7, <1>8

-----------------------------------------------------------------------------
(* Matched blocks apply                                                    *)

\* The places, in the old and in the new order, that a match of M holds.
OldHeld(N, M) == {k \in 1 .. N : \E m \in M : m.i <= k /\ k < m.i + m.size}
NewHeld(N, M) == {k \in 1 .. N : \E m \in M : m.j <= k /\ k < m.j + m.size}

\* Their indices in the list before and in the one now.
OldMatched(M, o, new) == {o[k] : k \in OldHeld(Len(new), M)}
NewMatched(M, new) == {new[k].tv_index : k \in NewHeld(Len(new), M)}

\* A match is of the same rows in the old order o and in the new one.
SameBlock(m, o, new) ==
  /\ m.i \in Int /\ m.j \in Int /\ m.size \in Nat
  /\ \A k \in 0 .. m.size - 1 : RowAt(prev_rows, o[m.i + k]) = new[m.j + k].row_index

\* The k-th rows of a match, by their indices before and now.
MatchedRow(m, k, o, new) == <<o[m.i + k], new[m.j + k].tv_index>>
Matched(M, o, new) ==
  UNION {{MatchedRow(m, k, o, new) : k \in 0 .. m.size - 1} : m \in M}

LEMMA MatchedPaired ==
  ASSUME Found, NEW new, KeptRows(new, prev_rows, next_rows), NEW o, HasOldPlaces(o, new),
         NEW M, BoxesApart(Len(new), {}, M), \A m \in M : SameBlock(m, o, new),
         NEW S, S = OldMatched(M, o, new), NEW T, T = NewMatched(M, new)
  PROVE  /\ Paired(S, T, Matched(M, o, new))
         /\ \A p \in Matched(M, o, new) : RowAt(prev_rows, p[1]) = RowAt(next_rows, p[2])
<1>1. PICK N \in Nat : N = Len(new)
  BY DEF KeptRows
<1>2. /\ \A k \in 1 .. N : o[k] \in Nat /\ new[k].tv_index \in Nat
      /\ \A k \in 1 .. N : RowAt(next_rows, new[k].tv_index) = new[k].row_index
      /\ \A j, k \in 1 .. N : j < k => o[j] < o[k]
      /\ \A j, k \in 1 .. N : j < k => new[j].tv_index < new[k].tv_index
  <2>1. \A k \in 1 .. N : o[k] \in OldOf(new)
    BY <1>1 DEF HasOldPlaces
  <2>2. \A x \in OldOf(new) : x \in Nat
    BY <1>1 DEF OldOf, KeptRows, Indexes
  <2>3. \A k \in 1 .. N : new[k].tv_index \in Nat
    BY <1>1 DEF KeptRows, Indexes
  <2> QED
    BY <1>1, <2>1, <2>2, <2>3 DEF HasOldPlaces, KeptRows
<1>3. ASSUME NEW j \in 1 .. N, NEW k \in 1 .. N
      PROVE  /\ o[j] < o[k] <=> j < k
             /\ new[j].tv_index < new[k].tv_index <=> j < k
  <2>1. j < k \/ j = k \/ k < j
    OBVIOUS
  <2>2. o[j] \in Nat /\ o[k] \in Nat /\ new[j].tv_index \in Nat /\ new[k].tv_index \in Nat
    BY <1>2
  <2>3. CASE j < k
    BY <1>2, <2>2, <2>3
  <2>4. CASE j = k
    BY <2>2, <2>4
  <2>5. CASE k < j
    <3>1. o[k] < o[j] /\ new[k].tv_index < new[j].tv_index
      BY <1>2, <2>5
    <3> QED
      BY <2>2, <2>5, <3>1
  <2> QED
    BY <2>1, <2>3, <2>4, <2>5
<1>4. ASSUME NEW m \in M
      PROVE  /\ m.i \in Nat /\ m.j \in Nat /\ m.size \in Nat /\ 1 <= m.i /\ 1 <= m.j
             /\ m.i + m.size <= N + 1 /\ m.j + m.size <= N + 1
  <2>1. Box(BoxOf(m), N) /\ m.i \in Int /\ m.j \in Int /\ m.size \in Nat
    BY <1>1 DEF BoxesApart, SameBlock
  <2> QED
    BY <2>1 DEF Box, BoxOf
<1>5. \A m \in M : \A k \in 0 .. m.size - 1 :
        m.i + k \in 1 .. N /\ m.j + k \in 1 .. N
  BY <1>4
<1>6. \A p \in Matched(M, o, new) :
        \E m \in M : \E k \in 0 .. m.size - 1 :
          p[1] = o[m.i + k] /\ p[2] = new[m.j + k].tv_index
  <2> TAKE p \in Matched(M, o, new)
  <2>1. PICK m \in M : p \in {MatchedRow(m, k, o, new) : k \in 0 .. m.size - 1}
    BY DEF Matched
  <2>2. PICK k \in 0 .. m.size - 1 : p = MatchedRow(m, k, o, new)
    BY <2>1
  <2> QED
    BY <2>2 DEF MatchedRow
<1>7. ASSUME NEW m \in M, NEW k \in 0 .. m.size - 1
      PROVE  \E p \in Matched(M, o, new) :
               p[1] = o[m.i + k] /\ p[2] = new[m.j + k].tv_index
  <2>1. PICK p : p = MatchedRow(m, k, o, new)
    OBVIOUS
  <2>2. p \in Matched(M, o, new)
    BY <2>1 DEF Matched
  <2> QED
    BY <2>1, <2>2 DEF MatchedRow
<1>8. ASSUME NEW p \in Matched(M, o, new)
      PROVE  p[1] \in S /\ p[2] \in T /\ RowAt(prev_rows, p[1]) = RowAt(next_rows, p[2])
  <2>0. PICK m \in M : \E k \in 0 .. m.size - 1 :
          p[1] = o[m.i + k] /\ p[2] = new[m.j + k].tv_index
    BY <1>6
  <2>1. PICK k \in 0 .. m.size - 1 : p[1] = o[m.i + k] /\ p[2] = new[m.j + k].tv_index
    BY <2>0
  <2>2. PICK a \in 1 .. N, b \in 1 .. N : a = m.i + k /\ b = m.j + k
    BY <1>5
  <2>3. a \in OldHeld(N, M) /\ b \in NewHeld(N, M)
    <3>1. m.i <= a /\ a < m.i + m.size /\ m.j <= b /\ b < m.j + m.size
      <4>1. PICK i \in Nat, j \in Nat, z \in Nat : i = m.i /\ j = m.j /\ z = m.size
        BY <1>4
      <4>2. a = i + k /\ b = j + k /\ k \in Nat /\ k < z
        BY <2>2, <4>1
      <4>3. i <= a /\ a < i + z /\ j <= b /\ b < j + z
        BY ONLY <4>1, <4>2
      <4> QED
        BY <4>1, <4>3
    <3> QED
      BY <3>1 DEF OldHeld, NewHeld
  <2>4. p[1] \in S /\ p[2] \in T
    BY <1>1, <2>1, <2>2, <2>3 DEF OldMatched, NewMatched
  <2>5. RowAt(prev_rows, o[a]) = new[b].row_index
    BY <2>2 DEF SameBlock
  <2> QED
    BY <1>2, <2>1, <2>2, <2>4, <2>5
<1>9. ASSUME NEW x \in S PROVE \E p \in Matched(M, o, new) : p[1] = x
  <2>1. PICK a \in OldHeld(N, M) : x = o[a]
    BY <1>1 DEF OldMatched
  <2>2. PICK m \in M : a \in 1 .. N /\ m.i <= a /\ a < m.i + m.size
    BY <2>1 DEF OldHeld
  <2>3. a - m.i \in 0 .. m.size - 1 /\ m.i + (a - m.i) = a
    BY <1>4, <2>2
  <2> QED
    BY <1>7, <2>1, <2>3
<1>10. ASSUME NEW y \in T PROVE \E p \in Matched(M, o, new) : p[2] = y
  <2>1. PICK a \in NewHeld(N, M) : y = new[a].tv_index
    BY <1>1 DEF NewMatched
  <2>2. PICK m \in M : a \in 1 .. N /\ m.j <= a /\ a < m.j + m.size
    BY <2>1 DEF NewHeld
  <2>3. a - m.j \in 0 .. m.size - 1 /\ m.j + (a - m.j) = a
    BY <1>4, <2>2
  <2> QED
    BY <1>7, <2>1, <2>3
<1>11. ASSUME NEW p \in Matched(M, o, new), NEW q \in Matched(M, o, new)
       PROVE  p[1] < q[1] <=> p[2] < q[2]
  <2>0. PICK m \in M : \E k \in 0 .. m.size - 1 :
          p[1] = o[m.i + k] /\ p[2] = new[m.j + k].tv_index
    BY <1>6
  <2>1. PICK k \in 0 .. m.size - 1 : p[1] = o[m.i + k] /\ p[2] = new[m.j + k].tv_index
    BY <2>0
  <2>01. PICK r \in M : \E h \in 0 .. r.size - 1 :
          q[1] = o[r.i + h] /\ q[2] = new[r.j + h].tv_index
    BY <1>6
  <2>2. PICK h \in 0 .. r.size - 1 : q[1] = o[r.i + h] /\ q[2] = new[r.j + h].tv_index
    BY <2>01
  <2>3. /\ m.i + k \in 1 .. N /\ m.j + k \in 1 .. N
        /\ r.i + h \in 1 .. N /\ r.j + h \in 1 .. N
    BY <1>5
  <2>4. /\ p[1] < q[1] <=> m.i + k < r.i + h
        /\ p[2] < q[2] <=> m.j + k < r.j + h
    BY <1>3, <2>1, <2>2, <2>3
  <2>5. m.i + k < r.i + h <=> m.j + k < r.j + h
    <3>1. /\ m.i \in Nat /\ m.j \in Nat /\ m.size \in Nat /\ k \in Nat /\ k < m.size
          /\ r.i \in Nat /\ r.j \in Nat /\ r.size \in Nat /\ h \in Nat /\ h < r.size
      BY <1>4
    <3>2. CASE m = r
      <4>1. r.i = m.i /\ r.j = m.j
        BY <3>2
      <4>2. PICK i \in Nat, j \in Nat : i = m.i /\ j = m.j
        BY <3>1
      <4>3. (i + k < i + h <=> k < h) /\ (j + k < j + h <=> k < h)
        BY <3>1
      <4> QED
        BY <4>1, <4>2, <4>3
    <3>3. CASE m # r
      <4>1. Apart(BoxOf(m), BoxOf(r))
        BY <3>3 DEF BoxesApart
      <4>2. \/ m.i + m.size <= r.i /\ m.j + m.size <= r.j
            \/ r.i + r.size <= m.i /\ r.j + r.size <= m.j
        BY <4>1 DEF Apart, Ahead, BoxOf
      <4>3. PICK a \in Nat, b \in Nat, c \in Nat, e \in Nat, f \in Nat, g \in Nat :
              /\ a = m.i /\ b = m.j /\ c = m.size
              /\ e = r.i /\ f = r.j /\ g = r.size
        BY <3>1
      <4>4. (a + c <= e /\ b + c <= f) \/ (e + g <= a /\ f + g <= b)
        BY <4>2, <4>3
      <4>5. k \in Nat /\ k < c /\ h \in Nat /\ h < g
        BY <3>1, <4>3
      <4>6. a + k < e + h <=> b + k < f + h
        BY ONLY <4>3, <4>4, <4>5
      <4> QED
        BY <4>3, <4>6
    <3> QED
      BY <3>2, <3>3
  <2> QED
    BY <2>4, <2>5
<1> QED
  BY <1>8, <1>9, <1>10, <1>11 DEF Paired

LEMMA BlocksApply ==
  ASSUME Found, NEW new, KeptRows(new, prev_rows, next_rows), NEW o, HasOldPlaces(o, new),
         NEW M, BoxesApart(Len(new), {}, M), \A m \in M : SameBlock(m, o, new),
         NEW d \in SUBSET Indexes(prev_rows), NEW i \in SUBSET Indexes(next_rows),
         Indexes(prev_rows) \ d = OldMatched(M, o, new),
         Indexes(next_rows) \ i = NewMatched(M, new)
  PROVE  Applies(prev_rows, next_rows, d, i)
<1>1. PICK S, T : S = Indexes(prev_rows) \ d /\ T = Indexes(next_rows) \ i
  OBVIOUS
<1>2. /\ Paired(S, T, Matched(M, o, new))
      /\ \A p \in Matched(M, o, new) : RowAt(prev_rows, p[1]) = RowAt(next_rows, p[2])
  BY <1>1, MatchedPaired
<1>3. Remaining(prev_rows, d) = Remaining(next_rows, i)
  BY <1>1, <1>2, RemainingSame DEF Found
<1> QED
  BY <1>3 DEF Applies

\* What is told of the rows not found both times.
LEMMA NotKept ==
  ASSUME Found, NEW kept \in SameRows, NEW new, IsNewRows(new, kept)
  PROVE  /\ Deleted \cup NoLonger(kept) = Indexes(prev_rows) \ OldOf(new)
         /\ OnlyNow(kept) = Indexes(next_rows) \ NewOf(new)
<1>1. OldOf(new) = kept[1] /\ NewOf(new) = kept[2]
  BY DEF IsNewRows
<1>2. kept[1] \cap Deleted = {}
  BY KeptCounts
<1>3. Deleted \subseteq Indexes(prev_rows)
  BY DEF Deleted, Positions
<1> QED
  BY <1>1, <1>2, <1>3 DEF NoLonger, OnlyNow

\* The first rows that differ, all before them being the same in both orders.
LEMMA FirstDifferenceIs ==
  ASSUME NEW new, NEW o, o = OldPlaces(new), NEW N \in Nat, DOMAIN new = 1 .. N
  PROVE  /\ FirstDifference(new) = npos =>
              \A k \in 1 .. N : RowAt(prev_rows, o[k]) = new[k].row_index
         /\ FirstDifference(new) # npos =>
              /\ FirstDifference(new) \in 1 .. N
              /\ \A k \in 1 .. FirstDifference(new) - 1 :
                   RowAt(prev_rows, o[k]) = new[k].row_index
<1>1. PICK differ : differ = {k \in 1 .. N : RowAt(prev_rows, o[k]) # new[k].row_index}
  OBVIOUS
<1>2. FirstDifference(new) =
        IF differ = {} THEN npos ELSE CHOOSE k \in differ : \A l \in differ : k <= l
  BY <1>1 DEF FirstDifference
<1>3. CASE differ = {}
  <2>1. \A k \in 1 .. N : RowAt(prev_rows, o[k]) = new[k].row_index
    BY <1>1, <1>3
  <2> QED
    BY <1>2, <1>3, <2>1
<1>4. CASE differ # {}
  <2>1. differ \in SUBSET Nat
    BY <1>1
  <2>2. \E k \in differ : \A l \in differ : k <= l
    BY <1>4, <2>1, Least
  <2>3. PICK first : first = FirstDifference(new)
    OBVIOUS
  <2>4. first \in differ /\ \A l \in differ : first <= l
    BY <1>2, <1>4, <2>2, <2>3
  <2>5. first \in 1 .. N
    BY <1>1, <2>4
  <2>6. \A k \in 1 .. first - 1 : k \in 1 .. N /\ ~(first <= k)
    BY <2>5
  <2>7. \A k \in 1 .. first - 1 : RowAt(prev_rows, o[k]) = new[k].row_index
    BY <1>1, <2>4, <2>6
  <2>8. first # npos
    BY <2>5 DEF npos
  <2> QED
    BY <2>3, <2>5, <2>7, <2>8
<1> QED
  BY <1>3, <1>4

\* The rows before the first difference are one match.
LEMMA FirstBlock ==
  ASSUME NEW new, NEW o, NEW N \in Nat, NEW size \in 0 .. N,
         \A k \in 1 .. size : RowAt(prev_rows, o[k]) = new[k].row_index,
         NEW m, m = [i |-> 1, j |-> 1, size |-> size]
  PROVE  /\ SameBlock(m, o, new)
         /\ BoxesApart(N, {<<size + 1, N + 1, size + 1, N + 1>>}, {m})
         /\ BoxesApart(N, {}, {m})
<1>1. m.i = 1 /\ m.j = 1 /\ m.size = size
  OBVIOUS
<1>2. \A k \in 0 .. size - 1 : 1 + k \in 1 .. size
  OBVIOUS
<1>3. SameBlock(m, o, new)
  BY <1>1, <1>2 DEF SameBlock
<1>4. PICK r, b : r = <<size + 1, N + 1, size + 1, N + 1>> /\ b = <<1, 1 + size, 1, 1 + size>>
  OBVIOUS
<1>5. BoxOf(m) = b
  BY <1>1, <1>4 DEF BoxOf
<1>6. Box(r, N) /\ Box(b, N) /\ Apart(r, b)
  BY <1>4 DEF Box, Apart, Ahead
<1>7. BoxesApart(N, {r}, {m}) /\ BoxesApart(N, {}, {m})
  BY <1>5, <1>6 DEF BoxesApart
<1> QED
  BY <1>3, <1>4, <1>7

\* All rows in the same order: nothing but the rows of one list only is told.
LEMMA AllTheSame ==
  ASSUME Found, NEW kept \in SameRows, NEW new, IsNewRows(new, kept),
         FirstDifference(new) = npos
  PROVE  Applies(prev_rows, next_rows, Deleted \cup NoLonger(kept), OnlyNow(kept))
<1>1. KeptRows(new, prev_rows, next_rows)
  BY DEF IsNewRows
<1>2. PICK N \in Nat : N = Len(new) /\ DOMAIN new = 1 .. N
  BY <1>1 DEF KeptRows
<1>3. PICK o : o = OldPlaces(new) /\ HasOldPlaces(o, new)
  BY <1>1, OldPlacesIs DEF Found
<1>4. \A k \in 1 .. N : RowAt(prev_rows, o[k]) = new[k].row_index
  BY <1>2, <1>3, FirstDifferenceIs
<1>5. PICK m : m = [i |-> 1, j |-> 1, size |-> N]
  OBVIOUS
<1>6. SameBlock(m, o, new) /\ BoxesApart(N, {}, {m})
  <2>1. N \in 0 .. N
    OBVIOUS
  <2> QED
    BY <1>4, <1>5, <2>1, FirstBlock
<1>7. OldHeld(N, {m}) = 1 .. N /\ NewHeld(N, {m}) = 1 .. N
  <2>1. m.i = 1 /\ m.j = 1 /\ m.size = N
    BY <1>5
  <2>2. \A k \in 1 .. N : 1 <= k /\ k < 1 + N
    OBVIOUS
  <2> QED
    BY <2>1, <2>2 DEF OldHeld, NewHeld
<1>8. {o[k] : k \in 1 .. N} = OldOf(new) /\ {new[k].tv_index : k \in 1 .. N} = NewOf(new)
  BY <1>2, <1>3 DEF HasOldPlaces, NewOf
<1>9. PICK d, i : d = Deleted \cup NoLonger(kept) /\ i = OnlyNow(kept)
  OBVIOUS
<1>10. d = Indexes(prev_rows) \ OldOf(new) /\ i = Indexes(next_rows) \ NewOf(new)
  BY <1>9, NotKept
<1>11. OldOf(new) \subseteq Indexes(prev_rows) /\ NewOf(new) \subseteq Indexes(next_rows)
  BY <1>1 DEF KeptRows, OldOf, NewOf
<1>12. /\ d \in SUBSET Indexes(prev_rows) /\ i \in SUBSET Indexes(next_rows)
       /\ Indexes(prev_rows) \ d = OldMatched({m}, o, new)
       /\ Indexes(next_rows) \ i = NewMatched({m}, new)
  BY <1>2, <1>7, <1>8, <1>10, <1>11 DEF OldMatched, NewMatched
<1>13. Applies(prev_rows, next_rows, d, i)
  <2>1. PICK M : M = {m}
    OBVIOUS
  <2>2. BoxesApart(Len(new), {}, M) /\ \A x \in M : SameBlock(x, o, new)
    BY <1>2, <1>6, <2>1
  <2>3. /\ Indexes(prev_rows) \ d = OldMatched(M, o, new)
        /\ Indexes(next_rows) \ i = NewMatched(M, new)
    BY <1>12, <2>1
  <2>4. d \in SUBSET Indexes(prev_rows) /\ i \in SUBSET Indexes(next_rows) /\ Found
    BY <1>12
  <2>5. KeptRows(new, prev_rows, next_rows) /\ HasOldPlaces(o, new)
    BY <1>1, <1>3
  <2> QED
    BY ONLY <2>2, <2>3, <2>4, <2>5, BlocksApply
<1> QED
  BY <1>9, <1>13

\* What holds while blocks are matched: the rows of one list only are told,
\* and the matches and the ranges to do never overlap.
Matching ==
  /\ KeptRows(new_rows, prev_rows, next_rows)
  /\ ret = [deletions |-> Indexes(prev_rows) \ OldOf(new_rows),
            insertions |-> Indexes(next_rows) \ NewOf(new_rows), moves |-> {}]
  /\ BoxesApart(Len(new_rows), todo, matches)
  /\ \A m \in matches : SameBlock(m, OldPlaces(new_rows), new_rows)

\* The changes told lead from the list before to the one now.
Right ==
  /\ Applies(prev_rows, next_rows, ret.deletions, ret.insertions)
  /\ MovesOf(ret.moves, prev_rows, next_rows, ret.deletions, ret.insertions)

LEMMA SortedStarts ==
  ASSUME Found, calculate_moves_sorted
  PROVE  IF state' = "done" THEN Right' /\ matches' = {}
         ELSE state' = "match" /\ Matching'
<1>0. PICK kept \in SameRows :
        LET new == NewRows(kept)  first == FirstDifference(new)  n == Len(new) + 1
        IN /\ new_rows' = new
           /\ ret' = [deletions |-> Deleted \cup NoLonger(kept),
                      insertions |-> OnlyNow(kept), moves |-> {}]
           /\ todo' = IF first = npos THEN {} ELSE {<<first, n, first, n>>}
           /\ matches' = IF first = npos THEN {} ELSE {[i |-> 1, j |-> 1, size |-> first - 1]}
           /\ state' = IF first = npos THEN "done" ELSE "match"
  BY DEF calculate_moves_sorted
<1>01. PICK new, first, n :
        new = NewRows(kept) /\ first = FirstDifference(new) /\ n = Len(new) + 1
  OBVIOUS
<1>1. /\ new = NewRows(kept) /\ first = FirstDifference(new) /\ n = Len(new) + 1
      /\ new_rows' = new
      /\ ret' = [deletions |-> Deleted \cup NoLonger(kept),
                 insertions |-> OnlyNow(kept), moves |-> {}]
      /\ todo' = IF first = npos THEN {} ELSE {<<first, n, first, n>>}
      /\ matches' = IF first = npos THEN {} ELSE {[i |-> 1, j |-> 1, size |-> first - 1]}
      /\ state' = IF first = npos THEN "done" ELSE "match"
  BY <1>0, <1>01
<1>2. prev_rows' = prev_rows /\ next_rows' = next_rows
  BY DEF calculate_moves_sorted
<1>3. IsNewRows(new, kept) /\ KeptRows(new, prev_rows, next_rows)
  BY <1>1, NewRowsKept DEF IsNewRows
<1>4. PICK d, i :
        d = Deleted \cup NoLonger(kept) /\ i = OnlyNow(kept)
  OBVIOUS
<1>5. ret'.deletions = d /\ ret'.insertions = i /\ ret'.moves = {}
  BY <1>1, <1>4
<1>6. CASE first = npos
  <2>1. Applies(prev_rows, next_rows, d, i)
    BY <1>1, <1>3, <1>4, <1>6, AllTheSame
  <2>2. MovesOf({}, prev_rows, next_rows, d, i)
    BY DEF MovesOf
  <2>3. Right'
    BY <1>2, <1>5, <2>1, <2>2 DEF Right
  <2> QED
    BY <1>1, <1>6, <2>3
<1>7. CASE first # npos
  <2>1. PICK N \in Nat : N = Len(new) /\ DOMAIN new = 1 .. N
    BY <1>3 DEF KeptRows
  <2>2. PICK o : o = OldPlaces(new)
    OBVIOUS
  <2>3. /\ first \in 1 .. N
        /\ \A k \in 1 .. first - 1 : RowAt(prev_rows, o[k]) = new[k].row_index
    BY <1>1, <1>7, <2>1, <2>2, FirstDifferenceIs
  <2>04. PICK size \in 0 .. N : size = first - 1 /\ size + 1 = first
    BY <2>3
  <2>05. PICK m : m = [i |-> 1, j |-> 1, size |-> size]
    OBVIOUS
  <2>4. m = [i |-> 1, j |-> 1, size |-> first - 1]
    BY <2>04, <2>05
  <2>5. SameBlock(m, o, new) /\ BoxesApart(N, {<<size + 1, N + 1, size + 1, N + 1>>}, {m})
    BY <2>3, <2>04, <2>05, FirstBlock
  <2>6. todo' = {<<size + 1, N + 1, size + 1, N + 1>>} /\ matches' = {m} /\ state' = "match"
    BY <1>1, <1>7, <2>1, <2>04, <2>4
  <2>7. BoxesApart(N, todo', matches') /\ \A x \in matches' : SameBlock(x, o, new)
    BY <2>5, <2>6
  <2>8. ret' = [deletions |-> Indexes(prev_rows) \ OldOf(new),
                insertions |-> Indexes(next_rows) \ NewOf(new), moves |-> {}]
    BY <1>1, <1>3, NotKept
  <2>9. OldPlaces(new)' = OldPlaces(new)' /\ OldPlaces(new_rows)' = o
    BY <1>1, <2>2 DEF OldPlaces
  <2>10. (\A x \in matches : SameBlock(x, OldPlaces(new_rows), new_rows))'
    BY <1>1, <1>2, <2>7, <2>9 DEF SameBlock
  <2>11. (KeptRows(new_rows, prev_rows, next_rows))'
    BY <1>1, <1>2, <1>3
  <2>12. (BoxesApart(Len(new_rows), todo, matches))'
    BY <1>1, <2>1, <2>7
  <2>13. Matching'
    BY <1>1, <1>2, <2>8, <2>10, <2>11, <2>12 DEF Matching
  <2> QED
    BY <2>6, <2>13
<1> QED
  BY <1>6, <1>7

LEMMA FindMatches ==
  ASSUME Matching, NEW range \in todo, find_longest_matches(range)
  PROVE  Matching' /\ state' = "match"
<1>2. /\ new_rows' = new_rows /\ prev_rows' = prev_rows /\ next_rows' = next_rows
      /\ ret' = ret /\ state' = "match"
  BY DEF find_longest_matches
<1>3. BoxesApart(Len(new_rows), todo, matches) /\ Len(new_rows) \in Nat
  BY DEF Matching, KeptRows
<1>4. PICK o : o = OldPlaces(new_rows) /\ o = OldPlaces(new_rows)'
  BY <1>2
<1>5. SUFFICES /\ BoxesApart(Len(new_rows), todo', matches')
               /\ \A x \in matches' : SameBlock(x, o, new_rows)
  <2>1. (BoxesApart(Len(new_rows), todo, matches))'
    BY <1>2, <1>5
  <2>2. (\A x \in matches : SameBlock(x, OldPlaces(new_rows), new_rows))'
    BY <1>2, <1>4, <1>5 DEF SameBlock
  <2>3. Matching'
    BY <1>2, <2>1, <2>2 DEF Matching
  <2> QED
    BY <1>2, <2>3
<1>6. \A x \in matches : SameBlock(x, o, new_rows)
  BY <1>4 DEF Matching
<1>7. CASE matches' = matches /\ todo' = todo \ {range}
  BY <1>3, <1>6, <1>7 DEF BoxesApart
<1>8. ASSUME NEW m \in LongestBlocks(range), matches' = matches \cup {m},
             todo' \subseteq (todo \ {range}) \cup {<<range[1], m.i, range[3], m.j>>,
                                <<m.i + m.size, range[2], m.j + m.size, range[4]>>}
      PROVE  /\ BoxesApart(Len(new_rows), todo', matches')
             /\ \A x \in matches' : SameBlock(x, o, new_rows)
  <2>1. /\ m \in [i : range[1] .. range[2] - 1, j : range[3] .. range[4] - 1,
                  size : 1 .. Len(new_rows)]
        /\ m.i + m.size <= range[2] /\ m.j + m.size <= range[4]
        /\ IsBlock(m.i, m.j, m.size)
    BY DEF LongestBlocks
  <2>2. Box(range, Len(new_rows))
    BY <1>3 DEF BoxesApart
  <2>3. /\ m.i \in Int /\ m.j \in Int /\ m.size \in Nat
        /\ range[1] <= m.i /\ range[3] <= m.j
    BY <1>3, <2>1, <2>2 DEF Box
  <2>4. SameBlock(m, o, new_rows)
    BY <1>4, <2>1, <2>3 DEF SameBlock, IsBlock, OldRow
  <2>5. BoxesApart(Len(new_rows), todo', matches \cup {m})
    <3>1. Splits(m, range)
      BY <2>1, <2>3 DEF Splits
    <3>2. todo' \subseteq (todo \ {range}) \cup Parts(m, range)
      BY <1>8 DEF Parts
    <3> QED
      BY <1>3, <3>1, <3>2, RangeDivided
  <2> QED
    BY <1>6, <1>8, <2>4, <2>5
<1>9. \/ matches' = matches /\ todo' = todo \ {range}
      \/ \E m \in LongestBlocks(range) :
           /\ matches' = matches \cup {m}
           /\ todo' \subseteq (todo \ {range}) \cup {<<range[1], m.i, range[3], m.j>>,
                              <<m.i + m.size, range[2], m.j + m.size, range[4]>>}
  BY DEF find_longest_matches
<1> QED
  BY <1>7, <1>8, <1>9

LEMMA AlignApplies ==
  ASSUME Found, Matching, align
  PROVE  Right' /\ state' = "done" /\ matches' = matches
<1>1. PICK N \in Nat : N = Len(new_rows) /\ DOMAIN new_rows = 1 .. N
  BY DEF Matching, KeptRows
<1>2. KeptRows(new_rows, prev_rows, next_rows)
  BY DEF Matching
<1>3. PICK o : o = OldPlaces(new_rows) /\ HasOldPlaces(o, new_rows)
  BY <1>2, OldPlacesIs DEF Found
<1>4. PICK d, i :
        /\ d = (Indexes(prev_rows) \ OldOf(new_rows)) \cup {o[k] : k \in OldUnmatched}
        /\ i = (Indexes(next_rows) \ NewOf(new_rows))
                 \cup {new_rows[k].tv_index : k \in NewUnmatched}
  OBVIOUS
<1>5. /\ ret' = [deletions |-> d, insertions |-> i, moves |-> {}]
      /\ prev_rows' = prev_rows /\ next_rows' = next_rows /\ state' = "done"
      /\ matches' = matches /\ todo = {}
  BY <1>3, <1>4 DEF align, Matching
<1>6. OldUnmatched = (1 .. N) \ OldHeld(N, matches) /\ NewUnmatched = (1 .. N) \ NewHeld(N, matches)
  BY <1>1 DEF OldUnmatched, NewUnmatched, OldHeld, NewHeld
<1>7. /\ \A k \in 1 .. N : o[k] \in OldOf(new_rows) /\ o[k] \in Nat
      /\ \A k \in 1 .. N : new_rows[k].tv_index \in NewOf(new_rows) /\ new_rows[k].tv_index \in Nat
      /\ OldOf(new_rows) \subseteq Indexes(prev_rows)
      /\ NewOf(new_rows) \subseteq Indexes(next_rows)
  <2>1. /\ OldOf(new_rows) \subseteq Indexes(prev_rows)
        /\ NewOf(new_rows) \subseteq Indexes(next_rows)
    BY <1>2 DEF KeptRows, OldOf, NewOf
  <2>2. \A k \in 1 .. N : o[k] \in OldOf(new_rows) /\ new_rows[k].tv_index \in NewOf(new_rows)
    BY <1>1, <1>3 DEF HasOldPlaces, NewOf
  <2> QED
    BY <2>1, <2>2 DEF Indexes
<1>8. ASSUME NEW j \in 1 .. N, NEW k \in 1 .. N
      PROVE  (o[j] = o[k] => j = k) /\ (new_rows[j].tv_index = new_rows[k].tv_index => j = k)
  <2>1. j < k \/ j = k \/ k < j
    OBVIOUS
  <2>2. /\ o[j] \in Nat /\ o[k] \in Nat
        /\ new_rows[j].tv_index \in Nat /\ new_rows[k].tv_index \in Nat
    BY <1>7
  <2>3. j < k => o[j] < o[k] /\ new_rows[j].tv_index < new_rows[k].tv_index
    BY <1>1, <1>2, <1>3 DEF HasOldPlaces, KeptRows
  <2>4. k < j => o[k] < o[j] /\ new_rows[k].tv_index < new_rows[j].tv_index
    BY <1>1, <1>2, <1>3 DEF HasOldPlaces, KeptRows
  <2> QED
    BY <2>1, <2>2, <2>3, <2>4
<1>9. \A x \in OldOf(new_rows) : \E k \in 1 .. N : o[k] = x
  BY <1>1, <1>3 DEF HasOldPlaces
<1>10. \A x \in NewOf(new_rows) : \E k \in 1 .. N : new_rows[k].tv_index = x
  BY <1>1 DEF NewOf
<1>11. d \in SUBSET Indexes(prev_rows) /\ i \in SUBSET Indexes(next_rows)
  BY <1>4, <1>6, <1>7
<1>12. Indexes(prev_rows) \ d = OldMatched(matches, o, new_rows)
  <2>1. PICK H : H = OldHeld(N, matches) /\ H \in SUBSET (1 .. N)
    BY DEF OldHeld
  <2>2. OldMatched(matches, o, new_rows) = {o[k] : k \in H}
    BY <1>1, <2>1 DEF OldMatched
  <2>3. d = (Indexes(prev_rows) \ OldOf(new_rows)) \cup {o[k] : k \in (1 .. N) \ H}
    BY <1>4, <1>6, <2>1
  <2>4. ASSUME NEW x PROVE x \in Indexes(prev_rows) \ d <=> \E k \in H : x = o[k]
    <3>1. x \in d <=> \/ x \in Indexes(prev_rows) /\ x \notin OldOf(new_rows)
                      \/ \E k \in (1 .. N) \ H : x = o[k]
      BY <2>3
    <3>2. ASSUME NEW k \in H, x = o[k] PROVE x \in Indexes(prev_rows) /\ x \notin d
      BY <1>7, <1>8, <2>1, <3>1, <3>2
    <3>3. ASSUME x \in Indexes(prev_rows), x \notin d PROVE \E k \in H : x = o[k]
      <4>1. PICK k \in 1 .. N : o[k] = x
        BY <1>9, <3>1, <3>3
      <4> QED
        BY <3>1, <3>3, <4>1
    <3> QED
      BY <3>2, <3>3
  <2> QED
    BY <2>2, <2>4
<1>13. Indexes(next_rows) \ i = NewMatched(matches, new_rows)
  <2>1. PICK H : H = NewHeld(N, matches) /\ H \in SUBSET (1 .. N)
    BY DEF NewHeld
  <2>2. NewMatched(matches, new_rows) = {new_rows[k].tv_index : k \in H}
    BY <1>1, <2>1 DEF NewMatched
  <2>3. i = (Indexes(next_rows) \ NewOf(new_rows))
              \cup {new_rows[k].tv_index : k \in (1 .. N) \ H}
    BY <1>4, <1>6, <2>1
  <2>4. ASSUME NEW x PROVE x \in Indexes(next_rows) \ i <=> \E k \in H : x = new_rows[k].tv_index
    <3>1. x \in i <=> \/ x \in Indexes(next_rows) /\ x \notin NewOf(new_rows)
                      \/ \E k \in (1 .. N) \ H : x = new_rows[k].tv_index
      BY <2>3
    <3>2. ASSUME NEW k \in H, x = new_rows[k].tv_index
          PROVE  x \in Indexes(next_rows) /\ x \notin i
      BY <1>7, <1>8, <2>1, <3>1, <3>2
    <3>3. ASSUME x \in Indexes(next_rows), x \notin i
          PROVE  \E k \in H : x = new_rows[k].tv_index
      <4>1. PICK k \in 1 .. N : new_rows[k].tv_index = x
        BY <1>10, <3>1, <3>3
      <4> QED
        BY <3>1, <3>3, <4>1
    <3> QED
      BY <3>2, <3>3
  <2> QED
    BY <2>2, <2>4
<1>14. Applies(prev_rows, next_rows, d, i)
  <2>1. BoxesApart(Len(new_rows), {}, matches)
    BY <1>5 DEF Matching
  <2>2. \A m \in matches : SameBlock(m, o, new_rows)
    BY <1>3 DEF Matching
  <2> QED
    BY <1>2, <1>3, <1>11, <1>12, <1>13, <2>1, <2>2, BlocksApply
<1>15. MovesOf({}, prev_rows, next_rows, d, i)
  BY DEF MovesOf
<1>16. ret'.deletions = d /\ ret'.insertions = i /\ ret'.moves = {}
  BY <1>5
<1>17. Right'
  BY <1>5, <1>14, <1>15, <1>16 DEF Right
<1> QED
  BY <1>5, <1>17

LEMMA WalkApplies ==
  ASSUME Found, InTableOrder, calculate_moves_unsorted
  PROVE  Right' /\ state' = "done" /\ matches' = matches
<1>1. PICK kept \in SameRows :
        LET new == NewRows(kept)
            s == Walked(new, [expected |-> 0, moves |-> {}, removed |-> NoLonger(kept),
                              insertions |-> OnlyNow(kept)])[Len(new)]
        IN ret' = [deletions |-> Deleted \cup s.removed, insertions |-> s.insertions,
                   moves |-> s.moves]
  BY DEF calculate_moves_unsorted
<1>2. PICK new : new = NewRows(kept)
  OBVIOUS
<1>3. IsNewRows(new, kept)
  BY <1>2, NewRowsKept
<1>4. PICK s : s = Walked(new, WalkFirst(kept))[Len(new)]
  OBVIOUS
<1>5. PICK d, i : d = Deleted \cup s.removed /\ i = s.insertions
  OBVIOUS
<1>6. ret' = [deletions |-> d, insertions |-> i, moves |-> s.moves]
  BY <1>1, <1>2, <1>4, <1>5 DEF WalkFirst
<1>7. /\ Applies(prev_rows, next_rows, d, i)
      /\ MovesOf(s.moves, prev_rows, next_rows, d, i)
  BY <1>3, <1>4, <1>5, InTableOrderApplies
<1>8. ret'.deletions = d /\ ret'.insertions = i /\ ret'.moves = s.moves
  BY <1>6
<1>9. /\ prev_rows' = prev_rows /\ next_rows' = next_rows
      /\ state' = "done" /\ matches' = matches
  BY DEF calculate_moves_unsorted
<1>10. Right'
  BY <1>7, <1>8, <1>9 DEF Right
<1> QED
  BY <1>9, <1>10

-----------------------------------------------------------------------------
(* The calculation                                                         *)

\* Whether the changes are told right: of a sorted query always, in table
\* order as long as rows of the table are not swapped.
Applicable == move_candidates = <<>> \/ ~Swaps

CalcInv ==
  /\ Found
  /\ move_candidates # <<>> /\ ~Swaps => InTableOrder
  /\ state \in {"calculate", "match", "done"}
  /\ state = "calculate" => matches = {} /\ ret.moves = {}
  /\ state = "match" => move_candidates = <<>> /\ Matching
  /\ state = "done" => MatchesInOrder /\ (Applicable => Right)

LEMMA ListsSeq ==
  ASSUME NEW n \in Nat, NEW S, NEW T, S \subseteq T, NEW l \in Lists(n, S)
  PROVE  l \in Seq(T)
<1>1. PICK k \in 0 .. n : l \in [1 .. k -> S]
  BY DEF Lists
<1>2. l \in [1 .. k -> T] /\ k \in Nat
  BY <1>1
<1> QED
  BY <1>2, SeqDef

LEMMA CalcInvInit == CalcInit => CalcInv
<1> SUFFICES ASSUME CalcInit PROVE CalcInv
  OBVIOUS
<1>1. Found
  <2>1. CASE /\ prev_rows \in Lists(MaxFound, 0 .. MaxRow \cup {npos})
             /\ next_rows \in Lists(MaxFound, 0 .. MaxRow)
    <3>1. 0 .. MaxRow \cup {npos} \subseteq Nat \cup {npos} /\ 0 .. MaxRow \subseteq Nat
      OBVIOUS
    <3>2. prev_rows \in Seq(Nat \cup {npos})
      BY <2>1, <3>1, CalcBounds, ListsSeq
    <3>3. next_rows \in Seq(Nat)
      BY <2>1, <3>1, CalcBounds, ListsSeq
    <3> QED
      BY <3>2, <3>3 DEF Found
  <2>2. CASE /\ prev_rows \in Lists(MaxInOrder, 0 .. MaxRowInOrder \cup {npos})
             /\ next_rows \in Lists(MaxInOrder, 0 .. MaxRowInOrder)
    <3>1. 0 .. MaxRowInOrder \cup {npos} \subseteq Nat \cup {npos} /\ 0 .. MaxRowInOrder \subseteq Nat
      OBVIOUS
    <3>2. prev_rows \in Seq(Nat \cup {npos})
      BY <2>2, <3>1, CalcBounds, ListsSeq
    <3>3. next_rows \in Seq(Nat)
      BY <2>2, <3>1, CalcBounds, ListsSeq
    <3> QED
      BY <3>2, <3>3 DEF Found
  <2> QED
    BY <2>1, <2>2 DEF CalcInit
<1>2. ASSUME move_candidates # <<>>, ~Swaps PROVE InTableOrder
  <2>1. PICK moved : /\ move_candidates = <<moved>> /\ FoundInOrder(prev_rows, moved)
                     /\ Ascending(next_rows)
    BY <1>2 DEF CalcInit
  <2>2. move_candidates[1] = moved
    BY <2>1
  <2> QED
    BY <1>2, <2>1, <2>2 DEF InTableOrder
<1>3. state = "calculate" /\ matches = {} /\ ret.moves = {}
  BY DEF CalcInit
<1> QED
  BY <1>1, <1>2, <1>3 DEF CalcInv

\* Blocks that never overlap are matched in order.
LEMMA MatchedInOrder == Matching => MatchesInOrder
<1> SUFFICES ASSUME Matching, NEW m \in matches, NEW n \in matches, m # n
             PROVE  \/ m.i + m.size <= n.i /\ m.j + m.size <= n.j
                    \/ n.i + n.size <= m.i /\ n.j + n.size <= m.j
  BY DEF MatchesInOrder
<1>1. Apart(BoxOf(m), BoxOf(n))
  BY DEF Matching, BoxesApart
<1> QED
  BY <1>1 DEF Apart, Ahead, BoxOf

LEMMA CalcInvNext == CalcInv /\ [CalcNext]_calcVars => CalcInv'
<1> SUFFICES ASSUME CalcInv, [CalcNext]_calcVars PROVE CalcInv'
  OBVIOUS
<1>1. CASE UNCHANGED calcVars
  <2>1. /\ prev_rows' = prev_rows /\ next_rows' = next_rows
        /\ move_candidates' = move_candidates /\ ret' = ret /\ new_rows' = new_rows
        /\ todo' = todo /\ matches' = matches /\ state' = state
    BY <1>1 DEF calcVars
  <2>2. (Found' <=> Found) /\ (InTableOrder' <=> InTableOrder)
    BY <2>1 DEF Found, InTableOrder, Ascending, FoundInOrder
  <2>3. (MatchesInOrder' <=> MatchesInOrder) /\ (Applicable' <=> Applicable)
    BY <2>1 DEF MatchesInOrder, Applicable
  <2>4. Right' <=> Right
    BY <2>1 DEF Right
  <2>5. ASSUME Matching PROVE Matching'
    <3>1. (BoxesApart(Len(new_rows), todo, matches))'
      BY <2>1, <2>5 DEF Matching
    <3>2. OldPlaces(new_rows)' = OldPlaces(new_rows)
      BY <2>1
    <3>3. (\A m \in matches : SameBlock(m, OldPlaces(new_rows), new_rows))'
      BY <2>1, <2>5, <3>2 DEF Matching, SameBlock
    <3> QED
      BY <2>1, <2>5, <3>1, <3>3 DEF Matching
  <2> QED
    BY <2>1, <2>2, <2>3, <2>4, <2>5 DEF CalcInv
<1>2. CASE CalcNext
  <2>1. /\ prev_rows' = prev_rows /\ next_rows' = next_rows
        /\ move_candidates' = move_candidates
    BY <1>2 DEF CalcNext, calculate_moves_unsorted, calculate_moves_sorted,
                find_longest_matches, align
  <2>2. Found' /\ (move_candidates # <<>> /\ ~Swaps => InTableOrder)'
    BY <2>1 DEF CalcInv, Found, InTableOrder, Ascending, FoundInOrder
  <2>3. Found
    BY DEF CalcInv
  <2>4. Applicable' <=> Applicable
    BY <2>1 DEF Applicable
  <2>5. CASE calculate_moves_unsorted
    <3>1. state = "calculate" /\ move_candidates # <<>> /\ state' = "done" /\ matches' = matches
      BY <2>5 DEF calculate_moves_unsorted
    <3>2. MatchesInOrder'
      BY <3>1 DEF CalcInv, MatchesInOrder
    <3>3. Applicable => Right'
      BY <2>3, <2>5, <3>1, WalkApplies DEF Applicable, CalcInv
    <3> QED
      BY <2>2, <2>4, <3>1, <3>2, <3>3 DEF CalcInv
  <2>6. CASE calculate_moves_sorted
    <3>1. IF state' = "done" THEN Right' /\ matches' = {} ELSE state' = "match" /\ Matching'
      BY <2>3, <2>6, SortedStarts
    <3>2. move_candidates' = <<>>
      BY <2>6 DEF calculate_moves_sorted
    <3>3. matches' = {} => MatchesInOrder'
      BY DEF MatchesInOrder
    <3> QED
      BY <2>2, <3>1, <3>2, <3>3 DEF CalcInv
  <2>7. ASSUME NEW range \in todo, find_longest_matches(range) PROVE CalcInv'
    <3>1. state = "match"
      BY <2>7 DEF find_longest_matches
    <3>2. Matching /\ move_candidates = <<>>
      BY <3>1 DEF CalcInv
    <3>3. Matching' /\ state' = "match"
      BY <2>7, <3>2, FindMatches
    <3> QED
      BY <2>1, <2>2, <3>2, <3>3 DEF CalcInv
  <2>8. CASE align
    <3>1. state = "match"
      BY <2>8 DEF align
    <3>2. Matching
      BY <3>1 DEF CalcInv
    <3>3. Right' /\ state' = "done" /\ matches' = matches
      BY <2>3, <2>8, <3>2, AlignApplies
    <3>4. MatchesInOrder'
      BY <3>2, <3>3, MatchedInOrder DEF MatchesInOrder
    <3> QED
      BY <2>2, <3>3, <3>4 DEF CalcInv
  <2> QED
    BY <1>2, <2>5, <2>6, <2>7, <2>8 DEF CalcNext
<1> QED
  BY <1>1, <1>2

LEMMA CalcInvApplies == CalcInv => MatchesInOrder /\ (Applicable => ChangesApply)
<1> SUFFICES ASSUME CalcInv PROVE MatchesInOrder /\ (Applicable => ChangesApply)
  OBVIOUS
<1>1. MatchesInOrder
  BY MatchedInOrder DEF CalcInv, MatchesInOrder
<1>2. ASSUME Applicable PROVE AppliedGivesNext /\ MovesAreMoves
  <2>1. CASE state = "calculate"
    BY <2>1 DEF CalcInv, AppliedGivesNext, MovesAreMoves
  <2>2. CASE state = "match"
    <3>1. ret.moves = {}
      BY <2>2 DEF CalcInv, Matching
    <3> QED
      BY <2>2, <3>1 DEF AppliedGivesNext, MovesAreMoves
  <2>3. CASE state = "done"
    BY <1>2, <2>3 DEF CalcInv, Right, Applies, MovesOf, AppliedGivesNext, MovesAreMoves
  <2> QED
    BY <2>1, <2>2, <2>3 DEF CalcInv
<1> QED
  BY <1>1, <1>2 DEF ChangesApply

LEMMA CalcInvHolds == CalcSpec => []CalcInv
<1>1. CalcInit => CalcInv
  BY CalcInvInit
<1>2. CalcInv /\ [CalcNext]_calcVars => CalcInv'
  BY CalcInvNext
<1> QED
  BY <1>1, <1>2, PTL DEF CalcSpec

\* As long as rows of the table are not swapped, the changes a query's
\* notification tells lead from the rows found before to those found now,
\* whichever of equal rows and of equally long blocks are taken.
THEOREM QueryChangesApply ==
  ASSUME ~Swaps
  PROVE  CalcSpec => []ChangesApply
<1>1. Applicable
  BY DEF Applicable
<1>2. CalcInv => ChangesApply
  BY <1>1, CalcInvApplies
<1> QED
  BY <1>2, CalcInvHolds, PTL

\* Those of a sorted query do whatever happens to the table.
THEOREM SortedChangesApply == CalcSpec => [](move_candidates = <<>> => ChangesApply)
<1>1. CalcInv => (move_candidates = <<>> => ChangesApply)
  BY CalcInvApplies DEF Applicable
<1> QED
  BY <1>1, CalcInvHolds, PTL

\* The matched blocks never overlap and are met in one order, of any query.
THEOREM BlocksMatchedInOrder == CalcSpec => []MatchesInOrder
<1>1. CalcInv => MatchesInOrder
  BY CalcInvApplies
<1> QED
  BY <1>1, CalcInvHolds, PTL

-----------------------------------------------------------------------------
(* The moves in the order of their sources                                 *)

LEMMA SortedSet ==
  ASSUME NEW n \in Nat, NEW moves \in SUBSET Moves, \A m \in moves : m.from < n,
         \A a, b \in moves : a.from = b.from => a = b
  PROVE  Sorted(moves) \in Seq(Moves) /\ ToSet(Sorted(moves)) = moves
<1>1. PICK S : S = {m.from : m \in moves}
  OBVIOUS
<1>2. S \in Intervals(n)
  BY <1>1 DEF Moves, Intervals
<1>3. PICK N \in Nat : N = Cardinality(S)
  BY <1>2, BelowAll, BelowFinite DEF Intervals
<1>4. PICK s : s = [j \in 1 .. N |-> CHOOSE m \in moves : Below(S, m.from) = j - 1]
  OBVIOUS
<1>5. s = Sorted(moves)
  BY <1>1, <1>3, <1>4 DEF Sorted
<1>6. \A j \in 1 .. N : s[j] \in moves /\ Below(S, s[j].from) = j - 1
  <2> TAKE j \in 1 .. N
  <2>1. j - 1 \in Nat /\ j - 1 < N
    OBVIOUS
  <2>2. PICK x \in S : Below(S, x) = j - 1
    BY <1>2, <1>3, <2>1, RankExists
  <2>3. \E m \in moves : Below(S, m.from) = j - 1
    BY <1>1, <2>2
  <2> QED
    BY <1>4, <2>3
<1>7. s \in [1 .. N -> Moves]
  BY <1>4, <1>6
<1>8. s \in Seq(Moves) /\ Len(s) = N
  BY <1>7, SeqFunction
<1>9. ASSUME NEW m \in moves PROVE \E j \in 1 .. N : s[j] = m
  <2>1. m.from \in S
    BY <1>1
  <2>2. PICK r : r = Below(S, m.from)
    OBVIOUS
  <2>3. r \in Nat /\ r < N
    BY <1>2, <1>3, <2>1, <2>2, RankOne
  <2>4. r + 1 \in 1 .. N /\ (r + 1) - 1 = r
    BY <2>3
  <2>5. s[r + 1] \in moves /\ Below(S, s[r + 1].from) = r
    BY <1>6, <2>4
  <2>6. s[r + 1].from \in S
    BY <1>1, <2>5
  <2>7. s[r + 1].from = m.from
    BY <1>2, <2>1, <2>2, <2>5, <2>6, RankOne
  <2> QED
    BY <2>4, <2>5, <2>7
<1>10. \A m : m \in ToSet(s) <=> \E k \in 1 .. Len(s) : s[k] = m
  BY <1>8, SeqSet
<1>11. ToSet(s) = moves
  <2>1. ASSUME NEW m \in ToSet(s) PROVE m \in moves
    BY <1>6, <1>8, <1>10
  <2>2. ASSUME NEW m \in moves PROVE m \in ToSet(s)
    BY <1>8, <1>9, <1>10
  <2> QED
    BY <2>1, <2>2
<1> QED
  BY <1>5, <1>8, <1>11

-----------------------------------------------------------------------------
(* Where a row was that no row before it shifts                            *)

LEMMA SameBelow ==
  ASSUME NEW S \in SUBSET Nat, NEW T \in SUBSET Nat, NEW x \in Nat,
         \A y \in 0 .. x - 1 : y \in S <=> y \in T
  PROVE  unshift(S, x) = unshift(T, x)
<1>1. \A y \in Nat : y < x => (y \in S <=> y \in T)
  OBVIOUS
<1>2. {y \in S : y < x} = {y \in T : y < x}
  BY <1>1
<1> QED
  BY <1>2 DEF unshift, Below

LEMMA OldPlace ==
  ASSUME NEW D \in FiniteIndices, NEW I \in SUBSET Nat, NEW x \in Nat \ D,
         \A y \in 0 .. x - 1 : y \in D <=> y \in I
  PROVE  shift(D, unshift(I, x)) = x
<1>1. unshift(D, x) = unshift(I, x)
  BY SameBelow DEF FiniteIndices
<1> QED
  BY <1>1, UnshiftShift

-----------------------------------------------------------------------------
(* What the operations of tables make of a builder                         *)

Builder(D, I, M, map) ==
  [deletions |-> D, insertions |-> I, modifications |-> M, moves |-> <<>>,
   mapping |-> map]

LEMMA ModifyIs ==
  ASSUME NEW D, NEW I, NEW M, NEW map, NEW i, NEW c, c = Builder(D, I, M, map)
  PROVE  modify(c, i) = Builder(D, I, M \cup {i}, map)
<1>1. PICK x : x = M \cup {i}
  OBVIOUS
<1>2. c.modifications = M
  BY DEF Builder
<1>3. modify(c, i) = [c EXCEPT !.modifications = x]
  BY <1>1, <1>2 DEF modify
<1>4. [c EXCEPT !.modifications = x] = Builder(D, I, x, map)
  BY DEF Builder
<1> QED
  BY <1>1, <1>3, <1>4

IsInserted(d, D, I, M, map, m, n, t) ==
  d = IF t THEN Builder(D, insert_at(I, m, n), shift_for_insert_at(M, m, n),
                        MappingInserted(map, m, n))
      ELSE Builder(D, I, shift_for_insert_at(M, m, n), map)

LEMMA InsertRowsIs ==
  ASSUME NEW D, NEW I, NEW M, NEW map, NEW m, NEW n, NEW c, c = Builder(D, I, M, map),
         NEW t \in BOOLEAN, NEW d, d = insert(c, m, n, t)
  PROVE  IsInserted(d, D, I, M, map, m, n, t)
<1>1. MovesInserted(<<>>, m) = <<>>
  BY DEF MovesInserted
<1>2. PICK x, y, z : /\ x = shift_for_insert_at(M, m, n) /\ y = insert_at(I, m, n)
                     /\ z = MappingInserted(map, m, n)
  OBVIOUS
<1>3. c.modifications = M /\ c.insertions = I /\ c.mapping = map /\ c.moves = <<>>
  BY DEF Builder
<1>4. PICK e : e = [c EXCEPT !.modifications = shift_for_insert_at(@, m, n)]
  OBVIOUS
<1>5. e = [c EXCEPT !.modifications = x]
  BY <1>2, <1>3, <1>4
<1>6. e = Builder(D, I, x, map)
  BY <1>5 DEF Builder
<1>7. t = FALSE => d = e
  BY <1>4 DEF insert
<1>8. t = TRUE => d = [e EXCEPT !.insertions = insert_at(@, m, n),
                                !.moves = MovesInserted(@, m),
                                !.mapping = MappingInserted(@, m, n)]
  BY <1>4 DEF insert
<1>9. t = TRUE => d = Builder(D, y, x, z)
  BY <1>1, <1>2, <1>6, <1>8 DEF Builder
<1> QED
  BY <1>2, <1>6, <1>7, <1>9 DEF IsInserted

LEMMA ClearTableIs ==
  ASSUME NEW n
  PROVE  clear_table(n) = Builder(0 .. n - 1, {}, {}, << >>)
<1>1. PICK x : x = 0 .. n - 1
  OBVIOUS
<1>2. PICK c : c = NoChanges
  OBVIOUS
<1>3. clear_table(n) = [c EXCEPT !.deletions = x]
  BY <1>1, <1>2 DEF clear_table
<1>4. PICK e, m : e = {} /\ m = << >>
  OBVIOUS
<1>5. c = [deletions |-> e, insertions |-> e, modifications |-> e, moves |-> m, mapping |-> m]
  BY <1>2, <1>4 DEF NoChanges
<1>6. [c EXCEPT !.deletions = x]
        = [deletions |-> x, insertions |-> e, modifications |-> e, moves |-> m,
           mapping |-> m]
  BY <1>5
<1>7. [c EXCEPT !.deletions = x] = Builder(x, {}, {}, << >>)
  BY <1>4, <1>6 DEF Builder
<1> QED
  BY <1>1, <1>3, <1>7

\* The modifications when the last row takes the place of row i.
ModifiedOver(M, i, l) == (M \ {i, l}) \cup IF l \in M /\ i # l THEN {i} ELSE {}

MoveOverModified(c, i, l) ==
  [c EXCEPT !.modifications = (@ \ {i, l}) \cup IF l \in @ /\ i # l THEN {i} ELSE {}]

LEMMA MoveOverModifiedIs ==
  ASSUME NEW D, NEW I, NEW M, NEW map, NEW i, NEW l, NEW c, c = Builder(D, I, M, map)
  PROVE  MoveOverModified(c, i, l) = Builder(D, I, ModifiedOver(M, i, l), map)
<1>1. PICK x : x = ModifiedOver(M, i, l)
  OBVIOUS
<1>2. c.modifications = M
  BY DEF Builder
<1>3. MoveOverModified(c, i, l) = [c EXCEPT !.modifications = x]
  BY <1>1, <1>2 DEF MoveOverModified, ModifiedOver
<1>4. [c EXCEPT !.modifications = x] = Builder(D, I, x, map)
  BY DEF Builder
<1> QED
  BY <1>1, <1>3, <1>4

IsBuilt(d, D, I, M, map) == d = Builder(D, I, M, map)

LEMMA MoveOverUntold ==
  ASSUME NEW D, NEW I, NEW M, NEW map, NEW i, NEW l, NEW c, c = Builder(D, I, M, map),
         NEW t, t = FALSE, NEW d, d = move_over(c, i, l, t)
  PROVE  IsBuilt(d, D, I, ModifiedOver(M, i, l), map)
<1>1. d = MoveOverModified(c, i, l)
  BY DEF move_over, MoveOverModified
<1>2. MoveOverModified(c, i, l) = Builder(D, I, ModifiedOver(M, i, l), map)
  BY MoveOverModifiedIs
<1> QED
  BY <1>1, <1>2 DEF IsBuilt

IsLastErased(d, D, I, M, map, l) ==
  d = Builder(IF l \in I THEN D ELSE AddShifted(D, unshift(I, l)),
              erase_at(I, l), ModifiedOver(M, l, l), Unmapped(map, l))

LEMMA MoveOverLast ==
  ASSUME NEW D, NEW I \in FiniteIndices, NEW M, NEW map, NEW l \in Nat,
         NEW c, c = Builder(D, I, M, map),
         NEW t, t = TRUE, NEW d, d = move_over(c, l, l, t)
  PROVE  IsLastErased(d, D, I, M, map, l)
<1>1. unshift(I, l) # npos
  BY UnshiftNat DEF npos
<1>2. PICK e : e = MoveOverModified(c, l, l)
  OBVIOUS
<1>3. e = Builder(D, I, ModifiedOver(M, l, l), map)
  BY <1>2, MoveOverModifiedIs
<1>4. PICK f : f = Erased(e, l)
  OBVIOUS
<1>5. PICK x, y : x = (IF l \in I THEN D ELSE AddShifted(D, unshift(I, l)))
                  /\ y = erase_at(I, l)
  OBVIOUS
<1>6. PICK g : g = [e EXCEPT !.insertions = y]
  OBVIOUS
<1>7. g = Builder(D, y, ModifiedOver(M, l, l), map)
  BY <1>3, <1>6 DEF Builder
<1>8. e.deletions = D /\ e.insertions = I
  BY <1>3 DEF Builder
<1>9. f = [g EXCEPT !.deletions = x]
  BY <1>1, <1>4, <1>5, <1>6, <1>7, <1>8 DEF Erased, erase_or_unshift
<1>10. f = Builder(x, y, ModifiedOver(M, l, l), map)
  BY <1>7, <1>9 DEF Builder
<1>11. d = [f EXCEPT !.mapping = Unmapped(@, l)]
  BY <1>2, <1>4 DEF move_over, MoveOverModified
<1>12. PICK z : z = Unmapped(map, l)
  OBVIOUS
<1>13. f.mapping = map
  BY <1>10 DEF Builder
<1>14. d = [f EXCEPT !.mapping = z]
  BY <1>11, <1>12, <1>13
<1>15. d = Builder(x, y, ModifiedOver(M, l, l), z)
  BY <1>10, <1>14 DEF Builder
<1> QED
  BY <1>5, <1>12, <1>15 DEF IsLastErased

MappedOver(I, map, i, l, old) ==
  IF l \in I
  THEN IF l \in DOMAIN map THEN Mapped(Unmapped(map, l), i, map[l])
       ELSE IF i \in I THEN Unmapped(map, i) ELSE map
  ELSE Mapped(IF i \in I THEN Unmapped(map, i) ELSE map, i, old)

IsMovedOver(d, D, I, M, map, i, l, F, old) ==
  d = Builder(IF i \in I THEN F ELSE AddShifted(F, unshift(I \ {l}, i)),
              IF i \in I THEN I \ {l} ELSE (I \ {l}) \cup {i},
              ModifiedOver(M, i, l), MappedOver(I, map, i, l, old))

\* old is the index the last row had.
LEMMA MoveOverIs ==
  ASSUME NEW D, NEW I, NEW M, NEW map, NEW i, NEW l, i # l,
         NEW old, old = shift(D, unshift(I, l)),
         NEW F, F = IF l \in I THEN D ELSE D \cup {old},
         NEW c, c = Builder(D, I, M, map),
         NEW t, t = TRUE, NEW d, d = move_over(c, i, l, t)
  PROVE  IsMovedOver(d, D, I, M, map, i, l, F, old)
<1>1. PICK e : e = MoveOverModified(c, i, l)
  OBVIOUS
<1>2. e = Builder(D, I, ModifiedOver(M, i, l), map)
  BY <1>1, MoveOverModifiedIs
<1>3. PICK x, y, z : /\ x = (IF i \in I THEN F ELSE AddShifted(F, unshift(I \ {l}, i)))
                     /\ y = (IF i \in I THEN I \ {l} ELSE (I \ {l}) \cup {i})
                     /\ z = MappedOver(I, map, i, l, old)
  OBVIOUS
<1>4. c.deletions = D /\ c.insertions = I /\ c.mapping = map
  BY DEF Builder
<1>5. d = [e EXCEPT !.mapping = z, !.deletions = x, !.insertions = y]
  BY <1>1, <1>3, <1>4 DEF move_over, MoveOverModified, MappedOver
<1>6. d = Builder(x, y, ModifiedOver(M, i, l), z)
  BY <1>2, <1>5 DEF Builder
<1> QED
  BY <1>3, <1>6 DEF IsMovedOver

\* The rows of a table that are not told as inserted are at their old indices.
InPlace(D, I, n, p) ==
  /\ D \in Intervals(n) /\ I \in Intervals(p)
  /\ \A x \in 0 .. n - 1 : x \in D <=> x >= p \/ x \in I
  /\ \A x \in (0 .. p - 1) \ I : x < n

LEMMA InPlaceIndex ==
  ASSUME NEW n \in Nat, NEW p \in Nat, NEW D, NEW I, InPlace(D, I, n, p),
         NEW x \in (0 .. p - 1) \ I
  PROVE  x \in 0 .. n - 1 /\ x \notin D /\ shift(D, unshift(I, x)) = x
<1>1. D \in FiniteIndices /\ I \in FiniteIndices
  BY IntervalsFinite DEF InPlace
<1>2. x \in Nat /\ x < p /\ x < n
  BY DEF InPlace
<1>3. x \notin D
  BY <1>2 DEF InPlace
<1>4. \A y \in 0 .. x - 1 : y \in D <=> y \in I
  BY <1>2 DEF InPlace
<1>5. I \in SUBSET Nat
  BY <1>1 DEF FiniteIndices
<1>6. shift(D, unshift(I, x)) = x
  BY <1>1, <1>2, <1>3, <1>4, <1>5, OldPlace
<1> QED
  BY <1>2, <1>3, <1>6

\* A row told as inserted stands for one told as deleted.
LEMMA InPlaceOut ==
  ASSUME NEW n \in Nat, NEW p \in Nat, NEW D, NEW I, InPlace(D, I, n, p),
         NEW x \in (0 .. p - 1) \ I
  PROVE  InPlace(D \cup {x}, I \cup {x}, n, p)
<1>1. x \in 0 .. n - 1
  BY InPlaceIndex
<1>2. D \cup {x} \in Intervals(n) /\ I \cup {x} \in Intervals(p)
  BY <1>1 DEF InPlace, Intervals
<1>3. \A y \in 0 .. n - 1 : y \in D \cup {x} <=> y >= p \/ y \in I \cup {x}
  BY DEF InPlace
<1>4. \A y \in (0 .. p - 1) \ (I \cup {x}) : y < n
  BY DEF InPlace
<1> QED
  BY <1>2, <1>3, <1>4 DEF InPlace

LEMMA MoveOutIs ==
  ASSUME NEW n \in Nat, NEW p \in Nat, NEW D, NEW I, NEW M, NEW map, InPlace(D, I, n, p),
         NEW c, c = Builder(D, I, M, map), NEW x \in (0 .. p - 1) \ I, NEW to
  PROVE  MoveOut(c, x, to) = Builder(D \cup {x}, I \cup {x}, M, Mapped(map, to, x))
<1>1. shift(D, unshift(I, x)) = x
  BY InPlaceIndex
<1>2. c.deletions = D /\ c.insertions = I /\ c.mapping = map
  BY DEF Builder
<1>3. PICK a, b, m : a = D \cup {x} /\ b = I \cup {x} /\ m = Mapped(map, to, x)
  OBVIOUS
<1>4. MoveOut(c, x, to) = [c EXCEPT !.deletions = a, !.insertions = b, !.mapping = m]
  BY <1>1, <1>2, <1>3 DEF MoveOut
<1>5. PICK d : d = [c EXCEPT !.deletions = a, !.insertions = b, !.mapping = m]
  OBVIOUS
<1>6. d = Builder(a, b, M, m)
  BY <1>5 DEF Builder
<1> QED
  BY <1>3, <1>4, <1>5, <1>6

\* The modifications, when one of the rows is in them, change rows.
SwapModified(M, i, j) ==
  IF (i \in M) = (j \in M) THEN M
  ELSE (M \ ({i, j} \cap M)) \cup ({i, j} \ ({i, j} \cap M))

SwapModifiedRows(c, i, j) ==
  LET one == {i, j} \cap c.modifications
  IN IF Cardinality(one) # 1 THEN c
     ELSE [c EXCEPT !.modifications = (@ \ one) \cup ({i, j} \ one)]

LEMMA SwapModifiedIs ==
  ASSUME NEW D, NEW I, NEW M, NEW map, NEW i, NEW j, i # j,
         NEW c, c = Builder(D, I, M, map)
  PROVE  SwapModifiedRows(c, i, j) = Builder(D, I, SwapModified(M, i, j), map)
<1>1. PICK one : one = {i, j} \cap M
  OBVIOUS
<1>2. c.modifications = M
  BY DEF Builder
<1>3. Cardinality(one) # 1 <=> (i \in M) = (j \in M)
  <2>1. CASE i \in M /\ j \in M
    <3>1. one = {i, j}
      BY <1>1, <2>1
    <3>2. Cardinality({i, j}) = 2
      <4>1. IsFiniteSet({i}) /\ Cardinality({i}) = 1
        BY FS_Singleton
      <4>2. Cardinality({i} \cup {j}) = Cardinality({i}) + 1
        BY <4>1, FS_AddElement
      <4>3. {i} \cup {j} = {i, j}
        OBVIOUS
      <4> QED
        BY <4>1, <4>2, <4>3
    <3> QED
      BY <2>1, <3>1, <3>2
  <2>2. CASE i \in M /\ j \notin M
    <3>1. one = {i} /\ Cardinality({i}) = 1
      BY <1>1, <2>2, FS_Singleton
    <3> QED
      BY <2>2, <3>1
  <2>3. CASE i \notin M /\ j \in M
    <3>1. one = {j} /\ Cardinality({j}) = 1
      BY <1>1, <2>3, FS_Singleton
    <3> QED
      BY <2>3, <3>1
  <2>4. CASE i \notin M /\ j \notin M
    <3>1. one = {} /\ Cardinality({}) = 0
      BY <1>1, <2>4, FS_EmptySet
    <3> QED
      BY <2>4, <3>1
  <2> QED
    BY <2>1, <2>2, <2>3, <2>4
<1>4. PICK x : x = (M \ one) \cup ({i, j} \ one)
  OBVIOUS
<1>5. SwapModifiedRows(c, i, j)
        = IF Cardinality(one) # 1 THEN c ELSE [c EXCEPT !.modifications = x]
  BY <1>1, <1>2, <1>4 DEF SwapModifiedRows
<1>6. [c EXCEPT !.modifications = x] = Builder(D, I, x, map)
  BY DEF Builder
<1>7. SwapModified(M, i, j) = IF (i \in M) = (j \in M) THEN M ELSE x
  BY <1>1, <1>4 DEF SwapModified
<1> QED
  BY <1>3, <1>5, <1>6, <1>7

\* The last row is gone.
LEMMA InPlaceLast ==
  ASSUME NEW n \in Nat, NEW p \in Nat, NEW D, NEW I, InPlace(D, I, n, p + 1)
  PROVE  InPlace(IF p \in I THEN D ELSE D \cup {p}, I \ {p}, n, p)
<1>1. PICK E : E = IF p \in I THEN D ELSE D \cup {p}
  OBVIOUS
<1>2. p \notin I => p \in 0 .. n - 1
  BY DEF InPlace
<1>3. D \in SUBSET (0 .. n - 1) /\ I \in SUBSET (0 .. p)
  BY DEF InPlace, Intervals
<1>4. E \in Intervals(n)
  BY <1>1, <1>2, <1>3 DEF Intervals
<1>5. I \ {p} \in Intervals(p)
  BY <1>3 DEF Intervals
<1>6. ASSUME NEW x \in 0 .. n - 1 PROVE x \in E <=> x >= p \/ x \in I \ {p}
  <2>1. x \in D <=> x >= p + 1 \/ x \in I
    BY DEF InPlace
  <2>2. x \in E <=> x \in D \/ (x = p /\ p \notin I)
    BY <1>1
  <2> QED
    BY <2>1, <2>2
<1>7. \A x \in (0 .. p - 1) \ (I \ {p}) : x < n
  BY DEF InPlace
<1>8. InPlace(E, I \ {p}, n, p)
  BY <1>4, <1>5, <1>6, <1>7 DEF InPlace
<1> QED
  BY <1>1, <1>8

\* The mapping when row i is deleted and the last row l takes its place.
MappedOn(I, map, i, l) ==
  IF i = l THEN Unmapped(map, l) ELSE MappedOver(I, map, i, l, l)

LeftInPlace(d, D, I, M, map, n, i, l) ==
  /\ d = Builder(D \cup ({i, l} \ I), (I \cup {i}) \ {l}, ModifiedOver(M, i, l),
                 MappedOn(I, map, i, l))
  /\ InPlace(D \cup ({i, l} \ I), (I \cup {i}) \ {l}, n, l)

LEMMA MoveOverInPlace ==
  ASSUME NEW n \in Nat, NEW l \in Nat, NEW D, NEW I, InPlace(D, I, n, l + 1),
         NEW i \in 0 .. l, NEW M, NEW map,
         NEW c, c = Builder(D, I, M, map),
         NEW t, t = TRUE, NEW d, d = move_over(c, i, l, t)
  PROVE  LeftInPlace(d, D, I, M, map, n, i, l)
<1> SUFFICES /\ d = Builder(D \cup ({i, l} \ I), (I \cup {i}) \ {l}, ModifiedOver(M, i, l),
                            MappedOn(I, map, i, l))
             /\ InPlace(D \cup ({i, l} \ I), (I \cup {i}) \ {l}, n, l)
  BY DEF LeftInPlace
<1>0. D \in Intervals(n) /\ I \in Intervals(l + 1) /\ l + 1 \in Nat
  BY DEF InPlace
<1>1. D \in FiniteIndices /\ I \in FiniteIndices /\ I \in SUBSET (0 .. l)
  <2>1. I \in SUBSET (0 .. l)
    BY <1>0 DEF Intervals
  <2> QED
    BY <1>0, <2>1, IntervalsFinite
<1>2. l \notin I => shift(D, unshift(I, l)) = l
  BY InPlaceIndex
<1>3. PICK F : F = IF l \in I THEN D ELSE D \cup {l}
  OBVIOUS
<1>4. InPlace(F, I \ {l}, n, l)
  BY <1>3, InPlaceLast
<1>5. CASE i = l
  <2>1. d = Builder(IF l \in I THEN D ELSE AddShifted(D, unshift(I, l)),
                    erase_at(I, l), ModifiedOver(M, l, l), Unmapped(map, l))
    <3>1. d = move_over(c, l, l, t)
      BY <1>5
    <3>2. IsLastErased(d, D, I, M, map, l)
      BY <1>1, <3>1, MoveOverLast
    <3> QED
      BY <3>2 DEF IsLastErased
  <2>2. (IF l \in I THEN D ELSE AddShifted(D, unshift(I, l))) = F
    BY <1>2, <1>3 DEF AddShifted
  <2>3. erase_at(I, l) = I \ {l}
    <3>1. \A x \in I : x <= l /\ x \in Nat
      BY <1>1
    <3>2. {y \in I : y > l} = {} /\ {x \in I : x < l} = I \ {l}
      BY <3>1
    <3> QED
      BY <3>2 DEF erase_at
  <2>4. F = D \cup ({i, l} \ I) /\ I \ {l} = (I \cup {i}) \ {l}
    BY <1>3, <1>5
  <2>5. Unmapped(map, l) = MappedOn(I, map, i, l)
    BY <1>5 DEF MappedOn
  <2>6. d = Builder(F, I \ {l}, ModifiedOver(M, i, l), MappedOn(I, map, i, l))
    BY <1>5, <2>1, <2>2, <2>3, <2>5
  <2> QED
    BY <1>4, <2>4, <2>6
<1>6. CASE i # l
  <2>1. i \in 0 .. l - 1
    BY <1>6
  <2>2. PICK old : old = shift(D, unshift(I, l))
    OBVIOUS
  <2>3. F = IF l \in I THEN D ELSE D \cup {old}
    BY <1>2, <1>3, <2>2
  <2>4. d = Builder(IF i \in I THEN F ELSE AddShifted(F, unshift(I \ {l}, i)),
                    IF i \in I THEN I \ {l} ELSE (I \ {l}) \cup {i},
                    ModifiedOver(M, i, l), MappedOver(I, map, i, l, old))
    <3>1. IsMovedOver(d, D, I, M, map, i, l, F, old)
      BY <1>6, <2>2, <2>3, MoveOverIs
    <3> QED
      BY <3>1 DEF IsMovedOver
  <2>5. MappedOver(I, map, i, l, old) = MappedOn(I, map, i, l)
    BY <1>2, <1>6, <2>2 DEF MappedOver, MappedOn
  <2>6. PICK E, J : /\ E = D \cup ({i, l} \ I)
                    /\ J = (I \cup {i}) \ {l}
    OBVIOUS
  <2>7. CASE i \in I
    <3>1. F = E /\ I \ {l} = J
      BY <1>3, <1>6, <2>6, <2>7
    <3>2. d = Builder(F, I \ {l}, ModifiedOver(M, i, l), MappedOn(I, map, i, l))
      BY <2>4, <2>5, <2>7
    <3> QED
      BY <1>4, <2>6, <3>1, <3>2
  <2>8. CASE i \notin I
    <3>1. i \in (0 .. l - 1) \ (I \ {l})
      BY <2>1, <2>8
    <3>2. shift(F, unshift(I \ {l}, i)) = i
      BY <1>4, <3>1, InPlaceIndex
    <3>3. AddShifted(F, unshift(I \ {l}, i)) = F \cup {i}
      BY <3>2 DEF AddShifted
    <3>4. F \cup {i} = E /\ (I \ {l}) \cup {i} = J
      BY <1>3, <1>6, <2>6, <2>8
    <3>5. InPlace(F \cup {i}, (I \ {l}) \cup {i}, n, l)
      BY <1>4, <3>1, InPlaceOut
    <3>6. d = Builder(F \cup {i}, (I \ {l}) \cup {i}, ModifiedOver(M, i, l),
                      MappedOn(I, map, i, l))
      BY <2>4, <2>5, <2>8, <3>3
    <3> QED
      BY <2>6, <3>4, <3>5, <3>6
  <2> QED
    BY <2>7, <2>8
<1> QED
  BY <1>5, <1>6


-----------------------------------------------------------------------------
(* The mapping of a log: o[k] is the index row k had at its start          *)

Moving(I, o) == {k \in I : o[k] # npos}
LogMapping(I, o) == [k \in Moving(I, o) |-> o[k]]

LEMMA UnmappedIs ==
  ASSUME NEW S, NEW o, NEW to
  PROVE  Unmapped([k \in S |-> o[k]], to) = [k \in S \ {to} |-> o[k]]
BY DEF Unmapped, Restrict

\* Row i is deleted, the last row l takes its place.
RowsMoved(o, i, l) == [k \in 0 .. l - 1 |-> IF k = i THEN o[l] ELSE o[k]]

LEMMA MappedOnIs ==
  ASSUME NEW l \in Nat, NEW I \in SUBSET (0 .. l), NEW i \in 0 .. l, NEW o,
         \A k \in (0 .. l) \ I : o[k] = k,
         NEW J, J = I \/ J = I \ {i}, NEW map, map = LogMapping(J, o)
  PROVE  MappedOn(I, map, i, l) = LogMapping((I \cup {i}) \ {l}, RowsMoved(o, i, l))
<1>1. PICK q : q = RowsMoved(o, i, l)
  OBVIOUS
<1>2. \A k \in 0 .. l - 1 : q[k] = IF k = i THEN o[l] ELSE o[k]
  BY <1>1 DEF RowsMoved
<1>3. PICK S : S = Moving(J, o)
  OBVIOUS
<1>4. PICK T : T = Moving((I \cup {i}) \ {l}, q)
  OBVIOUS
<1>5. map = [k \in S |-> o[k]] /\ DOMAIN map = S
  BY <1>3 DEF LogMapping
<1>6. \A k : k \in S <=> k \in J /\ o[k] # npos
  BY <1>3 DEF Moving
<1>7. \A k : k \in T <=> k # l /\ (k \in I \/ k = i) /\ q[k] # npos
  BY <1>4 DEF Moving
<1>8. \A k \in (I \cup {i}) \ {l} : k \in 0 .. l - 1
  OBVIOUS
<1>9. \A k : k \in T <=> k # l /\ (k \in I \/ k = i) /\ (IF k = i THEN o[l] ELSE o[k]) # npos
  BY <1>2, <1>7, <1>8
<1>10. \A k \in T : q[k] = IF k = i THEN o[l] ELSE o[k]
  BY <1>2, <1>7, <1>8
<1>11. SUFFICES MappedOn(I, map, i, l) = [k \in T |-> IF k = i THEN o[l] ELSE o[k]]
  BY <1>1, <1>4, <1>10 DEF LogMapping
<1>12. CASE i = l
  <2>1. MappedOn(I, map, i, l) = [k \in S \ {l} |-> o[k]]
    BY <1>5, <1>12, UnmappedIs DEF MappedOn
  <2>2. S \ {l} = T
    BY <1>6, <1>9, <1>12
  <2>3. \A k \in T : k # i
    BY <1>9, <1>12
  <2> QED
    BY <2>1, <2>2, <2>3
<1>13. CASE i # l /\ l \in I /\ o[l] # npos
  <2>1. l \in S
    BY <1>6, <1>13
  <2>2. MappedOn(I, map, i, l) = Mapped(Unmapped(map, l), i, o[l])
    BY <1>5, <1>13, <2>1 DEF MappedOn, MappedOver
  <2>3. Unmapped(map, l) = [k \in S \ {l} |-> o[k]]
    BY <1>5, UnmappedIs
  <2>4. MappedOn(I, map, i, l)
          = [k \in (S \ {l}) \cup {i} |-> IF k = i THEN o[l] ELSE o[k]]
    <3>1. Mapped([k \in S \ {l} |-> o[k]], i, o[l])
            = [k \in (S \ {l}) \cup {i} |-> IF k = i THEN o[l] ELSE o[k]]
      BY DEF Mapped
    <3> QED
      BY <2>2, <2>3, <3>1
  <2>5. (S \ {l}) \cup {i} = T
    <3>1. \A k : k # i => (k \in J <=> k \in I)
      OBVIOUS
    <3>2. \A k : k # i => (k \in T <=> k # l /\ k \in S)
      BY ONLY <1>6, <1>9, <3>1
    <3>3. i \in T
      BY ONLY <1>9, <1>13
    <3> QED
      BY ONLY <3>2, <3>3
  <2> QED
    BY <2>4, <2>5
<1>14. CASE i # l /\ l \in I /\ o[l] = npos
  <2>1. l \notin S
    BY <1>6, <1>14
  <2>2. MappedOn(I, map, i, l) = IF i \in I THEN Unmapped(map, i) ELSE map
    BY <1>5, <1>14, <2>1 DEF MappedOn, MappedOver
  <2>3. i \notin I => i \notin S
    BY <1>6
  <2>4. MappedOn(I, map, i, l) = [k \in S \ {i} |-> o[k]]
    <3>1. i \notin I => S \ {i} = S
      BY <2>3
    <3>2. Unmapped(map, i) = [k \in S \ {i} |-> o[k]]
      BY <1>5, UnmappedIs
    <3> QED
      BY <1>5, <2>2, <3>1, <3>2
  <2>5. S \ {i} = T
    BY <1>6, <1>9, <1>14
  <2>6. \A k \in T : k # i
    BY <1>9, <1>14
  <2> QED
    BY <2>4, <2>5, <2>6
<1>15. CASE i # l /\ l \notin I
  <2>1. o[l] = l /\ o[l] # npos
    BY <1>15 DEF npos
  <2>2. MappedOn(I, map, i, l) = Mapped(IF i \in I THEN Unmapped(map, i) ELSE map, i, l)
    BY <1>15 DEF MappedOn, MappedOver
  <2>3. i \notin I => i \notin S
    BY <1>6
  <2>4. (IF i \in I THEN Unmapped(map, i) ELSE map) = [k \in S \ {i} |-> o[k]]
    <3>1. i \notin I => S \ {i} = S
      BY <2>3
    <3>2. Unmapped(map, i) = [k \in S \ {i} |-> o[k]]
      BY <1>5, UnmappedIs
    <3> QED
      BY <1>5, <3>1, <3>2
  <2>5. MappedOn(I, map, i, l) = [k \in (S \ {i}) \cup {i} |-> IF k = i THEN l ELSE o[k]]
    <3>1. Mapped([k \in S \ {i} |-> o[k]], i, l)
            = [k \in (S \ {i}) \cup {i} |-> IF k = i THEN l ELSE o[k]]
      BY DEF Mapped
    <3> QED
      BY <2>2, <2>4, <3>1
  <2>6. (S \ {i}) \cup {i} = T
    <3>1. \A k : k # i => (k \in J <=> k \in I)
      OBVIOUS
    <3>2. \A k : k # i => (k \in T <=> k \in S)
      BY ONLY <1>6, <1>9, <1>15, <3>1
    <3>3. i \in T
      BY ONLY <1>9, <1>15, <2>1
    <3> QED
      BY ONLY <3>2, <3>3
  <2> QED
    BY <2>1, <2>5, <2>6
<1> QED
  BY <1>12, <1>13, <1>14, <1>15

-----------------------------------------------------------------------------
(* What the changes of a log tell while it is read. The table had n rows,  *)
(* and has p now: row k had the index o[k].                                *)

InLog(D, I, n, p, o) ==
  /\ o \in Origins(n, p)
  /\ InPlace(D, I, n, p)
  /\ \A k \in (0 .. p - 1) \ I : o[k] = k
  /\ \A k \in I : o[k] # npos => o[k] \in D

LogTells(c, M, n, p, o) ==
  \E D, I : c = Builder(D, I, M, LogMapping(I, o)) /\ InLog(D, I, n, p, o)

LEMMA NothingTells ==
  ASSUME NEW n \in Nat, NEW o, o = [k \in 0 .. n - 1 |-> k]
  PROVE  LogTells(NoChanges, {}, n, n, o)
<1>1. o \in Origins(n, n)
  BY DEF Origins, npos
<1>2. InPlace({}, {}, n, n)
  BY DEF InPlace, Intervals
<1>3. InLog({}, {}, n, n, o)
  BY <1>1, <1>2 DEF InLog
<1>4. Moving({}, o) = {}
  BY DEF Moving
<1>5. LogMapping({}, o) = << >>
  BY <1>4 DEF LogMapping
<1>6. NoChanges = Builder({}, {}, {}, LogMapping({}, o))
  BY <1>5 DEF NoChanges, Builder
<1> QED
  BY <1>3, <1>6 DEF LogTells

\* A cleared table is told as one of n rows that are all deleted.
LEMMA ClearTells ==
  ASSUME NEW n \in Nat, NEW o, o = [k \in 0 .. 0 - 1 |-> npos]
  PROVE  LogTells(clear_table(n), {}, n, 0, o)
<1>1. o \in Origins(n, 0)
  BY DEF Origins, npos
<1>2. InPlace(0 .. n - 1, {}, n, 0)
  BY DEF InPlace, Intervals
<1>3. InLog(0 .. n - 1, {}, n, 0, o)
  BY <1>1, <1>2 DEF InLog
<1>4. Moving({}, o) = {}
  BY DEF Moving
<1>5. LogMapping({}, o) = << >>
  BY <1>4 DEF LogMapping
<1>6. clear_table(n) = Builder(0 .. n - 1, {}, {}, LogMapping({}, o))
  BY <1>5, ClearTableIs
<1> QED
  BY <1>3, <1>6 DEF LogTells

LEMMA ModifyTells ==
  ASSUME NEW n, NEW p, NEW o, NEW M, NEW c, LogTells(c, M, n, p, o), NEW i
  PROVE  LogTells(modify(c, i), M \cup {i}, n, p, o)
<1>1. PICK D, I : c = Builder(D, I, M, LogMapping(I, o)) /\ InLog(D, I, n, p, o)
  BY DEF LogTells
<1>2. modify(c, i) = Builder(D, I, M \cup {i}, LogMapping(I, o))
  BY <1>1, ModifyIs
<1> QED
  BY <1>1, <1>2 DEF LogTells

RowsAdded(o, p, x) == [k \in 0 .. p + x - 1 |-> IF k < p THEN o[k] ELSE npos]

LEMMA AddedAtEnd ==
  ASSUME NEW p \in Nat, NEW x \in Nat, NEW S \in Intervals(p)
  PROVE  /\ insert_at(S, p, x) = S \cup (p .. p + x - 1)
         /\ shift_for_insert_at(S, p, x) = S
<1>1. \A y \in S : y \in Nat /\ y < p
  BY DEF Intervals
<1>2. {y \in S : y < p} = S /\ {y \in S : y >= p} = {}
  BY <1>1
<1>3. {y + x : y \in {z \in S : z >= p}} = {}
  BY <1>2
<1> QED
  BY <1>2, <1>3 DEF insert_at, shift_for_insert_at

LEMMA MappingKeptAtEnd ==
  ASSUME NEW p \in Nat, NEW x \in Nat, NEW S \in Intervals(p), NEW o,
         NEW map, map = [k \in S |-> o[k]]
  PROVE  MappingInserted(map, p, x) = map
<1> DEFINE later(to) == IF to >= p THEN to + x ELSE to
<1>1. \A k \in S : k \in Nat /\ k < p
  BY DEF Intervals
<1>2. \A k \in S : later(k) = k
  BY <1>1
<1>3. PICK X, T : X = DOMAIN map /\ T = {later(m) : m \in X}
  OBVIOUS
<1>4. X = S /\ T = S
  BY <1>2, <1>3
<1>5. \A k \in T : (CHOOSE m \in X : later(m) = k) = k
  BY <1>2, <1>4
<1>6. MappingInserted(map, p, x) = [k \in T |-> map[CHOOSE m \in X : later(m) = k]]
  BY <1>3 DEF MappingInserted
<1> HIDE DEF later
<1>7. MappingInserted(map, p, x) = [k \in T |-> map[k]]
  BY <1>5, <1>6
<1> QED
  BY <1>4, <1>7

LEMMA RowsAddedInLog ==
  ASSUME NEW n \in Nat, NEW p \in Nat, NEW x \in Nat, NEW D, NEW I, NEW o, InLog(D, I, n, p, o)
  PROVE  InLog(D, I \cup (p .. p + x - 1), n, p + x, RowsAdded(o, p, x))
<1>1. PICK q : q = RowsAdded(o, p, x)
  OBVIOUS
<1>2. PICK J : J = I \cup (p .. p + x - 1)
  OBVIOUS
<1>3. o \in [0 .. p - 1 -> npos .. n - 1]
      /\ \A j, k \in 0 .. p - 1 : o[j] = o[k] /\ j # k => o[j] = npos
  BY DEF InLog, Origins
<1>4. q = [k \in 0 .. p + x - 1 |-> IF k < p THEN o[k] ELSE npos]
  BY <1>1 DEF RowsAdded
<1>5. \A k \in 0 .. p + x - 1 : q[k] \in npos .. n - 1
  BY <1>3, <1>4 DEF npos
<1>6. \A j, k \in 0 .. p + x - 1 : q[j] = q[k] /\ j # k => q[j] = npos
  BY <1>3, <1>4
<1>7. q \in Origins(n, p + x)
  BY <1>4, <1>5, <1>6 DEF Origins
<1>8. /\ D \in Intervals(n) /\ I \in SUBSET (0 .. p - 1)
      /\ \A y \in 0 .. n - 1 : y \in D <=> y >= p \/ y \in I
      /\ \A y \in (0 .. p - 1) \ I : y < n /\ o[y] = y
      /\ \A y \in I : o[y] # npos => o[y] \in D
  BY DEF InLog, InPlace, Intervals
<1>9. J \in Intervals(p + x)
  BY <1>2, <1>8 DEF Intervals
<1>10. \A y \in 0 .. n - 1 : y \in D <=> y >= p + x \/ y \in J
  BY <1>2, <1>8
<1>11. \A y \in (0 .. p + x - 1) \ J : y \in (0 .. p - 1) \ I /\ q[y] = o[y]
  BY <1>2, <1>4
<1>12. \A y \in J : q[y] # npos => y \in I /\ q[y] = o[y]
  BY <1>2, <1>4, <1>8
<1>13. InPlace(D, J, n, p + x)
  BY <1>8, <1>9, <1>10, <1>11 DEF InPlace
<1>14. \A y \in (0 .. p + x - 1) \ J : q[y] = y
  BY <1>8, <1>11
<1>15. \A y \in J : q[y] # npos => q[y] \in D
  BY <1>8, <1>12
<1>16. InLog(D, J, n, p + x, q)
  BY ONLY <1>7, <1>13, <1>14, <1>15 DEF InLog
<1> QED
  BY <1>1, <1>2, <1>16

LEMMA RowsAddedTells ==
  ASSUME NEW n \in Nat, NEW p \in Nat, NEW x \in Nat, NEW M \in Intervals(p),
         NEW o, NEW c, LogTells(c, M, n, p, o),
         NEW t, t = TRUE, NEW d, d = insert(c, p, x, t)
  PROVE  LogTells(d, M, n, p + x, RowsAdded(o, p, x))
<1>1. PICK D, I : c = Builder(D, I, M, LogMapping(I, o)) /\ InLog(D, I, n, p, o)
  BY DEF LogTells
<1>2. PICK map : map = LogMapping(I, o)
  OBVIOUS
<1>3. d = Builder(D, insert_at(I, p, x), shift_for_insert_at(M, p, x),
                  MappingInserted(map, p, x))
  <2>1. IsInserted(d, D, I, M, map, p, x, t)
    BY <1>1, <1>2, InsertRowsIs
  <2> QED
    BY <2>1 DEF IsInserted
<1>4. I \in Intervals(p)
  BY <1>1 DEF InLog, InPlace
<1>5. PICK J : J = I \cup (p .. p + x - 1)
  OBVIOUS
<1>6. insert_at(I, p, x) = J
  BY <1>4, <1>5, AddedAtEnd
<1>7. shift_for_insert_at(M, p, x) = M
  BY AddedAtEnd
<1>8. Moving(I, o) \in Intervals(p)
  BY <1>4 DEF Moving, Intervals
<1>9. MappingInserted(map, p, x) = map
  BY <1>2, <1>8, MappingKeptAtEnd DEF LogMapping
<1>10. PICK q : q = RowsAdded(o, p, x)
  OBVIOUS
<1>11. Moving(J, q) = Moving(I, o) /\ \A k \in Moving(I, o) : q[k] = o[k]
  <2>1. \A k \in J : q[k] = IF k < p THEN o[k] ELSE npos
    BY <1>4, <1>5, <1>10 DEF RowsAdded, Intervals
  <2>2. \A k \in I : k \in J /\ k < p
    BY <1>4, <1>5 DEF Intervals
  <2>3. \A k \in J : k < p => k \in I
    BY <1>4, <1>5 DEF Intervals
  <2> QED
    BY <2>1, <2>2, <2>3 DEF Moving
<1>12. map = LogMapping(J, q)
  BY <1>2, <1>11 DEF LogMapping
<1>13. d = Builder(D, J, M, LogMapping(J, q))
  BY <1>3, <1>6, <1>7, <1>9, <1>12
<1>14. InLog(D, J, n, p + x, q)
  BY <1>1, <1>5, <1>10, RowsAddedInLog
<1> QED
  BY <1>10, <1>13, <1>14 DEF LogTells

\* Row i is deleted, and the last row l takes its place: what must hold of the
\* others before.
Leaves(D, I, n, l, i, o) ==
  /\ o \in [0 .. l -> npos .. n - 1]
  /\ InPlace(D, I, n, l + 1)
  /\ \A a, b \in (0 .. l) \ {i} : o[a] = o[b] /\ a # b => o[a] = npos
  /\ \A k \in (0 .. l) \ I : o[k] = k
  /\ \A k \in I : o[k] # npos => o[k] \in D \/ (o[k] = i /\ i \notin I)

LEMMA RowGoneInLog ==
  ASSUME NEW n \in Nat, NEW l \in Nat, NEW D, NEW I, NEW i \in 0 .. l, NEW o,
         Leaves(D, I, n, l, i, o),
         NEW E, E = D \cup ({i, l} \ I), NEW J, J = (I \cup {i}) \ {l},
         InPlace(E, J, n, l)
  PROVE  InLog(E, J, n, l, RowsMoved(o, i, l))
<1>1. PICK q : q = RowsMoved(o, i, l)
  OBVIOUS
<1>2. q = [k \in 0 .. l - 1 |-> IF k = i THEN o[l] ELSE o[k]]
  BY <1>1 DEF RowsMoved
<1>3. /\ o \in [0 .. l -> npos .. n - 1]
      /\ \A a, b \in (0 .. l) \ {i} : o[a] = o[b] /\ a # b => o[a] = npos
      /\ \A k \in (0 .. l) \ I : o[k] = k
      /\ \A k \in I : o[k] # npos => o[k] \in D \/ (o[k] = i /\ i \notin I)
  BY DEF Leaves
<1>4. I \in SUBSET (0 .. l)
  BY DEF Leaves, InPlace, Intervals
<1>5. \A k \in 0 .. l - 1 : q[k] \in npos .. n - 1
  BY <1>2, <1>3
\* Where the rows come from.
<1> DEFINE r(k) == IF k = i THEN l ELSE k
<1>6. \A k \in 0 .. l - 1 : r(k) \in (0 .. l) \ {i} /\ q[k] = o[r(k)]
  BY <1>2
<1>7. \A j, k \in 0 .. l - 1 : j # k => r(j) # r(k)
  OBVIOUS
<1>8. \A j, k \in 0 .. l - 1 : q[j] = q[k] /\ j # k => q[j] = npos
  <2> HIDE DEF r
  <2> QED
    BY <1>3, <1>6, <1>7
<1>9. q \in Origins(n, l)
  BY <1>2, <1>5, <1>8 DEF Origins
<1>10. ASSUME NEW k \in (0 .. l - 1) \ J PROVE q[k] = k
  <2>1. k # i /\ k \in (0 .. l) \ I
    BY <1>10
  <2> QED
    BY <1>2, <1>3, <2>1
<1>11. ASSUME NEW k \in J, q[k] # npos PROVE q[k] \in E
  <2>1. k \in 0 .. l - 1
    BY <1>4, <1>11
  <2>2. CASE k = i
    <3>1. q[k] = o[l] /\ l # i
      BY <1>2, <2>1, <2>2
    <3>2. l \notin I => q[k] = l /\ l \in E
      BY <1>3, <3>1
    <3>3. l \in I => o[l] \in D \/ (o[l] = i /\ i \notin I)
      BY <1>3, <1>11, <3>1
    <3> QED
      BY <3>1, <3>2, <3>3
  <2>3. CASE k # i
    <3>1. q[k] = o[k] /\ k \in I
      BY <1>2, <2>1, <2>3
    <3>2. o[k] \in D \/ (o[k] = i /\ i \notin I)
      BY <1>3, <1>11, <3>1
    <3> QED
      BY <3>1, <3>2
  <2> QED
    BY <2>2, <2>3
<1>12. InLog(E, J, n, l, q)
  BY ONLY <1>9, <1>10, <1>11, InPlace(E, J, n, l) DEF InLog
<1> QED
  BY <1>1, <1>12

LEMMA RowGoneTells ==
  ASSUME NEW n \in Nat, NEW l \in Nat, NEW D, NEW I, NEW i \in 0 .. l, NEW o,
         Leaves(D, I, n, l, i, o),
         NEW J, J = I \/ J = I \ {i}, NEW map, map = LogMapping(J, o),
         NEW M, NEW c, c = Builder(D, I, M, map),
         NEW t, t = TRUE, NEW d, d = move_over(c, i, l, t)
  PROVE  LogTells(d, ModifiedOver(M, i, l), n, l, RowsMoved(o, i, l))
<1>1. InPlace(D, I, n, l + 1)
  BY DEF Leaves
<1>2. PICK E, H : E = D \cup ({i, l} \ I) /\ H = (I \cup {i}) \ {l}
  OBVIOUS
<1>3. PICK m : m = MappedOn(I, map, i, l)
  OBVIOUS
<1>4. d = Builder(E, H, ModifiedOver(M, i, l), m) /\ InPlace(E, H, n, l)
  <2>1. LeftInPlace(d, D, I, M, map, n, i, l)
    BY <1>1, MoveOverInPlace
  <2> QED
    BY <1>2, <1>3, <2>1 DEF LeftInPlace
<1>5. I \in SUBSET (0 .. l) /\ \A k \in (0 .. l) \ I : o[k] = k
  BY DEF Leaves, InPlace, Intervals
<1>6. m = LogMapping(H, RowsMoved(o, i, l))
  BY <1>2, <1>3, <1>5, MappedOnIs
<1>7. InLog(E, H, n, l, RowsMoved(o, i, l))
  BY <1>2, <1>4, RowGoneInLog
<1> QED
  BY <1>4, <1>6, <1>7 DEF LogTells

LEMMA MoveOverTells ==
  ASSUME NEW n \in Nat, NEW l \in Nat, NEW i \in 0 .. l, NEW o, NEW M,
         NEW c, LogTells(c, M, n, l + 1, o),
         NEW t, t = TRUE, NEW d, d = move_over(c, i, l, t)
  PROVE  LogTells(d, ModifiedOver(M, i, l), n, l, RowsMoved(o, i, l))
<1>1. PICK D, I : c = Builder(D, I, M, LogMapping(I, o)) /\ InLog(D, I, n, l + 1, o)
  BY DEF LogTells
<1>2. Leaves(D, I, n, l, i, o)
  <2>1. (l + 1) - 1 = l
    OBVIOUS
  <2> QED
    BY <1>1, <2>1 DEF InLog, Origins, Leaves
<1> QED
  BY <1>1, <1>2, RowGoneTells

ModifiedInto(M, i, j) == IF i \in M THEN M \cup {j} ELSE M

MappedInto(D, I, map, i, j) ==
  IF i \in DOMAIN map THEN Mapped(Unmapped(map, i), j, map[i])
  ELSE IF i \in I THEN map
  ELSE Mapped(map, j, shift(D, unshift(I, i)))

IsSubsumed(d, D, I, M, map, i, j, t) ==
  d = Builder(D, I, ModifiedInto(M, i, j), IF t THEN MappedInto(D, I, map, i, j) ELSE map)

LEMMA SubsumeIs ==
  ASSUME NEW D, NEW I, NEW M, NEW map, NEW i, NEW j, NEW c, c = Builder(D, I, M, map),
         NEW t \in BOOLEAN, NEW d, d = subsume(c, i, j, t)
  PROVE  IsSubsumed(d, D, I, M, map, i, j, t)
<1>1. c.deletions = D /\ c.insertions = I /\ c.modifications = M /\ c.mapping = map
  BY DEF Builder
<1>2. PICK e : e = IF i \in M THEN modify(c, j) ELSE c
  OBVIOUS
<1>3. modify(c, j) = Builder(D, I, M \cup {j}, map)
  BY ModifyIs
<1>4. PICK m : m = ModifiedInto(M, i, j)
  OBVIOUS
<1>5. e = Builder(D, I, m, map)
  BY <1>2, <1>3, <1>4 DEF ModifiedInto
<1>6. e.mapping = map
  BY <1>5 DEF Builder
<1>7. PICK z : z = MappedInto(D, I, map, i, j)
  OBVIOUS
<1>8. [e EXCEPT !.mapping = z] = Builder(D, I, m, z)
  BY <1>5 DEF Builder
<1>9. ~t => d = e
  BY <1>1, <1>2 DEF subsume
<1>10. CASE t /\ i \in DOMAIN map
  <2>1. d = [e EXCEPT !.mapping = Mapped(Unmapped(@, i), j, @[i])]
    BY <1>1, <1>2, <1>10 DEF subsume
  <2>2. z = Mapped(Unmapped(map, i), j, map[i])
    BY <1>7, <1>10 DEF MappedInto
  <2>3. d = [e EXCEPT !.mapping = z]
    BY <1>6, <2>1, <2>2
  <2> QED
    BY <1>4, <1>7, <1>8, <1>10, <2>3 DEF IsSubsumed
<1>11. CASE t /\ i \notin DOMAIN map /\ i \in I
  <2>1. d = e
    BY <1>1, <1>2, <1>11 DEF subsume
  <2>2. z = map
    BY <1>7, <1>11 DEF MappedInto
  <2> QED
    BY <1>4, <1>5, <1>7, <1>11, <2>1, <2>2 DEF IsSubsumed
<1>12. CASE t /\ i \notin DOMAIN map /\ i \notin I
  <2>1. d = [e EXCEPT !.mapping = Mapped(@, j, shift(D, unshift(I, i)))]
    BY <1>1, <1>2, <1>12 DEF subsume
  <2>2. z = Mapped(map, j, shift(D, unshift(I, i)))
    BY <1>7, <1>12 DEF MappedInto
  <2>3. d = [e EXCEPT !.mapping = z]
    BY <1>6, <2>1, <2>2
  <2> QED
    BY <1>4, <1>7, <1>8, <1>12, <2>3 DEF IsSubsumed
<1> QED
  BY <1>4, <1>5, <1>9, <1>10, <1>11, <1>12 DEF IsSubsumed

\* Row j becomes what row i was.
RowsJoined(o, l, i, j) == [k \in 0 .. l |-> IF k = j THEN o[i] ELSE o[k]]

LEMMA MappedIntoIs ==
  ASSUME NEW n \in Nat, NEW l \in Nat, NEW D, NEW I, NEW o, InLog(D, I, n, l + 1, o),
         NEW i \in 0 .. l, NEW j \in 0 .. l, i # j, o[j] = npos,
         NEW map, map = LogMapping(I, o)
  PROVE  MappedInto(D, I, map, i, j) = LogMapping(I \ {i}, RowsJoined(o, l, i, j))
<1>1. PICK q : q = RowsJoined(o, l, i, j)
  OBVIOUS
<1>2. \A k \in 0 .. l : q[k] = IF k = j THEN o[i] ELSE o[k]
  BY <1>1 DEF RowsJoined
<1>3. PICK S : S = Moving(I, o)
  OBVIOUS
<1>4. PICK T : T = Moving(I \ {i}, q)
  OBVIOUS
<1>5. map = [k \in S |-> o[k]] /\ DOMAIN map = S
  BY <1>3 DEF LogMapping
<1>6. \A k : k \in S <=> k \in I /\ o[k] # npos
  BY <1>3 DEF Moving
<1>7. I \in SUBSET (0 .. l) /\ \A k \in (0 .. l) \ I : o[k] = k
  BY DEF InLog, InPlace, Intervals
<1>8. \A k : k \in T <=> k \in I \ {i} /\ (IF k = j THEN o[i] ELSE o[k]) # npos
  BY <1>2, <1>4, <1>7 DEF Moving
<1>9. j \in I /\ j \notin S
  BY <1>6, <1>7 DEF npos
<1>10. \A k \in T : q[k] = IF k = j THEN o[i] ELSE o[k]
  BY <1>2, <1>7, <1>8
<1>11. SUFFICES MappedInto(D, I, map, i, j) = [k \in T |-> IF k = j THEN o[i] ELSE o[k]]
  BY <1>1, <1>4, <1>10 DEF LogMapping
<1>12. CASE i \in S
  <2>1. MappedInto(D, I, map, i, j) = Mapped(Unmapped(map, i), j, o[i])
    BY <1>5, <1>12 DEF MappedInto
  <2>2. Unmapped(map, i) = [k \in S \ {i} |-> o[k]]
    BY ONLY <1>5 DEF Unmapped, Restrict
  <2>3. Mapped([k \in S \ {i} |-> o[k]], j, o[i])
          = [k \in (S \ {i}) \cup {j} |-> IF k = j THEN o[i] ELSE o[k]]
    BY DEF Mapped
  <2>4. (S \ {i}) \cup {j} = T
    BY <1>6, <1>8, <1>9, <1>12
  <2> QED
    BY <2>1, <2>2, <2>3, <2>4
<1>13. CASE i \notin S /\ i \in I
  <2>1. MappedInto(D, I, map, i, j) = map
    BY <1>5, <1>13 DEF MappedInto
  <2>2. o[i] = npos
    BY <1>6, <1>13
  <2>3. T = S
    BY <1>6, <1>8, <1>9, <1>13, <2>2
  <2>4. \A k \in S : k # j
    BY <1>9
  <2> QED
    BY <1>5, <2>1, <2>3, <2>4
<1>14. CASE i \notin I
  <2>1. shift(D, unshift(I, i)) = i
    <3>1. InPlace(D, I, n, l + 1) /\ i \in (0 .. (l + 1) - 1) \ I
      BY <1>14 DEF InLog
    <3> QED
      BY <3>1, InPlaceIndex
  <2>2. o[i] = i /\ i \notin S /\ o[i] # npos
    BY <1>6, <1>7, <1>14 DEF npos
  <2>3. MappedInto(D, I, map, i, j) = Mapped(map, j, o[i])
    BY <1>5, <1>14, <2>1, <2>2 DEF MappedInto
  <2>4. Mapped([k \in S |-> o[k]], j, o[i])
          = [k \in S \cup {j} |-> IF k = j THEN o[i] ELSE o[k]]
    BY DEF Mapped
  <2>5. S \cup {j} = T
    BY <1>6, <1>8, <1>9, <1>14, <2>2
  <2> QED
    BY <1>5, <2>3, <2>4, <2>5
<1> QED
  BY <1>6, <1>12, <1>13, <1>14

LEMMA JoinedLeaves ==
  ASSUME NEW n \in Nat, NEW l \in Nat, NEW D, NEW I, NEW o, InLog(D, I, n, l + 1, o),
         NEW i \in 0 .. l, NEW j \in 0 .. l, i # j, o[j] = npos
  PROVE  Leaves(D, I, n, l, i, RowsJoined(o, l, i, j))
<1>1. PICK q : q = RowsJoined(o, l, i, j)
  OBVIOUS
<1>2. q = [k \in 0 .. l |-> IF k = j THEN o[i] ELSE o[k]]
  BY <1>1 DEF RowsJoined
<1>3. (l + 1) - 1 = l
  OBVIOUS
<1>4. /\ o \in [0 .. l -> npos .. n - 1]
      /\ \A a, b \in 0 .. l : o[a] = o[b] /\ a # b => o[a] = npos
  BY <1>3 DEF InLog, Origins
<1>5. /\ \A k \in (0 .. l) \ I : o[k] = k
      /\ \A k \in I : o[k] # npos => o[k] \in D
      /\ InPlace(D, I, n, l + 1)
  BY <1>3 DEF InLog
<1>6. I \in SUBSET (0 .. l)
  BY <1>3, <1>5 DEF InPlace, Intervals
<1>7. j \in I
  BY <1>5 DEF npos
<1>8. q \in [0 .. l -> npos .. n - 1]
  BY <1>2, <1>4
<1>9. \A a, b \in (0 .. l) \ {i} : q[a] = q[b] /\ a # b => q[a] = npos
  BY <1>2, <1>4
<1>10. \A k \in (0 .. l) \ I : q[k] = k
  BY <1>2, <1>5, <1>7
<1>11. \A k \in I : q[k] # npos => q[k] \in D \/ (q[k] = i /\ i \notin I)
  BY <1>2, <1>5, <1>6
<1>12. Leaves(D, I, n, l, i, q)
  BY ONLY <1>5, <1>8, <1>9, <1>10, <1>11 DEF Leaves
<1> QED
  BY <1>1, <1>12

LEMMA MergeRowsTells ==
  ASSUME NEW n \in Nat, NEW l \in Nat, NEW i \in 0 .. l, NEW j \in 0 .. l, i # j,
         NEW o, o[j] = npos, NEW M, NEW c, LogTells(c, M, n, l + 1, o),
         NEW t, t = TRUE, NEW e, e = subsume(c, i, j, t), NEW d, d = move_over(e, i, l, t)
  PROVE  LogTells(d, ModifiedOver(ModifiedInto(M, i, j), i, l), n, l,
                  RowsMoved(RowsJoined(o, l, i, j), i, l))
<1>1. PICK D, I : c = Builder(D, I, M, LogMapping(I, o)) /\ InLog(D, I, n, l + 1, o)
  BY DEF LogTells
<1>2. PICK map : map = LogMapping(I, o)
  OBVIOUS
<1>3. PICK q : q = RowsJoined(o, l, i, j)
  OBVIOUS
<1>4. IsSubsumed(e, D, I, M, map, i, j, t)
  BY <1>1, <1>2, SubsumeIs
<1>5. PICK m : m = MappedInto(D, I, map, i, j)
  OBVIOUS
<1>6. m = LogMapping(I \ {i}, q)
  BY <1>1, <1>2, <1>3, <1>5, MappedIntoIs
<1>7. e = Builder(D, I, ModifiedInto(M, i, j), m)
  BY <1>4, <1>5 DEF IsSubsumed
<1>8. Leaves(D, I, n, l, i, q)
  BY <1>1, <1>3, JoinedLeaves
<1>9. PICK J : J = I \ {i}
  OBVIOUS
<1>10. m = LogMapping(J, q)
  BY <1>6, <1>9
<1> QED
  BY <1>3, <1>7, <1>8, <1>9, <1>10, RowGoneTells

RowsSwapped(o, p, i, j) ==
  [k \in 0 .. p - 1 |-> IF k = i THEN o[j] ELSE IF k = j THEN o[i] ELSE o[k]]

LEMMA SwappedInLog ==
  ASSUME NEW n \in Nat, NEW p \in Nat, NEW D, NEW I, NEW o, InLog(D, I, n, p, o),
         NEW i \in 0 .. p - 1, NEW j \in 0 .. p - 1, i # j,
         NEW E, E = D \cup ({i, j} \ I), NEW J, J = I \cup {i, j}, InPlace(E, J, n, p)
  PROVE  InLog(E, J, n, p, RowsSwapped(o, p, i, j))
<1>1. PICK q : q = RowsSwapped(o, p, i, j)
  OBVIOUS
<1>2. q = [k \in 0 .. p - 1 |-> IF k = i THEN o[j] ELSE IF k = j THEN o[i] ELSE o[k]]
  BY <1>1 DEF RowsSwapped
<1>3. /\ o \in [0 .. p - 1 -> npos .. n - 1]
      /\ \A a, b \in 0 .. p - 1 : o[a] = o[b] /\ a # b => o[a] = npos
  BY DEF InLog, Origins
<1>4. /\ \A k \in (0 .. p - 1) \ I : o[k] = k
      /\ \A k \in I : o[k] # npos => o[k] \in D
      /\ I \in SUBSET (0 .. p - 1)
  BY DEF InLog, InPlace, Intervals
<1>5. q \in Origins(n, p)
  <2>1. q \in [0 .. p - 1 -> npos .. n - 1]
    BY <1>2, <1>3
  <2> DEFINE r(k) == IF k = i THEN j ELSE IF k = j THEN i ELSE k
  <2>2. \A k \in 0 .. p - 1 : r(k) \in 0 .. p - 1 /\ q[k] = o[r(k)]
    BY <1>2
  <2>3. \A a, b \in 0 .. p - 1 : a # b => r(a) # r(b)
    OBVIOUS
  <2> HIDE DEF r
  <2>4. \A a, b \in 0 .. p - 1 : q[a] = q[b] /\ a # b => q[a] = npos
    BY <1>3, <2>2, <2>3
  <2> QED
    BY <2>1, <2>4 DEF Origins
<1>6. \A k \in (0 .. p - 1) \ J : q[k] = k
  BY <1>2, <1>4
<1>7. ASSUME NEW k \in J, q[k] # npos PROVE q[k] \in E
  <2>1. k \in 0 .. p - 1
    BY <1>4
  <2>2. \A x \in 0 .. p - 1 : x \in I /\ o[x] # npos => o[x] \in E
    BY <1>4
  <2>3. \A x \in {i, j} : x \notin I => o[x] \in E
    BY <1>4
  <2>4. k \notin {i, j} => k \in I
    OBVIOUS
  <2> QED
    BY <1>2, <1>7, <2>1, <2>2, <2>3, <2>4
<1>8. InLog(E, J, n, p, q)
  BY ONLY <1>5, <1>6, <1>7, InPlace(E, J, n, p) DEF InLog
<1> QED
  BY <1>1, <1>8

\* Row a leaves for b, unless it is told as inserted.
IsOut(d, D, I, M, map, n, p, a, b) ==
  /\ d = Builder(D \cup ({a} \ I), I \cup {a}, M, IF a \in I THEN map ELSE Mapped(map, b, a))
  /\ InPlace(D \cup ({a} \ I), I \cup {a}, n, p)

LEMMA OutIs ==
  ASSUME NEW n \in Nat, NEW p \in Nat, NEW D, NEW I, NEW M, NEW map, InPlace(D, I, n, p),
         NEW c, c = Builder(D, I, M, map), NEW a \in 0 .. p - 1, NEW b,
         NEW d, d = Unless(a \in I, c, MoveOut(c, a, b))
  PROVE  IsOut(d, D, I, M, map, n, p, a, b)
<1>1. CASE a \in I
  <2>1. d = c
    BY <1>1 DEF Unless
  <2>2. D \cup ({a} \ I) = D /\ I \cup {a} = I
    BY <1>1
  <2> QED
    BY <1>1, <2>1, <2>2 DEF IsOut
<1>2. CASE a \notin I
  <2>1. d = MoveOut(c, a, b)
    BY <1>2 DEF Unless
  <2>2. MoveOut(c, a, b) = Builder(D \cup {a}, I \cup {a}, M, Mapped(map, b, a))
    BY <1>2, MoveOutIs
  <2>3. InPlace(D \cup {a}, I \cup {a}, n, p)
    BY <1>2, InPlaceOut
  <2>4. D \cup ({a} \ I) = D \cup {a}
    BY <1>2
  <2> QED
    BY <1>2, <2>1, <2>2, <2>3, <2>4 DEF IsOut
<1> QED
  BY <1>1, <1>2

LEMMA RemappedIs ==
  ASSUME NEW D, NEW I, NEW M, NEW map, NEW m, NEW c, c = Builder(D, I, M, map)
  PROVE  [c EXCEPT !.mapping = m] = Builder(D, I, M, m)
BY DEF Builder

\* The rows a and b, the one mapped, the other not.
LEMMA SwappedOne ==
  ASSUME NEW p \in Nat, NEW I \in SUBSET (0 .. p - 1), NEW o,
         \A k \in (0 .. p - 1) \ I : o[k] = k,
         NEW a \in 0 .. p - 1, NEW b \in 0 .. p - 1, a # b,
         NEW map, map = LogMapping(I, o), a \in DOMAIN map, b \notin DOMAIN map,
         NEW u, u = Mapped(Unmapped(map, a), b, map[a]),
         NEW q, q = RowsSwapped(o, p, a, b)
  PROVE  (IF b \in I THEN u ELSE Mapped(u, a, b)) = LogMapping(I \cup {a, b}, q)
<1>1. \A k \in 0 .. p - 1 : q[k] = IF k = a THEN o[b] ELSE IF k = b THEN o[a] ELSE o[k]
  BY DEF RowsSwapped
<1>2. PICK S : S = Moving(I, o)
  OBVIOUS
<1>3. PICK T : T = Moving(I \cup {a, b}, q)
  OBVIOUS
<1>4. map = [k \in S |-> o[k]] /\ DOMAIN map = S
  BY <1>2 DEF LogMapping
<1>5. \A k : k \in S <=> k \in I /\ o[k] # npos
  BY <1>2 DEF Moving
<1>6. \A k : k \in T <=> k \in I \cup {a, b} /\ q[k] # npos
  BY <1>3 DEF Moving
<1>7. PICK f : f = [k \in 0 .. p - 1 |-> IF k = b THEN o[a] ELSE o[k]]
  OBVIOUS
<1>8. a \in S /\ b \notin S /\ map[a] = o[a]
  BY <1>4
<1>9. u = [k \in (S \ {a}) \cup {b} |-> IF k = b THEN o[a] ELSE o[k]]
  <2>1. Unmapped(map, a) = [k \in S \ {a} |-> o[k]]
    BY ONLY <1>4 DEF Unmapped, Restrict
  <2>2. Mapped([k \in S \ {a} |-> o[k]], b, o[a])
          = [k \in (S \ {a}) \cup {b} |-> IF k = b THEN o[a] ELSE o[k]]
    BY DEF Mapped
  <2> QED
    BY <1>8, <2>1, <2>2
<1>10. SUFFICES (IF b \in I THEN u ELSE Mapped(u, a, b)) = [k \in T |-> q[k]]
  BY <1>3 DEF LogMapping
<1>11. T \in SUBSET (0 .. p - 1)
  <2>1. \A k \in T : k \in I \/ k = a \/ k = b
    BY <1>6
  <2> QED
    BY ONLY <2>1, I \in SUBSET (0 .. p - 1), a \in 0 .. p - 1, b \in 0 .. p - 1
<1>12. CASE b \in I
  <2>1. o[b] = npos
    BY <1>5, <1>8, <1>12
  <2>2. \A k \in 0 .. p - 1 : k \in T <=> (k \in S /\ k # a) \/ k = b
    BY <1>1, <1>5, <1>6, <1>8, <1>12, <2>1
  <2>3. (S \ {a}) \cup {b} = T
    BY <1>5, <1>11, <2>2
  <2>4. \A k \in T : q[k] = IF k = b THEN o[a] ELSE o[k]
    BY <1>1, <1>11, <2>2
  <2> QED
    BY <1>9, <1>12, <2>3, <2>4
<1>13. CASE b \notin I
  <2>1. o[b] = b /\ b # npos
    BY <1>13 DEF npos
  <2>2. Mapped(u, a, b)
          = [k \in ((S \ {a}) \cup {b}) \cup {a} |->
              IF k = a THEN b ELSE IF k = b THEN o[a] ELSE o[k]]
    BY ONLY <1>9 DEF Mapped
  <2>3. \A k \in 0 .. p - 1 : k \in T <=> k \in S \/ k = b
    BY <1>1, <1>5, <1>6, <1>8, <2>1
  <2>4. ((S \ {a}) \cup {b}) \cup {a} = T
    BY <1>5, <1>8, <1>11, <2>3
  <2>5. \A k \in T : q[k] = IF k = a THEN b ELSE IF k = b THEN o[a] ELSE o[k]
    BY <1>1, <1>11, <2>1
  <2> QED
    BY <1>13, <2>2, <2>4, <2>5
<1> QED
  BY <1>12, <1>13

\* Neither row is mapped.
SwappedMapping(I, map, i, j) ==
  LET u == IF j \in I THEN map ELSE Mapped(map, i, j)
  IN IF i \in I THEN u ELSE Mapped(u, j, i)

LEMMA SwappedNone ==
  ASSUME NEW p \in Nat, NEW I \in SUBSET (0 .. p - 1), NEW o,
         \A k \in (0 .. p - 1) \ I : o[k] = k,
         NEW i \in 0 .. p - 1, NEW j \in 0 .. p - 1, i # j,
         i \notin Moving(I, o), j \notin Moving(I, o)
  PROVE  SwappedMapping(I, LogMapping(I, o), i, j)
           = LogMapping(I \cup {i, j}, RowsSwapped(o, p, i, j))
<1> DEFINE map == LogMapping(I, o)
           u == IF j \in I THEN map ELSE Mapped(map, i, j)
           q == RowsSwapped(o, p, i, j)
           w == IF i \in I THEN u ELSE Mapped(u, j, i)
<1>0. SUFFICES w = LogMapping(I \cup {i, j}, q)
  BY DEF SwappedMapping
<1>1. \A k \in 0 .. p - 1 : q[k] = IF k = i THEN o[j] ELSE IF k = j THEN o[i] ELSE o[k]
  BY DEF RowsSwapped
<1>2. PICK S : S = Moving(I, o)
  OBVIOUS
<1>3. PICK T : T = Moving(I \cup {i, j}, q)
  OBVIOUS
<1>4. map = [k \in S |-> o[k]] /\ DOMAIN map = S
  BY <1>2 DEF LogMapping
<1>5. \A k : k \in S <=> k \in I /\ o[k] # npos
  BY <1>2 DEF Moving
<1>6. \A k : k \in T <=> k \in I \cup {i, j} /\ q[k] # npos
  BY <1>3 DEF Moving
<1>7. i \notin S /\ j \notin S /\ S \in SUBSET (0 .. p - 1)
  BY <1>2, <1>5
<1> HIDE DEF map, u, q, w
<1>8. T \in SUBSET (0 .. p - 1)
  <2>1. \A k \in T : k \in I \/ k = i \/ k = j
    BY <1>6
  <2> QED
    BY ONLY <2>1, I \in SUBSET (0 .. p - 1), i \in 0 .. p - 1, j \in 0 .. p - 1
<1>9. /\ i \in I => o[i] = npos
      /\ i \notin I => o[i] = i /\ o[i] # npos
      /\ j \in I => o[j] = npos
      /\ j \notin I => o[j] = j /\ o[j] # npos
  BY <1>5, <1>7 DEF npos
<1>10. \A k \in 0 .. p - 1 :
         k \in T <=> k \in S \/ (k = i /\ j \notin I) \/ (k = j /\ i \notin I)
  BY <1>1, <1>5, <1>6, <1>7, <1>9
<1>11. PICK A : A = IF j \in I THEN S ELSE S \cup {i}
  OBVIOUS
<1>12. u = [k \in A |-> IF k = i THEN j ELSE o[k]]
  <2>1. CASE j \in I
    <3>1. \A k \in S : k # i
      BY <1>7
    <3> QED
      BY <1>4, <1>11, <2>1, <3>1 DEF u
  <2>2. CASE j \notin I
    <3>1. Mapped(map, i, j) = [k \in S \cup {i} |-> IF k = i THEN j ELSE o[k]]
      BY ONLY <1>4 DEF Mapped
    <3> QED
      BY <1>11, <2>2, <3>1 DEF u
  <2> QED
    BY <2>1, <2>2
<1>13. SUFFICES w = [k \in T |-> q[k]]
  BY <1>3 DEF LogMapping
<1>14. CASE i \in I
  <2>1. A = T
    BY <1>7, <1>8, <1>10, <1>11, <1>14
  <2>2. \A k \in T : q[k] = IF k = i THEN j ELSE o[k]
    BY <1>1, <1>7, <1>8, <1>9, <1>10, <1>14
  <2> QED
    BY <1>12, <1>14, <2>1, <2>2 DEF w
<1>15. CASE i \notin I
  <2>1. Mapped(u, j, i)
          = [k \in A \cup {j} |-> IF k = j THEN i ELSE IF k = i THEN j ELSE o[k]]
    BY ONLY <1>12 DEF Mapped
  <2>2. A \cup {j} = T
    BY <1>7, <1>8, <1>10, <1>11, <1>15
  <2>3. \A k \in T : q[k] = IF k = j THEN i ELSE IF k = i THEN j ELSE o[k]
    BY <1>1, <1>7, <1>8, <1>9, <1>10, <1>15
  <2> QED
    BY <1>15, <2>1, <2>2, <2>3 DEF w
<1> QED
  BY <1>14, <1>15

LEMMA SwapUntold ==
  ASSUME NEW D, NEW I, NEW M, NEW map, NEW i, NEW j, i # j,
         NEW c, c = Builder(D, I, M, map),
         NEW t, t = FALSE, NEW d, d = swap(c, i, j, t)
  PROVE  IsBuilt(d, D, I, SwapModified(M, i, j), map)
<1>1. d = SwapModifiedRows(c, i, j)
  BY DEF swap, SwapModifiedRows
<1>2. SwapModifiedRows(c, i, j) = Builder(D, I, SwapModified(M, i, j), map)
  BY SwapModifiedIs
<1> QED
  BY <1>1, <1>2 DEF IsBuilt

LEMMA RowsSwappedBack ==
  ASSUME NEW o, NEW p, NEW i, NEW j, i # j
  PROVE  RowsSwapped(o, p, i, j) = RowsSwapped(o, p, j, i)
BY DEF RowsSwapped

\* The rows a and b, the one mapped, the other not.
LEMMA SwapOneTells ==
  ASSUME NEW n \in Nat, NEW p \in Nat, NEW D, NEW I, NEW o, InLog(D, I, n, p, o),
         NEW a \in 0 .. p - 1, NEW b \in 0 .. p - 1, a # b,
         NEW map, map = LogMapping(I, o), a \in DOMAIN map, b \notin DOMAIN map,
         NEW M, NEW m, m = Mapped(Unmapped(map, a), b, map[a]),
         NEW u, u = Builder(D, I, M, m),
         NEW d, d = Unless(b \in I, u, MoveOut(u, b, a))
  PROVE  LogTells(d, M, n, p, RowsSwapped(o, p, a, b))
<1>1. PICK q : q = RowsSwapped(o, p, a, b)
  OBVIOUS
<1>2. PICK E, J : E = D \cup ({a, b} \ I) /\ J = I \cup {a, b}
  OBVIOUS
<1>3. /\ InPlace(D, I, n, p) /\ I \in SUBSET (0 .. p - 1)
      /\ \A k \in (0 .. p - 1) \ I : o[k] = k
  BY DEF InLog, InPlace, Intervals
<1>4. a \in I
  BY DEF LogMapping, Moving
<1>5. IsOut(d, D, I, M, m, n, p, b, a)
  BY <1>3, OutIs
<1>6. D \cup ({b} \ I) = E /\ I \cup {b} = J
  BY <1>2, <1>4
<1>7. (IF b \in I THEN m ELSE Mapped(m, a, b)) = LogMapping(I \cup {a, b}, q)
  BY <1>1, <1>3, SwappedOne
<1>8. d = Builder(E, J, M, LogMapping(J, q)) /\ InPlace(E, J, n, p)
  BY <1>2, <1>5, <1>6, <1>7 DEF IsOut
<1>9. InLog(E, J, n, p, q)
  BY <1>1, <1>2, <1>8, SwappedInLog
<1> QED
  BY <1>1, <1>8, <1>9 DEF LogTells

LEMMA SwapNoneTells ==
  ASSUME NEW n \in Nat, NEW p \in Nat, NEW D, NEW I, NEW o, InLog(D, I, n, p, o),
         NEW i \in 0 .. p - 1, NEW j \in 0 .. p - 1, i # j,
         NEW map, map = LogMapping(I, o), i \notin DOMAIN map, j \notin DOMAIN map,
         NEW M, NEW c, c = Builder(D, I, M, map),
         NEW e, e = Unless(j \in I, c, MoveOut(c, j, i)),
         NEW d, d = Unless(i \in e.insertions, e, MoveOut(e, i, j))
  PROVE  LogTells(d, M, n, p, RowsSwapped(o, p, i, j))
<1>1. PICK q : q = RowsSwapped(o, p, i, j)
  OBVIOUS
<1>2. PICK E, J : E = D \cup ({i, j} \ I) /\ J = I \cup {i, j}
  OBVIOUS
<1>3. /\ InPlace(D, I, n, p) /\ I \in SUBSET (0 .. p - 1)
      /\ \A k \in (0 .. p - 1) \ I : o[k] = k
  BY DEF InLog, InPlace, Intervals
<1>4. IsOut(e, D, I, M, map, n, p, j, i)
  BY <1>3, OutIs
<1>5. PICK F, H, m : /\ F = D \cup ({j} \ I) /\ H = I \cup {j}
                     /\ m = IF j \in I THEN map ELSE Mapped(map, i, j)
  OBVIOUS
<1>6. e = Builder(F, H, M, m) /\ InPlace(F, H, n, p)
  BY <1>4, <1>5 DEF IsOut
<1>7. e.insertions = H
  BY <1>6 DEF Builder
<1>8. IsOut(d, F, H, M, m, n, p, i, j)
  BY <1>6, <1>7, OutIs
<1>9. F \cup ({i} \ H) = E /\ H \cup {i} = J /\ (i \in H <=> i \in I)
  BY <1>2, <1>5
<1>10. PICK w : w = IF i \in I THEN m ELSE Mapped(m, j, i)
  OBVIOUS
<1>11. m = IF j \in I THEN map ELSE Mapped(map, i, j)
  BY <1>5
<1>12. w = LogMapping(J, q)
  <2>1. i \notin Moving(I, o) /\ j \notin Moving(I, o)
    BY DEF LogMapping
  <2>2. SwappedMapping(I, LogMapping(I, o), i, j)
          = LogMapping(I \cup {i, j}, RowsSwapped(o, p, i, j))
    BY <1>3, <2>1, SwappedNone
  <2>3. w = SwappedMapping(I, map, i, j)
    BY <1>10, <1>11 DEF SwappedMapping
  <2> QED
    BY <1>1, <1>2, <2>2, <2>3
<1>13. d = Builder(E, J, M, w) /\ InPlace(E, J, n, p)
  BY <1>8, <1>9, <1>10 DEF IsOut
<1>14. InLog(E, J, n, p, q)
  BY <1>1, <1>2, <1>13, SwappedInLog
<1> QED
  BY <1>1, <1>12, <1>13, <1>14 DEF LogTells

LEMMA SwapBothTells ==
  ASSUME NEW n \in Nat, NEW p \in Nat, NEW D, NEW I, NEW o, InLog(D, I, n, p, o),
         NEW i \in 0 .. p - 1, NEW j \in 0 .. p - 1, i # j,
         NEW map, map = LogMapping(I, o), i \in DOMAIN map, j \in DOMAIN map,
         NEW M, NEW d,
         d = Builder(D, I, M, [map EXCEPT ![i] = map[j], ![j] = map[i]])
  PROVE  LogTells(d, M, n, p, RowsSwapped(o, p, i, j))
<1>1. PICK q : q = RowsSwapped(o, p, i, j)
  OBVIOUS
<1>2. \A k \in 0 .. p - 1 : q[k] = IF k = i THEN o[j] ELSE IF k = j THEN o[i] ELSE o[k]
  BY <1>1 DEF RowsSwapped
<1>3. InPlace(D, I, n, p) /\ I \in SUBSET (0 .. p - 1)
  BY DEF InLog, InPlace, Intervals
<1>4. PICK S : S = Moving(I, o)
  OBVIOUS
<1>5. map = [k \in S |-> o[k]] /\ DOMAIN map = S /\ i \in S /\ j \in S
  BY <1>4 DEF LogMapping
<1>6. \A k : k \in S <=> k \in I /\ o[k] # npos
  BY <1>4 DEF Moving
<1>7. \A k \in 0 .. p - 1 : k \in S <=> k \in I /\ q[k] # npos
  BY <1>2, <1>5, <1>6
<1>8. Moving(I, q) = S
  <2>1. \A k \in I : k \in S <=> q[k] # npos
    BY <1>3, <1>7
  <2> QED
    BY <1>6, <2>1 DEF Moving
<1>9. \A k \in S : q[k] = IF k = i THEN o[j] ELSE IF k = j THEN o[i] ELSE o[k]
  BY <1>2, <1>3, <1>6
<1>10. [map EXCEPT ![i] = map[j], ![j] = map[i]] = [k \in S |-> q[k]]
  <2>1. [map EXCEPT ![i] = map[j], ![j] = map[i]]
          = [k \in S |-> IF k = j THEN o[i] ELSE IF k = i THEN o[j] ELSE o[k]]
    BY <1>5
  <2> QED
    BY <1>9, <2>1
<1>11. d = Builder(D, I, M, LogMapping(I, q))
  BY <1>8, <1>10 DEF LogMapping
<1>12. D \cup ({i, j} \ I) = D /\ I \cup {i, j} = I
  BY <1>5, <1>6
<1>13. InLog(D, I, n, p, q)
  BY <1>1, <1>3, <1>12, SwappedInLog
<1> QED
  BY <1>1, <1>11, <1>13 DEF LogTells

LEMMA SwapTells ==
  ASSUME NEW n \in Nat, NEW p \in Nat, NEW o, NEW M, NEW c, LogTells(c, M, n, p, o),
         NEW i \in 0 .. p - 1, NEW j \in 0 .. p - 1, i # j,
         NEW t, t = TRUE, NEW d, d = swap(c, i, j, t)
  PROVE  LogTells(d, SwapModified(M, i, j), n, p, RowsSwapped(o, p, i, j))
<1>1. PICK D, I : c = Builder(D, I, M, LogMapping(I, o)) /\ InLog(D, I, n, p, o)
  BY DEF LogTells
<1>2. PICK map : map = LogMapping(I, o)
  OBVIOUS
<1>3. PICK K : K = SwapModified(M, i, j)
  OBVIOUS
<1>4. PICK e : e = SwapModifiedRows(c, i, j)
  OBVIOUS
<1>5. e = Builder(D, I, K, map)
  BY <1>1, <1>2, <1>3, <1>4, SwapModifiedIs
<1>6. c.mapping = map /\ c.insertions = I /\ e.mapping = map /\ e.insertions = I
  BY <1>1, <1>2, <1>5 DEF Builder
<1>7. CASE i \in DOMAIN map /\ j \in DOMAIN map
  <2>1. PICK m : m = [map EXCEPT ![i] = map[j], ![j] = map[i]]
    OBVIOUS
  <2>2. d = [e EXCEPT !.mapping = [@ EXCEPT ![i] = map[j], ![j] = map[i]]]
    BY <1>4, <1>6, <1>7 DEF swap, SwapModifiedRows
  <2>3. d = [e EXCEPT !.mapping = m]
    BY <1>6, <2>1, <2>2
  <2>4. d = Builder(D, I, K, m)
    BY <1>5, <2>3, RemappedIs
  <2> QED
    BY <1>1, <1>2, <1>3, <1>7, <2>1, <2>4, SwapBothTells
<1>8. CASE i \in DOMAIN map /\ j \notin DOMAIN map
  <2>1. PICK m : m = Mapped(Unmapped(map, i), j, map[i])
    OBVIOUS
  <2>2. PICK u : u = [e EXCEPT !.mapping = Mapped(Unmapped(@, i), j, @[i])]
    OBVIOUS
  <2>3. d = Unless(j \in I, u, MoveOut(u, j, i))
    BY <1>4, <1>6, <1>8, <2>2 DEF swap, SwapModifiedRows
  <2>4. u = [e EXCEPT !.mapping = m]
    BY <1>6, <2>1, <2>2
  <2>5. u = Builder(D, I, K, m)
    BY <1>5, <2>4, RemappedIs
  <2> QED
    BY <1>1, <1>2, <1>3, <1>8, <2>1, <2>3, <2>5, SwapOneTells
<1>9. CASE i \notin DOMAIN map /\ j \in DOMAIN map
  <2>1. PICK m : m = Mapped(Unmapped(map, j), i, map[j])
    OBVIOUS
  <2>2. PICK u : u = [e EXCEPT !.mapping = Mapped(Unmapped(@, j), i, @[j])]
    OBVIOUS
  <2>3. d = Unless(i \in I, u, MoveOut(u, i, j))
    BY <1>4, <1>6, <1>9, <2>2 DEF swap, SwapModifiedRows
  <2>4. u = [e EXCEPT !.mapping = m]
    BY <1>6, <2>1, <2>2
  <2>5. u = Builder(D, I, K, m)
    BY <1>5, <2>4, RemappedIs
  <2>6. LogTells(d, K, n, p, RowsSwapped(o, p, j, i))
    BY <1>1, <1>2, <1>9, <2>1, <2>3, <2>5, SwapOneTells
  <2> QED
    BY <1>3, <2>6, RowsSwappedBack
<1>10. CASE i \notin DOMAIN map /\ j \notin DOMAIN map
  <2>1. PICK f : f = Unless(j \in I, e, MoveOut(e, j, i))
    OBVIOUS
  <2>2. d = Unless(i \in f.insertions, f, MoveOut(f, i, j))
    BY <1>4, <1>6, <1>10, <2>1 DEF swap, SwapModifiedRows
  <2> QED
    BY <1>1, <1>2, <1>3, <1>5, <1>10, <2>1, <2>2, SwapNoneTells
<1> QED
  BY <1>7, <1>8, <1>9, <1>10

-----------------------------------------------------------------------------
(* The end of a log                                                        *)

LEMMA InPlaceSizes ==
  ASSUME NEW n \in Nat, NEW p \in Nat, NEW D, NEW I, InPlace(D, I, n, p)
  PROVE  unshift(D, n) = unshift(I, p)
<1>1. PICK K : K = (0 .. p - 1) \ I
  OBVIOUS
<1>2. D \in Intervals(n) /\ I \in Intervals(p)
  BY DEF InPlace
<1>3. \A k \in K : k \in 0 .. n - 1
  BY <1>1 DEF InPlace
<1>4. D = (0 .. n - 1) \ K /\ I = (0 .. p - 1) \ K
  <2>1. \A x \in 0 .. n - 1 : x \in D <=> x \notin K
    BY <1>1 DEF InPlace
  <2>2. D \in SUBSET (0 .. n - 1) /\ I \in SUBSET (0 .. p - 1)
    BY <1>2 DEF Intervals
  <2> QED
    BY <1>1, <2>1, <2>2
<1>5. \A m \in Nat : IsFiniteSet(0 .. m - 1) /\ Cardinality(0 .. m - 1) = m
  BY FS_Interval
<1>6. (0 .. n - 1) \cap K = K /\ (0 .. p - 1) \cap K = K
  BY <1>1, <1>3
<1>7. IsFiniteSet(K) /\ Cardinality(K) \in Nat
  BY <1>1, <1>5, FS_Difference, FS_CardinalityType
<1>8. Cardinality((0 .. n - 1) \ K) = Cardinality(0 .. n - 1) - Cardinality((0 .. n - 1) \cap K)
  BY <1>5, FS_Difference
<1>9. Cardinality((0 .. p - 1) \ K) = Cardinality(0 .. p - 1) - Cardinality((0 .. p - 1) \cap K)
  BY <1>5, FS_Difference
<1>10. Cardinality(D) = n - Cardinality(K) /\ Cardinality(I) = p - Cardinality(K)
  BY <1>4, <1>5, <1>6, <1>8, <1>9
<1>11. unshift(D, n) = n - Cardinality(D) /\ unshift(I, p) = p - Cardinality(I)
  BY <1>2, IntervalsFinite
<1> QED
  BY ONLY <1>7, <1>10, <1>11, n \in Nat, p \in Nat

LEMMA InLogKept ==
  ASSUME NEW n \in Nat, NEW p \in Nat, NEW D, NEW I, NEW o, InLog(D, I, n, p, o)
  PROVE  Kept(D, I, n, p, o)
<1>1. InPlace(D, I, n, p) /\ \A k \in (0 .. p - 1) \ I : o[k] = k
  BY DEF InLog
<1>2. D \in Intervals(n) /\ I \in Intervals(p)
  BY <1>1 DEF InPlace
<1>3. D \in SUBSET Nat /\ I \in SUBSET Nat
  BY <1>2 DEF Intervals
<1>4. ASSUME NEW k \in (0 .. p - 1) \ I
      PROVE  k \in (0 .. n - 1) \ D /\ unshift(D, k) = unshift(I, k)
  <2>1. k \in 0 .. n - 1 /\ k \notin D
    BY <1>1, InPlaceIndex
  <2>2. \A y \in 0 .. k - 1 : y \in D <=> y \in I
    BY <1>1, <2>1 DEF InPlace
  <2>3. unshift(D, k) = unshift(I, k)
    BY <1>3, <2>2, SameBelow
  <2> QED
    BY <2>1, <2>3
<1>5. unshift(D, n) = unshift(I, p)
  BY <1>1, InPlaceSizes
<1> QED
  BY <1>1, <1>2, <1>4, <1>5 DEF Kept

\* The rows that are back where they were.
StaleRows(I, o) == {k \in I : o[k] = k}

LEMMA StaleInLog ==
  ASSUME NEW n \in Nat, NEW p \in Nat, NEW D, NEW I, NEW o, InLog(D, I, n, p, o)
  PROVE  InLog(D \ StaleRows(I, o), I \ StaleRows(I, o), n, p, o)
<1>1. PICK S : S = StaleRows(I, o)
  OBVIOUS
<1>2. PICK E, J : E = D \ S /\ J = I \ S
  OBVIOUS
<1>3. \A k : k \in S <=> k \in I /\ o[k] = k
  BY <1>1 DEF StaleRows
<1>4. /\ o \in Origins(n, p) /\ InPlace(D, I, n, p)
      /\ \A k \in (0 .. p - 1) \ I : o[k] = k
      /\ \A k \in I : o[k] # npos => o[k] \in D
  BY DEF InLog
<1>5. /\ o \in [0 .. p - 1 -> npos .. n - 1]
      /\ \A j, k \in 0 .. p - 1 : o[j] = o[k] /\ j # k => o[j] = npos
  BY <1>4 DEF Origins
<1>6. /\ D \in SUBSET (0 .. n - 1) /\ I \in SUBSET (0 .. p - 1)
      /\ \A x \in 0 .. n - 1 : x \in D <=> x >= p \/ x \in I
      /\ \A x \in (0 .. p - 1) \ I : x < n
  BY <1>4 DEF InPlace, Intervals
<1>7. ASSUME NEW k \in S PROVE k \in 0 .. p - 1 /\ k < n /\ k # npos
  <2>1. k \in 0 .. p - 1 /\ o[k] = k
    BY <1>3, <1>6
  <2>2. o[k] \in npos .. n - 1
    BY <1>5, <2>1
  <2> QED
    BY <2>1, <2>2 DEF npos
<1>8. InPlace(E, J, n, p)
  <2>1. E \in Intervals(n) /\ J \in Intervals(p)
    BY <1>2, <1>6 DEF Intervals
  <2>2. \A x \in 0 .. n - 1 : x \in E <=> x >= p \/ x \in J
    BY <1>2, <1>6, <1>7
  <2>3. \A x \in (0 .. p - 1) \ J : x < n
    BY <1>2, <1>6, <1>7
  <2> QED
    BY <2>1, <2>2, <2>3 DEF InPlace
<1>9. \A k \in (0 .. p - 1) \ J : o[k] = k
  BY <1>2, <1>3, <1>4
<1>10. ASSUME NEW k \in J, o[k] # npos PROVE o[k] \in E
  <2>1. k \in I /\ k \notin S /\ k \in 0 .. p - 1
    BY <1>2, <1>6
  <2>2. o[k] \in D
    BY <1>4, <1>10, <2>1
  <2>3. ASSUME o[k] \in S PROVE FALSE
    <3>1. PICK s \in S : s = o[k]
      BY <2>3
    <3>2. o[s] = s /\ s \in 0 .. p - 1
      BY <1>3, <1>7
    <3>3. s # k
      BY <2>1
    <3> QED
      BY <1>5, <1>10, <2>1, <3>1, <3>2, <3>3
  <2> QED
    BY <1>2, <2>2, <2>3
<1>11. InLog(E, J, n, p, o)
  BY ONLY <1>4, <1>8, <1>9, <1>10 DEF InLog
<1> QED
  BY <1>1, <1>2, <1>11

MovedRows(I, o) == {k \in I : o[k] # npos /\ o[k] # k}
RowMoves(I, o) == {[from |-> o[k], to |-> k] : k \in MovedRows(I, o)}

IsCompleted(d, D, I, M, o) ==
  d = [deletions |-> D \ StaleRows(I, o), insertions |-> I \ StaleRows(I, o),
       modifications |-> M, moves |-> Sorted(RowMoves(I, o)), mapping |-> << >>]

LEMMA CompletedIs ==
  ASSUME NEW D, NEW I \in SUBSET Nat, NEW M, NEW o, NEW map, map = LogMapping(I, o),
         NEW c, c = Builder(D, I, M, map), NEW d, d = parse_complete(c)
  PROVE  IsCompleted(d, D, I, M, o)
<1>1. c.mapping = map /\ c.moves = <<>> /\ c.deletions = D /\ c.insertions = I
  BY DEF Builder
<1>2. PICK S : S = Moving(I, o)
  OBVIOUS
<1>3. DOMAIN map = S /\ \A k \in S : map[k] = o[k]
  BY <1>2 DEF LogMapping
<1>4. \A k : k \in S <=> k \in I /\ o[k] # npos
  BY <1>2 DEF Moving
<1>5. PICK W : W = {to \in DOMAIN map : map[to] # to}
  OBVIOUS
<1>6. \A k : k \in W <=> k \in I /\ o[k] # npos /\ o[k] # k
  BY <1>3, <1>4, <1>5
<1>7. W = MovedRows(I, o)
  BY <1>6 DEF MovedRows
<1>8. S \ W = StaleRows(I, o)
  <2>1. \A k \in I : k # npos
    BY DEF npos
  <2> QED
    BY <1>4, <1>6, <2>1 DEF StaleRows
<1>9. PICK N : N = {[from |-> map[to], to |-> to] : to \in W} \cup ToSet(<<>>)
  OBVIOUS
<1>10. N = RowMoves(I, o)
  <2>1. \A k \in W : map[k] = o[k]
    BY <1>3, <1>5
  <2>2. {[from |-> map[to], to |-> to] : to \in W} = {[from |-> o[k], to |-> k] : k \in W}
    BY <2>1
  <2> QED
    BY <1>7, <1>9, <2>2, NoMoves DEF RowMoves
<1>11. PICK x, y, z : x = D \ (S \ W) /\ y = I \ (S \ W) /\ z = Sorted(N)
  OBVIOUS
<1>12. d = [c EXCEPT !.deletions = x, !.insertions = y, !.moves = z, !.mapping = << >>]
  BY <1>1, <1>3, <1>5, <1>9, <1>11 DEF parse_complete
<1>13. d = [deletions |-> x, insertions |-> y, modifications |-> M, moves |-> z,
            mapping |-> << >>]
  BY <1>12 DEF Builder
<1> QED
  BY <1>8, <1>10, <1>11, <1>13 DEF IsCompleted

LEMMA CompletedTold ==
  ASSUME NEW n \in Nat, NEW p \in Nat, NEW o, NEW M \in Intervals(p), NEW c,
         LogTells(c, M, n, p, o), NEW d, d = parse_complete(c)
  PROVE  Told(d, n, p, o) /\ d.modifications = M
<1>1. PICK D, I : c = Builder(D, I, M, LogMapping(I, o)) /\ InLog(D, I, n, p, o)
  BY DEF LogTells
<1>2. I \in SUBSET (0 .. p - 1) /\ I \in SUBSET Nat
  <2>1. I \in SUBSET (0 .. p - 1)
    BY <1>1 DEF InLog, InPlace, Intervals
  <2> QED
    BY <2>1
<1>3. PICK S : S = StaleRows(I, o)
  OBVIOUS
<1>4. PICK E, J : E = D \ S /\ J = I \ S
  OBVIOUS
<1>5. PICK N : N = RowMoves(I, o)
  OBVIOUS
<1>6. PICK s : s = Sorted(N)
  OBVIOUS
<1>7. IsCompleted(d, D, I, M, o)
  BY <1>1, <1>2, CompletedIs
<1>8. d = [deletions |-> E, insertions |-> J, modifications |-> M, moves |-> s,
           mapping |-> << >>]
  BY <1>3, <1>4, <1>5, <1>6, <1>7 DEF IsCompleted
<1>9. InLog(E, J, n, p, o)
  BY <1>1, <1>3, <1>4, StaleInLog
<1>10. Kept(E, J, n, p, o)
  BY <1>9, InLogKept
<1>11. /\ o \in Origins(n, p) /\ \A k \in J : o[k] # npos => o[k] \in E
  BY <1>9 DEF InLog
<1>12. /\ o \in [0 .. p - 1 -> npos .. n - 1]
       /\ \A j, k \in 0 .. p - 1 : o[j] = o[k] /\ j # k => o[j] = npos
  BY <1>11 DEF Origins
<1>13. \A k : k \in J <=> k \in I /\ o[k] # k
  BY <1>3, <1>4 DEF StaleRows
<1>14. \A m : m \in N <=> \E k \in J : o[k] # npos /\ m = [from |-> o[k], to |-> k]
  BY <1>5, <1>13 DEF RowMoves, MovedRows
<1>15. \A k \in J : k \in 0 .. p - 1 /\ k \in Nat /\ (o[k] # npos => o[k] \in 0 .. n - 1)
  <2> TAKE k \in J
  <2>1. k \in 0 .. p - 1 /\ o[k] \in npos .. n - 1
    BY <1>2, <1>12, <1>13
  <2>2. o[k] # npos => o[k] \in 0 .. n - 1
    BY <2>1 DEF npos
  <2> QED
    BY <2>1, <2>2
<1>16. N \in SUBSET Moves /\ \A m \in N : m.from < n
  BY <1>14, <1>15 DEF Moves
<1>17. \A a, b \in N : a.from = b.from => a = b
  BY <1>12, <1>14, <1>15
<1>18. s \in Seq(Moves) /\ ToSet(s) = N
  BY <1>6, <1>16, <1>17, SortedSet
<1>19. MovesTold(d, o)
  <2>1. d.moves = s /\ d.deletions = E /\ d.insertions = J
    BY <1>8
  <2>2. \A m \in N : m.from \in E /\ m.to \in J /\ o[m.to] = m.from
    BY <1>11, <1>14
  <2>3. \A k \in J : o[k] # npos => [from |-> o[k], to |-> k] \in N
    BY <1>14
  <2> QED
    BY <1>18, <2>1, <2>2, <2>3 DEF MovesTold
<1>20. Told(d, n, p, o)
  <2>1. d.deletions = E /\ d.insertions = J /\ d.modifications = M /\ d.mapping = << >>
    BY <1>8
  <2>2. M \in SUBSET Nat
    BY DEF Intervals
  <2>3. d = [deletions |-> d.deletions, insertions |-> d.insertions,
             modifications |-> d.modifications, moves |-> d.moves, mapping |-> d.mapping]
    BY <1>8
  <2> QED
    BY <1>10, <1>11, <1>19, <2>1, <2>2, <2>3, IsTold
<1> QED
  BY <1>8, <1>20

-----------------------------------------------------------------------------
(* The changes of several logs merged                                      *)

\* Rows that no one has, after those of both tables.
Extended(o, n, p, x) == [k \in 0 .. p + x - 1 |-> IF k < p THEN o[k] ELSE n + (k - p)]

LEMMA OriginsExtended ==
  ASSUME NEW n \in Nat, NEW p \in Nat, NEW x \in Nat, NEW o \in Origins(n, p)
  PROVE  Extended(o, n, p, x) \in Origins(n + x, p + x)
<1>1. PICK q : q = Extended(o, n, p, x)
  OBVIOUS
<1>2. q = [k \in 0 .. p + x - 1 |-> IF k < p THEN o[k] ELSE n + (k - p)]
  BY <1>1 DEF Extended
<1>3. /\ o \in [0 .. p - 1 -> npos .. n - 1]
      /\ \A j, k \in 0 .. p - 1 : o[j] = o[k] /\ j # k => o[j] = npos
  BY DEF Origins
<1>4. ASSUME NEW k \in 0 .. p + x - 1
      PROVE  /\ k < p => k \in 0 .. p - 1 /\ q[k] = o[k] /\ q[k] \in npos .. n - 1
             /\ ~(k < p) => q[k] = n + (k - p)
             /\ q[k] \in npos .. n + x - 1
  <2>1. k < p => k \in 0 .. p - 1 /\ q[k] = o[k] /\ q[k] \in npos .. n - 1
    BY <1>2, <1>3
  <2>2. ~(k < p) => q[k] = n + (k - p)
    BY <1>2
  <2> QED
    BY <2>1, <2>2 DEF npos
<1>5. \A j, k \in 0 .. p + x - 1 : q[j] = q[k] /\ j # k => q[j] = npos
  <2> TAKE j, k \in 0 .. p + x - 1
  <2> HAVE q[j] = q[k] /\ j # k
  <2>1. CASE j < p /\ k < p
    BY <1>3, <1>4, <2>1
  <2>2. CASE ~(j < p) \/ ~(k < p)
    BY <1>4, <2>2 DEF npos
  <2> QED
    BY <2>1, <2>2
<1>6. q \in [0 .. p + x - 1 -> npos .. n + x - 1]
  BY <1>2, <1>4
<1>7. q \in Origins(n + x, p + x)
  BY <1>5, <1>6 DEF Origins
<1> QED
  BY <1>1, <1>7

LEMMA KeptExtended ==
  ASSUME NEW n \in Nat, NEW p \in Nat, NEW x \in Nat, NEW o, NEW D, NEW I,
         Kept(D, I, n, p, o)
  PROVE  Kept(D, I, n + x, p + x, Extended(o, n, p, x))
<1>1. PICK q : q = Extended(o, n, p, x)
  OBVIOUS
<1>2. \A k \in 0 .. p + x - 1 : q[k] = IF k < p THEN o[k] ELSE n + (k - p)
  BY <1>1 DEF Extended
<1>3. /\ D \in Intervals(n) /\ I \in Intervals(p) /\ unshift(D, n) = unshift(I, p)
      /\ \A k \in (0 .. p - 1) \ I : /\ o[k] \in (0 .. n - 1) \ D
                                     /\ unshift(D, o[k]) = unshift(I, k)
  BY DEF Kept
<1>4. ASSUME NEW y \in Nat
      PROVE  /\ D \in Intervals(n + y) /\ I \in Intervals(p + y)
             /\ unshift(D, n + y) = unshift(I, p + y)
  <2>1. D \in Intervals(n + y) /\ I \in Intervals(p + y)
    BY <1>3 DEF Intervals
  <2>2. /\ unshift(D, n) = n - Cardinality(D) /\ unshift(I, p) = p - Cardinality(I)
        /\ D \in FiniteIndices /\ I \in FiniteIndices
    BY <1>3, IntervalsFinite
  <2>3. /\ unshift(D, n + y) = (n + y) - Cardinality(D)
        /\ unshift(I, p + y) = (p + y) - Cardinality(I)
    <3>1. n + y \in Nat /\ p + y \in Nat
      OBVIOUS
    <3> QED
      BY <2>1, <3>1, IntervalsFinite
  <2>4. Cardinality(D) \in Nat /\ Cardinality(I) \in Nat
    BY <2>2, FS_CardinalityType DEF FiniteIndices
  <2>5. n - Cardinality(D) = p - Cardinality(I)
    BY <1>3, <2>2
  <2>6. unshift(D, n + y) = unshift(I, p + y)
    BY ONLY <2>3, <2>4, <2>5, n \in Nat, p \in Nat, y \in Nat
  <2> QED
    BY <2>1, <2>6
<1>5. ASSUME NEW k \in (0 .. p + x - 1) \ I
      PROVE  q[k] \in (0 .. n + x - 1) \ D /\ unshift(D, q[k]) = unshift(I, k)
  <2>1. CASE k < p
    <3>1. k \in (0 .. p - 1) \ I /\ q[k] = o[k]
      BY <1>2, <2>1
    <3>2. o[k] \in (0 .. n - 1) \ D /\ unshift(D, o[k]) = unshift(I, k)
      BY <1>3, <3>1
    <3> QED
      BY <3>1, <3>2
  <2>2. CASE ~(k < p)
    <3>1. PICK y \in Nat : y = k - p
      BY <2>2
    <3>2. q[k] = n + y /\ k = p + y /\ n + y \in 0 .. n + x - 1
      BY <1>2, <2>2, <3>1
    <3>3. unshift(D, n + y) = unshift(I, p + y)
      BY <1>4
    <3>4. n + y \notin D
      BY <1>3 DEF Intervals
    <3> QED
      BY <3>2, <3>3, <3>4
  <2> QED
    BY <2>1, <2>2
<1>6. /\ D \in Intervals(n + x) /\ I \in Intervals(p + x)
      /\ unshift(D, n + x) = unshift(I, p + x)
  BY <1>4
<1>7. Kept(D, I, n + x, p + x, q)
  BY <1>5, <1>6 DEF Kept
<1> QED
  BY <1>1, <1>7

LEMMA ToldExtended ==
  ASSUME NEW n \in Nat, NEW p \in Nat, NEW x \in Nat, NEW o, NEW c, Told(c, n, p, o)
  PROVE  Told(c, n + x, p + x, Extended(o, n, p, x))
<1>1. PICK q : q = Extended(o, n, p, x)
  OBVIOUS
<1>2. /\ c \in Builders /\ o \in Origins(n, p)
      /\ Kept(c.deletions, c.insertions, n, p, o) /\ MovesTold(c, o)
  BY DEF Told
<1>3. q \in Origins(n + x, p + x)
  BY <1>1, <1>2, OriginsExtended
<1>4. Kept(c.deletions, c.insertions, n + x, p + x, q)
  BY <1>1, <1>2, KeptExtended
<1>5. \A k \in c.insertions : q[k] = o[k]
  <2>1. \A k \in c.insertions : k \in 0 .. p - 1
    BY <1>2 DEF Kept, Intervals
  <2>2. \A k \in 0 .. p - 1 : q[k] = o[k]
    BY <1>1 DEF Extended
  <2> QED
    BY <2>1, <2>2
<1>6. MovesTold(c, q)
  BY <1>2, <1>5 DEF MovesTold
<1>7. Told(c, n + x, p + x, q)
  BY ONLY <1>2, <1>3, <1>4, <1>6 DEF Told
<1> QED
  BY <1>1, <1>7

\* The log d led from a version of n rows to one of p. A row of the one had
\* the index b[k] in the oldest version, and was changed since if it is in S;
\* one of the other has a[k], and T.
LogStep(d, n, p, b, a, S, T) ==
  \E N \in Nat, o \in Origins(n, p) :
    /\ N >= n /\ Told(d, N, p, o) /\ d.modifications \in Intervals(p)
    /\ a = Composed(b, o, p)
    /\ \A k \in 0 .. p - 1 : k \in T <=> k \in d.modifications \/ (o[k] # npos /\ o[k] \in S)

\* The same of the logs merged to v; of the rows that are new nothing is told.
MergedTells(v, n, p, b, a, S, T) ==
  \E N \in Nat, o \in Origins(n, p) :
    /\ N >= n /\ Told(v, N, p, o) /\ v.modifications \in Intervals(p)
    /\ a = Composed(b, o, p)
    /\ \A k \in 0 .. p - 1 :
         o[k] # npos => (k \in T <=> k \in v.modifications \/ o[k] \in S)

LEMMA ComposedTwice ==
  ASSUME NEW n \in Nat, NEW p \in Nat, NEW q \in Nat, NEW b,
         NEW o \in Origins(n, p), NEW f \in Origins(p, q)
  PROVE  Composed(Composed(b, o, p), f, q) = Composed(b, Composed(o, f, q), q)
<1>1. PICK g : g = Composed(o, f, q)
  OBVIOUS
<1>2. \A k \in 0 .. q - 1 : g[k] = IF f[k] = npos THEN npos ELSE o[f[k]]
  BY <1>1 DEF Composed
<1>3. PICK h : h = Composed(b, o, p)
  OBVIOUS
<1>4. \A k \in 0 .. p - 1 : h[k] = IF o[k] = npos THEN npos ELSE b[o[k]]
  BY <1>3 DEF Composed
<1>5. \A k \in 0 .. q - 1 : f[k] # npos => f[k] \in 0 .. p - 1
  BY DEF Origins, npos
<1>6. ASSUME NEW k \in 0 .. q - 1
      PROVE  (IF f[k] = npos THEN npos ELSE h[f[k]]) = (IF g[k] = npos THEN npos ELSE b[g[k]])
  <2>1. CASE f[k] = npos
    BY <1>2, <2>1
  <2>2. CASE f[k] # npos
    <3>1. g[k] = o[f[k]] /\ h[f[k]] = IF o[f[k]] = npos THEN npos ELSE b[o[f[k]]]
      BY <1>2, <1>4, <1>5, <2>2
    <3> QED
      BY <2>2, <3>1
  <2> QED
    BY <2>1, <2>2
<1>7. Composed(h, f, q) = Composed(b, g, q)
  BY <1>6 DEF Composed
<1> QED
  BY <1>1, <1>3, <1>7

LEMMA ComposedExtended ==
  ASSUME NEW n \in Nat, NEW p \in Nat, NEW q \in Nat, NEW x \in Nat, NEW N \in Nat,
         NEW o \in Origins(n, p), NEW f \in Origins(p, q)
  PROVE  Composed(Extended(o, N, p, x), f, q) = Composed(o, f, q)
<1>1. \A k \in 0 .. q - 1 : f[k] # npos => f[k] \in 0 .. p - 1
  BY DEF Origins, npos
<1>2. \A k \in 0 .. p - 1 : Extended(o, N, p, x)[k] = o[k]
  BY DEF Extended
<1>3. \A k \in 0 .. q - 1 : f[k] # npos => Extended(o, N, p, x)[f[k]] = o[f[k]]
  BY <1>1, <1>2
<1> QED
  BY <1>3 DEF Composed

LEMMA MergeStep ==
  ASSUME NEW n \in Nat, NEW p \in Nat, NEW q \in Nat, NEW b, NEW a, NEW e,
         NEW S, NEW T, NEW U, NEW c, NEW v,
         LogStep(c, n, p, b, a, S, T), MergedTells(v, p, q, a, e, T, U),
         NEW d, d = merge(c, v)
  PROVE  MergedTells(d, n, q, b, e, S, U)
<1>1. PICK N \in Nat, o \in Origins(n, p) :
        /\ N >= n /\ Told(c, N, p, o) /\ c.modifications \in Intervals(p)
        /\ a = Composed(b, o, p)
        /\ \A k \in 0 .. p - 1 : k \in T <=> k \in c.modifications \/ (o[k] # npos /\ o[k] \in S)
  BY DEF LogStep
<1>2. PICK P \in Nat, f \in Origins(p, q) :
        /\ P >= p /\ Told(v, P, q, f) /\ v.modifications \in Intervals(q)
        /\ e = Composed(a, f, q)
        /\ \A k \in 0 .. q - 1 :
             f[k] # npos => (k \in U <=> k \in v.modifications \/ f[k] \in T)
  BY DEF MergedTells
<1>3. PICK x \in Nat : P = p + x
  <2>1. P - p \in Nat /\ P = p + (P - p)
    BY <1>2
  <2> QED
    BY <2>1
<1>4. PICK g : g = Extended(o, N, p, x)
  OBVIOUS
<1>5. Told(c, N + x, P, g)
  BY <1>1, <1>3, <1>4, ToldExtended
<1>6. PICK h : h = Composed(o, f, q)
  OBVIOUS
<1>7. h \in Origins(n, q)
  BY <1>6, OriginsComposed
<1>8. Composed(g, f, q) = h
  BY <1>4, <1>6, ComposedExtended
<1>9. c.modifications \in Intervals(P)
  BY <1>1, <1>2 DEF Intervals
<1>10. Told(d, N + x, q, h) /\ ModifiedByEither(d, c, v, q, g, f)
  <2>1. N + x \in Nat
    OBVIOUS
  <2> QED
    BY <1>2, <1>5, <1>8, <1>9, <2>1, MergeTells
<1>11. /\ d.modifications \in Intervals(q)
       /\ \A k \in 0 .. q - 1 :
            h[k] # npos => (k \in d.modifications <=> f[k] \in c.modifications
                                                      \/ k \in v.modifications)
  BY <1>8, <1>10 DEF ModifiedByEither
<1>12. e = Composed(b, h, q)
  BY <1>1, <1>2, <1>6, ComposedTwice
<1>13. ASSUME NEW k \in 0 .. q - 1, h[k] # npos
       PROVE  k \in U <=> k \in d.modifications \/ h[k] \in S
  <2>1. f[k] # npos /\ h[k] = o[f[k]]
    BY <1>6, <1>13 DEF Composed
  <2>2. f[k] \in 0 .. p - 1
    BY <2>1 DEF Origins, npos
  <2>3. k \in U <=> k \in v.modifications \/ f[k] \in T
    BY <1>2, <2>1
  <2>4. f[k] \in T <=> f[k] \in c.modifications \/ o[f[k]] \in S
    BY <1>1, <1>13, <2>1, <2>2
  <2>5. k \in d.modifications <=> f[k] \in c.modifications \/ k \in v.modifications
    BY <1>11, <1>13
  <2> QED
    BY ONLY <2>1, <2>3, <2>4, <2>5
<1>14. N + x \in Nat /\ N + x >= n
  BY <1>1
<1> QED
  BY <1>7, <1>10, <1>11, <1>12, <1>13, <1>14 DEF MergedTells

\* The versions between the logs: there were s[j] rows, row k had the index
\* b[j][k] in the oldest version, and was changed since if it is in t[j].
Chain(log, n, p, s, b, t) ==
  /\ s \in [0 .. Len(log) -> Nat] /\ s[0] = n /\ s[Len(log)] = p
  /\ b[0] = [k \in 0 .. n - 1 |-> k] /\ t[0] = {}
  /\ \A j \in 0 .. Len(log) : b[j] \in Origins(n, s[j])
  /\ \A j \in 1 .. Len(log) :
       LogStep(log[j], s[j - 1], s[j], b[j - 1], b[j], t[j - 1], t[j])

\* The logs led from n rows to p; row k had the index a[k] and was changed if
\* it is in T.
Recorded(log, n, p, a, T) ==
  \E s, b, t : Chain(log, n, p, s, b, t) /\ b[Len(log)] = a /\ t[Len(log)] = T

LEMMA NothingRecorded ==
  ASSUME NEW n \in Nat, NEW a, a = [k \in 0 .. n - 1 |-> k]
  PROVE  Recorded(<<>>, n, n, a, {})
<1>1. PICK s, b, t : /\ s = [j \in 0 .. 0 |-> n] /\ b = [j \in 0 .. 0 |-> a]
                     /\ t = [j \in 0 .. 0 |-> {}]
  OBVIOUS
<1>2. Len(<<>>) = 0 /\ 1 .. 0 = {}
  OBVIOUS
<1>3. s \in [0 .. 0 -> Nat] /\ s[0] = n /\ b[0] = a /\ t[0] = {}
  BY <1>1
<1>4. a \in Origins(n, n)
  BY DEF Origins, npos
<1>5. \A j \in 0 .. 0 : b[j] \in Origins(n, s[j])
  BY <1>3, <1>4
<1>6. Chain(<<>>, n, n, s, b, t)
  BY <1>2, <1>3, <1>5 DEF Chain
<1> QED
  BY <1>2, <1>3, <1>6 DEF Recorded

LEMMA LogRecorded ==
  ASSUME NEW log \in Seq(Builders), NEW n \in Nat, NEW p \in Nat, NEW q \in Nat,
         NEW a, NEW e, NEW T, NEW U, NEW d \in Builders,
         Recorded(log, n, p, a, T), LogStep(d, p, q, a, e, T, U)
  PROVE  Recorded(Append(log, d), n, q, e, U)
<1>1. PICK s, b, t : Chain(log, n, p, s, b, t) /\ b[Len(log)] = a /\ t[Len(log)] = T
  BY DEF Recorded
<1>2. PICK L \in Nat : L = Len(log)
  OBVIOUS
<1>3. /\ s \in [0 .. L -> Nat] /\ s[0] = n /\ s[L] = p
      /\ b[0] = [k \in 0 .. n - 1 |-> k] /\ t[0] = {}
      /\ \A j \in 0 .. L : b[j] \in Origins(n, s[j])
      /\ \A j \in 1 .. L : LogStep(log[j], s[j - 1], s[j], b[j - 1], b[j], t[j - 1], t[j])
  BY <1>1, <1>2 DEF Chain
<1>4. PICK r, c, u : /\ r = [j \in 0 .. L + 1 |-> IF j = L + 1 THEN q ELSE s[j]]
                     /\ c = [j \in 0 .. L + 1 |-> IF j = L + 1 THEN e ELSE b[j]]
                     /\ u = [j \in 0 .. L + 1 |-> IF j = L + 1 THEN U ELSE t[j]]
  OBVIOUS
<1>5. \A j \in 0 .. L : r[j] = s[j] /\ c[j] = b[j] /\ u[j] = t[j]
  BY <1>4
<1>6. r[L + 1] = q /\ c[L + 1] = e /\ u[L + 1] = U
  BY <1>4
<1>7. PICK g : g = Append(log, d)
  OBVIOUS
<1>8. Len(g) = L + 1 /\ g[L + 1] = d /\ \A j \in 1 .. L : g[j] = log[j]
  BY <1>2, <1>7
<1>9. e \in Origins(n, q)
  <2>1. PICK o \in Origins(p, q) : e = Composed(a, o, q)
    BY DEF LogStep
  <2>2. a \in Origins(n, p)
    BY <1>1, <1>2, <1>3
  <2> QED
    BY <2>1, <2>2, OriginsComposed
<1>10. \A j \in 0 .. L + 1 : c[j] \in Origins(n, r[j])
  <2> TAKE j \in 0 .. L + 1
  <2>1. CASE j = L + 1
    BY <1>6, <1>9, <2>1
  <2>2. CASE j # L + 1
    <3>1. j \in 0 .. L
      BY <2>2
    <3> QED
      BY <1>3, <1>5, <3>1
  <2> QED
    BY <2>1, <2>2
<1>11. ASSUME NEW j \in 1 .. L + 1
       PROVE  LogStep(g[j], r[j - 1], r[j], c[j - 1], c[j], u[j - 1], u[j])
  <2>1. j - 1 \in 0 .. L
    OBVIOUS
  <2>2. r[j - 1] = s[j - 1] /\ c[j - 1] = b[j - 1] /\ u[j - 1] = t[j - 1]
    BY <1>5, <2>1
  <2>3. CASE j = L + 1
    <3>1. j - 1 = L
      BY <2>3
    <3>2. r[j - 1] = p /\ c[j - 1] = a /\ u[j - 1] = T
      BY <1>1, <1>2, <1>3, <2>2, <3>1
    <3> QED
      BY <1>6, <1>8, <2>3, <3>2
  <2>4. CASE j # L + 1
    <3>1. j \in 1 .. L /\ j \in 0 .. L
      BY <2>4
    <3>2. LogStep(log[j], s[j - 1], s[j], b[j - 1], b[j], t[j - 1], t[j])
      BY <1>3, <3>1
    <3>3. r[j] = s[j] /\ c[j] = b[j] /\ u[j] = t[j] /\ g[j] = log[j]
      BY <1>5, <1>8, <3>1
    <3> QED
      BY <2>2, <3>2, <3>3
  <2> QED
    BY <2>3, <2>4
<1>12. r \in [0 .. L + 1 -> Nat]
  BY <1>3, <1>4
<1>13. r[0] = n /\ c[0] = [k \in 0 .. n - 1 |-> k] /\ u[0] = {}
  BY <1>3, <1>5
<1>14. Chain(g, n, q, r, c, u)
  BY <1>6, <1>8, <1>10, <1>11, <1>12, <1>13 DEF Chain
<1>15. Recorded(g, n, q, e, U)
  BY <1>6, <1>8, <1>14 DEF Recorded
<1> QED
  BY <1>7, <1>15

LEMMA NothingMerged ==
  ASSUME NEW n \in Nat, NEW p \in Nat, NEW a \in Origins(n, p), NEW T
  PROVE  MergedTells(NoChanges, p, p, a, a, T, T)
<1>1. PICK o : o = [k \in 0 .. p - 1 |-> k]
  OBVIOUS
<1>2. o \in Origins(p, p) /\ \A k \in 0 .. p - 1 : o[k] = k /\ o[k] # npos
  BY <1>1 DEF Origins, npos
<1>3. Told(NoChanges, p, p, o)
  BY <1>1, NoChangesTold
<1>4. NoChanges.modifications = {}
  BY DEF NoChanges
<1>5. {} \in Intervals(p)
  BY DEF Intervals
<1>6. a = Composed(a, o, p)
  <2>1. a = [k \in 0 .. p - 1 |-> a[k]]
    BY DEF Origins
  <2>2. \A k \in 0 .. p - 1 : a[k] = IF o[k] = npos THEN npos ELSE a[o[k]]
    BY <1>2
  <2> QED
    BY <2>1, <2>2 DEF Composed
<1>7. \A k \in 0 .. p - 1 :
        o[k] # npos => (k \in T <=> k \in NoChanges.modifications \/ o[k] \in T)
  BY <1>2, <1>4
<1> QED
  BY <1>2, <1>3, <1>4, <1>5, <1>6, <1>7 DEF MergedTells

LEMMA NoChangesBuilder == NoChanges \in Builders
BY NoMoves DEF NoChanges, Builders

AllMerged == MergedLogs[Len(infos)]

\* What the logs are merged to is in P, when every merge leads from P to P.
LEMMA MergedLogsIn ==
  ASSUME infos \in Seq(Builders), NEW P, <<0, NoChanges>> \in P,
         \A j \in 1 .. Len(infos), v \in Builders :
           <<j - 1, v>> \in P => /\ merge(infos[Len(infos) + 1 - j], v) \in Builders
                                 /\ <<j, merge(infos[Len(infos) + 1 - j], v)>> \in P
  PROVE  AllMerged \in Builders /\ <<Len(infos), AllMerged>> \in P
<1> DEFINE N == Len(infos)
           G(v, j) == merge(infos[N + 1 - j], v)
           F == [p \in Builders \X (1 .. N) |->
                  IF <<p[2] - 1, p[1]>> \in P THEN G(p[1], p[2]) ELSE NoChanges]
           Rec(f) == f = [j \in 0 .. N |->
                           IF j = 0 THEN NoChanges
                           ELSE merge(infos[Len(infos) + 1 - j], f[j - 1])]
           s == CHOOSE f : Rec(f)
<1>1. N \in Nat
  OBVIOUS
<1>2. F \in [Builders \X (1 .. N) -> Builders]
  <2>1. ASSUME NEW v \in Builders, NEW j \in 1 .. N, <<j - 1, v>> \in P
        PROVE  G(v, j) \in Builders
    BY <2>1
  <2> HIDE DEF N, G
  <2> QED
    BY <2>1, NoChangesBuilder
<1>3. Recursive(N, Builders, NoChanges, F) # {}
  <2> HIDE DEF F, N
  <2> QED
    BY <1>1, <1>2, NoChangesBuilder, Recursion, Zenon
<1>4. PICK f \in [0 .. N -> Builders] :
             f[0] = NoChanges /\ \A j \in 1 .. N : f[j] = F[<<f[j - 1], j>>]
  <2> HIDE DEF F, N
  <2> QED
    BY <1>3 DEF Recursive
<1>5. ASSUME NEW j \in 1 .. N, <<j - 1, f[j - 1]>> \in P
      PROVE  f[j] = G(f[j - 1], j) /\ <<j, f[j]>> \in P
  <2>1. j - 1 \in 0 .. N
    BY <1>1
  <2>2. PICK v \in Builders : v = f[j - 1]
    BY <2>1
  <2>3. <<v, j>> \in Builders \X (1 .. N)
    OBVIOUS
  <2>4. f[j] = F[<<v, j>>]
    BY <1>4, <2>2
  <2>5. F[<<v, j>>] = G(v, j)
    <3> HIDE DEF G, N
    <3> QED
      BY <1>5, <2>2, <2>3
  <2>6. <<j, G(v, j)>> \in P
    BY <1>5, <2>2
  <2> HIDE DEF G, F, N
  <2> QED
    BY <2>2, <2>4, <2>5, <2>6
<1> DEFINE Q == {j \in 0 .. N : <<j, f[j]>> \in P}
<1>6. \A j \in 0 .. N : j \in Q
  <2>1. 0 \in Q
    BY <1>1, <1>4
  <2>2. ASSUME NEW j \in 0 .. N - 1, j \in Q PROVE j + 1 \in Q
    <3>1. j + 1 \in 1 .. N /\ (j + 1) - 1 = j /\ j + 1 \in 0 .. N
      BY <1>1
    <3>2. <<j + 1, f[j + 1]>> \in P
      <4> HIDE DEF N, F, G
      <4> QED
        BY <1>5, <2>2, <3>1
    <3> QED
      BY <3>1, <3>2
  <2> HIDE DEF Q, N
  <2> QED
    BY <1>1, <2>1, <2>2, Induction
<1>7. Rec(f)
  <2>1. ASSUME NEW j \in 1 .. N PROVE f[j] = merge(infos[Len(infos) + 1 - j], f[j - 1])
    <3>1. j - 1 \in 0 .. N
      BY <1>1
    <3>2. <<j - 1, f[j - 1]>> \in P
      <4>1. j - 1 \in Q
        <5> HIDE DEF Q
        <5> QED
          BY <1>6, <3>1
      <4> QED
        BY <4>1
    <3> QED
      BY <1>5, <3>2
  <2>2. f[0] = NoChanges
    BY <1>4
  <2>3. f = [j \in 0 .. N |-> f[j]]
    BY <1>4
  <2>4. \A j \in 0 .. N : j # 0 => j \in 1 .. N
    BY <1>1
  <2>5. \A j \in 0 .. N :
          f[j] = IF j = 0 THEN NoChanges ELSE merge(infos[Len(infos) + 1 - j], f[j - 1])
    <3> HIDE DEF N, F, G
    <3> QED
      BY <2>1, <2>2, <2>4
  <2> HIDE DEF N, F, G
  <2> QED
    BY <2>3, <2>5
<1>8. Rec(s)
  <2> HIDE DEF Rec
  <2> QED
    BY <1>7
<1>9. MergedLogs = s
  BY DEF MergedLogs
<1> DEFINE W == {j \in 0 .. N : s[j] = f[j]}
<1>10. \A j \in 0 .. N : s[j] = IF j = 0 THEN NoChanges
                                ELSE merge(infos[Len(infos) + 1 - j], s[j - 1])
  <2> HIDE DEF s, N
  <2>1. s = [j \in 0 .. N |-> IF j = 0 THEN NoChanges
                              ELSE merge(infos[Len(infos) + 1 - j], s[j - 1])]
    BY <1>8
  <2> QED
    BY <2>1, Zenon
<1>11. \A j \in 0 .. N : f[j] = IF j = 0 THEN NoChanges
                                 ELSE merge(infos[Len(infos) + 1 - j], f[j - 1])
  <2>1. f = [j \in 0 .. N |-> IF j = 0 THEN NoChanges
                              ELSE merge(infos[Len(infos) + 1 - j], f[j - 1])]
    BY <1>7
  <2> HIDE DEF N
  <2> QED
    BY <2>1, Zenon
<1>12. \A j \in 0 .. N : j \in W
  <2> HIDE DEF s, F, G
  <2>1. 0 \in W
    BY <1>1, <1>10, <1>11
  <2>2. ASSUME NEW j \in 0 .. N - 1, j \in W PROVE j + 1 \in W
    <3>1. j + 1 \in 0 .. N /\ j + 1 # 0 /\ (j + 1) - 1 = j /\ s[j] = f[j]
      BY <1>1, <2>2
    <3>2. s[j + 1] = merge(infos[Len(infos) + 1 - (j + 1)], s[(j + 1) - 1])
      <4> HIDE DEF N
      <4> QED
        BY <1>10, <3>1
    <3>3. f[j + 1] = merge(infos[Len(infos) + 1 - (j + 1)], f[(j + 1) - 1])
      <4> HIDE DEF N
      <4> QED
        BY <1>11, <3>1
    <3> QED
      BY <3>1, <3>2, <3>3
  <2> HIDE DEF W, N
  <2> QED
    BY <1>1, <2>1, <2>2, Induction
<1>13. AllMerged = f[N]
  <2>1. N \in W
    <3> HIDE DEF W, N
    <3> QED
      BY <1>1, <1>12
  <2> HIDE DEF s, F, G
  <2> QED
    BY <1>9, <2>1 DEF AllMerged
<1>14. N \in 0 .. N /\ N \in Q
  <2>1. N \in 0 .. N
    BY <1>1
  <2> HIDE DEF Q, N
  <2> QED
    BY <1>6, <2>1
<1> QED
  BY <1>13, <1>14

LEMMA LogsMerged ==
  ASSUME infos \in Seq(Builders), NEW n \in Nat, NEW p \in Nat, NEW a, NEW T,
         Recorded(infos, n, p, a, T), NEW o, o = [k \in 0 .. n - 1 |-> k]
  PROVE  MergedTells(AllMerged, n, p, o, a, {}, T)
<1>1. PICK s, b, t : Chain(infos, n, p, s, b, t) /\ b[Len(infos)] = a /\ t[Len(infos)] = T
  BY DEF Recorded
<1>2. PICK L \in Nat : L = Len(infos)
  OBVIOUS
<1>3. /\ s \in [0 .. L -> Nat] /\ s[0] = n /\ s[L] = p
      /\ b[0] = o /\ t[0] = {} /\ b[L] = a /\ t[L] = T
      /\ \A j \in 0 .. L : b[j] \in Origins(n, s[j])
      /\ \A j \in 1 .. L :
           LogStep(infos[j], s[j - 1], s[j], b[j - 1], b[j], t[j - 1], t[j])
  BY <1>1, <1>2 DEF Chain
<1>4. PICK P : P = {x \in (0 .. L) \X Builders :
                     MergedTells(x[2], s[L - x[1]], p, b[L - x[1]], a, t[L - x[1]], T)}
  OBVIOUS
<1>5. ASSUME NEW j \in 0 .. L, NEW v \in Builders
      PROVE  <<j, v>> \in P <=> MergedTells(v, s[L - j], p, b[L - j], a, t[L - j], T)
  <2>1. <<j, v>> \in (0 .. L) \X Builders /\ <<j, v>>[1] = j /\ <<j, v>>[2] = v
    OBVIOUS
  <2> QED
    BY <1>4, <2>1
<1>6. <<0, NoChanges>> \in P
  <2>1. a \in Origins(n, p) /\ L - 0 = L /\ 0 \in 0 .. L
    BY <1>3
  <2>2. MergedTells(NoChanges, p, p, a, a, T, T)
    BY <2>1, NothingMerged
  <2> QED
    BY <1>3, <1>5, <2>1, <2>2, NoChangesBuilder
<1>7. ASSUME NEW j \in 1 .. L, NEW v \in Builders, <<j - 1, v>> \in P,
             NEW d, d = merge(infos[L + 1 - j], v)
      PROVE  d \in Builders /\ <<j, d>> \in P
  <2>1. PICK i \in 1 .. L : i = L + 1 - j
    OBVIOUS
  <2>2. L - (j - 1) = i /\ L - j = i - 1 /\ j - 1 \in 0 .. L /\ j \in 0 .. L /\ i \in 0 .. L
        /\ i - 1 \in 0 .. L
    BY <2>1
  <2>3. MergedTells(v, s[i], p, b[i], a, t[i], T)
    BY <1>5, <1>7, <2>2
  <2>4. PICK c, m, q, e, f, X, Y : /\ c = infos[i] /\ m = s[i - 1] /\ q = s[i] /\ e = b[i - 1]
                                   /\ f = b[i] /\ X = t[i - 1] /\ Y = t[i]
    OBVIOUS
  <2>5. m \in Nat /\ q \in Nat /\ d = merge(c, v)
    BY <1>3, <1>7, <2>1, <2>2, <2>4
  <2>6. LogStep(c, m, q, e, f, X, Y) /\ MergedTells(v, q, p, f, a, Y, T)
    BY <1>3, <2>3, <2>4
  <2>7. MergedTells(d, m, p, e, a, X, T)
    BY <2>5, <2>6, MergeStep
  <2>8. d \in Builders
    BY <2>7 DEF MergedTells, Told
  <2> QED
    BY <1>5, <2>2, <2>4, <2>7, <2>8
<1>8. AllMerged \in Builders /\ <<L, AllMerged>> \in P
  BY <1>2, <1>6, <1>7, MergedLogsIn
<1>9. L \in 0 .. L /\ L - L = 0
  OBVIOUS
<1>10. MergedTells(AllMerged, s[0], p, b[0], a, t[0], T)
  BY <1>5, <1>8, <1>9
<1> QED
  BY <1>3, <1>10

-----------------------------------------------------------------------------
(* The rows of the table: where they were at the start of the log, and     *)
(* which were changed since.                                               *)

TableRows == [base : npos .. MaxRows - 1, start : npos .. MaxRows - 1,
              dirty : BOOLEAN, touched : BOOLEAN]

Starts(rows) == [k \in 0 .. Len(rows) - 1 |-> rows[k + 1].start]
Touched(rows) == {k \in 0 .. Len(rows) - 1 : rows[k + 1].touched}

\* A row of a table that had n rows at the start of the log.
RowKnown(row, n, b, T) ==
  /\ row.start \in npos .. n - 1
  /\ row.base = IF row.start = npos THEN npos ELSE b[row.start]
  /\ row.dirty <=> row.touched \/ (row.start # npos /\ row.start \in T)

RowsKnown(rows, n, b, T) == \A k \in 1 .. Len(rows) : RowKnown(rows[k], n, b, T)

AreRows(rows, l, o, M) ==
  /\ rows \in Seq(TableRows) /\ Len(rows) = l
  /\ Starts(rows) = o /\ Touched(rows) = M

\* The rows new, made of others: what was known of these is known of them.
AreMadeOf(new, rows, l, o, M) ==
  /\ AreRows(new, l, o, M)
  /\ \A n \in Nat : \A b, T : RowsKnown(rows, n, b, T) => RowsKnown(new, n, b, T)

LEMMA AreRowsBy ==
  ASSUME NEW l \in Nat, NEW rows, rows \in [1 .. l -> TableRows], NEW o,
         o = [k \in 0 .. l - 1 |-> o[k]], NEW M \in SUBSET (0 .. l - 1),
         \A k \in 0 .. l - 1 : rows[k + 1].start = o[k],
         \A k \in 0 .. l - 1 : k \in M <=> rows[k + 1].touched
  PROVE  AreRows(rows, l, o, M)
<1>1. rows \in Seq(TableRows) /\ Len(rows) = l
  BY SeqFunction
<1>2. Starts(rows) = o
  BY <1>1 DEF Starts
<1>3. Touched(rows) = M
  BY <1>1 DEF Touched
<1> QED
  BY <1>1, <1>2, <1>3 DEF AreRows

LEMMA TableRow ==
  ASSUME NEW rows \in Seq(TableRows)
  PROVE  /\ Len(rows) \in Nat /\ rows \in [1 .. Len(rows) -> TableRows]
         /\ \A k \in 0 .. Len(rows) - 1 :
              /\ rows[k + 1] \in TableRows
              /\ Starts(rows)[k] = rows[k + 1].start
              /\ k \in Touched(rows) <=> rows[k + 1].touched
         /\ Touched(rows) \in SUBSET (0 .. Len(rows) - 1)
<1>1. Len(rows) \in Nat /\ rows \in [1 .. Len(rows) -> TableRows]
  OBVIOUS
<1>2. \A k \in 0 .. Len(rows) - 1 : k + 1 \in 1 .. Len(rows)
  BY <1>1
<1> QED
  BY <1>1, <1>2 DEF Starts, Touched

LEMMA NewRow ==
  ASSUME TableBounds, NEW r, r = Row(npos, npos)
  PROVE  r \in TableRows /\ r.start = npos /\ r.base = npos /\ ~r.touched /\ ~r.dirty
<1>1. npos \in npos .. MaxRows - 1
  BY TableBounds DEF npos
<1> QED
  BY <1>1 DEF Row, TableRows

LEMMA ChangedRow ==
  ASSUME NEW r \in TableRows, NEW s, s = Changed(r)
  PROVE  s \in TableRows /\ s.start = r.start /\ s.base = r.base /\ s.touched /\ s.dirty
BY DEF Changed, TableRows

LEMMA JoinedRow ==
  ASSUME NEW r \in TableRows, NEW s \in TableRows, NEW m, m = MergedRow(r, s)
  PROVE  /\ m \in TableRows /\ m.start = r.start /\ m.base = r.base
         /\ (m.touched <=> r.touched \/ s.touched) /\ (m.dirty <=> r.dirty \/ s.dirty)
BY DEF MergedRow, TableRows

AreJoined(q, s, t, V) ==
  /\ q \in Seq(V) /\ Len(q) = Len(s) + Len(t)
  /\ \A k \in 1 .. Len(s) + Len(t) : q[k] = IF k <= Len(s) THEN s[k] ELSE t[k - Len(s)]

LEMMA RowsJoin ==
  ASSUME NEW V, NEW s \in Seq(V), NEW t \in Seq(V)
  PROVE  AreJoined(s \o t, s, t, V)
BY ConcatProperties DEF AreJoined

LEMMA AddRows ==
  ASSUME TableBounds, NEW rows \in Seq(TableRows), NEW x \in Nat,
         NEW new, new = rows \o [k \in 1 .. x |-> Row(npos, npos)]
  PROVE  AreMadeOf(new, rows, Len(rows) + x, RowsAdded(Starts(rows), Len(rows), x),
                   Touched(rows))
<1>1. PICK r : r = Row(npos, npos)
  OBVIOUS
<1>2. r \in TableRows /\ r.start = npos /\ r.base = npos /\ ~r.touched /\ ~r.dirty
  BY <1>1, NewRow
<1>3. PICK l \in Nat : l = Len(rows)
  OBVIOUS
<1>4. PICK more : more = [k \in 1 .. x |-> r]
  OBVIOUS
<1>5. more \in Seq(TableRows) /\ Len(more) = x
  BY <1>2, <1>4, SeqFunction
<1>6. /\ new \in [1 .. l + x -> TableRows] /\ Len(new) = l + x
      /\ \A k \in 1 .. l + x : new[k] = IF k <= l THEN rows[k] ELSE r
  <2>1. new = rows \o more
    BY <1>1, <1>4
  <2>2. \A k \in 1 .. x : more[k] = r
    BY <1>4
  <2>3. /\ new \in Seq(TableRows) /\ Len(new) = l + x
        /\ \A k \in 1 .. l + x : new[k] = IF k <= l THEN rows[k] ELSE more[k - l]
    <3>1. AreJoined(new, rows, more, TableRows)
      BY <1>5, <2>1, RowsJoin
    <3> QED
      BY <1>3, <1>5, <3>1 DEF AreJoined
  <2>4. \A k \in 1 .. l + x : ~(k <= l) => more[k - l] = r
    BY <2>2
  <2>5. new \in [1 .. l + x -> TableRows]
    <3>1. new \in [1 .. Len(new) -> TableRows]
      BY <2>3, TableRow
    <3> QED
      BY <2>3, <3>1
  <2> QED
    BY <2>3, <2>4, <2>5
<1>7. PICK o : o = RowsAdded(Starts(rows), l, x)
  OBVIOUS
<1>8. o = [k \in 0 .. l + x - 1 |-> IF k < l THEN Starts(rows)[k] ELSE npos]
  BY <1>7 DEF RowsAdded
<1>9. ASSUME NEW k \in 0 .. l + x - 1
      PROVE  new[k + 1].start = o[k] /\ (k \in Touched(rows) <=> new[k + 1].touched)
  <2>1. CASE k < l
    <3>1. k \in 0 .. l - 1 /\ k + 1 <= l /\ k + 1 \in 1 .. l + x
      BY <2>1
    <3>2. new[k + 1] = rows[k + 1]
      BY <1>6, <3>1
    <3>3. Starts(rows)[k] = rows[k + 1].start /\ (k \in Touched(rows) <=> rows[k + 1].touched)
      BY <1>3, <3>1, TableRow
    <3> QED
      BY <1>8, <2>1, <3>2, <3>3
  <2>2. CASE ~(k < l)
    <3>1. ~(k + 1 <= l) /\ k + 1 \in 1 .. l + x
      BY <2>2
    <3>2. new[k + 1] = r
      BY <1>6, <3>1
    <3>3. k \notin Touched(rows)
      BY <1>3, <2>2, TableRow
    <3> QED
      BY <1>2, <1>8, <2>2, <3>2, <3>3
  <2> QED
    BY <2>1, <2>2
<1>10. AreRows(new, l + x, o, Touched(rows))
  <2>1. PICK m \in Nat : m = l + x
    OBVIOUS
  <2>2. o = [k \in 0 .. m - 1 |-> o[k]] /\ new \in [1 .. m -> TableRows]
    <3>1. (l + x) - 1 = m - 1 /\ l + x - 1 = m - 1
      BY <2>1
    <3>2. o = [k \in 0 .. m - 1 |-> IF k < l THEN Starts(rows)[k] ELSE npos]
      BY <1>8, <3>1
    <3> QED
      BY <1>6, <2>1, <3>2
  <2>3. Touched(rows) \in SUBSET (0 .. m - 1)
    BY <1>3, <2>1, TableRow
  <2>4. PICK M : M = Touched(rows)
    OBVIOUS
  <2>5. \A k \in 0 .. m - 1 : new[k + 1].start = o[k] /\ (k \in M <=> new[k + 1].touched)
    <3>1. l + x - 1 = m - 1
      BY <2>1
    <3> QED
      BY <1>9, <2>4, <3>1
  <2>6. AreRows(new, m, o, M)
    BY <2>2, <2>3, <2>4, <2>5, AreRowsBy
  <2> QED
    BY <2>1, <2>4, <2>6
<1>11. ASSUME NEW n \in Nat, NEW b, NEW T, RowsKnown(rows, n, b, T)
       PROVE  RowsKnown(new, n, b, T)
  <2>1. RowKnown(r, n, b, T)
    BY <1>2 DEF RowKnown, npos
  <2>2. \A k \in 1 .. l : RowKnown(rows[k], n, b, T)
    BY <1>3, <1>11 DEF RowsKnown
  <2> QED
    BY <1>6, <2>1, <2>2 DEF RowsKnown
<1> QED
  BY <1>3, <1>7, <1>10, <1>11 DEF AreMadeOf

\* The same, once it is known of row r, too.
AreReplaced(new, rows, r, l, o, M) ==
  /\ AreRows(new, l, o, M)
  /\ \A n, b, T :
       RowsKnown(rows, n, b, T) /\ RowKnown(r, n, b, T) => RowsKnown(new, n, b, T)

\* Rows like others, at other places.
LEMMA RowsLike ==
  ASSUME NEW rows \in Seq(TableRows), NEW m \in Nat, NEW f \in [0 .. m - 1 -> 0 .. Len(rows) - 1],
         NEW new, new = [k \in 1 .. m |-> rows[f[k - 1] + 1]],
         NEW o, o = [k \in 0 .. m - 1 |-> Starts(rows)[f[k]]],
         NEW M, M = {k \in 0 .. m - 1 : f[k] \in Touched(rows)}
  PROVE  AreMadeOf(new, rows, m, o, M)
<1>1. \A k \in 0 .. m - 1 : k + 1 \in 1 .. m /\ (k + 1) - 1 = k
  OBVIOUS
<1>2. ASSUME NEW k \in 0 .. m - 1
      PROVE  /\ new[k + 1] = rows[f[k] + 1] /\ new[k + 1] \in TableRows
             /\ new[k + 1].start = o[k] /\ (k \in M <=> new[k + 1].touched)
  <2>1. PICK j \in 0 .. Len(rows) - 1 : j = f[k]
    OBVIOUS
  <2>2. rows[j + 1] \in TableRows /\ Starts(rows)[j] = rows[j + 1].start
        /\ (j \in Touched(rows) <=> rows[j + 1].touched)
    BY TableRow
  <2>3. new[k + 1] = rows[f[k] + 1]
    BY <1>1
  <2> QED
    BY <2>1, <2>2, <2>3
<1>3. new \in [1 .. m -> TableRows]
  <2>1. \A j \in 1 .. m : j - 1 \in 0 .. m - 1 /\ (j - 1) + 1 = j
    OBVIOUS
  <2>2. \A j \in 1 .. m : new[j] \in TableRows
    BY <1>2, <2>1
  <2> QED
    BY <2>2
<1>4. o = [k \in 0 .. m - 1 |-> o[k]] /\ M \in SUBSET (0 .. m - 1)
  OBVIOUS
<1>5. AreRows(new, m, o, M)
  <2>1. \A k \in 0 .. m - 1 : new[k + 1].start = o[k] /\ (k \in M <=> new[k + 1].touched)
    BY <1>2
  <2> QED
    BY ONLY m \in Nat, <1>3, <1>4, <2>1, AreRowsBy
<1>6. ASSUME NEW n, NEW b, NEW T, RowsKnown(rows, n, b, T)
      PROVE  RowsKnown(new, n, b, T)
  <2>1. Len(new) = m
    BY <1>5 DEF AreRows
  <2>2. ASSUME NEW j \in 1 .. m PROVE RowKnown(new[j], n, b, T)
    <3>0. j - 1 \in 0 .. m - 1
      OBVIOUS
    <3>1. PICK i \in 0 .. Len(rows) - 1 : i = f[j - 1]
      BY <3>0
    <3>2. i + 1 \in 1 .. Len(rows) /\ new[j] = rows[i + 1]
      BY <3>1, TableRow
    <3> QED
      BY <1>6, <3>2 DEF RowsKnown
  <2> QED
    BY <2>1, <2>2 DEF RowsKnown
<1> QED
  BY <1>5, <1>6 DEF AreMadeOf

\* The one row that is another.
LEMMA RowReplaced ==
  ASSUME NEW rows \in Seq(TableRows), NEW i \in 0 .. Len(rows) - 1, NEW r \in TableRows,
         NEW new, new = [rows EXCEPT ![i + 1] = r],
         NEW o, o = [k \in 0 .. Len(rows) - 1 |-> IF k = i THEN r.start ELSE Starts(rows)[k]],
         NEW M, M = (Touched(rows) \ {i}) \cup IF r.touched THEN {i} ELSE {}
  PROVE  AreReplaced(new, rows, r, Len(rows), o, M)
<1>1. PICK l \in Nat : l = Len(rows)
  BY TableRow
<1>2. rows \in [1 .. l -> TableRows] /\ i \in 0 .. l - 1
  BY <1>1, TableRow
<1>3. new \in [1 .. l -> TableRows] /\ \A k \in 1 .. l : new[k] = IF k = i + 1 THEN r ELSE rows[k]
  BY <1>2
<1>4. ASSUME NEW k \in 0 .. l - 1
      PROVE  new[k + 1].start = o[k] /\ (k \in M <=> new[k + 1].touched)
  <2>1. k + 1 \in 1 .. l /\ (k + 1 = i + 1 <=> k = i)
    BY <1>2
  <2>2. o[k] = IF k = i THEN r.start ELSE Starts(rows)[k]
    BY <1>1
  <2>3. Starts(rows)[k] = rows[k + 1].start /\ (k \in Touched(rows) <=> rows[k + 1].touched)
    BY <1>1, TableRow
  <2>4. CASE k = i
    BY <1>3, <2>1, <2>2, <2>4
  <2>5. CASE k # i
    BY <1>3, <2>1, <2>2, <2>3, <2>5
  <2> QED
    BY <2>4, <2>5
<1>5. AreRows(new, l, o, M)
  <2>1. M \in SUBSET (0 .. l - 1)
    <3>1. Touched(rows) \in SUBSET (0 .. l - 1)
      BY <1>1, TableRow
    <3> QED
      BY <1>2, <3>1
  <2>2. o = [k \in 0 .. l - 1 |-> o[k]]
    BY <1>1
  <2> QED
    BY ONLY l \in Nat, <1>3, <1>4, <2>1, <2>2, AreRowsBy
<1>6. ASSUME NEW n, NEW b, NEW T, RowsKnown(rows, n, b, T), RowKnown(r, n, b, T)
      PROVE  RowsKnown(new, n, b, T)
  <2>1. Len(new) = l /\ \A k \in 1 .. l : RowKnown(rows[k], n, b, T)
    BY <1>1, <1>5, <1>6 DEF AreRows, RowsKnown
  <2> QED
    BY <1>3, <1>6, <2>1 DEF RowsKnown
<1> QED
  BY <1>1, <1>5, <1>6 DEF AreReplaced

LEMMA ChangeRow ==
  ASSUME NEW rows \in Seq(TableRows), NEW i \in 0 .. Len(rows) - 1,
         NEW new, new = [rows EXCEPT ![i + 1] = Changed(@)]
  PROVE  AreMadeOf(new, rows, Len(rows), Starts(rows), Touched(rows) \cup {i})
<1>1. PICK row \in TableRows : row = rows[i + 1]
  BY TableRow
<1>2. PICK r : r = Changed(row)
  OBVIOUS
<1>3. r \in TableRows /\ r.start = row.start /\ r.base = row.base /\ r.touched /\ r.dirty
  BY <1>2, ChangedRow
<1>4. new = [rows EXCEPT ![i + 1] = r]
  BY <1>1, <1>2
<1>5. PICK o, M : /\ o = [k \in 0 .. Len(rows) - 1 |-> IF k = i THEN r.start ELSE Starts(rows)[k]]
                  /\ M = (Touched(rows) \ {i}) \cup IF r.touched THEN {i} ELSE {}
  OBVIOUS
<1>6. AreReplaced(new, rows, r, Len(rows), o, M)
  BY <1>3, <1>4, <1>5, RowReplaced
<1>7. o = Starts(rows)
  <2>1. Starts(rows)[i] = row.start
    BY <1>1, TableRow
  <2>2. Starts(rows) = [k \in 0 .. Len(rows) - 1 |-> Starts(rows)[k]]
    BY DEF Starts
  <2> QED
    BY <1>3, <1>5, <2>1, <2>2
<1>8. M = Touched(rows) \cup {i}
  BY <1>3, <1>5
<1>9. ASSUME NEW n, NEW b, NEW T, RowsKnown(rows, n, b, T)
      PROVE  RowKnown(r, n, b, T)
  <2>1. RowKnown(row, n, b, T)
    <3>1. i + 1 \in 1 .. Len(rows)
      BY TableRow
    <3> QED
      BY <1>1, <1>9, <3>1 DEF RowsKnown
  <2> QED
    BY <1>3, <2>1 DEF RowKnown
<1> QED
  BY <1>6, <1>7, <1>8, <1>9 DEF AreReplaced, AreMadeOf

LEMMA LoseRow ==
  ASSUME NEW rows \in Seq(TableRows), NEW l \in Nat, Len(rows) = l + 1, NEW i \in 0 .. l,
         NEW new, new = WithoutRow(rows, i)
  PROVE  AreMadeOf(new, rows, l, RowsMoved(Starts(rows), i, l), ModifiedOver(Touched(rows), i, l))
<1>1. PICK f : f = [k \in 0 .. l - 1 |-> IF k = i THEN l ELSE k]
  OBVIOUS
<1>2. f \in [0 .. l - 1 -> 0 .. Len(rows) - 1]
  BY <1>1
<1>3. PICK s, X : s = Starts(rows) /\ X = Touched(rows)
  OBVIOUS
<1>4. new = [k \in 1 .. l |-> rows[f[k - 1] + 1]]
  <2>1. \A k \in 1 .. l : f[k - 1] + 1 = IF k = i + 1 THEN l + 1 ELSE k
    BY <1>1
  <2>2. new = [k \in 1 .. l |-> IF k = i + 1 THEN rows[l + 1] ELSE rows[k]]
    BY DEF WithoutRow
  <2>3. \A k \in 1 .. l : rows[f[k - 1] + 1] = IF k = i + 1 THEN rows[l + 1] ELSE rows[k]
    BY <2>1
  <2> QED
    BY <2>2, <2>3
<1>5. PICK o, M : o = [k \in 0 .. l - 1 |-> s[f[k]]] /\ M = {k \in 0 .. l - 1 : f[k] \in X}
  OBVIOUS
<1>6. AreMadeOf(new, rows, l, o, M)
  BY ONLY rows \in Seq(TableRows), l \in Nat, <1>2, <1>3, <1>4, <1>5, RowsLike
<1>7. o = RowsMoved(s, i, l)
  BY <1>1, <1>5 DEF RowsMoved
<1>8. M = ModifiedOver(X, i, l)
  <2>1. X \in SUBSET (0 .. l)
    BY <1>3, TableRow
  <2>2. \A k : k \in M <=> k \in 0 .. l - 1 /\ (IF k = i THEN l ELSE k) \in X
    BY <1>1, <1>5
  <2>3. \A k : k \in ModifiedOver(X, i, l)
                <=> (k \in X /\ k # i /\ k # l) \/ (k = i /\ l \in X /\ i # l)
    BY DEF ModifiedOver
  <2>4. \A k \in 0 .. l : k \in M <=> k \in ModifiedOver(X, i, l)
    BY <2>2, <2>3
  <2> QED
    BY <2>1, <2>2, <2>3, <2>4
<1> QED
  BY <1>3, <1>6, <1>7, <1>8

LEMMA SwapRows ==
  ASSUME NEW rows \in Seq(TableRows), NEW p \in Nat, Len(rows) = p,
         NEW i \in 0 .. p - 1, NEW j \in 0 .. p - 1, i # j,
         NEW new, new = [rows EXCEPT ![i + 1] = rows[j + 1], ![j + 1] = rows[i + 1]]
  PROVE  AreMadeOf(new, rows, p, RowsSwapped(Starts(rows), p, i, j), SwapModified(Touched(rows), i, j))
<1>1. PICK f : f = [k \in 0 .. p - 1 |-> IF k = i THEN j ELSE IF k = j THEN i ELSE k]
  OBVIOUS
<1>2. f \in [0 .. p - 1 -> 0 .. Len(rows) - 1]
  BY <1>1
<1>3. PICK s, X : s = Starts(rows) /\ X = Touched(rows)
  OBVIOUS
<1>4. new = [k \in 1 .. p |-> rows[f[k - 1] + 1]]
  <2>1. \A k \in 1 .. p : f[k - 1] + 1 = IF k = j + 1 THEN i + 1 ELSE IF k = i + 1 THEN j + 1 ELSE k
    BY <1>1
  <2>2. DOMAIN rows = 1 .. p
    BY TableRow
  <2>3. new = [k \in 1 .. p |-> IF k = j + 1 THEN rows[i + 1]
                                ELSE IF k = i + 1 THEN rows[j + 1] ELSE rows[k]]
    BY <2>2
  <2>4. \A k \in 1 .. p : rows[f[k - 1] + 1] = IF k = j + 1 THEN rows[i + 1]
                                               ELSE IF k = i + 1 THEN rows[j + 1] ELSE rows[k]
    BY <2>1
  <2> QED
    BY <2>3, <2>4
<1>5. PICK o, M : o = [k \in 0 .. p - 1 |-> s[f[k]]] /\ M = {k \in 0 .. p - 1 : f[k] \in X}
  OBVIOUS
<1>6. AreMadeOf(new, rows, p, o, M)
  BY ONLY rows \in Seq(TableRows), p \in Nat, <1>2, <1>3, <1>4, <1>5, RowsLike
<1>7. o = RowsSwapped(s, p, i, j)
  BY <1>1, <1>5 DEF RowsSwapped
<1>8. M = SwapModified(X, i, j)
  <2>1. X \in SUBSET (0 .. p - 1)
    BY <1>3, TableRow
  <2>2. \A k : k \in M <=> k \in 0 .. p - 1
                           /\ (IF k = i THEN j ELSE IF k = j THEN i ELSE k) \in X
    BY <1>1, <1>5
  <2>3. \A k : k \in SwapModified(X, i, j)
                <=> \/ k \in X /\ k # i /\ k # j
                    \/ k = i /\ j \in X
                    \/ k = j /\ i \in X
    BY DEF SwapModified
  <2>4. \A k \in 0 .. p - 1 : k \in M <=> k \in SwapModified(X, i, j)
    BY <2>2, <2>3
  <2> QED
    BY <2>1, <2>2, <2>3, <2>4
<1> QED
  BY <1>3, <1>6, <1>7, <1>8

LEMMA JoinRow ==
  ASSUME NEW rows \in Seq(TableRows), NEW l \in Nat, Len(rows) = l + 1,
         NEW i \in 0 .. l, NEW j \in 0 .. l, i # j, rows[j + 1].start = npos,
         NEW new, new = [rows EXCEPT ![j + 1] = MergedRow(rows[i + 1], rows[j + 1])]
  PROVE  AreMadeOf(new, rows, l + 1, RowsJoined(Starts(rows), l, i, j),
                    ModifiedInto(Touched(rows), i, j))
<1>1. PICK one \in TableRows, other \in TableRows : one = rows[i + 1] /\ other = rows[j + 1]
  BY TableRow
<1>2. PICK r : r = MergedRow(one, other)
  OBVIOUS
<1>3. /\ r \in TableRows /\ r.start = one.start /\ r.base = one.base
      /\ (r.touched <=> one.touched \/ other.touched) /\ (r.dirty <=> one.dirty \/ other.dirty)
  BY <1>2, JoinedRow
<1>4. new = [rows EXCEPT ![j + 1] = r]
  BY <1>1, <1>2
<1>5. PICK s, X : s = Starts(rows) /\ X = Touched(rows)
  OBVIOUS
<1>6. PICK o, M : /\ o = [k \in 0 .. Len(rows) - 1 |-> IF k = j THEN r.start ELSE s[k]]
                  /\ M = (X \ {j}) \cup IF r.touched THEN {j} ELSE {}
  OBVIOUS
<1>7. j \in 0 .. Len(rows) - 1
  OBVIOUS
<1>8. AreReplaced(new, rows, r, Len(rows), o, M)
  BY <1>3, <1>4, <1>5, <1>6, <1>7, RowReplaced
<1>9. /\ s[i] = one.start
      /\ (i \in X <=> one.touched) /\ (j \in X <=> other.touched)
  <2>1. i \in 0 .. Len(rows) - 1
    OBVIOUS
  <2> QED
    BY <1>1, <1>5, <1>7, <2>1, TableRow
<1>10. o = RowsJoined(s, l, i, j)
  BY <1>3, <1>6, <1>9 DEF RowsJoined
<1>11. M = ModifiedInto(X, i, j)
  BY <1>3, <1>6, <1>9 DEF ModifiedInto
<1>12. ASSUME NEW n, NEW b, NEW T, RowsKnown(rows, n, b, T)
       PROVE  RowKnown(r, n, b, T)
  <2>1. RowKnown(one, n, b, T) /\ RowKnown(other, n, b, T)
    BY <1>1, <1>12 DEF RowsKnown
  <2> QED
    BY <1>1, <1>3, <2>1 DEF RowKnown
<1> QED
  BY <1>5, <1>8, <1>10, <1>11, <1>12 DEF AreReplaced, AreMadeOf

LEMMA NoRows ==
  ASSUME NEW rows, NEW new, new = <<>>
  PROVE  AreMadeOf(new, rows, 0, [k \in 0 .. 0 - 1 |-> npos], {})
<1>1. new \in Seq(TableRows) /\ Len(new) = 0
  OBVIOUS
<1>2. 0 .. 0 - 1 = {} /\ 1 .. 0 = {}
  OBVIOUS
<1> QED
  BY <1>1, <1>2 DEF AreMadeOf, AreRows, Starts, Touched, RowsKnown

LEMMA CompleteRow ==
  ASSUME NEW r \in TableRows, NEW k \in 0 .. MaxRows - 1, MaxRows \in Nat,
         NEW s, s = Started(r, k)
  PROVE  s \in TableRows /\ s.start = k /\ s.base = r.base /\ ~s.touched /\ (s.dirty <=> r.dirty)
<1>1. k \in npos .. MaxRows - 1
  BY DEF npos
<1> QED
  BY <1>1 DEF Started, TableRows

\* Where the rows of the next version were, and which were changed.
NextBase(rows, b) == Composed(b, Starts(rows), Len(rows))
NextDirty(rows, T) ==
  {k \in 0 .. Len(rows) - 1 :
    k \in Touched(rows) \/ (Starts(rows)[k] # npos /\ Starts(rows)[k] \in T)}

LEMMA CompleteRows ==
  ASSUME NEW rows \in Seq(TableRows), MaxRows \in Nat, Len(rows) <= MaxRows,
         NEW new, new = [k \in DOMAIN rows |-> Started(rows[k], k - 1)]
  PROVE  /\ AreRows(new, Len(rows), [k \in 0 .. Len(rows) - 1 |-> k], {})
         /\ \A n \in Nat : \A b, T :
              RowsKnown(rows, n, b, T)
                => RowsKnown(new, Len(rows), NextBase(rows, b), NextDirty(rows, T))
<1>1. PICK l \in Nat : l = Len(rows)
  BY TableRow
<1>2. DOMAIN rows = 1 .. l
  BY <1>1, TableRow
<1>3. ASSUME NEW k \in 0 .. l - 1
      PROVE  /\ new[k + 1] \in TableRows /\ new[k + 1].start = k
             /\ new[k + 1].base = rows[k + 1].base /\ ~new[k + 1].touched
             /\ (new[k + 1].dirty <=> rows[k + 1].dirty)
  <2>1. PICK r \in TableRows : r = rows[k + 1]
    BY <1>1, TableRow
  <2>2. k + 1 \in 1 .. l /\ (k + 1) - 1 = k /\ k \in 0 .. MaxRows - 1
    BY <1>1
  <2>3. new[k + 1] = Started(r, k)
    BY <1>2, <2>1, <2>2
  <2>4. PICK s : s = new[k + 1]
    OBVIOUS
  <2>5. s \in TableRows /\ s.start = k /\ s.base = r.base /\ ~s.touched /\ (s.dirty <=> r.dirty)
    BY <2>2, <2>3, <2>4, CompleteRow
  <2> QED
    BY <2>1, <2>4, <2>5
<1>4. new \in [1 .. l -> TableRows]
  <2>1. ASSUME NEW j \in 1 .. l PROVE new[j] \in TableRows
    <3>1. j - 1 \in 0 .. l - 1 /\ (j - 1) + 1 = j
      OBVIOUS
    <3> QED
      BY <1>3, <3>1
  <2>2. DOMAIN new = 1 .. l /\ new = [j \in 1 .. l |-> new[j]]
    BY <1>2
  <2> QED
    BY <2>1, <2>2
<1>5. PICK o : o = [k \in 0 .. l - 1 |-> k]
  OBVIOUS
<1>6. AreRows(new, l, o, {})
  <2>1. \A k \in 0 .. l - 1 : new[k + 1].start = o[k] /\ (k \in {} <=> new[k + 1].touched)
    BY <1>3, <1>5
  <2>2. o = [k \in 0 .. l - 1 |-> o[k]] /\ {} \in SUBSET (0 .. l - 1)
    BY <1>5
  <2> QED
    BY ONLY l \in Nat, <1>4, <2>1, <2>2, AreRowsBy
<1>7. ASSUME NEW n \in Nat, NEW b, NEW T, RowsKnown(rows, n, b, T)
      PROVE  RowsKnown(new, l, NextBase(rows, b), NextDirty(rows, T))
  <2>1. PICK s, X : s = Starts(rows) /\ X = Touched(rows)
    OBVIOUS
  <2>2. PICK a, U : a = NextBase(rows, b) /\ U = NextDirty(rows, T)
    OBVIOUS
  <2>3. \A k \in 0 .. l - 1 : a[k] = IF s[k] = npos THEN npos ELSE b[s[k]]
    BY <1>1, <2>1, <2>2 DEF NextBase, Composed
  <2>4. \A k \in 0 .. l - 1 : k \in U <=> k \in X \/ (s[k] # npos /\ s[k] \in T)
    BY <1>1, <2>1, <2>2 DEF NextDirty
  <2>5. ASSUME NEW k \in 0 .. l - 1 PROVE RowKnown(new[k + 1], l, a, U)
    <3>1. PICK r, m : r = rows[k + 1] /\ m = new[k + 1]
      OBVIOUS
    <3>2. k + 1 \in 1 .. Len(rows)
      BY <1>1
    <3>3. RowKnown(r, n, b, T)
      BY <1>7, <3>1, <3>2 DEF RowsKnown
    <3>4. s[k] = r.start /\ (k \in X <=> r.touched)
      BY <1>1, <2>1, <3>1, TableRow
    <3>5. m.start = k /\ m.base = r.base /\ ~m.touched /\ (m.dirty <=> r.dirty)
      BY <1>3, <3>1
    <3>6. k # npos /\ k \in npos .. l - 1
      BY DEF npos
    <3>7. m.base = a[k]
      BY <2>3, <3>3, <3>4, <3>5 DEF RowKnown
    <3>8. m.dirty <=> k \in U
      BY <2>4, <3>3, <3>4, <3>5 DEF RowKnown
    <3> QED
      BY <3>1, <3>5, <3>6, <3>7, <3>8 DEF RowKnown
  <2>6. \A j \in 1 .. l : j - 1 \in 0 .. l - 1 /\ (j - 1) + 1 = j
    OBVIOUS
  <2>7. \A j \in 1 .. l : RowKnown(new[j], l, a, U)
    BY <2>5, <2>6
  <2>8. Len(new) = l
    BY <1>6 DEF AreRows
  <2> QED
    BY <2>2, <2>7, <2>8 DEF RowsKnown
<1> QED
  BY <1>1, <1>5, <1>6, <1>7

-----------------------------------------------------------------------------
(* The log being read tells what the rows know                             *)

\* The moves are asked for: the table had n rows, or was cleared and is told to
\* have had more.
LogNow(c, rows, n, b, T) ==
  /\ \E N \in Nat : N >= n /\ LogTells(c, Touched(rows), N, Len(rows), Starts(rows))
  /\ RowsKnown(rows, n, b, T)

\* They are not: only the modifications are.
UntoldNow(c, rows) == \E D \in SUBSET Nat : c = Builder(D, {}, Touched(rows), << >>)

Follows(c, rows, n, b, T, t) ==
  IF t THEN LogNow(c, rows, n, b, T) ELSE UntoldNow(c, rows)

LEMMA LogGoesOn ==
  ASSUME NEW rows, NEW n \in Nat, NEW b, NEW T, RowsKnown(rows, n, b, T),
         NEW N \in Nat, N >= n, NEW new, NEW l, NEW o, NEW M, AreMadeOf(new, rows, l, o, M),
         NEW d, LogTells(d, M, N, l, o)
  PROVE  LogNow(d, new, n, b, T)
<1>1. Touched(new) = M /\ Starts(new) = o /\ Len(new) = l
  BY DEF AreMadeOf, AreRows
<1>2. LogTells(d, Touched(new), N, Len(new), Starts(new))
  BY <1>1
<1>3. RowsKnown(new, n, b, T)
  BY DEF AreMadeOf
<1> QED
  BY <1>2, <1>3 DEF LogNow

LEMMA UntoldGoesOn ==
  ASSUME NEW rows, NEW new, NEW l, NEW o, NEW M, AreMadeOf(new, rows, l, o, M),
         NEW D \in SUBSET Nat, NEW d, d = Builder(D, {}, M, << >>)
  PROVE  UntoldNow(d, new)
BY DEF UntoldNow, AreMadeOf, AreRows

LEMMA InsertFollows ==
  ASSUME TableBounds, NEW rows \in Seq(TableRows), NEW n \in Nat, NEW b, NEW T, NEW t \in BOOLEAN,
         NEW c, Follows(c, rows, n, b, T, t), NEW x \in Nat,
         NEW d, d = insert(c, Len(rows), x, t),
         NEW new, new = rows \o [k \in 1 .. x |-> Row(npos, npos)]
  PROVE  Follows(d, new, n, b, T, t)
<1>1. PICK p \in Nat : p = Len(rows)
  BY TableRow
<1>2. PICK M, o : M = Touched(rows) /\ o = Starts(rows)
  OBVIOUS
<1>3. M \in Intervals(p)
  BY <1>1, <1>2, TableRow DEF Intervals
<1>4. AreMadeOf(new, rows, p + x, RowsAdded(o, p, x), M)
  BY <1>1, <1>2, AddRows
<1>5. CASE t = TRUE
  <2>1. LogNow(c, rows, n, b, T)
    BY <1>5 DEF Follows
  <2>2. PICK N \in Nat : N >= n /\ LogTells(c, M, N, p, o)
    BY <1>1, <1>2, <2>1 DEF LogNow
  <2>3. RowsKnown(rows, n, b, T)
    BY <2>1 DEF LogNow
  <2>4. LogTells(d, M, N, p + x, RowsAdded(o, p, x))
    BY <1>1, <1>3, <1>5, <2>2, RowsAddedTells
  <2>5. LogNow(d, new, n, b, T)
    BY <1>4, <2>2, <2>3, <2>4, LogGoesOn
  <2> QED
    BY <1>5, <2>5 DEF Follows
<1>6. CASE t = FALSE
  <2>1. PICK D \in SUBSET Nat : c = Builder(D, {}, M, << >>)
    BY <1>2, <1>6 DEF Follows, UntoldNow
  <2>2. IsInserted(d, D, {}, M, << >>, p, x, t)
    BY <1>1, <2>1, InsertRowsIs
  <2>3. shift_for_insert_at(M, p, x) = M
    BY <1>3, AddedAtEnd
  <2>4. d = Builder(D, {}, M, << >>)
    BY <1>6, <2>2, <2>3 DEF IsInserted
  <2>5. UntoldNow(d, new)
    BY <1>4, <2>4, UntoldGoesOn
  <2> QED
    BY <1>6, <2>5 DEF Follows
<1> QED
  BY <1>5, <1>6

LEMMA ModifyFollows ==
  ASSUME NEW rows \in Seq(TableRows), NEW n \in Nat, NEW b, NEW T, NEW t \in BOOLEAN,
         NEW c, Follows(c, rows, n, b, T, t), NEW i \in 0 .. Len(rows) - 1,
         NEW d, d = modify(c, i), NEW new, new = [rows EXCEPT ![i + 1] = Changed(@)]
  PROVE  Follows(d, new, n, b, T, t)
<1>1. PICK p, M, o : p = Len(rows) /\ M = Touched(rows) /\ o = Starts(rows)
  OBVIOUS
<1>2. AreMadeOf(new, rows, p, o, M \cup {i})
  BY <1>1, ChangeRow
<1>3. CASE t = TRUE
  <2>1. LogNow(c, rows, n, b, T)
    BY <1>3 DEF Follows
  <2>2. PICK N \in Nat : N >= n /\ LogTells(c, M, N, p, o)
    BY <1>1, <2>1 DEF LogNow
  <2>3. RowsKnown(rows, n, b, T)
    BY <2>1 DEF LogNow
  <2>4. LogTells(d, M \cup {i}, N, p, o)
    BY <2>2, ModifyTells
  <2>5. LogNow(d, new, n, b, T)
    BY <1>2, <2>2, <2>3, <2>4, LogGoesOn
  <2> QED
    BY <1>3, <2>5 DEF Follows
<1>4. CASE t = FALSE
  <2>1. PICK D \in SUBSET Nat : c = Builder(D, {}, M, << >>)
    BY <1>1, <1>4 DEF Follows, UntoldNow
  <2>2. d = Builder(D, {}, M \cup {i}, << >>)
    BY <2>1, ModifyIs
  <2>3. UntoldNow(d, new)
    BY <1>2, <2>2, UntoldGoesOn
  <2> QED
    BY <1>4, <2>3 DEF Follows
<1> QED
  BY <1>3, <1>4

LEMMA EraseFollows ==
  ASSUME NEW rows \in Seq(TableRows), NEW n \in Nat, NEW b, NEW T, NEW t \in BOOLEAN,
         NEW c, Follows(c, rows, n, b, T, t), NEW l \in Nat, Len(rows) = l + 1,
         NEW i \in 0 .. l, NEW d, d = move_over(c, i, l, t),
         NEW new, new = WithoutRow(rows, i)
  PROVE  Follows(d, new, n, b, T, t)
<1>1. PICK p, M, o : p = l + 1 /\ M = Touched(rows) /\ o = Starts(rows)
  OBVIOUS
<1>2. AreMadeOf(new, rows, l, RowsMoved(o, i, l), ModifiedOver(M, i, l))
  BY <1>1, LoseRow
<1>3. CASE t = TRUE
  <2>1. LogNow(c, rows, n, b, T)
    BY <1>3 DEF Follows
  <2>2. PICK N \in Nat : N >= n /\ LogTells(c, M, N, l + 1, o)
    BY <1>1, <2>1 DEF LogNow
  <2>3. RowsKnown(rows, n, b, T)
    BY <2>1 DEF LogNow
  <2>4. LogTells(d, ModifiedOver(M, i, l), N, l, RowsMoved(o, i, l))
    BY <1>3, <2>2, MoveOverTells
  <2>5. LogNow(d, new, n, b, T)
    BY <1>2, <2>2, <2>3, <2>4, LogGoesOn
  <2> QED
    BY <1>3, <2>5 DEF Follows
<1>4. CASE t = FALSE
  <2>1. PICK D \in SUBSET Nat : c = Builder(D, {}, M, << >>)
    BY <1>1, <1>4 DEF Follows, UntoldNow
  <2>2. d = Builder(D, {}, ModifiedOver(M, i, l), << >>)
    <3>1. IsBuilt(d, D, {}, ModifiedOver(M, i, l), << >>)
      BY <1>4, <2>1, MoveOverUntold
    <3> QED
      BY <3>1 DEF IsBuilt
  <2>3. UntoldNow(d, new)
    BY <1>2, <2>2, UntoldGoesOn
  <2> QED
    BY <1>4, <2>3 DEF Follows
<1> QED
  BY <1>3, <1>4

LEMMA SwapFollows ==
  ASSUME NEW rows \in Seq(TableRows), NEW n \in Nat, NEW b, NEW T, NEW t \in BOOLEAN,
         NEW c, Follows(c, rows, n, b, T, t), NEW p \in Nat, Len(rows) = p,
         NEW i \in 0 .. p - 1, NEW j \in 0 .. p - 1, i # j, NEW d, d = swap(c, i, j, t),
         NEW new, new = [rows EXCEPT ![i + 1] = rows[j + 1], ![j + 1] = rows[i + 1]]
  PROVE  Follows(d, new, n, b, T, t)
<1>1. PICK M, o : M = Touched(rows) /\ o = Starts(rows)
  OBVIOUS
<1>2. AreMadeOf(new, rows, p, RowsSwapped(o, p, i, j), SwapModified(M, i, j))
  BY <1>1, SwapRows
<1>3. CASE t = TRUE
  <2>1. LogNow(c, rows, n, b, T)
    BY <1>3 DEF Follows
  <2>2. PICK N \in Nat : N >= n /\ LogTells(c, M, N, p, o)
    BY <1>1, <2>1 DEF LogNow
  <2>3. RowsKnown(rows, n, b, T)
    BY <2>1 DEF LogNow
  <2>4. LogTells(d, SwapModified(M, i, j), N, p, RowsSwapped(o, p, i, j))
    BY <1>3, <2>2, SwapTells
  <2>5. LogNow(d, new, n, b, T)
    BY <1>2, <2>2, <2>3, <2>4, LogGoesOn
  <2> QED
    BY <1>3, <2>5 DEF Follows
<1>4. CASE t = FALSE
  <2>1. PICK D \in SUBSET Nat : c = Builder(D, {}, M, << >>)
    BY <1>1, <1>4 DEF Follows, UntoldNow
  <2>2. d = Builder(D, {}, SwapModified(M, i, j), << >>)
    <3>1. IsBuilt(d, D, {}, SwapModified(M, i, j), << >>)
      BY <1>4, <2>1, SwapUntold
    <3> QED
      BY <3>1 DEF IsBuilt
  <2>3. UntoldNow(d, new)
    BY <1>2, <2>2, UntoldGoesOn
  <2> QED
    BY <1>4, <2>3 DEF Follows
<1> QED
  BY <1>3, <1>4

LEMMA ClearFollows ==
  ASSUME NEW rows, NEW n \in Nat, NEW b, NEW T, NEW t \in BOOLEAN,
         NEW N \in Nat, N >= n, NEW d, d = clear_table(N), NEW new, new = <<>>
  PROVE  Follows(d, new, n, b, T, t)
<1>1. PICK o : o = [k \in 0 .. 0 - 1 |-> npos]
  OBVIOUS
<1>2. AreMadeOf(new, new, 0, o, {})
  BY <1>1, NoRows
<1>3. CASE t = TRUE
  <2>1. LogTells(d, {}, N, 0, o)
    BY <1>1, ClearTells
  <2>2. RowsKnown(new, n, b, T)
    <3>1. 1 .. Len(new) = {}
      OBVIOUS
    <3> QED
      BY <3>1 DEF RowsKnown
  <2>3. LogNow(d, new, n, b, T)
    BY <1>2, <2>1, <2>2, LogGoesOn
  <2> QED
    BY <1>3, <2>3 DEF Follows
<1>4. CASE t = FALSE
  <2>1. d = Builder(0 .. N - 1, {}, {}, << >>)
    BY ClearTableIs
  <2>2. 0 .. N - 1 \in SUBSET Nat
    OBVIOUS
  <2>3. UntoldNow(d, new)
    BY <1>2, <2>1, <2>2, UntoldGoesOn
  <2> QED
    BY <1>4, <2>3 DEF Follows
<1> QED
  BY <1>3, <1>4

LEMMA MergeFollows ==
  ASSUME NEW rows \in Seq(TableRows), NEW n \in Nat, NEW b, NEW T, NEW t \in BOOLEAN,
         NEW c, Follows(c, rows, n, b, T, t), NEW l \in Nat, Len(rows) = l + 1,
         NEW i \in 0 .. l, NEW j \in 0 .. l, i # j, rows[j + 1].start = npos,
         NEW d, d = move_over(subsume(c, i, j, t), i, l, t),
         NEW new,
         new = WithoutRow([rows EXCEPT ![j + 1] = MergedRow(rows[i + 1], rows[j + 1])], i)
  PROVE  Follows(d, new, n, b, T, t)
<1>1. PICK M, o : M = Touched(rows) /\ o = Starts(rows)
  OBVIOUS
<1>2. PICK N, q : N = ModifiedInto(M, i, j) /\ q = RowsJoined(o, l, i, j)
  OBVIOUS
<1>3. PICK mid : mid = [rows EXCEPT ![j + 1] = MergedRow(rows[i + 1], rows[j + 1])]
  OBVIOUS
<1>4. AreMadeOf(mid, rows, l + 1, q, N)
  BY <1>1, <1>2, <1>3, JoinRow
<1>5. /\ mid \in Seq(TableRows) /\ Len(mid) = l + 1 /\ Starts(mid) = q /\ Touched(mid) = N
      /\ RowsKnown(rows, n, b, T) => RowsKnown(mid, n, b, T)
  BY <1>4 DEF AreMadeOf, AreRows
<1>6. AreMadeOf(new, mid, l, RowsMoved(q, i, l), ModifiedOver(N, i, l))
  <2>1. new = WithoutRow(mid, i)
    BY <1>3
  <2>2. AreMadeOf(new, mid, l, RowsMoved(Starts(mid), i, l), ModifiedOver(Touched(mid), i, l))
    BY <1>5, <2>1, LoseRow
  <2> QED
    BY <1>5, <2>2
<1>7. PICK e : e = subsume(c, i, j, t)
  OBVIOUS
<1>8. d = move_over(e, i, l, t)
  BY <1>7
<1>9. CASE t = TRUE
  <2>1. LogNow(c, rows, n, b, T)
    BY <1>9 DEF Follows
  <2>2. PICK A \in Nat : A >= n /\ LogTells(c, M, A, l + 1, o)
    BY <1>1, <2>1 DEF LogNow
  <2>3. RowsKnown(mid, n, b, T)
    BY <1>5, <2>1 DEF LogNow
  <2>4. o[j] = npos
    BY <1>1, TableRow
  <2>5. LogTells(d, ModifiedOver(N, i, l), A, l, RowsMoved(q, i, l))
    BY <1>2, <1>7, <1>8, <1>9, <2>2, <2>4, MergeRowsTells
  <2>6. LogNow(d, new, n, b, T)
    BY <1>6, <2>2, <2>3, <2>5, LogGoesOn
  <2> QED
    BY <1>9, <2>6 DEF Follows
<1>10. CASE t = FALSE
  <2>1. PICK D \in SUBSET Nat : c = Builder(D, {}, M, << >>)
    BY <1>1, <1>10 DEF Follows, UntoldNow
  <2>2. IsSubsumed(e, D, {}, M, << >>, i, j, t)
    BY <1>7, <2>1, SubsumeIs
  <2>3. e = Builder(D, {}, N, << >>)
    BY <1>2, <1>10, <2>2 DEF IsSubsumed
  <2>4. IsBuilt(d, D, {}, ModifiedOver(N, i, l), << >>)
    BY <1>8, <1>10, <2>3, MoveOverUntold
  <2>5. d = Builder(D, {}, ModifiedOver(N, i, l), << >>)
    BY <2>4 DEF IsBuilt
  <2>6. UntoldNow(d, new)
    BY <1>6, <2>5, UntoldGoesOn
  <2> QED
    BY <1>10, <2>6 DEF Follows
<1> QED
  BY <1>9, <1>10

\* The log is done: what it tells, and where the next one starts.
LEMMA LogDone ==
  ASSUME NEW rows \in Seq(TableRows), NEW n \in Nat, NEW b, NEW T, NEW c,
         LogNow(c, rows, n, b, T), NEW d, d = parse_complete(c)
  PROVE  d \in Builders
         /\ LogStep(d, n, Len(rows), b, NextBase(rows, b), T, NextDirty(rows, T))
<1>1. PICK p \in Nat : p = Len(rows)
  BY TableRow
<1>2. PICK M, o : M = Touched(rows) /\ o = Starts(rows)
  OBVIOUS
<1>3. PICK N \in Nat : N >= n /\ LogTells(c, M, N, p, o)
  BY <1>1, <1>2 DEF LogNow
<1>4. M \in Intervals(p)
  BY <1>1, <1>2, TableRow DEF Intervals
<1>5. Told(d, N, p, o) /\ d.modifications = M
  BY <1>3, <1>4, CompletedTold
<1>6. d \in Builders /\ o \in Origins(N, p)
  BY <1>5 DEF Told
<1>7. o \in Origins(n, p)
  <2>1. /\ o \in [0 .. p - 1 -> npos .. N - 1]
        /\ \A j, k \in 0 .. p - 1 : o[j] = o[k] /\ j # k => o[j] = npos
    BY <1>6 DEF Origins
  <2>2. ASSUME NEW k \in 0 .. p - 1 PROVE o[k] \in npos .. n - 1
    <3>1. k + 1 \in 1 .. Len(rows) /\ o[k] = rows[k + 1].start
      BY <1>1, <1>2, TableRow
    <3> QED
      BY <3>1 DEF LogNow, RowsKnown, RowKnown
  <2> QED
    BY <2>1, <2>2 DEF Origins
<1>8. PICK a, U : a = NextBase(rows, b) /\ U = NextDirty(rows, T)
  OBVIOUS
<1>9. a = Composed(b, o, p)
  BY <1>1, <1>2, <1>8 DEF NextBase
<1>10. \A k \in 0 .. p - 1 : k \in U <=> k \in d.modifications \/ (o[k] # npos /\ o[k] \in T)
  BY <1>1, <1>2, <1>5, <1>8 DEF NextDirty
<1>11. d.modifications \in Intervals(p)
  BY <1>4, <1>5
<1>12. LogStep(d, n, p, b, a, T, U)
  BY ONLY <1>3, <1>5, <1>7, <1>9, <1>10, <1>11 DEF LogStep
<1> QED
  BY <1>1, <1>6, <1>8, <1>12

LEMMA UntoldDone ==
  ASSUME NEW rows \in Seq(TableRows), NEW c, UntoldNow(c, rows), NEW d, d = parse_complete(c)
  PROVE  d \in Builders
<1>1. PICK D \in SUBSET Nat : c = Builder(D, {}, Touched(rows), << >>)
  BY DEF UntoldNow
<1>2. PICK M, I, o : M = Touched(rows) /\ I = {} /\ o = Starts(rows)
  OBVIOUS
<1>3. PICK map : map = LogMapping(I, o)
  OBVIOUS
<1>4. map = << >>
  BY <1>2, <1>3 DEF LogMapping, Moving
<1>5. c = Builder(D, I, M, map)
  BY <1>1, <1>2, <1>4
<1>6. I \in SUBSET Nat
  BY <1>2
<1>7. IsCompleted(d, D, I, M, o)
  BY <1>3, <1>5, <1>6, CompletedIs
<1>8. RowMoves(I, o) = {}
  BY <1>2 DEF RowMoves, MovedRows
<1>9. Sorted({}) \in Seq(Moves)
  <2>1. PICK N, z : N = {} /\ z = 0
    OBVIOUS
  <2>2. /\ N \in SUBSET Moves /\ \A m \in N : m.from < z
        /\ \A x, y \in N : x.from = y.from => x = y
    BY <2>1
  <2>3. Sorted(N) \in Seq(Moves)
    BY <2>1, <2>2, SortedSet
  <2> QED
    BY <2>1, <2>3
<1>10. PICK s, X, Y : s = Sorted({}) /\ X = D \ StaleRows(I, o) /\ Y = I \ StaleRows(I, o)
  OBVIOUS
<1>11. d = [deletions |-> X, insertions |-> Y, modifications |-> M, moves |-> s,
            mapping |-> << >>]
  BY <1>7, <1>8, <1>10 DEF IsCompleted
<1>12. X \in SUBSET Nat /\ Y \in SUBSET Nat /\ M \in SUBSET Nat /\ s \in Seq(Moves)
  <2>1. M \in SUBSET Nat
    BY <1>2, TableRow
  <2> QED
    BY <1>6, <1>9, <1>10, <2>1
<1> QED
  BY <1>11, <1>12 DEF Builders

LEMMA NextLog ==
  ASSUME NEW p \in Nat, NEW new, NEW o, o = [k \in 0 .. p - 1 |-> k], AreRows(new, p, o, {}),
         NEW b, NEW T, NEW t \in BOOLEAN, t => RowsKnown(new, p, b, T)
  PROVE  Follows(NoChanges, new, p, b, T, t)
<1>1. Touched(new) = {} /\ Starts(new) = o /\ Len(new) = p
  BY DEF AreRows
<1>2. CASE t = TRUE
  <2>1. LogTells(NoChanges, {}, p, p, o)
    BY NothingTells
  <2>2. LogTells(NoChanges, Touched(new), p, Len(new), Starts(new))
    BY <1>1, <2>1
  <2>3. LogNow(NoChanges, new, p, b, T)
    BY <1>2, <2>2 DEF LogNow
  <2> QED
    BY <1>2, <2>3 DEF Follows
<1>3. CASE t = FALSE
  <2>1. NoChanges = Builder({}, {}, {}, << >>)
    BY DEF NoChanges, Builder
  <2> QED
    BY <1>1, <1>3, <2>1 DEF Follows, UntoldNow
<1> QED
  BY <1>2, <1>3

-----------------------------------------------------------------------------
(* The invariant: the log being read follows the rows, and the logs before *)
(* it led from the oldest version to where it started.                     *)

TableTypes ==
  /\ table \in Seq(TableRows) /\ Len(table) <= MaxRows
  /\ first_size \in 0 .. MaxRows /\ start_size \in 0 .. MaxRows
  /\ moves_needed \in BOOLEAN /\ table_ops \in 0 .. MaxTableOps
  /\ infos \in Seq(Builders) /\ (moves_needed \/ Len(infos) <= 1)

TableFollowed ==
  \E b, T : /\ Follows(changes, table, start_size, b, T, moves_needed)
            /\ moves_needed => Recorded(infos, first_size, start_size, b, T)

TableIInv == TableTypes /\ TableFollowed

LEMMA TableInitTold ==
  ASSUME TableBounds, TableInit
  PROVE  TableIInv
<1>1. PICK n \in Nat : n = first_size /\ n <= MaxRows
  BY TableBounds DEF TableInit
<1>2. PICK o : o = [k \in 0 .. n - 1 |-> k]
  OBVIOUS
<1>3. /\ table = [k \in 1 .. n |-> Row(k - 1, k - 1)] /\ start_size = n
      /\ changes = NoChanges /\ infos = <<>> /\ moves_needed \in BOOLEAN /\ table_ops = 0
  BY <1>1 DEF TableInit
<1>4. ASSUME NEW k \in 0 .. n - 1
      PROVE  /\ table[k + 1] \in TableRows /\ table[k + 1].start = k
             /\ table[k + 1].base = k /\ ~table[k + 1].touched /\ ~table[k + 1].dirty
  <2>1. k + 1 \in 1 .. n /\ (k + 1) - 1 = k
    OBVIOUS
  <2>2. table[k + 1] = Row(k, k)
    BY <1>3, <2>1
  <2>3. k \in npos .. MaxRows - 1
    BY <1>1, TableBounds DEF npos
  <2> QED
    BY <2>2, <2>3 DEF Row, TableRows
<1>5. table \in [1 .. n -> TableRows]
  <2>1. \A k \in 1 .. n : table[k] \in TableRows
    <3>1. TAKE k \in 1 .. n
    <3>2. k - 1 \in 0 .. n - 1 /\ (k - 1) + 1 = k
      OBVIOUS
    <3> QED
      BY <1>4, <3>2
  <2> QED
    BY <1>3, <2>1
<1>6. AreRows(table, n, o, {})
  <2>1. \A k \in 0 .. n - 1 : table[k + 1].start = o[k] /\ (k \in {} <=> table[k + 1].touched)
    BY <1>2, <1>4
  <2>2. o = [k \in 0 .. n - 1 |-> o[k]]
    BY <1>2
  <2> QED
    BY <1>5, <2>1, <2>2, AreRowsBy
<1>7. table \in Seq(TableRows) /\ Len(table) = n
  BY <1>6 DEF AreRows
<1>8. RowsKnown(table, n, o, {})
  <2>1. SUFFICES ASSUME NEW k \in 1 .. n PROVE RowKnown(table[k], n, o, {})
    BY <1>7 DEF RowsKnown
  <2>2. k - 1 \in 0 .. n - 1 /\ (k - 1) + 1 = k
    OBVIOUS
  <2>3. /\ table[k].start = k - 1 /\ table[k].base = k - 1
        /\ ~table[k].touched /\ ~table[k].dirty
    BY <1>4, <2>2
  <2>4. k - 1 \in npos .. n - 1 /\ k - 1 # npos /\ o[k - 1] = k - 1
    BY <1>2, <2>2 DEF npos
  <2> QED
    BY <2>3, <2>4 DEF RowKnown
<1>9. Follows(NoChanges, table, n, o, {}, moves_needed)
  BY <1>2, <1>3, <1>6, <1>8, NextLog
<1>10. Recorded(<<>>, n, n, o, {})
  BY <1>2, NothingRecorded
<1>11. TableFollowed
  BY <1>1, <1>3, <1>9, <1>10 DEF TableFollowed
<1>12. TableTypes
  <2>1. infos \in Seq(Builders) /\ Len(infos) = 0
    BY <1>3
  <2> QED
    BY <1>1, <1>3, <1>7, <2>1, TableBounds DEF TableTypes
<1> QED
  BY <1>11, <1>12 DEF TableIInv

\* An operation goes on with the log, when its changes follow its rows.
LEMMA StepTold ==
  ASSUME TableBounds, TableIInv, NEW d, NEW new, TableStep(d, new),
         new \in Seq(TableRows), Len(new) <= MaxRows,
         \A b, T : Follows(changes, table, start_size, b, T, moves_needed)
                     => Follows(d, new, start_size, b, T, moves_needed)
  PROVE  TableIInv'
<1>1. /\ table_ops < MaxTableOps /\ table_ops' = table_ops + 1
      /\ changes' = d /\ table' = new
      /\ UNCHANGED <<first_size, start_size, infos, moves_needed>>
  BY DEF TableStep
<1>2. PICK b, T : /\ Follows(changes, table, start_size, b, T, moves_needed)
                  /\ moves_needed => Recorded(infos, first_size, start_size, b, T)
  BY DEF TableIInv, TableFollowed
<1>3. Follows(d, new, start_size, b, T, moves_needed)
  BY <1>2
<1>4. \E e, U : /\ Follows(d, new, start_size, e, U, moves_needed)
                /\ moves_needed => Recorded(infos, first_size, start_size, e, U)
  BY <1>2, <1>3
<1>5. TableFollowed'
  BY <1>1, <1>4 DEF TableFollowed
<1>6. TableTypes'
  BY <1>1, TableBounds DEF TableIInv, TableTypes
<1> QED
  BY <1>5, <1>6 DEF TableIInv

LEMMA InsertGoesOn ==
  ASSUME TableBounds, TableIInv, NEW x \in Nat, insert_empty_rows(x)
  PROVE  TableIInv'
<1>1. PICK d : d = insert(changes, Len(table), x, moves_needed)
  OBVIOUS
<1>2. PICK new : new = table \o [k \in 1 .. x |-> Row(npos, npos)]
  OBVIOUS
<1>3. TableStep(d, new) /\ Len(table) + x <= MaxRows
  BY <1>1, <1>2 DEF insert_empty_rows
<1>4. /\ table \in Seq(TableRows) /\ moves_needed \in BOOLEAN /\ start_size \in Nat
  BY DEF TableIInv, TableTypes
<1>5. new \in Seq(TableRows) /\ Len(new) = Len(table) + x
  BY <1>2, <1>4, AddRows DEF AreMadeOf, AreRows
<1>6. \A b, T : Follows(changes, table, start_size, b, T, moves_needed)
                  => Follows(d, new, start_size, b, T, moves_needed)
  <2>1. SUFFICES ASSUME NEW b, NEW T, Follows(changes, table, start_size, b, T, moves_needed)
                 PROVE  Follows(d, new, start_size, b, T, moves_needed)
    OBVIOUS
  <2> QED
    BY <1>1, <1>2, <1>4, <2>1, InsertFollows
<1> QED
  BY <1>3, <1>5, <1>6, StepTold

LEMMA MarkGoesOn ==
  ASSUME TableBounds, TableIInv, NEW i \in RowIndices, mark_dirty(i)
  PROVE  TableIInv'
<1>1. PICK d : d = modify(changes, i)
  OBVIOUS
<1>2. PICK new : new = [table EXCEPT ![i + 1] = Changed(@)]
  OBVIOUS
<1>3. TableStep(d, new)
  BY <1>1, <1>2 DEF mark_dirty
<1>4. /\ table \in Seq(TableRows) /\ moves_needed \in BOOLEAN /\ start_size \in Nat
      /\ Len(table) <= MaxRows
  BY DEF TableIInv, TableTypes
<1>5. i \in 0 .. Len(table) - 1
  BY DEF RowIndices
<1>6. new \in Seq(TableRows) /\ Len(new) = Len(table)
  BY <1>2, <1>4, <1>5, ChangeRow DEF AreMadeOf, AreRows
<1>7. \A b, T : Follows(changes, table, start_size, b, T, moves_needed)
                  => Follows(d, new, start_size, b, T, moves_needed)
  <2>1. SUFFICES ASSUME NEW b, NEW T, Follows(changes, table, start_size, b, T, moves_needed)
                 PROVE  Follows(d, new, start_size, b, T, moves_needed)
    OBVIOUS
  <2> QED
    BY <1>1, <1>2, <1>4, <1>5, <2>1, ModifyFollows
<1> QED
  BY <1>3, <1>4, <1>6, <1>7, StepTold

LEMMA EraseGoesOn ==
  ASSUME TableBounds, TableIInv, NEW i \in RowIndices, erase_rows(i)
  PROVE  TableIInv'
<1>1. /\ table \in Seq(TableRows) /\ moves_needed \in BOOLEAN /\ start_size \in Nat
      /\ Len(table) <= MaxRows
  BY DEF TableIInv, TableTypes
<1>2. PICK l \in Nat : l = LastRow /\ Len(table) = l + 1 /\ i \in 0 .. l
  <2>1. PICK m \in Nat : m = Len(table)
    BY <1>1, TableRow
  <2>2. m - 1 \in Nat
    BY <2>1 DEF RowIndices
  <2> QED
    BY <2>1, <2>2 DEF RowIndices, LastRow
<1>3. PICK d : d = move_over(changes, i, l, moves_needed)
  OBVIOUS
<1>4. PICK new : new = WithoutRow(table, i)
  OBVIOUS
<1>5. TableStep(d, new)
  BY <1>2, <1>3, <1>4 DEF erase_rows
<1>6. new \in Seq(TableRows) /\ Len(new) = l
  BY <1>1, <1>2, <1>4, LoseRow DEF AreMadeOf, AreRows
<1>7. \A b, T : Follows(changes, table, start_size, b, T, moves_needed)
                  => Follows(d, new, start_size, b, T, moves_needed)
  <2>1. SUFFICES ASSUME NEW b, NEW T, Follows(changes, table, start_size, b, T, moves_needed)
                 PROVE  Follows(d, new, start_size, b, T, moves_needed)
    OBVIOUS
  <2> QED
    BY <1>1, <1>2, <1>3, <1>4, <2>1, EraseFollows
<1>8. Len(new) <= MaxRows
  BY <1>1, <1>2, <1>6, TableBounds
<1> QED
  BY <1>5, <1>6, <1>7, <1>8, StepTold

LEMMA SwapGoesOn ==
  ASSUME TableBounds, TableIInv, NEW i \in RowIndices, NEW j \in RowIndices, i # j,
         swap_rows(i, j)
  PROVE  TableIInv'
<1>1. /\ table \in Seq(TableRows) /\ moves_needed \in BOOLEAN /\ start_size \in Nat
      /\ Len(table) <= MaxRows
  BY DEF TableIInv, TableTypes
<1>2. PICK p \in Nat : p = Len(table) /\ i \in 0 .. p - 1 /\ j \in 0 .. p - 1
  BY <1>1, TableRow DEF RowIndices
<1>3. PICK d : d = swap(changes, i, j, moves_needed)
  OBVIOUS
<1>4. PICK new : new = [table EXCEPT ![i + 1] = table[j + 1], ![j + 1] = table[i + 1]]
  OBVIOUS
<1>5. TableStep(d, new)
  BY <1>3, <1>4 DEF swap_rows
<1>6. new \in Seq(TableRows) /\ Len(new) = p
  BY <1>1, <1>2, <1>4, SwapRows DEF AreMadeOf, AreRows
<1>7. \A b, T : Follows(changes, table, start_size, b, T, moves_needed)
                  => Follows(d, new, start_size, b, T, moves_needed)
  <2>1. SUFFICES ASSUME NEW b, NEW T, Follows(changes, table, start_size, b, T, moves_needed)
                 PROVE  Follows(d, new, start_size, b, T, moves_needed)
    OBVIOUS
  <2> QED
    BY <1>1, <1>2, <1>3, <1>4, <2>1, SwapFollows
<1>8. Len(new) <= MaxRows
  BY <1>1, <1>2, <1>6
<1> QED
  BY <1>5, <1>6, <1>7, <1>8, StepTold

LEMMA MergeGoesOn ==
  ASSUME TableBounds, TableIInv, NEW i \in RowIndices, NEW j \in RowIndices, i # j,
         merge_rows(i, j)
  PROVE  TableIInv'
<1>1. /\ table \in Seq(TableRows) /\ moves_needed \in BOOLEAN /\ start_size \in Nat
      /\ Len(table) <= MaxRows
  BY DEF TableIInv, TableTypes
<1>2. PICK l \in Nat : l = LastRow /\ Len(table) = l + 1 /\ i \in 0 .. l /\ j \in 0 .. l
  <2>1. PICK m \in Nat : m = Len(table)
    BY <1>1, TableRow
  <2>2. m - 1 \in Nat
    BY <2>1 DEF RowIndices
  <2> QED
    BY <2>1, <2>2 DEF RowIndices, LastRow
<1>3. PICK d : d = move_over(subsume(changes, i, j, moves_needed), i, l, moves_needed)
  OBVIOUS
<1>4. PICK mid : mid = [table EXCEPT ![j + 1] = MergedRow(table[i + 1], table[j + 1])]
  OBVIOUS
<1>5. PICK new : new = WithoutRow(mid, i)
  OBVIOUS
<1>6. TableStep(d, new) /\ table[j + 1].start = npos
  BY <1>2, <1>3, <1>4, <1>5 DEF merge_rows
<1>7. mid \in Seq(TableRows) /\ Len(mid) = l + 1
  <2>1. AreMadeOf(mid, table, l + 1, RowsJoined(Starts(table), l, i, j),
                  ModifiedInto(Touched(table), i, j))
    BY <1>1, <1>2, <1>4, <1>6, JoinRow
  <2> QED
    BY <2>1 DEF AreMadeOf, AreRows
<1>8. new \in Seq(TableRows) /\ Len(new) = l
  BY <1>2, <1>5, <1>7, LoseRow DEF AreMadeOf, AreRows
<1>9. \A b, T : Follows(changes, table, start_size, b, T, moves_needed)
                  => Follows(d, new, start_size, b, T, moves_needed)
  <2>1. SUFFICES ASSUME NEW b, NEW T, Follows(changes, table, start_size, b, T, moves_needed)
                 PROVE  Follows(d, new, start_size, b, T, moves_needed)
    OBVIOUS
  <2>2. new = WithoutRow([table EXCEPT ![j + 1] = MergedRow(table[i + 1], table[j + 1])], i)
    BY <1>4, <1>5
  <2> QED
    BY <1>1, <1>2, <1>3, <1>6, <2>2, <2>1, MergeFollows
<1>10. Len(new) <= MaxRows
  BY <1>1, <1>2, <1>8, TableBounds
<1> QED
  BY <1>6, <1>8, <1>9, <1>10, StepTold

LEMMA ClearGoesOn ==
  ASSUME TableBounds, TableIInv, ClearTable
  PROVE  TableIInv'
<1>1. PICK d : d = clear_table(SizeMax)
  OBVIOUS
<1>2. PICK new : new = <<>>
  OBVIOUS
<1>3. TableStep(d, new)
  BY <1>1, <1>2 DEF ClearTable
<1>4. moves_needed \in BOOLEAN /\ start_size \in Nat /\ SizeMax \in Nat /\ SizeMax >= start_size
  BY TableBounds DEF TableIInv, TableTypes
<1>5. new \in Seq(TableRows) /\ Len(new) <= MaxRows
  BY <1>2, TableBounds
<1>6. \A b, T : Follows(d, new, start_size, b, T, moves_needed)
  BY <1>1, <1>2, <1>4, ClearFollows
<1> QED
  BY <1>3, <1>5, <1>6, StepTold

\* The next log goes on from where this one led.
LEMMA CompleteGoesOn ==
  ASSUME TableBounds, TableIInv, parse_complete_table
  PROVE  TableIInv'
<1>1. PICK d : d = parse_complete(changes)
  OBVIOUS
<1>2. PICK new : new = [k \in DOMAIN table |-> Started(table[k], k - 1)]
  OBVIOUS
<1>3. /\ moves_needed \/ infos = <<>>
      /\ infos' = Append(infos, d) /\ changes' = NoChanges /\ start_size' = Len(table)
      /\ table' = new /\ UNCHANGED <<first_size, moves_needed, table_ops>>
  BY <1>1, <1>2 DEF parse_complete_table
<1>4. /\ table \in Seq(TableRows) /\ Len(table) <= MaxRows
      /\ first_size \in 0 .. MaxRows /\ start_size \in 0 .. MaxRows
      /\ moves_needed \in BOOLEAN /\ table_ops \in 0 .. MaxTableOps /\ infos \in Seq(Builders)
  BY DEF TableIInv, TableTypes
<1>5. PICK n \in Nat, m \in Nat : n = first_size /\ m = start_size
  BY <1>4
<1>6. PICK p \in Nat : p = Len(table)
  BY <1>4
<1>7. PICK o : o = [k \in 0 .. p - 1 |-> k]
  OBVIOUS
<1>8. MaxRows \in Nat
  BY TableBounds
<1>9. /\ AreRows(new, p, o, {})
      /\ \A e, U : RowsKnown(table, m, e, U)
                     => RowsKnown(new, p, NextBase(table, e), NextDirty(table, U))
  BY <1>2, <1>4, <1>6, <1>7, <1>8, CompleteRows
<1>10. new \in Seq(TableRows) /\ Len(new) = p
  BY <1>9 DEF AreRows
<1>11. PICK b, T : /\ Follows(changes, table, m, b, T, moves_needed)
                   /\ moves_needed => Recorded(infos, n, m, b, T)
  BY <1>5 DEF TableIInv, TableFollowed
<1>12. d \in Builders /\ \E e, U : /\ Follows(NoChanges, new, p, e, U, moves_needed)
                                   /\ moves_needed => Recorded(Append(infos, d), n, p, e, U)
  <2>1. CASE moves_needed = TRUE
    <3>1. LogNow(changes, table, m, b, T)
      BY <1>11, <2>1 DEF Follows
    <3>2. PICK e, U : e = NextBase(table, b) /\ U = NextDirty(table, T)
      OBVIOUS
    <3>3. d \in Builders /\ LogStep(d, m, p, b, e, T, U)
      BY <1>1, <1>4, <1>6, <3>1, <3>2, LogDone
    <3>4. Recorded(infos, n, m, b, T)
      BY <1>11, <2>1
    <3>5. Recorded(Append(infos, d), n, p, e, U)
      BY <1>4, <3>3, <3>4, LogRecorded
    <3>6. RowsKnown(table, m, b, T)
      BY <3>1 DEF LogNow
    <3>7. RowsKnown(new, p, e, U)
      BY <1>9, <3>2, <3>6
    <3>8. Follows(NoChanges, new, p, e, U, moves_needed)
      BY <1>4, <1>7, <1>9, <3>7, NextLog
    <3> QED
      BY <3>3, <3>5, <3>8
  <2>2. CASE moves_needed = FALSE
    <3>1. UntoldNow(changes, table)
      BY <1>11, <2>2 DEF Follows
    <3>2. d \in Builders
      BY <1>1, <1>4, <3>1, UntoldDone
    <3>3. Follows(NoChanges, new, p, b, T, moves_needed)
      BY <1>4, <1>7, <1>9, <2>2, NextLog
    <3> QED
      BY <2>2, <3>2, <3>3
  <2> QED
    BY <1>4, <2>1, <2>2
<1>13. TableFollowed'
  BY <1>3, <1>5, <1>6, <1>12 DEF TableFollowed
<1>14. Append(infos, d) \in Seq(Builders) /\ (moves_needed \/ Len(Append(infos, d)) <= 1)
  <2>1. Append(infos, d) \in Seq(Builders)
    BY <1>4, <1>12
  <2>2. ASSUME infos = <<>> PROVE Len(Append(infos, d)) = 1
    BY <2>2
  <2> QED
    BY <1>3, <2>1, <2>2
<1>15. TableTypes'
  BY <1>3, <1>4, <1>6, <1>10, <1>14 DEF TableTypes
<1> QED
  BY <1>13, <1>15 DEF TableIInv

LEMMA TableNextTold ==
  ASSUME TableBounds, TableIInv, [TableNext]_tableVars
  PROVE  TableIInv'
<1>1. ASSUME NEW n \in 1 .. 2, insert_empty_rows(n) PROVE TableIInv'
  BY <1>1, InsertGoesOn
<1>2. ASSUME NEW i \in RowIndices, mark_dirty(i) PROVE TableIInv'
  BY <1>2, MarkGoesOn
<1>3. ASSUME NEW i \in RowIndices, erase_rows(i) PROVE TableIInv'
  BY <1>3, EraseGoesOn
<1>4. ASSUME NEW i \in RowIndices, NEW j \in RowIndices, i < j, swap_rows(i, j)
      PROVE  TableIInv'
  <2>1. i # j
    BY <1>4 DEF RowIndices
  <2> QED
    BY <1>4, <2>1, SwapGoesOn
<1>5. ASSUME NEW i \in RowIndices, NEW j \in RowIndices, i # j, merge_rows(i, j)
      PROVE  TableIInv'
  BY <1>5, MergeGoesOn
<1>6. CASE ClearTable
  BY <1>6, ClearGoesOn
<1>7. CASE parse_complete_table
  BY <1>7, CompleteGoesOn
<1>8. CASE UNCHANGED tableVars
  BY <1>8 DEF tableVars, TableIInv, TableTypes, TableFollowed
<1> QED
  BY <1>1, <1>2, <1>3, <1>4, <1>5, <1>6, <1>7, <1>8 DEF TableNext

\* In every state the log being read tells what became of the rows since its
\* start, and the logs before it lead from the oldest version to that start:
\* the invariant from which what the notifiers are told follows.
THEOREM TableInvariant == TableSpec => []TableIInv
<1>1. TableInit => TableIInv
  BY TableBounds, TableInitTold
<1>2. TableIInv /\ [TableNext]_tableVars => TableIInv'
  BY TableBounds, TableNextTold
<1> QED
  BY <1>1, <1>2, PTL DEF TableSpec

-----------------------------------------------------------------------------
(* What the invariant says of the changes                                  *)

LEMMA TellingLog ==
  ASSUME NEW N \in Nat, NEW p \in Nat, NEW M \in SUBSET (0 .. p - 1), NEW o, NEW c,
         LogTells(c, M, N, p, o)
  PROVE  /\ c.insertions \cup c.modifications \cup DOMAIN c.mapping \subseteq 0 .. p - 1
         /\ c.moves = <<>> /\ c.modifications = M
         /\ IsInjective(c.mapping) /\ DOMAIN c.mapping \subseteq c.insertions
         /\ Range(c.mapping) \subseteq c.deletions
<1>1. PICK D, I : c = Builder(D, I, M, LogMapping(I, o)) /\ InLog(D, I, N, p, o)
  BY DEF LogTells
<1>2. PICK map : map = LogMapping(I, o)
  OBVIOUS
<1>3. /\ c.deletions = D /\ c.insertions = I /\ c.modifications = M /\ c.moves = <<>>
      /\ c.mapping = map
  BY <1>1, <1>2 DEF Builder
<1>4. /\ I \in SUBSET (0 .. p - 1)
      /\ \A j, k \in 0 .. p - 1 : o[j] = o[k] /\ j # k => o[j] = npos
      /\ \A k \in I : o[k] # npos => o[k] \in D
  BY <1>1 DEF InLog, InPlace, Intervals, Origins
<1>5. DOMAIN map = Moving(I, o) /\ \A k \in Moving(I, o) : map[k] = o[k]
  BY <1>2 DEF LogMapping
<1>6. Moving(I, o) \subseteq I /\ \A k \in Moving(I, o) : o[k] # npos
  BY DEF Moving
<1>7. IsInjective(map)
  BY <1>4, <1>5, <1>6 DEF IsInjective
<1>8. Range(map) \subseteq D
  <2>1. \A k \in DOMAIN map : map[k] \in D
    BY <1>4, <1>5, <1>6
  <2> QED
    BY ONLY <2>1 DEF Range
<1> QED
  BY <1>3, <1>4, <1>5, <1>6, <1>7, <1>8

LEMMA UntoldLog ==
  ASSUME NEW rows \in Seq(TableRows), NEW c, UntoldNow(c, rows)
  PROVE  /\ c.insertions \cup c.modifications \cup DOMAIN c.mapping \subseteq 0 .. Len(rows) - 1
         /\ c.moves = <<>> /\ c.modifications = Touched(rows)
         /\ IsInjective(c.mapping) /\ DOMAIN c.mapping \subseteq c.insertions
         /\ Range(c.mapping) \subseteq c.deletions
<1>1. PICK D \in SUBSET Nat : c = Builder(D, {}, Touched(rows), << >>)
  BY DEF UntoldNow
<1>2. /\ c.deletions = D /\ c.insertions = {} /\ c.modifications = Touched(rows)
      /\ c.moves = <<>> /\ c.mapping = << >>
  BY <1>1 DEF Builder
<1>3. DOMAIN << >> = {}
  OBVIOUS
<1>4. IsInjective(<< >>) /\ Range(<< >>) = {}
  BY <1>3 DEF IsInjective, Range
<1>5. Touched(rows) \in SUBSET (0 .. Len(rows) - 1)
  BY TableRow
<1> QED
  BY <1>2, <1>3, <1>4, <1>5

LEMMA NoLogYet ==
  ASSUME NEW N \in Nat, NEW p \in Nat, NEW M, NEW o, LogTells(NoChanges, M, N, p, o)
  PROVE  N = p /\ \A k \in 0 .. p - 1 : o[k] = k
<1>1. PICK D, I : NoChanges = Builder(D, I, M, LogMapping(I, o)) /\ InLog(D, I, N, p, o)
  BY DEF LogTells
<1>2. D = {} /\ I = {}
  BY <1>1 DEF NoChanges, Builder
<1>3. InPlace({}, {}, N, p) /\ \A k \in 0 .. p - 1 : o[k] = k
  BY <1>1, <1>2 DEF InLog
<1>4. (\A x \in 0 .. N - 1 : ~(x >= p)) /\ (\A x \in 0 .. p - 1 : x < N)
  BY <1>3 DEF InPlace
<1>5. N <= p /\ p <= N
  <2>1. N = 0 \/ N - 1 \in 0 .. N - 1
    OBVIOUS
  <2>2. p = 0 \/ p - 1 \in 0 .. p - 1
    OBVIOUS
  <2> QED
    BY <1>4, <2>1, <2>2
<1> QED
  BY <1>3, <1>5

\* When no log is being read, what the rows know of their bases is what the
\* logs tell.
LEMMA RowsAtVersion ==
  ASSUME TableBounds, TableIInv, moves_needed, changes = NoChanges
  PROVE  \E b, T : /\ Recorded(infos, first_size, Len(table), b, T)
                   /\ \A k \in RowIndices : /\ FirstIndex(k) = b[k]
                                            /\ table[k + 1].dirty <=> k \in T
<1>1. PICK p \in Nat, m \in Nat : p = Len(table) /\ m = start_size
  BY DEF TableIInv, TableTypes
<1>2. table \in Seq(TableRows)
  BY DEF TableIInv, TableTypes
<1>3. PICK b, T : LogNow(NoChanges, table, m, b, T) /\ Recorded(infos, first_size, m, b, T)
  BY <1>1 DEF TableIInv, TableFollowed, Follows
<1>4. PICK N \in Nat : N >= m /\ LogTells(NoChanges, Touched(table), N, p, Starts(table))
  BY <1>1, <1>3 DEF LogNow
<1>5. N = p /\ \A k \in 0 .. p - 1 : Starts(table)[k] = k
  BY <1>4, NoLogYet
<1>6. ASSUME NEW k \in 0 .. p - 1
      PROVE  k < m /\ FirstIndex(k) = b[k] /\ (table[k + 1].dirty <=> k \in T)
  <2>1. k + 1 \in 1 .. Len(table)
    BY <1>1
  <2>2. RowKnown(table[k + 1], m, b, T)
    BY <1>3, <2>1 DEF LogNow, RowsKnown
  <2>3. table[k + 1].start = k
    BY <1>1, <1>2, <1>5, TableRow
  <2>4. k # npos
    BY DEF npos
  <2>5. k < m
    BY <2>2, <2>3 DEF RowKnown, npos
  <2>6. ~table[k + 1].touched
    <3>1. k \notin Touched(table)
      <4>1. PICK D, I : /\ NoChanges = Builder(D, I, Touched(table), LogMapping(I, Starts(table)))
                        /\ InLog(D, I, N, p, Starts(table))
        BY <1>4 DEF LogTells
      <4>2. Touched(table) = {}
        BY <4>1 DEF NoChanges, Builder
      <4> QED
        BY <4>2
    <3> QED
      BY <1>1, <1>2, <3>1, TableRow
  <2> QED
    BY <2>2, <2>3, <2>4, <2>5, <2>6 DEF RowKnown, FirstIndex
<1>7. m = p
  <2>1. p = 0 \/ p - 1 \in 0 .. p - 1
    OBVIOUS
  <2> QED
    BY <1>4, <1>5, <1>6, <2>1
<1>8. \A k \in RowIndices : FirstIndex(k) = b[k] /\ (table[k + 1].dirty <=> k \in T)
  BY <1>1, <1>6 DEF RowIndices
<1> QED
  BY <1>1, <1>3, <1>7, <1>8

LEMMA ToldTable ==
  ASSUME NEW N \in Nat, N >= first_size, first_size \in Nat, NEW p \in Nat, p = Len(table),
         NEW o \in Origins(first_size, p), NEW v, Told(v, N, p, o),
         \A k \in RowIndices : FirstIndex(k) = o[k]
  PROVE  TellsTable(v)
<1>1. PICK n \in Nat : n = first_size
  OBVIOUS
<1>2. PICK D, I : D = v.deletions /\ I = v.insertions
  OBVIOUS
<1>3. RowIndices = 0 .. p - 1
  BY DEF RowIndices
<1>4. PICK E : E = D \cap 0 .. n - 1
  OBVIOUS
<1>5. Kept(D, I, N, p, o) /\ MovesTold(v, o)
  BY <1>2 DEF Told
<1>6. /\ D \in SUBSET (0 .. N - 1) /\ I \in SUBSET (0 .. p - 1)
      /\ \A k \in (0 .. p - 1) \ I : o[k] \in (0 .. N - 1) \ D /\ unshift(D, o[k]) = unshift(I, k)
  BY <1>5 DEF Kept, Intervals
<1>7. \A k \in 0 .. p - 1 : o[k] \in npos .. n - 1
  BY <1>1 DEF Origins
<1>8. \A k \in 0 .. p - 1 : FirstIndex(k) = o[k]
  BY <1>3
<1>9. ASSUME NEW i \in 0 .. n - 1, \A k \in 0 .. p - 1 : o[k] # i
      PROVE  i \in E
  <2>1. SUFFICES ASSUME i \notin D PROVE FALSE
    BY <1>4
  <2>2. i \in (0 .. N - 1) \ D
    BY <1>1, <2>1
  <2>3. PICK k : k = shift(I, unshift(D, i))
    OBVIOUS
  <2>4. k \in (0 .. p - 1) \ I /\ o[k] = i
    BY <1>5, <2>2, <2>3, KeptBack
  <2> QED
    BY <1>9, <2>4
<1>10. ASSUME NEW k \in (0 .. p - 1) \ I
       PROVE  o[k] # npos /\ o[k] \notin E /\ unshift(D, o[k]) = unshift(I, k)
  BY <1>4, <1>6 DEF npos
<1>11. /\ v.moves \in Seq(Moves)
       /\ \A m \in ToSet(v.moves) : m.from \in D /\ m.to \in I /\ o[m.to] = m.from
       /\ \A k \in I : o[k] # npos => [from |-> o[k], to |-> k] \in ToSet(v.moves)
  BY <1>2, <1>5 DEF MovesTold
<1>12. \A m \in ToSet(v.moves) : m \in Moves /\ m.from # npos
  <2>1. \A m \in ToSet(v.moves) : m \in Moves
    BY <1>11 DEF ToSet
  <2> QED
    BY <2>1 DEF Moves, npos
<1>13. ASSUME NEW k \in I
       PROVE  {m \in ToSet(v.moves) : m.to = k} =
                IF o[k] = npos THEN {} ELSE {[from |-> o[k], to |-> k]}
  <2>1. \A m \in ToSet(v.moves) : m.to = k => o[k] # npos /\ m = [from |-> o[k], to |-> k]
    BY <1>11, <1>12 DEF Moves
  <2> QED
    BY <1>11, <2>1
<1>14. \A m \in ToSet(v.moves) : m.from \in E /\ m.to \in I
  <2>1. TAKE m \in ToSet(v.moves)
  <2>2. m.from \in D /\ m.to \in 0 .. p - 1 /\ o[m.to] = m.from
    BY <1>6, <1>11
  <2>3. m.from \in 0 .. n - 1
    BY <1>7, <1>12, <2>2 DEF Moves, npos
  <2> QED
    BY <1>4, <1>11, <2>2, <2>3
<1>15. \A i \in 0 .. n - 1 : (\A k \in 0 .. p - 1 : FirstIndex(k) # i) => i \in E
  BY <1>8, <1>9
<1>16. \A k \in (0 .. p - 1) \ I :
         /\ FirstIndex(k) # npos /\ FirstIndex(k) \notin E
         /\ unshift(D, FirstIndex(k)) = unshift(I, k)
  BY <1>8, <1>10
<1>17. \A k \in I : {m \in ToSet(v.moves) : m.to = k} =
                      IF FirstIndex(k) = npos THEN {} ELSE {[from |-> FirstIndex(k), to |-> k]}
  BY <1>6, <1>8, <1>13
<1> QED
  BY <1>1, <1>2, <1>3, <1>4, <1>6, <1>14, <1>15, <1>16, <1>17 DEF TellsTable

\* All the logs, merged, tell the rows of the oldest version where they are.
LEMMA VersionTold ==
  ASSUME TableBounds, TableIInv, moves_needed, changes = NoChanges
  PROVE  /\ TellsTable(AllMerged)
         /\ \A k \in RowIndices :
              FirstIndex(k) # npos => (k \in AllMerged.modifications <=> table[k + 1].dirty)
<1>1. PICK n \in Nat, p \in Nat : n = first_size /\ p = Len(table)
  BY DEF TableIInv, TableTypes
<1>2. PICK b, T : /\ Recorded(infos, n, p, b, T)
                  /\ \A k \in RowIndices : FirstIndex(k) = b[k] /\ (table[k + 1].dirty <=> k \in T)
  BY <1>1, RowsAtVersion
<1>3. PICK id : id = [k \in 0 .. n - 1 |-> k]
  OBVIOUS
<1>4. PICK v : v = AllMerged
  OBVIOUS
<1>5. infos \in Seq(Builders)
  BY DEF TableIInv, TableTypes
<1>6. MergedTells(v, n, p, id, b, {}, T)
  BY <1>2, <1>3, <1>4, <1>5, LogsMerged
<1>7. PICK N \in Nat, o \in Origins(n, p) :
         /\ N >= n /\ Told(v, N, p, o) /\ b = Composed(id, o, p)
         /\ \A k \in 0 .. p - 1 : o[k] # npos => (k \in T <=> k \in v.modifications)
  BY <1>6 DEF MergedTells
<1>8. \A k \in 0 .. p - 1 : b[k] = o[k]
  <2>1. TAKE k \in 0 .. p - 1
  <2>2. o[k] = npos \/ o[k] \in 0 .. n - 1
    BY DEF Origins, npos
  <2>3. b[k] = IF o[k] = npos THEN npos ELSE id[o[k]]
    BY <1>7 DEF Composed
  <2> QED
    BY <1>3, <2>2, <2>3
<1>9. RowIndices = 0 .. p - 1
  BY <1>1 DEF RowIndices
<1>10. \A k \in RowIndices : FirstIndex(k) = o[k]
  BY <1>2, <1>8, <1>9
<1>11. TellsTable(v)
  BY <1>1, <1>7, <1>10, ToldTable
<1> QED
  BY <1>2, <1>4, <1>7, <1>9, <1>10, <1>11

\* Nothing is left to be mapped in what a notifier gets.
LEMMA FinalBuilder ==
  ASSUME TableBounds, TableIInv
  PROVE  AllMerged \in Builders
<1>1. infos \in Seq(Builders) /\ (moves_needed \/ Len(infos) <= 1) /\ moves_needed \in BOOLEAN
  BY DEF TableIInv, TableTypes
<1>2. CASE moves_needed
  <2>1. PICK n \in Nat, m \in Nat : n = first_size /\ m = start_size
    BY TableBounds DEF TableIInv, TableTypes
  <2>2. PICK b, T : Recorded(infos, n, m, b, T)
    BY <1>2, <2>1 DEF TableIInv, TableFollowed
  <2>3. MergedTells(AllMerged, n, m, [k \in 0 .. n - 1 |-> k], b, {}, T)
    BY <1>1, <2>2, LogsMerged
  <2> QED
    BY <2>3 DEF MergedTells, Told
<1>3. CASE Len(infos) <= 1
  <2>1. PICK P : P = {<<0, NoChanges>>, <<1, infos[1]>>}
    OBVIOUS
  <2>2. <<0, NoChanges>> \in P
    BY <2>1
  <2>3. ASSUME NEW j \in 1 .. Len(infos), NEW v \in Builders, <<j - 1, v>> \in P
        PROVE  /\ merge(infos[Len(infos) + 1 - j], v) \in Builders
               /\ <<j, merge(infos[Len(infos) + 1 - j], v)>> \in P
    <3>1. j = 1 /\ Len(infos) = 1 /\ Len(infos) + 1 - j = 1
      <4>1. PICK l \in Nat : l = Len(infos)
        BY <1>1
      <4>2. l <= 1 /\ 1 <= j /\ j <= l /\ j \in Int
        BY <1>3, <4>1
      <4> QED
        BY <4>1, <4>2
    <3>2. v = NoChanges
      BY <2>1, <2>3, <3>1
    <3>3. empty(v)
      BY <3>2 DEF empty, NoChanges
    <3>4. merge(infos[1], v) = infos[1]
      BY <3>3 DEF merge
    <3>5. infos[1] \in Builders
      BY <1>1, <3>1
    <3> QED
      BY <2>1, <3>1, <3>4, <3>5
  <2> QED
    BY <1>1, <2>2, <2>3, MergedLogsIn
<1> QED
  BY <1>1, <1>2, <1>3

LEMMA InvariantTells ==
  ASSUME TableBounds, TableIInv
  PROVE  MergeTold
<1>1. PICK p \in Nat, m \in Nat : p = Len(table) /\ m = start_size
  BY DEF TableIInv, TableTypes
<1>2. table \in Seq(TableRows) /\ moves_needed \in BOOLEAN
  BY DEF TableIInv, TableTypes
<1>3. PICK b, T : Follows(changes, table, m, b, T, moves_needed)
  BY <1>1 DEF TableIInv, TableFollowed
<1>4. /\ changes.insertions \cup changes.modifications \cup DOMAIN changes.mapping \subseteq 0 .. p - 1
      /\ changes.moves = <<>> /\ changes.modifications = Touched(table)
      /\ IsInjective(changes.mapping) /\ DOMAIN changes.mapping \subseteq changes.insertions
      /\ Range(changes.mapping) \subseteq changes.deletions
  <2>1. CASE moves_needed
    <3>1. PICK N \in Nat : LogTells(changes, Touched(table), N, p, Starts(table))
      BY <1>1, <1>3, <2>1 DEF Follows, LogNow
    <3>2. Touched(table) \in SUBSET (0 .. p - 1)
      BY <1>1, <1>2, TableRow
    <3> QED
      BY <3>1, <3>2, TellingLog
  <2>2. CASE ~moves_needed
    <3>1. UntoldNow(changes, table)
      BY <1>3, <2>2 DEF Follows
    <3> QED
      BY <1>1, <1>2, <3>1, UntoldLog
  <2> QED
    BY <2>1, <2>2
<1>5. advance_to_final.mapping = << >>
  <2>1. AllMerged \in Builders
    BY FinalBuilder
  <2> QED
    BY <2>1 DEF Builders, AllMerged, advance_to_final
<1>6. TableTypeOK
  BY <1>1, <1>2, <1>4, <1>5 DEF TableTypeOK, TableIInv, TableTypes, TableRows, RowIndices
<1>7. MappingConsistent
  BY <1>4 DEF MappingConsistent
<1>8. LogModifications
  BY <1>4 DEF LogModifications, Touched, RowIndices
<1>9. ~ClearMerged => advance_to_final = AllMerged
  BY DEF advance_to_final, AllMerged
<1>10. RowsTold
  BY <1>9, VersionTold DEF RowsTold, SeesAllChanges
<1>11. MergedModifications
  BY <1>9, VersionTold DEF MergedModifications
<1> QED
  BY <1>6, <1>7, <1>8, <1>10, <1>11 DEF MergeTold

\* However rows were inserted, changed, deleted, swapped and merged, and however
\* many logs were read: the changes a notifier of the oldest version gets say
\* which of its rows are gone, which row is where and which were changed, unless a
\* clear is merged into changes of before it; and parse_complete finds no row
\* mapped twice or mapped but not inserted.
THEOREM TablesMergeTold == TableSpec => []MergeTold
<1>1. TableIInv => MergeTold
  BY TableBounds, InvariantTells
<1> QED
  BY <1>1, TableInvariant, PTL

==============================================================================
