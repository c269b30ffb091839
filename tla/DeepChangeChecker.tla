-------------------------- MODULE DeepChangeChecker --------------------------
(***************************************************************************)
(* Whether an object, or one it links to, was modified: the question a     *)
(* notifier asks of every row of its collection. The search follows the    *)
(* links of rows down to a depth, cuts cycles, and remembers across calls  *)
(* the rows it found not modified. Rows of all tables are numbered         *)
(* together and have the same link columns.                                *)
(***************************************************************************)
EXTENDS Integers, Sequences, FiniteSets, SequencesExt

CONSTANTS
  RowCount,     (* the number of rows                                      *)
  Columns,      (* for each link column, whether it is a list (is_list)    *)
  PathSize,     (* the size of m_current_path, 16 in the code              *)
  MaxLinks,     (* bound: the links in a list                              *)
  Targets       (* bound: the rows each row may link to                    *)

ASSUME DeepBounds ==
  /\ RowCount \in Nat /\ Columns \in Seq(BOOLEAN)
  /\ PathSize \in Nat \ {0} /\ MaxLinks \in Nat \ {0}
  /\ Targets \in [0 .. RowCount - 1 -> SUBSET (0 .. RowCount - 1)]

VARIABLES
  links,        (* the rows a row links to, by column                      *)
  modified,     (* the modifications of the transaction                    *)
  not_modified, (* m_not_modified                                          *)
  current_path, (* m_current_path, from 1                                  *)
  answers       (* what was answered for a row                             *)

deepVars == <<links, modified, not_modified, current_path, answers>>

RowNumbers == 0 .. RowCount - 1
null == -1

Path == [row : RowNumbers \cup {null}, col : 0 .. Len(Columns), depth_exceeded : BOOLEAN]
\* The flags of m_current_path are read before they are ever set.
Uninitialized == {[row |-> null, col |-> 0, depth_exceeded |-> b] : b \in BOOLEAN}

\* A link is a list of one row, or of none when it is null.
ColumnLinks(row, col) ==
  SeqOf(Targets[row], IF Columns[col] THEN MaxLinks ELSE 1)

DeepInit ==
  /\ links \in [RowNumbers -> [DOMAIN Columns -> SeqOf(RowNumbers, MaxLinks)]]
  /\ \A row \in RowNumbers : \A col \in DOMAIN Columns :
       links[row][col] \in ColumnLinks(row, col)
  /\ modified \in SUBSET RowNumbers
  /\ not_modified = {}
  /\ current_path \in [1 .. PathSize -> Uninitialized]
  /\ answers = << >>

-----------------------------------------------------------------------------
(* The search: the answer so far, the rows remembered and the path. The    *)
(* depth counts from 0; deeper gives the search of a row one level deeper. *)

Search == [ret : BOOLEAN, memo : SUBSET RowNumbers, path : [1 .. PathSize -> Path]]

already_checking(s, row, col, depth) ==
  \E p \in 1 .. depth : s.path[p].row = row /\ s.path[p].col = col

Entered(s, row, col, depth) ==
  [s EXCEPT !.path[depth + 1] = [row |-> row, col |-> col, depth_exceeded |-> FALSE]]

NextLink(deeper, s, dst) == IF s.ret THEN s ELSE deeper[s][dst]

\* The list of a column, up to the first row that is modified.
check_list(deeper, s, targets) ==
  LET after[n \in 0 .. Len(targets)] ==
        IF n = 0 THEN s ELSE NextLink(deeper, after[n - 1], targets[n])
  IN after[Len(targets)]

\* A column that holds a link ends the loop, whatever its row answers.
CheckColumn(deeper, s, row, col, depth) ==
  LET t == check_list(deeper, Entered(s, row, col, depth), links[row][col])
  IN IF already_checking(s, row, col, depth)
     THEN [search |-> s, ends |-> FALSE]
     ELSE [search |-> t, ends |-> t.ret \/ (~Columns[col] /\ links[row][col] # <<>>)]

NextColumn(deeper, c, row, col, depth) ==
  IF c.ends THEN c ELSE CheckColumn(deeper, c.search, row, col, depth)

check_outgoing_links(deeper, s, row, depth) ==
  LET after[n \in 0 .. Len(Columns)] ==
        IF n = 0 THEN [search |-> s, ends |-> FALSE]
        ELSE NextColumn(deeper, after[n - 1], row, n, depth)
  IN after[Len(Columns)].search

\* Nothing on the path is remembered.
TooDeep(s) ==
  [s EXCEPT !.path =
    [d \in DOMAIN @ |-> IF d = 1 THEN @[d] ELSE [@[d] EXCEPT !.depth_exceeded = TRUE]]]

Remembered(s, row) == [s EXCEPT !.memo = @ \cup {row}]

\* Mutant: a search cut at the depth is remembered as one that found nothing.
CheckRowRemembers(deeper, s, row, depth) ==
  LET r == check_outgoing_links(deeper, s, row, depth)
  IN IF depth >= PathSize \/ row \in s.memo THEN s
     ELSE IF depth > 0 /\ row \in modified THEN [s EXCEPT !.ret = TRUE]
     ELSE IF r.ret THEN r ELSE Remembered(r, row)

\* Mutant: a search cut at the depth reports a modification.
CheckRowCautious(deeper, s, row, depth) ==
  LET r == check_outgoing_links(deeper, s, row, depth)
  IN IF depth >= PathSize \/ (depth > 0 /\ row \in modified) THEN [s EXCEPT !.ret = TRUE]
     ELSE IF row \in s.memo \/ r.ret THEN r
     ELSE Remembered(r, row)

check_row(deeper, s, row, depth) ==
  LET r == check_outgoing_links(deeper, s, row, depth)
  IN IF depth >= PathSize THEN TooDeep(s)
     ELSE IF depth > 0 /\ row \in modified THEN [s EXCEPT !.ret = TRUE]
     ELSE IF row \in s.memo THEN s
     ELSE IF ~r.ret /\ ~r.path[depth + 1].depth_exceeded THEN Remembered(r, row)
     ELSE r

CheckedAt(left, deeper) ==
  [s \in Search |-> [row \in RowNumbers |-> check_row(deeper, s, row, PathSize - left)]]

\* check_row with that many levels left.
Checked[left \in 0 .. PathSize] ==
  CheckedAt(left, IF left = 0 THEN << >> ELSE Checked[left - 1])

\* operator(): asked of a row of the collection.
Ask(row) ==
  LET asked == [ret |-> FALSE, memo |-> not_modified, path |-> current_path]
      s == Checked[PathSize][asked][row]
      known == row \in modified
  IN /\ row \notin DOMAIN answers
     /\ answers' = [r \in DOMAIN answers \cup {row} |->
                     IF r = row THEN known \/ s.ret ELSE answers[r]]
     /\ not_modified' = IF known THEN not_modified ELSE s.memo
     /\ current_path' = IF known THEN current_path ELSE s.path
     /\ UNCHANGED <<links, modified>>

DeepNext == \E row \in RowNumbers : Ask(row)

DeepSpec == DeepInit /\ [][DeepNext]_deepVars

-----------------------------------------------------------------------------
(* Properties                                                              *)

LinkedTo(row) == UNION {ToSet(links[row][col]) : col \in DOMAIN Columns}

\* The rows some number of links away, at most n.
Within[n \in 0 .. PathSize] ==
  [row \in RowNumbers |->
    IF n = 0 THEN {row} ELSE {row} \cup UNION {Within[n - 1][r] : r \in LinkedTo(row)}]

\* An object is reported as modified only when it or an object it links to,
\* less than PathSize links away, was modified, whatever was remembered from
\* the rows asked about before.
NoFalseAlarm ==
  \A row \in DOMAIN answers : answers[row] => Within[PathSize - 1][row] \cap modified # {}

\* No row links to itself, over as many links as a search follows.
NoCycle == \A row \in RowNumbers : \A r \in LinkedTo(row) : row \notin Within[PathSize - 1][r]

\* An object is reported as modified when it or an object it links to, less
\* than PathSize links away, was modified (RLMCollection.h: "or an object
\* linked to by that object was modified"), in spite of what was remembered
\* from searches that were cut. This is so of rows with one link column whose
\* links make no cycle: a row met again in its own search is remembered before
\* that search ends, and a second column neither counts after a link of the
\* first nor knows that a search of the first was cut.
LinkedModificationFound ==
  Len(Columns) = 1 =>
    \A row \in DOMAIN answers :
      NoCycle /\ Within[PathSize - 1][row] \cap modified # {} => answers[row]
=============================================================================
