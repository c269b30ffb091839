--------------------------- MODULE MCRealmChanges ----------------------------
(***************************************************************************)
(* The parts of Realm that find out what a callback is told and tell it,   *)
(* one in each behaviour (subject): nothing of theirs is shared. The       *)
(* variables of the others stay idle, those of the modules it extends at   *)
(* initial values or with nothing asked yet.                               *)
(***************************************************************************)
EXTENDS CollectionNotifier, ListChanges, TableChanges, ChangeCalculation,
        DeepChangeChecker, ChunkedRangeVector

VARIABLES
  subject,
  call                                                         (* IndexSet *)

setVars == <<m_data, call>>
changeVars == <<listVars, tableVars, calcVars, deepVars>>
allVars == <<subject, changeVars, setVars, vars>>

\* Of DeepChangeChecker: one column, of lists; a chain of all rows, ways past
\* its rows, and a cycle.
ListColumn == <<TRUE>>
Chained == [row \in 0 .. RowCount - 1 |->
             CASE row = 0 -> {1, 2} [] row = 1 -> {0, 2, 3} [] row = 2 -> {3} [] OTHER -> {}]

\* The last call of a method has no effect on what comes next.
StateView == <<subject, changeVars, m_data, vars>>

Set == INSTANCE IndexSet

idle == "idle"
IdleList == ListInit /\ base = 0
IdleTable == TableInit /\ first_size = 0 /\ ~moves_needed
IdleCalc == prev_rows = <<>> /\ next_rows = <<>> /\ move_candidates = <<>> /\ CalcInit
IdleDeep ==
  /\ links = idle /\ modified = idle /\ not_modified = idle
  /\ current_path = idle /\ answers = << >>
IdleChanges == IdleList /\ IdleTable /\ IdleCalc /\ IdleDeep

InitChanges ==
  \/ subject = "list" /\ ListInit /\ IdleTable /\ IdleCalc /\ IdleDeep
  \/ subject = "table" /\ TableInit /\ IdleList /\ IdleCalc /\ IdleDeep
  \/ subject = "query" /\ CalcInit /\ IdleList /\ IdleTable /\ IdleDeep
  \/ subject = "links" /\ DeepInit /\ IdleList /\ IdleTable /\ IdleCalc

RealmInit ==
  /\ Init /\ Set!Init
  /\ InitChanges \/ (subject \in {"index set", "callbacks"} /\ IdleChanges)

NextChanges ==
  /\ UNCHANGED <<subject, setVars, vars>>
  /\ \/ subject = "list" /\ ListNext /\ UNCHANGED <<tableVars, calcVars, deepVars>>
     \/ subject = "table" /\ TableNext /\ UNCHANGED <<listVars, calcVars, deepVars>>
     \/ subject = "query" /\ CalcNext /\ UNCHANGED <<listVars, tableVars, deepVars>>
     \/ subject = "links" /\ DeepNext /\ UNCHANGED <<listVars, tableVars, calcVars>>

RealmNext ==
  \/ NextChanges
  \/ subject = "index set" /\ Set!Next /\ UNCHANGED <<subject, changeVars, vars>>
  \/ subject = "callbacks" /\ Next /\ UNCHANGED <<subject, changeVars, setVars>>

RealmSpec == RealmInit /\ [][RealmNext]_allVars

-----------------------------------------------------------------------------
(* The properties, stated and explained in the modules of the subjects;    *)
(* those of the modules it extends as they stand there                     *)

\* Every method of an index set does and answers what the header says.
ImplementsIndexSet == [][subject = "index set" => Set!Abs!Next]_allVars
=============================================================================
