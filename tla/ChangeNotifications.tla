------------------------- MODULE ChangeNotifications -------------------------
(***************************************************************************)
(* What Realm promises a notification block ("called again after each      *)
(* write transaction which changes ... the objects in the results"): after *)
(* the first call, each is about the versions since the last one, all of   *)
(* them, up to one that was committed; no version is told twice and none   *)
(* is left out.                                                            *)
(***************************************************************************)
EXTENDS Integers

CONSTANT Blocks         (* the notification blocks                         *)

VARIABLES
  committed,            (* the latest version                              *)
  seen,                 (* the version of its last call, 0 before the first*)
  told                  (* the versions its last call was about            *)

vars == <<committed, seen, told>>

Init ==
  /\ committed = 1
  /\ seen = [b \in Blocks |-> 0]
  /\ told = [b \in Blocks |-> {}]

Commit ==
  /\ committed' = committed + 1
  /\ UNCHANGED <<seen, told>>

\* The first call shows the block a version, later ones go on from there.
Call(b) ==
  \E v \in seen[b] .. committed :
    /\ v # 0
    /\ seen' = [seen EXCEPT ![b] = v]
    /\ told' = [told EXCEPT ![b] = IF seen[b] = 0 THEN {} ELSE seen[b] + 1 .. v]
    /\ UNCHANGED committed

Next == Commit \/ \E b \in Blocks : Call(b)

Spec == Init /\ [][Next]_vars
=============================================================================
