------------------------- MODULE MCRealmCoordinator --------------------------
(* One instance that writes and one that only reads, with one notifier     *)
(* each.                                                                   *)
EXTENDS RealmCoordinator, TLC

CONSTANTS r1, r2, n1, n2

OneEach == (n1 :> r1) @@ (n2 :> r2)
=============================================================================
