------------------------------- MODULE Requests -------------------------------
(***************************************************************************)
(* What AFNetworking promises of a request, and RateListService relies on: *)
(* one of its two blocks is called, once, and the success block with the   *)
(* whole body. Requests are answered in any order.                         *)
(***************************************************************************)
EXTENDS FiniteSets

CONSTANTS Task, WholeBody, Failure

VARIABLES
  sent,                 (* the requests made                               *)
  answered              (* the answers of those that ended                 *)

vars == <<sent, answered>>

Init == sent = {} /\ answered = [t \in {} |-> Failure]

Send(t) ==
  /\ t \notin sent
  /\ sent' = sent \cup {t}
  /\ UNCHANGED answered

Answer(t) ==
  /\ t \in sent \ DOMAIN answered
  /\ \E a \in {WholeBody, Failure} :
       answered' = [u \in DOMAIN answered \cup {t} |-> IF u = t THEN a ELSE answered[u]]
  /\ UNCHANGED sent

Next == \E t \in Task : Send(t) \/ Answer(t)

Spec == Init /\ [][Next]_vars
===============================================================================
