------------------------- MODULE CollectionNotifier --------------------------
(***************************************************************************)
(* The callbacks of one notifier of a query's results. The thread of its   *)
(* Realm adds callbacks and calls them, any thread removes them, and the   *)
(* worker gives them changes; m_callback_mutex is held within each step    *)
(* but not while a callback runs, which may do all of this, and may run    *)
(* the run loop, in which a delivery is nested.                            *)
(*                                                                         *)
(* Versions are numbers, and the changes between two of them the set of    *)
(* the versions that made them: every version changes the results.         *)
(***************************************************************************)
EXTENDS Integers, Sequences

CONSTANTS
  MaxCallbacks,         (* bound: the callbacks registered at a time       *)
  MaxToken,             (* bound: the last token                           *)
  MaxVersion,           (* bound: the versions handed over                 *)
  MaxDepth              (* bound: the deliveries nested in each other      *)

VARIABLES
  m_callbacks,          (* in the order of their registration              *)
  m_callback_index,     (* the one called, from 1, or 0 for npos           *)
  m_have_callbacks,     (* the cached value of m_callbacks not being empty *)
  deliveries,           (* history: of the ones under way, the outermost   *)
                        (* first, the version and if a callback runs       *)
  (* of the worker *)
  m_sg_version,         (* the version handed over, 0 before               *)
  m_previous_rows,      (* the version the rows are of, 0 before           *)
  running,              (* the version of the run to be handed over, or 0  *)
  m_changes             (* what it found                                   *)

callVars == <<m_callbacks, m_callback_index, m_have_callbacks, deliveries>>
workerVars == <<m_sg_version, m_previous_rows, running, m_changes>>
vars == <<callVars, workerVars>>

Init ==
  /\ m_callbacks = <<>> /\ m_callback_index = 0 /\ m_have_callbacks = FALSE
  /\ deliveries = <<>>
  /\ m_sg_version = 0 /\ m_previous_rows = 0 /\ running = 0 /\ m_changes = {}

has_run == m_sg_version # 0
Tokens == {m_callbacks[k].token : k \in DOMAIN m_callbacks}

\* Whether the code of the program runs on the thread of the Realm.
Calling == deliveries # <<>> => deliveries[Len(deliveries)].called

-----------------------------------------------------------------------------
(* Adding and removing                                                     *)

\* Mutant: the least token that is not used.
LeastToken ==
  CHOOSE t \in 0 .. Len(m_callbacks) : t \notin Tokens /\ \A u \in 0 .. t - 1 : u \in Tokens

\* The least token past all that are used.
next_token ==
  1 + CHOOSE t \in Tokens \cup {-1} : \A u \in Tokens : u <= t

\* The worker left out a version for want of callbacks: its rows are behind, or
\* what it found is relative to rows that were.
LeftOut ==
  \/ m_previous_rows # (IF running = 0 THEN m_sg_version ELSE running)
  \/ \E v \in m_changes : v <= m_sg_version

\* History: why the properties do not expect it to be told of every version.
Exempt ==
  CASE deliveries # <<>> -> "added_in_call"
    [] deliveries = <<>> /\ LeftOut -> "added_late"
    [] OTHER -> "no"

\* While the callbacks are called the worker is not woken, the call will come
\* to the new one.
add_callback ==
  /\ Calling /\ Len(m_callbacks) < MaxCallbacks /\ next_token <= MaxToken
  /\ m_callbacks' = Append(m_callbacks,
       [token |-> next_token, accumulated_changes |-> {}, changes_to_deliver |-> {},
        initial_delivered |-> FALSE, exempt |-> Exempt, told |-> {}, first |-> 0])
  /\ m_have_callbacks' = IF m_callback_index = 0 THEN TRUE ELSE m_have_callbacks
  /\ UNCHANGED <<m_callback_index, deliveries, workerVars>>

Without(idx) ==
  [k \in 1 .. Len(m_callbacks) - 1 |-> m_callbacks[IF k < idx THEN k ELSE k + 1]]

\* Mutant: the index of the callbacks called stays.
RemoveKeepingIndex(idx) ==
  /\ m_callbacks' = Without(idx)
  /\ m_have_callbacks' = (Len(m_callbacks) # 1)
  /\ UNCHANGED <<m_callback_index, deliveries, workerVars>>

remove_callback(idx) ==
  /\ m_callbacks' = Without(idx)
  /\ m_callback_index' =
       IF m_callback_index >= idx THEN m_callback_index - 1 ELSE m_callback_index
  /\ m_have_callbacks' = (Len(m_callbacks) # 1)
  /\ UNCHANGED <<deliveries, workerVars>>

-----------------------------------------------------------------------------
(* Delivering                                                              *)

Innermost == Len(deliveries)

\* What is called before the results are moved on is empty for the blocks of
\* results, but its loop leaves the index at npos, in a nested delivery too.
before_advance == m_callback_index' = 0

\* A delivery begins outside of callbacks or in one that runs the run loop. The
\* results are moved on unless they are at that version already.
package_for_delivery ==
  /\ has_run /\ Calling /\ Len(deliveries) < MaxDepth
  /\ m_callbacks' = [k \in DOMAIN m_callbacks |->
       [m_callbacks[k] EXCEPT !.changes_to_deliver = m_callbacks[k].accumulated_changes,
                              !.accumulated_changes = {},
                              !.exempt = IF deliveries # <<>> /\ @ = "no" THEN "nested" ELSE @]]
  /\ deliveries' = Append(deliveries, [version |-> m_sg_version, called |-> FALSE])
  /\ before_advance \/ UNCHANGED m_callback_index
  /\ UNCHANGED <<m_have_callbacks, workerVars>>

\* A callback that was called has nothing for it is passed over.
ToCall(k) == ~m_callbacks[k].initial_delivered \/ m_callbacks[k].changes_to_deliver # {}

\* The loop of for_each_callback goes on to k: the callback is called, at the
\* version of the delivery.
CallCallback(k) ==
  /\ deliveries # <<>>
  /\ k > m_callback_index /\ ToCall(k)
  /\ \A j \in m_callback_index + 1 .. k - 1 : ~ToCall(j)
  /\ m_callback_index' = k
  /\ m_callbacks' = [m_callbacks EXCEPT ![k] =
       [m_callbacks[k] EXCEPT !.initial_delivered = TRUE, !.changes_to_deliver = {},
                 !.first = IF @ = 0 THEN deliveries[Innermost].version ELSE @,
                 !.told = IF m_callbacks[k].initial_delivered
                          THEN @ \cup m_callbacks[k].changes_to_deliver ELSE @]]
  /\ deliveries' = [deliveries EXCEPT ![Innermost].called = TRUE]
  /\ UNCHANGED <<m_have_callbacks, workerVars>>

\* The loop ends. In a nested delivery the one around it begins anew after the
\* callback it is in.
EndCalls ==
  /\ deliveries # <<>>
  /\ \A k \in DOMAIN m_callbacks : k > m_callback_index => ~ToCall(k)
  /\ m_callback_index' = 0
  /\ deliveries' = SubSeq(deliveries, 1, Innermost - 1)
  /\ UNCHANGED <<m_callbacks, m_have_callbacks, workerVars>>

-----------------------------------------------------------------------------
(* The worker                                                              *)

\* The query is run at the version v unless nobody is to be told and the
\* program does not use the results (wanted).
run(v, wanted) ==
  /\ running = 0 /\ v # 0
  /\ running' = v
  /\ IF (m_have_callbacks \/ wanted) /\ m_previous_rows # v
     THEN /\ m_changes' = IF has_run THEN m_previous_rows + 1 .. v ELSE {}
          /\ m_previous_rows' = v
     ELSE UNCHANGED <<m_changes, m_previous_rows>>
  /\ UNCHANGED <<callVars, m_sg_version>>

\* Mutant: the changes are handed to the last callback only.
HandOverToLast ==
  /\ running # 0
  /\ m_sg_version' = running
  /\ m_callbacks' = [k \in DOMAIN m_callbacks |->
       [m_callbacks[k] EXCEPT !.accumulated_changes =
          IF k = Len(m_callbacks) THEN @ \cup m_changes ELSE @]]
  /\ running' = 0 /\ m_changes' = {}
  /\ UNCHANGED <<m_callback_index, m_have_callbacks, deliveries, m_previous_rows>>

\* Every callback is given the changes.
prepare_handover ==
  /\ running # 0
  /\ m_sg_version' = running
  /\ m_callbacks' = [k \in DOMAIN m_callbacks |->
       [m_callbacks[k] EXCEPT !.accumulated_changes = @ \cup m_changes]]
  /\ running' = 0 /\ m_changes' = {}
  /\ UNCHANGED <<m_callback_index, m_have_callbacks, deliveries, m_previous_rows>>

-----------------------------------------------------------------------------
Next ==
  \/ add_callback
  \/ \E k \in DOMAIN m_callbacks : remove_callback(k) \/ CallCallback(k)
  \/ package_for_delivery
  \/ EndCalls
  \/ \E v \in m_sg_version .. m_sg_version + 1, wanted \in BOOLEAN :
       v <= MaxVersion /\ run(v, wanted)
  \/ prepare_handover

Spec == Init /\ [][Next]_vars

-----------------------------------------------------------------------------
(* Properties                                                              *)

\* The tokens are told apart and in order, however many were given back:
\* the one a removal finds is the one that was meant.
TokensInOrder ==
  \A j, k \in DOMAIN m_callbacks : j < k => m_callbacks[j].token < m_callbacks[k].token

\* The flag the worker reads without the mutex is never FALSE while there are
\* callbacks (collection_notifier.hpp:230-231: at worst there is extra work).
\* It is not set for a callback added in a call: there the one called, or
\* others, are still registered, or the index is back at npos.
CallbacksSeen == m_callbacks # <<>> => m_have_callbacks

\* What was packaged is delivered when the deliveries are over, whoever is
\* added and removed and whatever is delivered in between.
AllDelivered ==
  deliveries = <<>> => \A k \in DOMAIN m_callbacks : m_callbacks[k].changes_to_deliver = {}

Given(c) == c.told \cup c.changes_to_deliver \cup c.accumulated_changes

\* A callback that was called is told of, or is to be told of, every version
\* handed over since that of its first call, and of none before it. Not so
\* - for one added in a call: it is called at once, at the version of the
\*   delivery, and not given what was handed over since;
\* - for one added late: what the worker finds next is relative to the rows
\*   of the version before the one left out;
\* - in a nested delivery: what the outer one has not delivered is packaged
\*   over.
ToldSinceFirst ==
  \A k \in DOMAIN m_callbacks :
    LET c == m_callbacks[k] IN
    c.initial_delivered /\ c.exempt = "no" => Given(c) = c.first + 1 .. m_sg_version

\* None is left out for one added in a call either (RLMResults.h:196-197: it is
\* called again after each write transaction that changes the results).
AddedInCallToldAll ==
  \A k \in DOMAIN m_callbacks :
    LET c == m_callbacks[k] IN
    c.initial_delivered /\ c.exempt = "added_in_call"
      => c.first + 1 .. m_sg_version \subseteq Given(c)
=============================================================================
