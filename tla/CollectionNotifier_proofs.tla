------------------------ MODULE CollectionNotifier_proofs ----------------------
(***************************************************************************)
(* Theorems about the two parts of collection_notifier.cpp: the callbacks  *)
(* of CollectionNotifier, however many are registered, versions handed     *)
(* over and deliveries nested; and what the search of DeepChangeChecker    *)
(* for modified objects answers, for any number of rows, any links and any *)
(* size of the path.                                                       *)
(***************************************************************************)
EXTENDS CollectionNotifier, DeepChangeChecker, CollectionChangeBuilder_proofs, SequenceTheorems

Exemptions == {"no", "added_in_call", "added_late", "nested"}

Callback ==
  [token : Nat, accumulated_changes : SUBSET Nat, changes_to_deliver : SUBSET Nat,
   initial_delivered : BOOLEAN, exempt : Exemptions, told : SUBSET Nat, first : Nat]

Delivery == [version : Nat, called : BOOLEAN]

Types ==
  /\ m_callbacks \in Seq(Callback) /\ m_callback_index \in 0 .. Len(m_callbacks)
  /\ m_have_callbacks \in BOOLEAN /\ deliveries \in Seq(Delivery)
  /\ m_sg_version \in Nat /\ m_previous_rows \in Nat /\ running \in Nat
  /\ m_changes \in SUBSET Nat

\* What the loop of the innermost delivery has passed was delivered.
Passed ==
  /\ deliveries = <<>> =>
       /\ m_callback_index = 0
       /\ \A k \in DOMAIN m_callbacks : m_callbacks[k].changes_to_deliver = {}
  /\ Len(deliveries) = 1 =>
       /\ ~deliveries[1].called => m_callback_index = 0
       /\ \A k \in 1 .. m_callback_index : m_callbacks[k].changes_to_deliver = {}

\* What the worker found goes on from its rows.
Found ==
  /\ running = 0 => m_changes = {} /\ m_previous_rows <= m_sg_version
  /\ running # 0 =>
       /\ running \in m_sg_version .. m_sg_version + 1
       /\ m_previous_rows = running \/ (m_previous_rows <= m_sg_version /\ m_changes = {})
       /\ m_previous_rows = running /\ has_run =>
            \E p \in 0 .. m_sg_version : m_changes = p + 1 .. running
  /\ ~has_run => m_changes = {}

\* No version was left out by it.
NoneLeftOut ==
  /\ m_previous_rows = (IF running = 0 THEN m_sg_version ELSE running)
  /\ running # 0 /\ has_run => m_changes = m_sg_version + 1 .. running

Promised(k) == m_callbacks[k].exempt = "no"

\* A callback that is promised every version is in one delivery at most; what
\* it is told and given adds up to the versions since its first.
KeptFor(k) ==
  LET c == m_callbacks[k] IN
  /\ Len(deliveries) <= 1
  /\ ~c.initial_delivered => c.told = {} /\ c.first = 0
  /\ deliveries = <<>> /\ c.initial_delivered =>
       /\ c.first \in 1 .. m_sg_version
       /\ c.told \cup c.accumulated_changes = c.first + 1 .. m_sg_version
  /\ Len(deliveries) = 1 =>
       LET v == deliveries[1].version IN
       /\ v \in 1 .. m_sg_version /\ c.accumulated_changes = v + 1 .. m_sg_version
       /\ c.initial_delivered =>
            /\ c.first \in 1 .. v /\ c.told \cup c.changes_to_deliver = c.first + 1 .. v

AllKept ==
  \A k \in DOMAIN m_callbacks :
    Promised(k) => NoneLeftOut /\ KeptFor(k)

IInv == TokensInOrder /\ CallbacksSeen /\ Passed /\ Found /\ AllKept

USE DEF callVars, workerVars

-----------------------------------------------------------------------------
(* Sequences                                                               *)

LEMMA Sequence ==
  ASSUME NEW S, NEW n \in Nat, NEW f \in [1 .. n -> S]
  PROVE  f \in Seq(S) /\ Len(f) = n
<1>1. f \in Seq(S)
  BY SeqDef
<1>2. DOMAIN f = 1 .. Len(f) /\ DOMAIN f = 1 .. n /\ Len(f) \in Nat
  BY <1>1, LenProperties
<1> QED
  BY <1>1, <1>2

LEMMA Elements ==
  ASSUME Types
  PROVE  /\ Len(m_callbacks) \in Nat /\ DOMAIN m_callbacks = 1 .. Len(m_callbacks)
         /\ m_callbacks \in Seq(Callback)
         /\ \A k \in DOMAIN m_callbacks : m_callbacks[k] \in Callback
         /\ Len(deliveries) \in Nat /\ DOMAIN deliveries = 1 .. Len(deliveries)
         /\ deliveries \in Seq(Delivery)
         /\ \A k \in DOMAIN deliveries : deliveries[k] \in Delivery
         /\ deliveries = <<>> <=> Len(deliveries) = 0
         /\ m_callbacks = <<>> <=> Len(m_callbacks) = 0
  BY LenProperties, ElementOfSeq, EmptySeq DEF Types

\* Callbacks that are changed in place.
LEMMA InPlace ==
  ASSUME Types, DOMAIN m_callbacks' = DOMAIN m_callbacks,
         m_callbacks' = [k \in DOMAIN m_callbacks |-> m_callbacks'[k]],
         \A k \in DOMAIN m_callbacks : m_callbacks'[k] \in Callback
  PROVE  m_callbacks' \in Seq(Callback) /\ Len(m_callbacks') = Len(m_callbacks)
  BY Sequence, Elements

-----------------------------------------------------------------------------
(* A callback is added                                                     *)

\* The token of a new callback is greater than all.
LEMMA NextToken ==
  ASSUME Types, TokensInOrder
  PROVE  next_token \in Nat /\ \A k \in DOMAIN m_callbacks : m_callbacks[k].token < next_token
<1> DEFINE Greatest(t) == t \in Tokens \cup {-1} /\ \A u \in Tokens : u <= t
<1>1. \A k \in DOMAIN m_callbacks : m_callbacks[k].token \in Nat
  BY Elements DEF Callback
<1>2. Tokens \subseteq Nat /\ \A k \in DOMAIN m_callbacks : m_callbacks[k].token \in Tokens
  BY <1>1 DEF Tokens
<1>3. \E t : Greatest(t)
  <2>1. CASE Len(m_callbacks) = 0
    <3>1. Tokens = {}
      BY <2>1, Elements DEF Tokens
    <3> QED
      BY <3>1
  <2>2. CASE Len(m_callbacks) # 0
    <3> DEFINE l == Len(m_callbacks)
    <3>1. l \in DOMAIN m_callbacks /\ \A k \in DOMAIN m_callbacks : k = l \/ k < l
      BY <2>2, Elements
    <3>2. \A k \in DOMAIN m_callbacks : m_callbacks[k].token <= m_callbacks[l].token
      BY <1>1, <3>1 DEF TokensInOrder
    <3>3. Greatest(m_callbacks[l].token)
      BY <3>1, <3>2 DEF Tokens
    <3> QED
      BY <3>3
  <2> QED
    BY <2>1, <2>2
<1> DEFINE t == CHOOSE t \in Tokens \cup {-1} : \A u \in Tokens : u <= t
<1>4. Greatest(t)
  BY <1>3
<1>5. next_token = 1 + t
  BY DEF next_token
<1> HIDE DEF t
<1>6. t \in Nat \cup {-1}
  BY <1>2, <1>4
<1>7. next_token \in Nat
  BY <1>5, <1>6
<1>8. \A u \in Tokens : u < next_token
  BY <1>2, <1>4, <1>5, <1>6
<1> QED
  BY <1>2, <1>7, <1>8

LEMMA Adding ==
  ASSUME Types, TokensInOrder, add_callback
  PROVE  LET c == m_callbacks'[Len(m_callbacks) + 1] IN
         /\ m_callbacks' \in Seq(Callback)
         /\ Len(m_callbacks') = Len(m_callbacks) + 1
         /\ \A k \in 1 .. Len(m_callbacks) : m_callbacks'[k] = m_callbacks[k]
         /\ c.token = next_token /\ c.changes_to_deliver = {} /\ c.told = {} /\ c.first = 0
         /\ c.initial_delivered = FALSE /\ c.exempt = Exempt
<1> DEFINE new == [token |-> next_token, accumulated_changes |-> {}, changes_to_deliver |-> {},
                   initial_delivered |-> FALSE, exempt |-> Exempt, told |-> {}, first |-> 0]
<1>1. m_callbacks' = Append(m_callbacks, new)
  BY DEF add_callback
<1>2. Exempt \in Exemptions
  BY DEF Exempt, Exemptions
<1>3. new \in Callback
  BY <1>2, NextToken DEF Callback
<1>4. /\ new.token = next_token /\ new.changes_to_deliver = {} /\ new.told = {} /\ new.first = 0
      /\ new.initial_delivered = FALSE /\ new.exempt = Exempt
  OBVIOUS
<1> HIDE DEF new
<1> QED
  BY <1>1, <1>3, <1>4, AppendProperties, Elements

\* Nothing was left out when it is added outside of calls, and not late.
LEMMA NotLate ==
  ASSUME Types, Found, Exempt = "no"
  PROVE  deliveries = <<>> /\ NoneLeftOut
<1>1. deliveries = <<>> /\ ~LeftOut
  BY DEF Exempt
<1>2. /\ m_previous_rows = (IF running = 0 THEN m_sg_version ELSE running)
      /\ \A v \in m_changes : ~(v <= m_sg_version)
  BY <1>1 DEF LeftOut
<1>3. ASSUME running # 0, has_run
      PROVE  m_changes = m_sg_version + 1 .. running
  <2>1. PICK p \in 0 .. m_sg_version : m_changes = p + 1 .. running
    BY <1>2, <1>3 DEF Found
  <2>2. running \in m_sg_version .. m_sg_version + 1 /\ m_sg_version \in Nat
    BY <1>3 DEF Found, Types
  <2>3. p # m_sg_version => p + 1 \in m_changes /\ p + 1 <= m_sg_version
    BY <2>1, <2>2
  <2> QED
    BY <1>2, <2>1, <2>3
<1> QED
  BY <1>1, <1>2, <1>3 DEF NoneLeftOut

LEMMA AddStep ==
  ASSUME Types, IInv, add_callback
  PROVE  Types' /\ IInv'
<1> DEFINE n == Len(m_callbacks)
<1>0. /\ TokensInOrder /\ CallbacksSeen /\ Passed /\ Found /\ AllKept
      /\ n \in Nat /\ DOMAIN m_callbacks = 1 .. n /\ (m_callbacks = <<>> <=> n = 0)
  BY Elements DEF IInv
<1>1. /\ m_callbacks' \in Seq(Callback) /\ Len(m_callbacks') = n + 1
      /\ \A k \in 1 .. n : m_callbacks'[k] = m_callbacks[k]
      /\ m_callbacks'[n + 1].token = next_token
      /\ m_callbacks'[n + 1].changes_to_deliver = {} /\ m_callbacks'[n + 1].told = {}
      /\ m_callbacks'[n + 1].first = 0
      /\ m_callbacks'[n + 1].initial_delivered = FALSE /\ m_callbacks'[n + 1].exempt = Exempt
  BY <1>0, Adding
<1>2. DOMAIN m_callbacks' = 1 .. n + 1
  BY <1>1, LenProperties
<1>3. /\ m_have_callbacks' = IF m_callback_index = 0 THEN TRUE ELSE m_have_callbacks
      /\ UNCHANGED <<m_callback_index, deliveries, m_sg_version, m_previous_rows, running, m_changes>>
  BY DEF add_callback
<1> HIDE DEF n
<1>4. Types'
  <2>1. m_callback_index' \in 0 .. n + 1
    BY <1>0, <1>3 DEF Types, n
  <2>2. m_have_callbacks' \in BOOLEAN
    BY <1>3, Zenon DEF Types
  <2> QED
    BY <1>1, <1>3, <2>1, <2>2, Zenon DEF Types
<1>5. TokensInOrder'
  <2> SUFFICES ASSUME NEW j \in 1 .. n + 1, NEW k \in 1 .. n + 1, j < k
               PROVE  m_callbacks'[j].token < m_callbacks'[k].token
    BY <1>2 DEF TokensInOrder
  <2>1. j \in 1 .. n
    BY <1>0
  <2>2. CASE k \in 1 .. n
    BY <1>0, <1>1, <2>1, <2>2 DEF TokensInOrder
  <2>3. CASE k = n + 1
    BY <1>0, <1>1, <2>1, <2>3, NextToken
  <2> QED
    BY <1>0, <2>2, <2>3
<1>6. CallbacksSeen'
  <2>1. m_callback_index # 0 => m_have_callbacks
    BY <1>0 DEF CallbacksSeen, Types, n
  <2> QED
    BY <1>3, <2>1, Zenon DEF CallbacksSeen
<1>7. Passed'
  <2>1. \A k \in 1 .. n + 1 : k \in 1 .. n \/ m_callbacks'[k].changes_to_deliver = {}
    BY <1>0, <1>1
  <2>2. \A k \in 1 .. m_callback_index : k \in 1 .. n
    BY <1>0 DEF Types, n
  <2> QED
    BY <1>0, <1>1, <1>2, <1>3, <2>1, <2>2, Zenon DEF Passed
<1>8. Found'
  BY <1>0, <1>3, Zenon DEF Found, has_run
<1>9. AllKept'
  <2> SUFFICES ASSUME NEW k \in 1 .. n + 1, Promised(k)'
               PROVE  NoneLeftOut' /\ KeptFor(k)'
    BY <1>2, Zenon DEF AllKept
  <2>1. NoneLeftOut => NoneLeftOut'
    BY <1>3, Zenon DEF NoneLeftOut, has_run
  <2>2. CASE k \in 1 .. n
    <3>1. NoneLeftOut /\ KeptFor(k) /\ m_callbacks'[k] = m_callbacks[k]
      BY <1>0, <1>1, <2>2, Zenon DEF AllKept, Promised
    <3> QED
      BY <1>3, <2>1, <3>1, Zenon DEF KeptFor
  <2>3. CASE k = n + 1
    <3>1. deliveries = <<>> /\ NoneLeftOut
      BY <1>0, <1>1, <2>3, NotLate DEF Promised
    <3>2. ~m_callbacks'[k].initial_delivered /\ m_callbacks'[k].told = {}
          /\ m_callbacks'[k].first = 0
      BY <1>1, <2>3
    <3>3. Len(deliveries) = 0
      BY <3>1
    <3> QED
      BY <1>3, <2>1, <3>1, <3>2, <3>3 DEF KeptFor
  <2> QED
    BY <1>0, <2>2, <2>3
<1> QED
  BY <1>4, <1>5, <1>6, <1>7, <1>8, <1>9 DEF IInv

-----------------------------------------------------------------------------
(* A callback is removed                                                   *)

LEMMA RemoveStep ==
  ASSUME Types, IInv, NEW idx \in DOMAIN m_callbacks, remove_callback(idx)
  PROVE  Types' /\ IInv'
<1> DEFINE n == Len(m_callbacks)
           was(k) == IF k < idx THEN k ELSE k + 1
<1>0. /\ TokensInOrder /\ CallbacksSeen /\ Passed /\ Found /\ AllKept
      /\ n \in Nat \ {0} /\ DOMAIN m_callbacks = 1 .. n /\ idx \in 1 .. n
      /\ \A k \in 1 .. n : m_callbacks[k] \in Callback
      /\ m_callback_index \in 0 .. n
  BY Elements DEF IInv, Types
<1>1. m_callbacks' = [k \in 1 .. n - 1 |-> m_callbacks[was(k)]]
  BY DEF remove_callback, Without
<1>2. \A k \in 1 .. n - 1 : was(k) \in 1 .. n
  BY <1>0
<1>3. /\ m_callbacks' \in Seq(Callback) /\ Len(m_callbacks') = n - 1
  <2>1. m_callbacks' \in [1 .. n - 1 -> Callback]
    BY <1>0, <1>1, <1>2
  <2>2. n - 1 \in Nat
    BY <1>0
  <2> QED
    BY <2>1, <2>2, Sequence
<1>4. DOMAIN m_callbacks' = 1 .. n - 1 /\ \A k \in 1 .. n - 1 : m_callbacks'[k] = m_callbacks[was(k)]
  BY <1>1
<1>5. /\ m_callback_index' =
           IF m_callback_index >= idx THEN m_callback_index - 1 ELSE m_callback_index
      /\ m_have_callbacks' = (n # 1)
      /\ UNCHANGED <<deliveries, m_sg_version, m_previous_rows, running, m_changes>>
  BY DEF remove_callback
<1> HIDE DEF n
<1>6. m_callback_index' \in 0 .. n - 1
  BY <1>0, <1>5
<1>7. Types'
  BY <1>3, <1>5, <1>6, Zenon DEF Types
<1>8. TokensInOrder'
  <2> SUFFICES ASSUME NEW j \in 1 .. n - 1, NEW k \in 1 .. n - 1, j < k
               PROVE  m_callbacks'[j].token < m_callbacks'[k].token
    BY <1>4 DEF TokensInOrder
  <2>1. was(j) < was(k)
    BY <1>0
  <2> QED
    BY <1>0, <1>2, <1>4, <2>1 DEF TokensInOrder
<1>9. CallbacksSeen'
  <2>1. n = 1 => Len(m_callbacks') = 0
    BY <1>3
  <2>2. n = 1 => m_callbacks' = <<>>
    BY <1>3, <2>1, EmptySeq
  <2> QED
    BY <1>5, <2>2 DEF CallbacksSeen
<1>10. Passed'
  <2>1. \A k \in 1 .. m_callback_index' : was(k) \in 1 .. m_callback_index /\ k \in 1 .. n - 1
    BY <1>0, <1>5, <1>6
  <2>2. m_callback_index = 0 => m_callback_index' = 0
    BY <1>0, <1>5
  <2> QED
    BY <1>0, <1>2, <1>4, <1>5, <2>1, <2>2, Zenon DEF Passed
<1>11. Found'
  BY <1>0, <1>5, Zenon DEF Found, has_run
<1>12. AllKept'
  <2> SUFFICES ASSUME NEW k \in 1 .. n - 1, Promised(k)'
               PROVE  NoneLeftOut' /\ KeptFor(k)'
    BY <1>4, Zenon DEF AllKept
  <2>1. NoneLeftOut /\ KeptFor(was(k)) /\ m_callbacks'[k] = m_callbacks[was(k)]
    BY <1>0, <1>2, <1>4, Zenon DEF AllKept, Promised
  <2> QED
    BY <1>5, <2>1, Zenon DEF KeptFor, NoneLeftOut, has_run
<1> QED
  BY <1>7, <1>8, <1>9, <1>10, <1>11, <1>12 DEF IInv

-----------------------------------------------------------------------------
(* A delivery begins                                                       *)

LEMMA Packaging ==
  ASSUME Types, package_for_delivery
  PROVE  /\ m_callbacks' \in Seq(Callback) /\ DOMAIN m_callbacks' = DOMAIN m_callbacks
         /\ Len(m_callbacks') = Len(m_callbacks)
         /\ \A k \in DOMAIN m_callbacks :
              /\ m_callbacks'[k].token = m_callbacks[k].token
              /\ m_callbacks'[k].initial_delivered = m_callbacks[k].initial_delivered
              /\ m_callbacks'[k].told = m_callbacks[k].told
              /\ m_callbacks'[k].first = m_callbacks[k].first
              /\ m_callbacks'[k].changes_to_deliver = m_callbacks[k].accumulated_changes
              /\ m_callbacks'[k].accumulated_changes = {}
              /\ m_callbacks'[k].exempt = "no" =>
                   m_callbacks[k].exempt = "no" /\ deliveries = <<>>
<1> DEFINE new(k) ==
      [m_callbacks[k] EXCEPT !.changes_to_deliver = m_callbacks[k].accumulated_changes,
                             !.accumulated_changes = {},
                             !.exempt = IF deliveries # <<>> /\ @ = "no" THEN "nested" ELSE @]
<1>1. m_callbacks' = [k \in DOMAIN m_callbacks |-> new(k)]
  BY DEF package_for_delivery
<1>2. ASSUME NEW k \in DOMAIN m_callbacks
      PROVE  /\ new(k) \in Callback
             /\ new(k).token = m_callbacks[k].token
             /\ new(k).initial_delivered = m_callbacks[k].initial_delivered
             /\ new(k).told = m_callbacks[k].told /\ new(k).first = m_callbacks[k].first
             /\ new(k).changes_to_deliver = m_callbacks[k].accumulated_changes
             /\ new(k).accumulated_changes = {}
             /\ new(k).exempt = "no" => m_callbacks[k].exempt = "no" /\ deliveries = <<>>
  BY Elements DEF Callback, Exemptions
<1> HIDE DEF new
<1>3. DOMAIN m_callbacks' = DOMAIN m_callbacks /\ \A k \in DOMAIN m_callbacks : m_callbacks'[k] = new(k)
  BY <1>1
<1>4. m_callbacks' \in Seq(Callback) /\ Len(m_callbacks') = Len(m_callbacks)
  BY <1>1, <1>2, <1>3, InPlace
<1> QED
  BY <1>2, <1>3, <1>4

LEMMA PackageStep ==
  ASSUME Types, IInv, package_for_delivery
  PROVE  Types' /\ IInv'
<1> DEFINE l == Len(deliveries)
<1>0. TokensInOrder /\ CallbacksSeen /\ Passed /\ Found /\ AllKept
  BY DEF IInv
<1>1. /\ m_sg_version \in Nat \ {0}
      /\ deliveries' = Append(deliveries, [version |-> m_sg_version, called |-> FALSE])
      /\ m_callback_index' = 0 \/ m_callback_index' = m_callback_index
      /\ UNCHANGED <<m_have_callbacks, m_sg_version, m_previous_rows, running, m_changes>>
  BY DEF package_for_delivery, before_advance, has_run, Types
<1>2. /\ deliveries' \in Seq(Delivery) /\ Len(deliveries') = l + 1 /\ l \in Nat
      /\ deliveries' # <<>> /\ (deliveries = <<>> <=> l = 0)
      /\ deliveries'[l + 1].version = m_sg_version /\ ~deliveries'[l + 1].called
  <2>1. [version |-> m_sg_version, called |-> FALSE] \in Delivery
    BY <1>1 DEF Delivery
  <2> QED
    BY <1>1, <2>1, AppendProperties, Elements
<1> HIDE DEF l
<1>3. Types'
  <2>1. m_callback_index' \in 0 .. Len(m_callbacks')
    <3>1. /\ m_callback_index \in 0 .. Len(m_callbacks) /\ Len(m_callbacks) \in Nat
          /\ Len(m_callbacks') = Len(m_callbacks)
      BY Packaging, Elements, Zenon DEF Types
    <3> QED
      BY <1>1, <3>1
  <2> QED
    BY <1>1, <1>2, <2>1, Packaging, Zenon DEF Types
<1>4. TokensInOrder'
  BY <1>0, Packaging, Zenon DEF TokensInOrder
<1>5. CallbacksSeen'
  BY <1>0, <1>1, Packaging, EmptySeq, Elements DEF CallbacksSeen
<1>6. Passed'
  BY <1>0, <1>1, <1>2 DEF Passed
<1>7. Found'
  BY <1>0, <1>1, Zenon DEF Found, has_run
<1>8. AllKept'
  <2> SUFFICES ASSUME NEW k \in DOMAIN m_callbacks, Promised(k)'
               PROVE  NoneLeftOut' /\ KeptFor(k)'
    BY Packaging, Zenon DEF AllKept
  <2>1. m_callbacks[k].exempt = "no" /\ deliveries = <<>>
    BY Packaging DEF Promised
  <2>2. NoneLeftOut /\ KeptFor(k)
    BY <1>0, <2>1, Zenon DEF AllKept, Promised
  <2>3. NoneLeftOut'
    BY <1>1, <2>2, Zenon DEF NoneLeftOut, has_run
  <2>4. Len(deliveries') = 1 /\ deliveries'[1].version = m_sg_version
    BY <1>2, <2>1
  <2>5. m_sg_version + 1 .. m_sg_version = {} /\ m_sg_version \in 1 .. m_sg_version
    BY <1>1
  <2>6. /\ ~m_callbacks[k].initial_delivered =>
             m_callbacks[k].told = {} /\ m_callbacks[k].first = 0
        /\ m_callbacks[k].initial_delivered =>
             /\ m_callbacks[k].first \in 1 .. m_sg_version
             /\ m_callbacks[k].told \cup m_callbacks[k].accumulated_changes
                  = m_callbacks[k].first + 1 .. m_sg_version
    BY <2>1, <2>2, Zenon DEF KeptFor
  <2>7. deliveries' # <<>>
    BY <1>2, Zenon
  <2>7a. Len(deliveries') <= 1
    BY <2>4
  <2>8. /\ m_callbacks'[k].initial_delivered = m_callbacks[k].initial_delivered
        /\ m_callbacks'[k].told = m_callbacks[k].told
        /\ m_callbacks'[k].first = m_callbacks[k].first
        /\ m_callbacks'[k].changes_to_deliver = m_callbacks[k].accumulated_changes
        /\ m_callbacks'[k].accumulated_changes = {}
    BY Packaging, Zenon
  <2> DEFINE c == m_callbacks'[k]
             v == deliveries'[1].version
  <2>a. v = m_sg_version /\ m_sg_version' = m_sg_version
    BY <1>1, <2>4
  <2>b. v \in 1 .. m_sg_version' /\ c.accumulated_changes = v + 1 .. m_sg_version'
    BY <2>5, <2>8, <2>a
  <2>c. ~c.initial_delivered => c.told = {} /\ c.first = 0
    BY <2>6, <2>8, Zenon
  <2>d. c.initial_delivered =>
          c.first \in 1 .. v /\ c.told \cup c.changes_to_deliver = c.first + 1 .. v
    BY <2>6, <2>8, <2>a
  <2>9. KeptFor(k)'
    BY <2>7, <2>7a, <2>b, <2>c, <2>d, Zenon DEF KeptFor
  <2> QED
    BY <2>3, <2>9
<1> QED
  BY <1>3, <1>4, <1>5, <1>6, <1>7, <1>8 DEF IInv

-----------------------------------------------------------------------------
(* A callback is called                                                    *)

LEMMA Called ==
  ASSUME Types, NEW k \in DOMAIN m_callbacks, CallCallback(k)
  PROVE  LET v == deliveries[Len(deliveries)].version
             c == m_callbacks[k]
         IN
         /\ m_callbacks' \in Seq(Callback) /\ DOMAIN m_callbacks' = DOMAIN m_callbacks
         /\ Len(m_callbacks') = Len(m_callbacks)
         /\ \A j \in DOMAIN m_callbacks : j # k => m_callbacks'[j] = m_callbacks[j]
         /\ m_callbacks'[k].token = c.token /\ m_callbacks'[k].exempt = c.exempt
         /\ m_callbacks'[k].accumulated_changes = c.accumulated_changes
         /\ m_callbacks'[k].changes_to_deliver = {}
         /\ m_callbacks'[k].initial_delivered = TRUE
         /\ m_callbacks'[k].first = IF c.first = 0 THEN v ELSE c.first
         /\ m_callbacks'[k].told =
              IF c.initial_delivered THEN c.told \cup c.changes_to_deliver ELSE c.told
<1> DEFINE v == deliveries[Len(deliveries)].version
           c == m_callbacks[k]
           new == [c EXCEPT !.initial_delivered = TRUE, !.changes_to_deliver = {},
                            !.first = IF @ = 0 THEN v ELSE @,
                            !.told = IF c.initial_delivered THEN @ \cup c.changes_to_deliver ELSE @]
<1>1. m_callbacks' = [m_callbacks EXCEPT ![k] = new]
  BY DEF CallCallback, Innermost
<1>2. v \in Nat
  BY Elements DEF CallCallback, Delivery
<1>3. c \in Callback
  BY Elements
<1> HIDE DEF v, c
<1>4. /\ new.token = c.token /\ new.exempt = c.exempt
      /\ new.accumulated_changes = c.accumulated_changes
      /\ new.changes_to_deliver = {} /\ new.initial_delivered = TRUE
      /\ new.first = IF c.first = 0 THEN v ELSE c.first
      /\ new.told = IF c.initial_delivered THEN c.told \cup c.changes_to_deliver ELSE c.told
  BY <1>3 DEF Callback
<1>5. new \in Callback
  BY <1>2, <1>3 DEF Callback
<1> HIDE DEF new
<1>6. m_callbacks' \in Seq(Callback) /\ Len(m_callbacks') = Len(m_callbacks)
  BY <1>1, <1>5, ExceptSeq, Elements
<1>7. /\ DOMAIN m_callbacks' = DOMAIN m_callbacks /\ m_callbacks'[k] = new
      /\ \A j \in DOMAIN m_callbacks : j # k => m_callbacks'[j] = m_callbacks[j]
  BY <1>1
<1> QED
  BY <1>4, <1>6, <1>7 DEF v, c

LEMMA CallStep ==
  ASSUME Types, IInv, NEW k \in DOMAIN m_callbacks, CallCallback(k)
  PROVE  Types' /\ IInv'
<1> DEFINE l == Len(deliveries)
<1>0. TokensInOrder /\ CallbacksSeen /\ Passed /\ Found /\ AllKept
  BY DEF IInv
<1>1. /\ m_callback_index' = k /\ deliveries' = [deliveries EXCEPT ![l].called = TRUE]
      /\ deliveries # <<>>
      /\ UNCHANGED <<m_have_callbacks, m_sg_version, m_previous_rows, running, m_changes>>
  BY DEF CallCallback, Innermost
<1>2. /\ deliveries' \in Seq(Delivery) /\ Len(deliveries') = l /\ l \in Nat \ {0}
      /\ \A i \in 1 .. l : deliveries'[i].version = deliveries[i].version
      /\ deliveries'[l].called = TRUE
  <2>1. l \in 1 .. l /\ l \in Nat \ {0} /\ deliveries[l] \in Delivery /\ DOMAIN deliveries = 1 .. l
    BY <1>1, Elements
  <2>2. [deliveries[l] EXCEPT !.called = TRUE] \in Delivery
    BY <2>1 DEF Delivery
  <2>3. deliveries' = [deliveries EXCEPT ![l] = [deliveries[l] EXCEPT !.called = TRUE]]
    BY <1>1
  <2>4. deliveries' \in Seq(Delivery) /\ Len(deliveries') = l
    BY <2>1, <2>2, <2>3, ExceptSeq, Elements
  <2> QED
    BY <2>1, <2>3, <2>4 DEF Delivery
<1>3. deliveries' # <<>>
  BY <1>2
<1>a. /\ m_callbacks' \in Seq(Callback) /\ DOMAIN m_callbacks' = DOMAIN m_callbacks
      /\ Len(m_callbacks') = Len(m_callbacks)
      /\ \A j \in DOMAIN m_callbacks : j # k => m_callbacks'[j] = m_callbacks[j]
      /\ m_callbacks'[k].token = m_callbacks[k].token
      /\ m_callbacks'[k].exempt = m_callbacks[k].exempt
      /\ m_callbacks'[k].changes_to_deliver = {}
  BY Called, Zenon
<1> HIDE DEF l
<1>4. Types'
  <2>1. k \in 0 .. Len(m_callbacks')
    BY <1>a, Elements
  <2> QED
    BY <1>1, <1>2, <1>a, <2>1, Zenon DEF Types
<1>5. TokensInOrder'
  <2>1. \A j \in DOMAIN m_callbacks : m_callbacks'[j].token = m_callbacks[j].token
    BY <1>a
  <2> QED
    BY <1>0, <1>a, <2>1 DEF TokensInOrder
<1>6. CallbacksSeen'
  BY <1>0, <1>1, Called, EmptySeq, Elements DEF CallbacksSeen
<1>7. Passed'
  <2> SUFFICES ASSUME l = 1, NEW j \in 1 .. k
               PROVE  m_callbacks'[j].changes_to_deliver = {}
    BY <1>1, <1>2, <1>3 DEF Passed
  <2>1. j \in DOMAIN m_callbacks
    BY Elements
  <2>2. CASE j = k
    BY <2>2, Called
  <2>3. CASE j \in 1 .. m_callback_index /\ j # k
    BY <1>0, <2>1, <2>3, Called DEF Passed, l
  <2>4. CASE j \in m_callback_index + 1 .. k - 1
    <3>1. ~ToCall(j)
      BY <2>4 DEF CallCallback
    <3> QED
      BY <2>1, <2>4, <3>1, Called, Elements DEF ToCall
  <2> QED
    BY <2>2, <2>3, <2>4, Elements DEF Types
<1>8. Found'
  BY <1>0, <1>1, Zenon DEF Found, has_run
<1>9. AllKept'
  <2> SUFFICES ASSUME NEW j \in DOMAIN m_callbacks, Promised(j)'
               PROVE  NoneLeftOut' /\ KeptFor(j)'
    BY Called, Zenon DEF AllKept
  <2>1. m_callbacks[j].exempt = "no"
    BY Called DEF Promised
  <2>2. NoneLeftOut /\ KeptFor(j)
    BY <1>0, <2>1, Zenon DEF AllKept, Promised
  <2>3. NoneLeftOut'
    BY <1>1, <2>2, Zenon DEF NoneLeftOut, has_run
  <2>4. l = 1 /\ deliveries'[1].version = deliveries[1].version
    BY <1>2, <2>2 DEF KeptFor, l
  <2>5. CASE j # k
    <3>1. Len(deliveries) = 1 /\ Len(deliveries') = 1 /\ m_callbacks'[j] = m_callbacks[j]
      BY <1>2, <1>a, <2>4, <2>5 DEF l
    <3> DEFINE c == m_callbacks[j]
               v == deliveries[1].version
    <3>2. /\ v \in 1 .. m_sg_version /\ c.accumulated_changes = v + 1 .. m_sg_version
          /\ c.initial_delivered =>
               c.first \in 1 .. v /\ c.told \cup c.changes_to_deliver = c.first + 1 .. v
          /\ ~c.initial_delivered => c.told = {} /\ c.first = 0
      BY <2>2, <3>1, Zenon DEF KeptFor
    <3>3. /\ m_callbacks'[j] = c /\ deliveries'[1].version = v /\ m_sg_version' = m_sg_version
          /\ Len(deliveries') = 1
      BY <1>1, <2>4, <3>1, Zenon
    <3>4. Len(deliveries') <= 1
      BY <3>1
    <3> HIDE DEF c, v
    <3> QED
      BY <1>3, <2>3, <3>2, <3>3, <3>4, Zenon DEF KeptFor
  <2>6. CASE j = k
    <3> DEFINE v == deliveries[1].version
               c == m_callbacks[k]
    <3>1. /\ v \in 1 .. m_sg_version /\ c.accumulated_changes = v + 1 .. m_sg_version
          /\ c.initial_delivered =>
               c.first \in 1 .. v /\ c.told \cup c.changes_to_deliver = c.first + 1 .. v
          /\ ~c.initial_delivered => c.told = {} /\ c.first = 0
      BY <2>2, <2>4, <2>6 DEF KeptFor, l
    <3>2. /\ m_callbacks'[k].accumulated_changes = c.accumulated_changes
          /\ m_callbacks'[k].changes_to_deliver = {}
          /\ m_callbacks'[k].initial_delivered = TRUE
          /\ m_callbacks'[k].first = IF c.first = 0 THEN v ELSE c.first
          /\ m_callbacks'[k].told =
               IF c.initial_delivered THEN c.told \cup c.changes_to_deliver ELSE c.told
      BY <2>4, Called DEF l
    <3> HIDE DEF v, c
    <3>3. m_sg_version \in Nat /\ v + 1 .. v = {} /\ v \in 1 .. v
      BY <3>1 DEF Types
    <3>4. /\ m_callbacks'[k].first \in 1 .. v
          /\ m_callbacks'[k].told = m_callbacks'[k].first + 1 .. v
      <4>1. CASE c.initial_delivered
        <5>1. c.first # 0 /\ c.first \in 1 .. v
          BY <3>1, <3>3, <4>1
        <5> QED
          BY <3>1, <3>2, <4>1, <5>1
      <4>2. CASE ~c.initial_delivered
        BY <3>1, <3>2, <3>3, <4>2
      <4> QED
        BY <4>1, <4>2
    <3>5. m_callbacks'[k].told \cup m_callbacks'[k].changes_to_deliver = m_callbacks'[k].told
      BY <3>2
    <3>6. Len(deliveries') = 1 /\ Len(deliveries') <= 1
      BY <1>2, <2>4
    <3>7. deliveries'[1].version = v /\ m_sg_version' = m_sg_version
      BY <1>1, <2>4 DEF v
    <3>8. KeptFor(k)'
      <4> DEFINE d == m_callbacks'[k]
      <4>1. /\ d.first \in 1 .. v /\ d.told \cup d.changes_to_deliver = d.first + 1 .. v
            /\ d.accumulated_changes = v + 1 .. m_sg_version /\ d.initial_delivered = TRUE
        BY <3>1, <3>2, <3>4, <3>5
      <4> HIDE DEF d
      <4> QED
        BY <1>3, <3>1, <3>6, <3>7, <4>1, Zenon DEF KeptFor, d
    <3> QED
      BY <2>3, <2>6, <3>8
  <2> QED
    BY <2>5, <2>6
<1> QED
  BY <1>4, <1>5, <1>6, <1>7, <1>8, <1>9 DEF IInv

-----------------------------------------------------------------------------
(* A delivery ends                                                         *)

LEMMA Joined ==
  ASSUME NEW f \in Nat, NEW v \in Nat, NEW w \in Nat, f <= v, v <= w
  PROVE  (f + 1 .. v) \cup (v + 1 .. w) = f + 1 .. w
  OBVIOUS

LEMMA Shortened ==
  ASSUME NEW S, NEW s \in Seq(S), NEW n \in Nat, Len(s) = n + 1
  PROVE  SubSeq(s, 1, n) \in Seq(S) /\ Len(SubSeq(s, 1, n)) = n
<1>1. \A i \in 1 .. n : s[i] \in S
  BY ElementOfSeq
<1>2. SubSeq(s, 1, n) \in Seq(S)
  BY <1>1, SubSeqProperties
<1>3. Len(SubSeq(s, 1, n)) = IF 1 <= n THEN n - 1 + 1 ELSE 0
  BY <1>1, SubSeqProperties
<1> QED
  BY <1>2, <1>3

LEMMA EndStep ==
  ASSUME Types, IInv, EndCalls
  PROVE  Types' /\ IInv'
<1> DEFINE l == Len(deliveries)
<1>0. TokensInOrder /\ CallbacksSeen /\ Passed /\ Found /\ AllKept
  BY DEF IInv
<1>1. /\ l \in Nat \ {0} /\ m_callback_index' = 0
      /\ deliveries' = SubSeq(deliveries, 1, l - 1)
      /\ UNCHANGED <<m_callbacks, m_have_callbacks, m_sg_version, m_previous_rows, running, m_changes>>
  BY Elements DEF EndCalls, Innermost
<1>2. deliveries' \in Seq(Delivery) /\ Len(deliveries') = l - 1
  <2>1. l - 1 \in Nat /\ Len(deliveries) = (l - 1) + 1 /\ deliveries \in Seq(Delivery)
    BY <1>1, Elements
  <2>2. SubSeq(deliveries, 1, l - 1) \in Seq(Delivery) /\ Len(SubSeq(deliveries, 1, l - 1)) = l - 1
    <3> HIDE DEF l
    <3> QED
      BY <2>1, Shortened, Zenon
  <2> QED
    BY <1>1, <2>2, Zenon
<1>3. deliveries' = <<>> <=> l = 1
  <2>1. l - 1 = 0 <=> l = 1
    BY <1>1
  <2>2. deliveries' = <<>> <=> Len(deliveries') = 0
    BY <1>2, EmptySeq
  <2> QED
    BY <1>2, <2>1, <2>2, Zenon
<1>4. Types'
  <2>1. 0 \in 0 .. Len(m_callbacks)
    BY Elements
  <2> QED
    BY <1>1, <1>2, <2>1, Zenon DEF Types
<1>5. TokensInOrder' /\ CallbacksSeen'
  BY <1>0, <1>1, Zenon DEF TokensInOrder, CallbacksSeen
<1>6. ASSUME l = 1, NEW k \in DOMAIN m_callbacks
      PROVE  m_callbacks[k].changes_to_deliver = {}
  <2>1. CASE k > m_callback_index
    <3>1. ~ToCall(k)
      BY <2>1, Zenon DEF EndCalls
    <3> QED
      BY <3>1, Zenon DEF ToCall
  <2>2. CASE k \in 1 .. m_callback_index
    BY <1>0, <1>6, <2>2 DEF Passed, l
  <2> QED
    <3>1. k > m_callback_index \/ k \in 1 .. m_callback_index
      BY Elements DEF Types
    <3> QED
      BY <2>1, <2>2, <3>1
<1> HIDE DEF l
<1>7. Passed'
  BY <1>1, <1>2, <1>3, <1>6 DEF Passed
<1>8. Found'
  BY <1>0, <1>1, Zenon DEF Found, has_run
<1>9. AllKept'
  <2> SUFFICES ASSUME NEW k \in DOMAIN m_callbacks, Promised(k)
               PROVE  NoneLeftOut' /\ KeptFor(k)'
    BY <1>1, Zenon DEF AllKept, Promised
  <2>1. NoneLeftOut /\ KeptFor(k)
    BY <1>0, Zenon DEF AllKept
  <2>2. NoneLeftOut'
    BY <1>1, <2>1, Zenon DEF NoneLeftOut, has_run
  <2>3. l <= 1
    BY <2>1, Zenon DEF KeptFor, l
  <2>4. l = 1
    BY <1>1, <2>3
  <2> DEFINE v == deliveries[1].version
             c == m_callbacks[k]
  <2>5. /\ v \in 1 .. m_sg_version /\ c.accumulated_changes = v + 1 .. m_sg_version
        /\ c.initial_delivered =>
             c.first \in 1 .. v /\ c.told \cup c.changes_to_deliver = c.first + 1 .. v
        /\ ~c.initial_delivered => c.told = {} /\ c.first = 0
    BY <2>1, <2>4, Zenon DEF KeptFor, l
  <2>6. c.changes_to_deliver = {}
    BY <1>6, <2>4
  <2>7. m_callbacks'[k] = c /\ m_sg_version' = m_sg_version /\ m_sg_version \in Nat
    BY <1>1 DEF Types
  <2> HIDE DEF v, c
  <2>8. ASSUME c.initial_delivered
        PROVE  /\ c.first \in 1 .. m_sg_version
               /\ c.told \cup c.accumulated_changes = c.first + 1 .. m_sg_version
    <3>1. c.first \in 1 .. v /\ c.told \cup c.changes_to_deliver = c.first + 1 .. v
      BY <2>5, <2>8, Zenon
    <3>2. c.told = c.first + 1 .. v
      BY <2>6, <3>1
    <3>3. /\ c.first \in Nat /\ v \in Nat /\ c.first <= v /\ v <= m_sg_version
          /\ c.first \in 1 .. m_sg_version
      BY <2>5, <2>7, <3>1
    <3>4. (c.first + 1 .. v) \cup (v + 1 .. m_sg_version) = c.first + 1 .. m_sg_version
      BY <2>7, <3>3, Joined
    <3> QED
      BY <2>5, <3>2, <3>3, <3>4
  <2>9. Len(deliveries') <= 1 /\ Len(deliveries') # 1
    BY <1>2, <2>4
  <2> QED
    BY <2>2, <2>5, <2>7, <2>8, <2>9, Zenon DEF KeptFor
<1> QED
  BY <1>4, <1>5, <1>7, <1>8, <1>9 DEF IInv

-----------------------------------------------------------------------------
(* The worker                                                              *)

LEMMA RunStep ==
  ASSUME Types, IInv, NEW v \in m_sg_version .. m_sg_version + 1, NEW wanted \in BOOLEAN,
         run(v, wanted)
  PROVE  Types' /\ IInv'
<1>0. TokensInOrder /\ CallbacksSeen /\ Passed /\ Found /\ AllKept
  BY DEF IInv
<1>1. /\ running = 0 /\ v # 0 /\ running' = v
      /\ UNCHANGED <<m_callbacks, m_callback_index, m_have_callbacks, deliveries, m_sg_version>>
  BY DEF run
<1>2. /\ m_sg_version \in Nat /\ m_previous_rows \in Nat /\ v \in Nat
      /\ m_changes = {} /\ m_previous_rows <= m_sg_version
  BY <1>0, <1>1 DEF Found, Types
<1>3. \/ /\ m_previous_rows' = v
         /\ m_changes' = IF has_run THEN m_previous_rows + 1 .. v ELSE {}
      \/ UNCHANGED <<m_previous_rows, m_changes>> /\ ((m_have_callbacks \/ wanted) => m_previous_rows = v)
  BY DEF run
<1>4. Types'
  <2>1. m_changes' \in SUBSET Nat /\ m_previous_rows' \in Nat
    BY <1>2, <1>3 DEF has_run
  <2> QED
    BY <1>1, <1>2, <2>1, Zenon DEF Types
<1>5. TokensInOrder' /\ CallbacksSeen' /\ Passed'
  BY <1>0, <1>1, Zenon DEF TokensInOrder, CallbacksSeen, Passed
<1>6. Found'
  <2>1. m_previous_rows' = v \/ (m_previous_rows' <= m_sg_version /\ m_changes' = {})
    BY <1>2, <1>3
  <2>2. ASSUME m_previous_rows' = v, has_run
        PROVE  \E p \in 0 .. m_sg_version : m_changes' = p + 1 .. v
    <3>1. CASE m_changes' = m_previous_rows + 1 .. v
      <4>1. m_previous_rows \in 0 .. m_sg_version
        BY <1>2
      <4> QED
        BY <3>1, <4>1
    <3>2. CASE UNCHANGED <<m_previous_rows, m_changes>>
      <4>1. v = m_sg_version
        BY <1>2, <2>2, <3>2
      <4>2. m_changes' = m_sg_version + 1 .. v /\ m_sg_version \in 0 .. m_sg_version
        BY <1>2, <3>2, <4>1
      <4> QED
        BY <4>2
    <3> QED
      BY <1>3, <2>2, <3>1, <3>2
  <2>3. ~has_run => m_changes' = {}
    BY <1>2, <1>3
  <2> QED
    BY <1>1, <2>1, <2>2, <2>3 DEF Found, has_run
<1>7. AllKept'
  <2> SUFFICES ASSUME NEW k \in DOMAIN m_callbacks, Promised(k)
               PROVE  NoneLeftOut' /\ KeptFor(k)'
    BY <1>1, Zenon DEF AllKept, Promised
  <2>1. NoneLeftOut /\ KeptFor(k)
    BY <1>0, Zenon DEF AllKept
  <2>2. KeptFor(k)'
    BY <1>1, <2>1, Zenon DEF KeptFor
  <2>3. m_have_callbacks
    <3>1. m_callbacks # <<>>
      BY Elements
    <3> QED
      BY <1>0, <3>1, Zenon DEF CallbacksSeen
  <2>4. m_previous_rows = m_sg_version
    BY <1>1, <2>1, Zenon DEF NoneLeftOut
  <2>5. m_previous_rows' = v
    BY <1>3, <2>3
  <2>6. has_run => m_changes' = m_sg_version + 1 .. v
    <3>1. CASE m_previous_rows = v
      <4>1. m_sg_version + 1 .. v = {}
        BY <1>2, <2>4, <3>1
      <4> QED
        BY <1>2, <1>3, <2>4, <4>1
    <3>2. CASE m_previous_rows # v
      BY <1>3, <2>3, <2>4, <3>2
    <3> QED
      BY <3>1, <3>2
  <2>7. NoneLeftOut'
    BY <1>1, <2>5, <2>6 DEF NoneLeftOut, has_run
  <2> QED
    BY <2>2, <2>7
<1> QED
  BY <1>4, <1>5, <1>6, <1>7 DEF IInv

LEMMA HandingOver ==
  ASSUME Types, prepare_handover
  PROVE  /\ m_callbacks' \in Seq(Callback) /\ DOMAIN m_callbacks' = DOMAIN m_callbacks
         /\ Len(m_callbacks') = Len(m_callbacks)
         /\ \A k \in DOMAIN m_callbacks :
              /\ m_callbacks'[k].token = m_callbacks[k].token
              /\ m_callbacks'[k].exempt = m_callbacks[k].exempt
              /\ m_callbacks'[k].initial_delivered = m_callbacks[k].initial_delivered
              /\ m_callbacks'[k].told = m_callbacks[k].told
              /\ m_callbacks'[k].first = m_callbacks[k].first
              /\ m_callbacks'[k].changes_to_deliver = m_callbacks[k].changes_to_deliver
              /\ m_callbacks'[k].accumulated_changes =
                   m_callbacks[k].accumulated_changes \cup m_changes
<1> DEFINE new(k) == [m_callbacks[k] EXCEPT !.accumulated_changes = @ \cup m_changes]
<1>1. m_callbacks' = [k \in DOMAIN m_callbacks |-> new(k)]
  BY DEF prepare_handover
<1>2. ASSUME NEW k \in DOMAIN m_callbacks
      PROVE  /\ new(k) \in Callback
             /\ new(k).token = m_callbacks[k].token /\ new(k).exempt = m_callbacks[k].exempt
             /\ new(k).initial_delivered = m_callbacks[k].initial_delivered
             /\ new(k).told = m_callbacks[k].told /\ new(k).first = m_callbacks[k].first
             /\ new(k).changes_to_deliver = m_callbacks[k].changes_to_deliver
             /\ new(k).accumulated_changes = m_callbacks[k].accumulated_changes \cup m_changes
  BY Elements DEF Callback, Types
<1> HIDE DEF new
<1>3. DOMAIN m_callbacks' = DOMAIN m_callbacks /\ \A k \in DOMAIN m_callbacks : m_callbacks'[k] = new(k)
  BY <1>1
<1>4. m_callbacks' \in Seq(Callback) /\ Len(m_callbacks') = Len(m_callbacks)
  BY <1>1, <1>2, <1>3, InPlace
<1> QED
  BY <1>2, <1>3, <1>4

LEMMA HandoverStep ==
  ASSUME Types, IInv, prepare_handover
  PROVE  Types' /\ IInv'
<1>0. TokensInOrder /\ CallbacksSeen /\ Passed /\ Found /\ AllKept
  BY DEF IInv
<1>1. /\ running # 0 /\ m_sg_version' = running /\ running' = 0 /\ m_changes' = {}
      /\ UNCHANGED <<m_callback_index, m_have_callbacks, deliveries, m_previous_rows>>
  BY DEF prepare_handover
<1>2. /\ m_sg_version \in Nat /\ running \in m_sg_version .. m_sg_version + 1 /\ running \in Nat
      /\ m_previous_rows = running \/ m_previous_rows <= m_sg_version
      /\ m_previous_rows \in Nat
  BY <1>0, <1>1 DEF Found, Types
<1>3. Types'
  <2>1. m_changes' \in SUBSET Nat /\ m_sg_version' \in Nat /\ running' \in Nat
    BY <1>1, <1>2
  <2> QED
    BY <1>1, <2>1, HandingOver, Zenon DEF Types
<1>4. TokensInOrder'
  BY <1>0, HandingOver, Zenon DEF TokensInOrder
<1>5. CallbacksSeen'
  BY <1>0, <1>1, HandingOver, EmptySeq, Elements DEF CallbacksSeen
<1>6. Passed'
  <2>1. \A k \in 1 .. m_callback_index : k \in DOMAIN m_callbacks
    BY Elements DEF Types
  <2> QED
    BY <1>0, <1>1, <2>1, HandingOver, Zenon DEF Passed
<1>7. Found'
  BY <1>1, <1>2 DEF Found, has_run
<1>8. AllKept'
  <2> SUFFICES ASSUME NEW k \in DOMAIN m_callbacks, Promised(k)
               PROVE  NoneLeftOut' /\ KeptFor(k)'
    BY HandingOver, Zenon DEF AllKept, Promised
  <2>1. NoneLeftOut /\ KeptFor(k)
    BY <1>0, Zenon DEF AllKept
  <2>2. m_previous_rows = running /\ (has_run => m_changes = m_sg_version + 1 .. running)
    BY <1>1, <2>1 DEF NoneLeftOut
  <2>3. NoneLeftOut'
    BY <1>1, <2>2 DEF NoneLeftOut
  <2> DEFINE c == m_callbacks[k]
             d == m_callbacks'[k]
             v == deliveries[1].version
  <2>4. /\ d.initial_delivered = c.initial_delivered /\ d.told = c.told /\ d.first = c.first
        /\ d.changes_to_deliver = c.changes_to_deliver
        /\ d.accumulated_changes = c.accumulated_changes \cup m_changes
    BY HandingOver, Zenon
  <2>5. /\ Len(deliveries) <= 1
        /\ ~c.initial_delivered => c.told = {} /\ c.first = 0
        /\ deliveries = <<>> /\ c.initial_delivered =>
             /\ c.first \in 1 .. m_sg_version
             /\ c.told \cup c.accumulated_changes = c.first + 1 .. m_sg_version
        /\ Len(deliveries) = 1 =>
             /\ v \in 1 .. m_sg_version /\ c.accumulated_changes = v + 1 .. m_sg_version
             /\ c.initial_delivered =>
                  c.first \in 1 .. v /\ c.told \cup c.changes_to_deliver = c.first + 1 .. v
    BY <2>1, Zenon DEF KeptFor
  <2>6. ~d.initial_delivered => d.told = {} /\ d.first = 0
    BY <2>4, <2>5, Zenon
  <2> HIDE DEF c, d, v
  <2>7. ASSUME deliveries = <<>>, d.initial_delivered
        PROVE  /\ d.first \in 1 .. running
               /\ d.told \cup d.accumulated_changes = d.first + 1 .. running
    <3>1. /\ c.first \in 1 .. m_sg_version
          /\ c.told \cup c.accumulated_changes = c.first + 1 .. m_sg_version
      BY <2>4, <2>5, <2>7, Zenon
    <3>2. m_changes = m_sg_version + 1 .. running
      BY <1>2, <2>2, <3>1 DEF has_run
    <3>3. /\ c.first \in Nat /\ c.first <= m_sg_version /\ m_sg_version <= running
          /\ c.first \in 1 .. running
      BY <1>2, <3>1
    <3>4. (c.first + 1 .. m_sg_version) \cup (m_sg_version + 1 .. running) = c.first + 1 .. running
      BY <1>2, <3>3, Joined
    <3>5. d.told \cup d.accumulated_changes = (c.told \cup c.accumulated_changes) \cup m_changes
      BY <2>4
    <3> QED
      BY <2>4, <3>1, <3>2, <3>3, <3>4, <3>5
  <2>8. ASSUME Len(deliveries) = 1
        PROVE  /\ v \in 1 .. running /\ d.accumulated_changes = v + 1 .. running
               /\ d.initial_delivered =>
                    d.first \in 1 .. v /\ d.told \cup d.changes_to_deliver = d.first + 1 .. v
    <3>1. v \in 1 .. m_sg_version /\ c.accumulated_changes = v + 1 .. m_sg_version
      BY <2>5, <2>8, Zenon
    <3>2. m_changes = m_sg_version + 1 .. running
      BY <1>2, <2>2, <3>1 DEF has_run
    <3>3. v \in Nat /\ v <= m_sg_version /\ m_sg_version <= running /\ v \in 1 .. running
      BY <1>2, <3>1
    <3>4. (v + 1 .. m_sg_version) \cup (m_sg_version + 1 .. running) = v + 1 .. running
      BY <1>2, <3>3, Joined
    <3>5. d.accumulated_changes = v + 1 .. running
      BY <2>4, <3>1, <3>2, <3>4
    <3>6. d.initial_delivered =>
            d.first \in 1 .. v /\ d.told \cup d.changes_to_deliver = d.first + 1 .. v
      BY <2>4, <2>5, <2>8, Zenon
    <3> QED
      BY <3>3, <3>5, <3>6
  <2> QED
    BY <1>1, <2>3, <2>5, <2>6, <2>7, <2>8, Zenon DEF KeptFor, d, v
<1> QED
  BY <1>3, <1>4, <1>5, <1>6, <1>7, <1>8 DEF IInv

-----------------------------------------------------------------------------
(* Theorems                                                                *)

LEMMA InitLemma == Init => Types /\ IInv
<1> SUFFICES ASSUME Init PROVE Types /\ IInv
  OBVIOUS
<1>1. /\ <<>> \in Seq(Callback) /\ <<>> \in Seq(Delivery) /\ Len(<<>>) = 0
      /\ DOMAIN <<>> = {}
  OBVIOUS
<1>2. Types
  <2>1. m_callback_index \in 0 .. Len(m_callbacks)
    BY <1>1 DEF Init
  <2>2. {} \in SUBSET Nat /\ 0 \in Nat /\ FALSE \in BOOLEAN
    OBVIOUS
  <2> QED
    BY <1>1, <2>1, <2>2, Zenon DEF Init, Types
<1>3. TokensInOrder /\ CallbacksSeen /\ AllKept
  BY <1>1 DEF Init, TokensInOrder, CallbacksSeen, AllKept
<1>4. Passed /\ Found
  BY <1>1 DEF Init, Passed, Found, has_run
<1> QED
  BY <1>2, <1>3, <1>4 DEF IInv

LEMMA StepLemma == Types /\ IInv /\ [Next]_vars => Types' /\ IInv'
<1> SUFFICES ASSUME Types, IInv, [Next]_vars PROVE Types' /\ IInv'
  OBVIOUS
<1>1. CASE add_callback
  BY <1>1, AddStep
<1>2. ASSUME NEW k \in DOMAIN m_callbacks, remove_callback(k) PROVE Types' /\ IInv'
  BY <1>2, RemoveStep
<1>3. ASSUME NEW k \in DOMAIN m_callbacks, CallCallback(k) PROVE Types' /\ IInv'
  BY <1>3, CallStep
<1>4. CASE package_for_delivery
  BY <1>4, PackageStep
<1>5. CASE EndCalls
  BY <1>5, EndStep
<1>6. ASSUME NEW v \in m_sg_version .. m_sg_version + 1, NEW wanted \in BOOLEAN, run(v, wanted)
      PROVE  Types' /\ IInv'
  BY <1>6, RunStep
<1>7. CASE prepare_handover
  BY <1>7, HandoverStep
<1>8. CASE UNCHANGED vars
  BY <1>8, Zenon DEF vars, Types, IInv, TokensInOrder, CallbacksSeen, Passed, Found, AllKept, Promised,
     NoneLeftOut, KeptFor, has_run
<1> QED
  BY <1>1, <1>2, <1>3, <1>4, <1>5, <1>6, <1>7, <1>8, Zenon DEF Next

LEMMA Holds == Spec => [](Types /\ IInv)
  BY InitLemma, StepLemma, PTL DEF Spec

\* The tokens of the callbacks that are registered are told apart and in order:
\* next_token is past all that are in use (collection_notifier.cpp:169-181),
\* and a removal erases one without moving the others past each other
\* (collection_notifier.cpp:183-215).
THEOREM TokensAreInOrder == Spec => []TokensInOrder
<1>1. Types /\ IInv => TokensInOrder
  BY DEF IInv
<1> QED
  BY <1>1, Holds, PTL

\* m_have_callbacks, which the worker reads without the mutex, is TRUE while a
\* callback is registered: it is set or left alone by an addition
\* (collection_notifier.cpp:169-181) and only reset with the last removal
\* (collection_notifier.cpp:183-215).
THEOREM CallbacksAreSeen == Spec => []CallbacksSeen
<1>1. Types /\ IInv => CallbacksSeen
  BY DEF IInv
<1> QED
  BY <1>1, Holds, PTL

\* A delivery that ends leaves nothing packaged, although callbacks are added,
\* removed and called in nested deliveries while it runs: the index that the
\* loop goes on from is moved by the removals (collection_notifier.cpp:183-215,
\* 313-328, 352-373).
THEOREM AllIsDelivered == Spec => []AllDelivered
<1>1. Types /\ IInv => AllDelivered
  BY Zenon DEF IInv, Passed, AllDelivered
<1> QED
  BY <1>1, Holds, PTL

\* A callback that was not added in a call or late, and not in a nested
\* delivery, is given exactly the versions since its first call: those the
\* worker found (collection_notifier.cpp:283-295, 390-405) go through what is
\* accumulated and packaged (collection_notifier.cpp:352-360) to the call
\* (collection_notifier.cpp:313-328), none is lost and none is of before.
THEOREM EachIsToldSinceFirst == Spec => []ToldSinceFirst
<1>1. Types /\ IInv => ToldSinceFirst
  <2> SUFFICES ASSUME Types, IInv, NEW k \in DOMAIN m_callbacks,
                      m_callbacks[k].initial_delivered, Promised(k)
               PROVE  Given(m_callbacks[k]) = m_callbacks[k].first + 1 .. m_sg_version
    BY Zenon DEF ToldSinceFirst, Promised
  <2> DEFINE c == m_callbacks[k]
             v == deliveries[1].version
  <2>1. Passed /\ KeptFor(k)
    BY Zenon DEF IInv, AllKept
  <2>2. m_sg_version \in Nat
    BY DEF Types
  <2>3. Len(deliveries) = 0 \/ Len(deliveries) = 1
    <3>1. Len(deliveries) <= 1
      BY <2>1, Zenon DEF KeptFor
    <3> QED
      BY <3>1, Elements
  <2>4. CASE Len(deliveries) = 0
    <3>1. deliveries = <<>>
      BY <2>4, Elements
    <3>2. /\ c.changes_to_deliver = {}
          /\ c.told \cup c.accumulated_changes = c.first + 1 .. m_sg_version
      BY <2>1, <3>1, Zenon DEF KeptFor, Passed
    <3> QED
      BY <3>2 DEF Given
  <2>5. CASE Len(deliveries) = 1
    <3>1. /\ v \in 1 .. m_sg_version /\ c.accumulated_changes = v + 1 .. m_sg_version
          /\ c.first \in 1 .. v /\ c.told \cup c.changes_to_deliver = c.first + 1 .. v
      BY <2>1, <2>5, Zenon DEF KeptFor
    <3> HIDE DEF c, v
    <3>2. c.first \in Nat /\ v \in Nat /\ c.first <= v /\ v <= m_sg_version
      BY <2>2, <3>1
    <3>3. (c.first + 1 .. v) \cup (v + 1 .. m_sg_version) = c.first + 1 .. m_sg_version
      BY <2>2, <3>2, Joined
    <3>4. Given(c) = (c.told \cup c.changes_to_deliver) \cup c.accumulated_changes
      BY DEF Given
    <3>5. Given(c) = c.first + 1 .. m_sg_version
      BY <3>1, <3>3, <3>4
    <3> QED
      BY <3>5 DEF c
  <2> QED
    BY <2>3, <2>4, <2>5
<1> QED
  BY <1>1, Holds, PTL

-----------------------------------------------------------------------------
(* The search through links is a function of the levels left: what it      *)
(* answers is shown by induction over them.                                *)

LEMMA Sizes == PathSize \in Nat \ {0} /\ Len(Columns) \in Nat /\ DOMAIN Columns = 1 .. Len(Columns)
BY DeepBounds

-----------------------------------------------------------------------------
(* The rows within a number of links                                       *)

RowLinks == [DOMAIN Columns -> Seq(RowNumbers)]
Linked == links \in [RowNumbers -> RowLinks] /\ modified \subseteq RowNumbers

LEMMA LinkedRows ==
  ASSUME Linked, NEW row \in RowNumbers
  PROVE  /\ LinkedTo(row) \subseteq RowNumbers
         /\ \A r : r \in LinkedTo(row)
                     <=> \E col \in DOMAIN Columns :
                           \E n \in DOMAIN links[row][col] : r = links[row][col][n]
<1>1. \A col \in DOMAIN Columns : links[row][col] \in Seq(RowNumbers)
  BY DEF Linked, RowLinks
<1>2. \A col \in DOMAIN Columns : \A n \in DOMAIN links[row][col] :
        links[row][col][n] \in RowNumbers
  <2>1. ASSUME NEW q \in Seq(RowNumbers), NEW n \in DOMAIN q
        PROVE  q[n] \in RowNumbers
    OBVIOUS
  <2> QED
    BY <1>1, <2>1
<1>3. \A r : r \in LinkedTo(row)
               <=> \E col \in DOMAIN Columns :
                     \E n \in DOMAIN links[row][col] : r = links[row][col][n]
  BY DEF LinkedTo, ToSet
<1> QED
  BY <1>2, <1>3

\* The rows within one more link, given those within some.
Further(w) == [row \in RowNumbers |-> {row} \cup UNION {w[r] : r \in LinkedTo(row)}]

LEMMA WithinNext ==
  ASSUME Linked
  PROVE  /\ Within[0] = [row \in RowNumbers |-> {row}]
         /\ \A n \in 1 .. PathSize : Within[n] = Further(Within[n - 1])
         /\ \A n \in 0 .. PathSize : Within[n] \in [RowNumbers -> SUBSET RowNumbers]
<1> DEFINE N == PathSize
           V == [RowNumbers -> SUBSET RowNumbers]
           self == [row \in RowNumbers |-> {row}]
           F == [p \in V \X (1 .. N) |-> Further(p[1])]
           Rec(f) == f = [n \in 0 .. N |->
                           [row \in RowNumbers |->
                             IF n = 0 THEN {row}
                             ELSE {row} \cup UNION {f[n - 1][r] : r \in LinkedTo(row)}]]
           w == CHOOSE f : Rec(f)
<1>1. N \in Nat
  BY Sizes
<1>2. self \in V
  OBVIOUS
<1>3. ASSUME NEW v \in V
      PROVE  Further(v) \in V
  <2>1. \A row \in RowNumbers : LinkedTo(row) \subseteq RowNumbers
    BY LinkedRows
  <2>2. \A row \in RowNumbers : {row} \cup UNION {v[r] : r \in LinkedTo(row)} \in SUBSET RowNumbers
    BY <2>1
  <2> QED
    BY <2>2 DEF Further
<1>4. F \in [V \X (1 .. N) -> V]
  <2> HIDE DEF V, N
  <2> QED
    BY <1>3
<1>5. Recursive(N, V, self, F) # {}
  <2> HIDE DEF F, V, N, self
  <2> QED
    BY <1>1, <1>2, <1>4, Recursion, Zenon
<1>6. PICK f \in [0 .. N -> V] :
             f[0] = self /\ \A k \in 1 .. N : f[k] = F[<<f[k - 1], k>>]
  <2> HIDE DEF F, V, N, self
  <2> QED
    BY <1>5 DEF Recursive
<1>7. ASSUME NEW k \in 1 .. N
      PROVE  f[k] = Further(f[k - 1])
  <2>1. k - 1 \in 0 .. N
    BY <1>1
  <2>2. <<f[k - 1], k>> \in V \X (1 .. N)
    BY <2>1
  <2> HIDE DEF V, N
  <2> QED
    BY <1>6, <2>2
<1>8. Rec(f)
  <2>1. f = [n \in 0 .. N |-> f[n]]
    BY <1>6
  <2>2. ASSUME NEW n \in 0 .. N
        PROVE  f[n] = [row \in RowNumbers |->
                        IF n = 0 THEN {row}
                        ELSE {row} \cup UNION {f[n - 1][r] : r \in LinkedTo(row)}]
    <3>1. CASE n = 0
      BY <1>6, <3>1
    <3>2. CASE n # 0
      <4>1. n \in 1 .. N
        BY <1>1, <3>2
      <4> HIDE DEF N
      <4> QED
        BY <1>7, <3>2, <4>1 DEF Further
    <3> QED
      BY <3>1, <3>2
  <2> HIDE DEF N, V
  <2> QED
    BY <2>1, <2>2
<1>9. Rec(w)
  <2> HIDE DEF Rec
  <2> QED
    BY <1>8
<1>10. w[0] = self /\ \A k \in 1 .. N : w[k] = Further(w[k - 1])
  <2>1. 0 \in 0 .. N /\ \A k \in 1 .. N : k \in 0 .. N /\ k # 0
    BY <1>1
  <2>2. w[0] = self
    <3> HIDE DEF w, N
    <3> QED
      BY <1>9, <2>1
  <2>3. ASSUME NEW k \in 1 .. N
        PROVE  w[k] = Further(w[k - 1])
    <3> HIDE DEF w, N
    <3> QED
      BY <1>9, <2>1 DEF Further
  <2> QED
    BY <2>2, <2>3
<1>11. Within = w
  BY DEF Within
<1> HIDE DEF w, self, N
<1> DEFINE P == {n \in 0 .. N : w[n] \in V}
<1>12. 0 \in P
  BY <1>1, <1>2, <1>10
<1>13. ASSUME NEW n \in 0 .. N - 1, n \in P
       PROVE  n + 1 \in P
  <2>1. n + 1 \in 1 .. N /\ n + 1 \in 0 .. N /\ (n + 1) - 1 = n
    BY <1>1
  <2>2. w[n + 1] = Further(w[n])
    BY <1>10, <2>1
  <2> HIDE DEF V
  <2> QED
    BY <1>3, <1>13, <2>1, <2>2
<1>14. \A n \in 0 .. N : n \in P
  <2> HIDE DEF P
  <2> QED
    BY <1>1, <1>12, <1>13, Induction
<1> QED
  BY <1>10, <1>11, <1>14 DEF N, self

LEMMA WithinRow ==
  ASSUME Linked, NEW row \in RowNumbers
  PROVE  /\ Within[0][row] = {row}
         /\ \A n \in 1 .. PathSize :
              Within[n][row] = {row} \cup UNION {Within[n - 1][r] : r \in LinkedTo(row)}
         /\ \A n \in 0 .. PathSize : Within[n][row] \subseteq RowNumbers /\ row \in Within[n][row]
<1>1. Within[0][row] = {row}
  BY WithinNext
<1>2. ASSUME NEW n \in 1 .. PathSize
      PROVE  Within[n][row] = {row} \cup UNION {Within[n - 1][r] : r \in LinkedTo(row)}
  BY WithinNext DEF Further
<1>3. ASSUME NEW n \in 0 .. PathSize
      PROVE  Within[n][row] \subseteq RowNumbers /\ row \in Within[n][row]
  <2>1. Within[n][row] \subseteq RowNumbers
    BY WithinNext
  <2>2. CASE n = 0
    BY <1>1, <2>1, <2>2
  <2>3. CASE n # 0
    <3>1. n \in 1 .. PathSize
      BY Sizes, <2>3
    <3> QED
      BY <1>2, <2>1, <3>1
  <2> QED
    BY <2>2, <2>3
<1> QED
  BY <1>1, <1>2, <1>3

LEMMA WithinGrowsByOne ==
  ASSUME Linked, NEW n \in 0 .. PathSize - 1, NEW row \in RowNumbers
  PROVE  Within[n][row] \subseteq Within[n + 1][row]
<1> DEFINE P == {m \in 0 .. PathSize - 1 :
                  \A r \in RowNumbers : Within[m][r] \subseteq Within[m + 1][r]}
<1>1. PathSize - 1 \in Nat /\ PathSize \in Nat
  BY Sizes
<1>2. 0 \in P
  <2>1. 0 + 1 \in 0 .. PathSize
    BY <1>1
  <2>2. \A r \in RowNumbers : Within[0][r] = {r} /\ r \in Within[0 + 1][r]
    BY <2>1, WithinRow
  <2> QED
    BY <1>1, <2>2
<1>3. ASSUME NEW m \in 0 .. PathSize - 1 - 1, m \in P
      PROVE  m + 1 \in P
  <2>1. /\ m + 1 \in 1 .. PathSize /\ (m + 1) + 1 \in 1 .. PathSize
        /\ m + 1 \in 0 .. PathSize - 1 /\ (m + 1) - 1 = m /\ ((m + 1) + 1) - 1 = m + 1
    BY <1>1
  <2>2. ASSUME NEW r \in RowNumbers
        PROVE  Within[m + 1][r] \subseteq Within[(m + 1) + 1][r]
    <3>1. /\ Within[m + 1][r] = {r} \cup UNION {Within[m][q] : q \in LinkedTo(r)}
          /\ Within[(m + 1) + 1][r] = {r} \cup UNION {Within[m + 1][q] : q \in LinkedTo(r)}
      BY <2>1, WithinRow
    <3>2. \A q \in LinkedTo(r) : Within[m][q] \subseteq Within[m + 1][q]
      BY <1>3, LinkedRows
    <3> QED
      BY <3>1, <3>2
  <2> QED
    BY <2>1, <2>2
<1>4. \A m \in 0 .. PathSize - 1 : m \in P
  <2> HIDE DEF P
  <2> QED
    BY <1>1, <1>2, <1>3, Induction
<1> QED
  BY <1>4

LEMMA WithinGrows ==
  ASSUME Linked, NEW n \in 0 .. PathSize, NEW m \in n .. PathSize, NEW row \in RowNumbers
  PROVE  Within[n][row] \subseteq Within[m][row]
<1> DEFINE P == {i \in 0 .. PathSize - n : Within[n][row] \subseteq Within[n + i][row]}
<1>1. PathSize - n \in Nat /\ PathSize \in Nat /\ n \in Nat
  BY Sizes
<1>2. 0 \in P
  BY <1>1
<1>3. ASSUME NEW i \in 0 .. PathSize - n - 1, i \in P
      PROVE  i + 1 \in P
  <2>1. n + i \in 0 .. PathSize - 1 /\ (n + i) + 1 = n + (i + 1) /\ i + 1 \in 0 .. PathSize - n
    BY <1>1
  <2>2. Within[n + i][row] \subseteq Within[n + (i + 1)][row]
    BY <2>1, WithinGrowsByOne
  <2> QED
    BY <1>3, <2>1, <2>2
<1>4. \A i \in 0 .. PathSize - n : i \in P
  <2> HIDE DEF P
  <2> QED
    BY <1>1, <1>2, <1>3, Induction
<1>5. m - n \in 0 .. PathSize - n /\ n + (m - n) = m
  BY <1>1
<1> QED
  BY <1>4, <1>5

\* One more link at the end of a chain.
LEMMA WithinExtended ==
  ASSUME Linked, NEW n \in 0 .. PathSize - 1, NEW row \in RowNumbers,
         NEW last \in Within[n][row], NEW next \in LinkedTo(last)
  PROVE  next \in Within[n + 1][row]
<1> DEFINE P == {m \in 0 .. PathSize - 1 :
                  \A r \in RowNumbers : \A l \in Within[m][r] :
                    LinkedTo(l) \subseteq Within[m + 1][r]}
<1>1. PathSize - 1 \in Nat /\ PathSize \in Nat
  BY Sizes
<1>2. 0 \in P
  <2>1. 0 + 1 \in 1 .. PathSize /\ (0 + 1) - 1 = 0
    BY <1>1
  <2>2. ASSUME NEW r \in RowNumbers, NEW l \in Within[0][r], NEW x \in LinkedTo(l)
        PROVE  x \in Within[0 + 1][r]
    <3>1. l = r
      BY WithinRow
    <3>2. x \in RowNumbers
      BY <3>1, LinkedRows
    <3>3. /\ x \in Within[0][x]
          /\ Within[0 + 1][r] = {r} \cup UNION {Within[0][q] : q \in LinkedTo(r)}
      BY <2>1, <3>2, WithinRow
    <3> QED
      BY <3>1, <3>3
  <2> QED
    BY <1>1, <2>2
<1>3. ASSUME NEW m \in 0 .. PathSize - 1 - 1, m \in P
      PROVE  m + 1 \in P
  <2>1. /\ m + 1 \in 1 .. PathSize /\ (m + 1) + 1 \in 1 .. PathSize
        /\ m + 1 \in 0 .. PathSize - 1 /\ (m + 1) - 1 = m /\ ((m + 1) + 1) - 1 = m + 1
    BY <1>1
  <2>2. ASSUME NEW r \in RowNumbers, NEW l \in Within[m + 1][r], NEW x \in LinkedTo(l)
        PROVE  x \in Within[(m + 1) + 1][r]
    <3>1. /\ Within[m + 1][r] = {r} \cup UNION {Within[m][q] : q \in LinkedTo(r)}
          /\ Within[(m + 1) + 1][r] = {r} \cup UNION {Within[m + 1][q] : q \in LinkedTo(r)}
      BY <2>1, WithinRow
    <3>2. CASE l = r
      <4>1. x \in RowNumbers
        BY <3>2, LinkedRows
      <4>2. x \in Within[m + 1][x]
        BY <2>1, <4>1, WithinRow
      <4> QED
        BY <3>1, <3>2, <4>2
    <3>3. CASE l # r
      <4>1. PICK q \in LinkedTo(r) : l \in Within[m][q]
        BY <3>1, <3>3
      <4>2. x \in Within[m + 1][q]
        BY <1>3, <4>1, LinkedRows
      <4> QED
        BY <3>1, <4>2
    <3> QED
      BY <3>2, <3>3
  <2> QED
    BY <2>1, <2>2
<1>4. \A m \in 0 .. PathSize - 1 : m \in P
  <2> HIDE DEF P
  <2> QED
    BY <1>1, <1>2, <1>3, Induction
<1> QED
  BY <1>4

-----------------------------------------------------------------------------
(* The loops of a search                                                   *)

Searches == [Search -> [RowNumbers -> Search]]

LEMMA Typed ==
  ASSUME NEW s \in Search
  PROVE  s.ret \in BOOLEAN /\ s.memo \in SUBSET RowNumbers /\ s.path \in [1 .. PathSize -> Path]
BY DEF Search

LEMMA EnteredIs ==
  ASSUME NEW s \in Search, NEW row \in RowNumbers, NEW col \in 1 .. Len(Columns),
         NEW depth \in 0 .. PathSize - 1
  PROVE  /\ Entered(s, row, col, depth) \in Search
         /\ Entered(s, row, col, depth).ret = s.ret
         /\ Entered(s, row, col, depth).memo = s.memo
         /\ Entered(s, row, col, depth).path[depth + 1].row = row
         /\ \A p \in 1 .. depth : Entered(s, row, col, depth).path[p] = s.path[p]
<1>1. depth + 1 \in 1 .. PathSize /\ Len(Columns) \in Nat /\ col \in 0 .. Len(Columns)
  BY Sizes
<1>2. PICK e : e = [row |-> row, col |-> col, depth_exceeded |-> FALSE]
  OBVIOUS
<1>3. e \in Path /\ e.row = row
  BY <1>1, <1>2 DEF Path
<1>4. PICK q : q = [s.path EXCEPT ![depth + 1] = e]
  OBVIOUS
<1>5. /\ q \in [1 .. PathSize -> Path] /\ q[depth + 1] = e
      /\ \A p \in 1 .. depth : q[p] = s.path[p]
  <2>1. \A p \in 1 .. depth : p \in 1 .. PathSize /\ p # depth + 1
    BY <1>1, Sizes
  <2> QED
    BY <1>1, <1>3, <1>4, <2>1, Typed
<1>6. Entered(s, row, col, depth) = [s EXCEPT !.path = q]
  BY <1>2, <1>4 DEF Entered
<1>7. [s EXCEPT !.path = q] = [ret |-> s.ret, memo |-> s.memo, path |-> q]
  BY DEF Search
<1> QED
  BY <1>3, <1>5, <1>6, <1>7, Typed DEF Search

LEMMA ListSteps ==
  ASSUME NEW deeper \in Searches, NEW s \in Search, NEW targets \in Seq(RowNumbers)
  PROVE  \E a \in [0 .. Len(targets) -> Search] :
           /\ a[0] = s
           /\ \A n \in 1 .. Len(targets) : a[n] = NextLink(deeper, a[n - 1], targets[n])
           /\ check_list(deeper, s, targets) = a[Len(targets)]
<1> DEFINE N == Len(targets)
           F == [p \in Search \X (1 .. N) |-> NextLink(deeper, p[1], targets[p[2]])]
           Rec(f) == f = [n \in 0 .. N |->
                           IF n = 0 THEN s ELSE NextLink(deeper, f[n - 1], targets[n])]
           a == CHOOSE f : Rec(f)
<1>1. N \in Nat /\ \A n \in 1 .. N : targets[n] \in RowNumbers
  OBVIOUS
<1>2. ASSUME NEW t \in Search, NEW n \in 1 .. N
      PROVE  NextLink(deeper, t, targets[n]) \in Search
  <2>1. deeper[t][targets[n]] \in Search
    BY <1>1 DEF Searches
  <2> QED
    BY <2>1 DEF NextLink
<1>3. F \in [Search \X (1 .. N) -> Search]
  <2> HIDE DEF N
  <2> QED
    BY <1>2
<1>4. Recursive(N, Search, s, F) # {}
  <2> HIDE DEF F, N
  <2> QED
    BY <1>1, <1>3, Recursion, Zenon
<1>5. PICK f \in [0 .. N -> Search] :
             f[0] = s /\ \A k \in 1 .. N : f[k] = F[<<f[k - 1], k>>]
  <2> HIDE DEF F, N
  <2> QED
    BY <1>4 DEF Recursive
<1>6. ASSUME NEW k \in 1 .. N
      PROVE  f[k] = NextLink(deeper, f[k - 1], targets[k])
  <2>1. k - 1 \in 0 .. N
    BY <1>1
  <2>2. <<f[k - 1], k>> \in Search \X (1 .. N)
    BY <2>1
  <2> HIDE DEF N
  <2> QED
    BY <1>5, <2>2
<1>7. Rec(f)
  <2>1. f = [n \in 0 .. N |-> f[n]]
    BY <1>5
  <2>2. ASSUME NEW n \in 0 .. N
        PROVE  f[n] = IF n = 0 THEN s ELSE NextLink(deeper, f[n - 1], targets[n])
    <3>1. CASE n = 0
      BY <1>5, <3>1
    <3>2. CASE n # 0
      <4>1. n \in 1 .. N
        BY <1>1, <3>2
      <4> HIDE DEF N
      <4> QED
        BY <1>6, <3>2, <4>1
    <3> QED
      BY <3>1, <3>2
  <2> HIDE DEF N
  <2> QED
    BY <2>1, <2>2
<1>8. Rec(a)
  <2> HIDE DEF Rec
  <2> QED
    BY <1>7
<1>9. a[0] = s /\ \A n \in 1 .. N : a[n] = NextLink(deeper, a[n - 1], targets[n])
  <2>1. 0 \in 0 .. N /\ \A n \in 1 .. N : n \in 0 .. N /\ n # 0
    BY <1>1
  <2> HIDE DEF a, N
  <2> QED
    BY <1>8, <2>1
<1>10. DOMAIN a = 0 .. N /\ a = [n \in 0 .. N |-> a[n]]
  <2> HIDE DEF a, N
  <2> QED
    BY <1>8
<1>11. check_list(deeper, s, targets) = a[N]
  BY DEF check_list
<1> HIDE DEF a, N
<1> DEFINE P == {n \in 0 .. N : a[n] \in Search}
<1>12. 0 \in P
  BY <1>1, <1>9
<1>13. ASSUME NEW n \in 0 .. N - 1, n \in P
       PROVE  n + 1 \in P
  <2>1. n + 1 \in 1 .. N /\ n + 1 \in 0 .. N /\ (n + 1) - 1 = n
    BY <1>1
  <2>2. a[n + 1] = NextLink(deeper, a[n], targets[n + 1])
    BY <1>9, <2>1
  <2> QED
    BY <1>2, <1>13, <2>1, <2>2
<1>14. \A n \in 0 .. N : n \in P
  <2> HIDE DEF P
  <2> QED
    BY <1>1, <1>12, <1>13, Induction
<1>15. a \in [0 .. N -> Search]
  <2>1. \A n \in 0 .. N : a[n] \in Search
    BY <1>14
  <2> QED
    BY <1>10, <2>1
<1> QED
  BY <1>9, <1>11, <1>15 DEF N

LEMMA ListTyped ==
  ASSUME NEW deeper \in Searches, NEW s \in Search, NEW targets \in Seq(RowNumbers)
  PROVE  check_list(deeper, s, targets) \in Search
<1>1. PICK a \in [0 .. Len(targets) -> Search] :
             check_list(deeper, s, targets) = a[Len(targets)]
  BY ListSteps
<1>2. Len(targets) \in 0 .. Len(targets)
  OBVIOUS
<1> QED
  BY <1>1, <1>2

ColumnSearch == [search : Search, ends : BOOLEAN]

LEMMA ColumnTyped ==
  ASSUME NEW deeper \in Searches, NEW s \in Search, NEW row \in RowNumbers, Linked,
         NEW col \in 1 .. Len(Columns), NEW depth \in 0 .. PathSize - 1
  PROVE  /\ CheckColumn(deeper, s, row, col, depth) \in ColumnSearch
         /\ links[row][col] \in Seq(RowNumbers)
<1>1. links[row][col] \in Seq(RowNumbers)
  BY Sizes DEF Linked, RowLinks
<1>2. PICK t \in Search : t = check_list(deeper, Entered(s, row, col, depth), links[row][col])
  BY <1>1, EnteredIs, ListTyped
<1>3. PICK e \in BOOLEAN : e = (t.ret \/ (~Columns[col] /\ links[row][col] # <<>>))
  OBVIOUS
<1>4. CASE already_checking(s, row, col, depth)
  <2>1. CheckColumn(deeper, s, row, col, depth) = [search |-> s, ends |-> FALSE]
    BY <1>4 DEF CheckColumn
  <2> QED
    BY <1>1, <2>1 DEF ColumnSearch
<1>5. CASE ~already_checking(s, row, col, depth)
  <2>1. CheckColumn(deeper, s, row, col, depth) = [search |-> t, ends |-> e]
    BY <1>2, <1>3, <1>5 DEF CheckColumn
  <2> QED
    BY <1>1, <2>1 DEF ColumnSearch
<1> QED
  BY <1>4, <1>5

LEMMA ColumnSteps ==
  ASSUME NEW deeper \in Searches, NEW s \in Search, NEW row \in RowNumbers, Linked,
         NEW depth \in 0 .. PathSize - 1
  PROVE  \E a \in [0 .. Len(Columns) -> ColumnSearch] :
           /\ a[0] = [search |-> s, ends |-> FALSE]
           /\ \A n \in 1 .. Len(Columns) : a[n] = NextColumn(deeper, a[n - 1], row, n, depth)
           /\ check_outgoing_links(deeper, s, row, depth) = a[Len(Columns)].search
<1> DEFINE N == Len(Columns)
           b == [search |-> s, ends |-> FALSE]
           V == ColumnSearch
           F == [p \in V \X (1 .. N) |-> NextColumn(deeper, p[1], row, p[2], depth)]
           Rec(f) == f = [n \in 0 .. N |->
                           IF n = 0 THEN [search |-> s, ends |-> FALSE]
                           ELSE NextColumn(deeper, f[n - 1], row, n, depth)]
           a == CHOOSE f : Rec(f)
<1>1. N \in Nat /\ b \in V
  BY Sizes DEF ColumnSearch
<1>2. ASSUME NEW c \in V, NEW n \in 1 .. N
      PROVE  NextColumn(deeper, c, row, n, depth) \in V
  <2>1. c.search \in Search
    BY DEF ColumnSearch
  <2>2. CheckColumn(deeper, c.search, row, n, depth) \in ColumnSearch
    BY <2>1, ColumnTyped
  <2> QED
    BY <2>2 DEF NextColumn
<1>3. F \in [V \X (1 .. N) -> V]
  <2> HIDE DEF N, V
  <2> QED
    BY <1>2
<1>4. Recursive(N, V, b, F) # {}
  <2> HIDE DEF F, N, V, b
  <2> QED
    BY <1>1, <1>3, Recursion, Zenon
<1>5. PICK f \in [0 .. N -> V] :
             f[0] = b /\ \A k \in 1 .. N : f[k] = F[<<f[k - 1], k>>]
  <2> HIDE DEF F, N, V, b
  <2> QED
    BY <1>4 DEF Recursive
<1>6. ASSUME NEW k \in 1 .. N
      PROVE  f[k] = NextColumn(deeper, f[k - 1], row, k, depth)
  <2>1. k - 1 \in 0 .. N
    BY <1>1
  <2>2. <<f[k - 1], k>> \in V \X (1 .. N)
    BY <2>1
  <2> HIDE DEF N, V
  <2> QED
    BY <1>5, <2>2
<1>7. Rec(f)
  <2>1. f = [n \in 0 .. N |-> f[n]]
    BY <1>5
  <2>2. ASSUME NEW n \in 0 .. N
        PROVE  f[n] = IF n = 0 THEN b ELSE NextColumn(deeper, f[n - 1], row, n, depth)
    <3>1. CASE n = 0
      BY <1>5, <3>1
    <3>2. CASE n # 0
      <4>1. n \in 1 .. N
        BY <1>1, <3>2
      <4> HIDE DEF N
      <4> QED
        BY <1>6, <3>2, <4>1
    <3> QED
      BY <3>1, <3>2
  <2> HIDE DEF N, V
  <2> QED
    BY <2>1, <2>2
<1>8. Rec(a)
  <2> HIDE DEF Rec
  <2> QED
    BY <1>7
<1>9. a[0] = b /\ \A n \in 1 .. N : a[n] = NextColumn(deeper, a[n - 1], row, n, depth)
  <2>1. 0 \in 0 .. N /\ \A n \in 1 .. N : n \in 0 .. N /\ n # 0
    BY <1>1
  <2> HIDE DEF a, N
  <2> QED
    BY <1>8, <2>1
<1>10. DOMAIN a = 0 .. N /\ a = [n \in 0 .. N |-> a[n]]
  <2> HIDE DEF a, N
  <2> QED
    BY <1>8
<1>11. check_outgoing_links(deeper, s, row, depth) = a[N].search
  BY DEF check_outgoing_links
<1> HIDE DEF a, N, V
<1> DEFINE P == {n \in 0 .. N : a[n] \in V}
<1>12. 0 \in P
  BY <1>1, <1>9
<1>13. ASSUME NEW n \in 0 .. N - 1, n \in P
       PROVE  n + 1 \in P
  <2>1. n + 1 \in 1 .. N /\ n + 1 \in 0 .. N /\ (n + 1) - 1 = n
    BY <1>1
  <2>2. a[n + 1] = NextColumn(deeper, a[n], row, n + 1, depth)
    BY <1>9, <2>1
  <2> QED
    BY <1>2, <1>13, <2>1, <2>2
<1>14. \A n \in 0 .. N : n \in P
  <2> HIDE DEF P
  <2> QED
    BY <1>1, <1>12, <1>13, Induction
<1>15. a \in [0 .. N -> V]
  <2>1. \A n \in 0 .. N : a[n] \in V
    BY <1>14
  <2> QED
    BY <1>10, <2>1
<1> QED
  BY <1>9, <1>11, <1>15 DEF N, V, b

LEMMA OutgoingTyped ==
  ASSUME NEW deeper \in Searches, NEW s \in Search, NEW row \in RowNumbers, Linked,
         NEW depth \in 0 .. PathSize - 1
  PROVE  check_outgoing_links(deeper, s, row, depth) \in Search
<1>1. PICK a \in [0 .. Len(Columns) -> ColumnSearch] :
             check_outgoing_links(deeper, s, row, depth) = a[Len(Columns)].search
  BY ColumnSteps
<1>2. Len(Columns) \in 0 .. Len(Columns)
  BY Sizes
<1>3. a[Len(Columns)] \in ColumnSearch
  BY <1>1, <1>2
<1> QED
  BY <1>1, <1>3 DEF ColumnSearch

LEMMA TooDeepIs ==
  ASSUME NEW s \in Search
  PROVE  /\ TooDeep(s) \in Search /\ TooDeep(s).ret = s.ret /\ TooDeep(s).memo = s.memo
         /\ \A p \in 1 .. PathSize : TooDeep(s).path[p].row = s.path[p].row
         /\ \A p \in 2 .. PathSize : TooDeep(s).path[p].depth_exceeded
         /\ \A p \in 1 .. PathSize :
              s.path[p].depth_exceeded => TooDeep(s).path[p].depth_exceeded
<1>1. PICK q : q = [d \in 1 .. PathSize |->
                     IF d = 1 THEN s.path[d] ELSE [s.path[d] EXCEPT !.depth_exceeded = TRUE]]
  OBVIOUS
<1>2. s.path \in [1 .. PathSize -> Path] /\ DOMAIN s.path = 1 .. PathSize
  BY Typed
<1>3. ASSUME NEW d \in 1 .. PathSize
      PROVE  /\ q[d] \in Path /\ q[d].row = s.path[d].row
             /\ d >= 2 => q[d].depth_exceeded
             /\ s.path[d].depth_exceeded => q[d].depth_exceeded
  <2>1. s.path[d] \in Path
    BY <1>2
  <2>2. PICK e \in Path : e = s.path[d]
    BY <2>1
  <2>3. /\ [e EXCEPT !.depth_exceeded = TRUE] \in Path
        /\ [e EXCEPT !.depth_exceeded = TRUE].row = e.row
        /\ [e EXCEPT !.depth_exceeded = TRUE].depth_exceeded
    BY DEF Path
  <2>4. q[d] = IF d = 1 THEN e ELSE [e EXCEPT !.depth_exceeded = TRUE]
    BY <1>1, <2>2
  <2>5. CASE d = 1
    BY <2>2, <2>4, <2>5
  <2>6. CASE d # 1
    BY <2>2, <2>3, <2>4, <2>6
  <2> QED
    BY <2>5, <2>6
<1>4. q \in [1 .. PathSize -> Path]
  BY <1>1, <1>3
<1>5. TooDeep(s) = [s EXCEPT !.path = q]
  BY <1>1, <1>2 DEF TooDeep
<1>6. [s EXCEPT !.path = q] = [ret |-> s.ret, memo |-> s.memo, path |-> q]
  BY DEF Search
<1>7. TooDeep(s) \in Search /\ TooDeep(s).ret = s.ret /\ TooDeep(s).memo = s.memo
      /\ TooDeep(s).path = q
  BY <1>4, <1>5, <1>6, Typed DEF Search
<1>8. \A p \in 2 .. PathSize : p \in 1 .. PathSize /\ p >= 2
  BY Sizes
<1> QED
  BY <1>3, <1>7, <1>8

LEMMA RememberedIs ==
  ASSUME NEW s \in Search, NEW row \in RowNumbers
  PROVE  /\ Remembered(s, row) \in Search /\ Remembered(s, row).ret = s.ret
         /\ Remembered(s, row).memo = s.memo \cup {row} /\ Remembered(s, row).path = s.path
<1>1. PICK m : m = s.memo \cup {row}
  OBVIOUS
<1>2. Remembered(s, row) = [s EXCEPT !.memo = m]
  BY <1>1 DEF Remembered
<1>3. [s EXCEPT !.memo = m] = [ret |-> s.ret, memo |-> m, path |-> s.path]
  BY DEF Search
<1>4. m \in SUBSET RowNumbers
  BY <1>1, Typed
<1> QED
  BY <1>1, <1>2, <1>3, <1>4, Typed DEF Search

LEMMA RowTyped ==
  ASSUME NEW k \in 0 .. PathSize, NEW deeper, k > 0 => deeper \in Searches, Linked,
         NEW s \in Search, NEW row \in RowNumbers
  PROVE  check_row(deeper, s, row, PathSize - k) \in Search
<1>1. CASE k = 0
  <2>1. check_row(deeper, s, row, PathSize - k) = TooDeep(s)
    BY <1>1, Sizes DEF check_row
  <2> QED
    BY <2>1, TooDeepIs
<1>2. CASE k > 0
  <2>1. deeper \in Searches /\ PathSize - k \in 0 .. PathSize - 1 /\ ~(PathSize - k >= PathSize)
    BY <1>2, Sizes
  <2>2. PICK r \in Search : r = check_outgoing_links(deeper, s, row, PathSize - k)
    BY <2>1, OutgoingTyped
  <2>3. Remembered(r, row) \in Search /\ s \in Search /\ r \in Search
    BY RememberedIs
  <2>4. [s EXCEPT !.ret = TRUE] \in Search
    BY DEF Search
  <2> QED
    BY <2>1, <2>2, <2>3, <2>4 DEF check_row
<1> QED
  BY <1>1, <1>2

-----------------------------------------------------------------------------
(* What a search answers                                                   *)

\* No row within n links is modified.
Clean(n, row) == Within[n][row] \cap modified = {}

\* What is remembered is so at any depth.
AllClean(s) == \A m \in s.memo : Clean(PathSize - 1, m)

\* The flag of every row on the path, but the first, says a search was cut.
Cut(s, d) == \A p \in 2 .. d : s.path[p].depth_exceeded

\* A search leaves the rows of the path above it, and flags stay set.
PathKept(s, t, d) ==
  \A p \in 1 .. d : /\ t.path[p].row = s.path[p].row
                    /\ s.path[p].depth_exceeded => t.path[p].depth_exceeded

\* The rows of the path link to the next, the last one to row.
Chain(s, row, d) ==
  \A p \in 1 .. d : /\ s.path[p].row \in RowNumbers
                    /\ \E q \in LinkedTo(s.path[p].row) : row \in Within[d - p][q]

LEMMA CleanLess ==
  ASSUME Linked, NEW n \in 0 .. PathSize, NEW m \in n .. PathSize, NEW row \in RowNumbers,
         Clean(m, row)
  PROVE  Clean(n, row)
<1>1. Within[n][row] \subseteq Within[m][row]
  BY WithinGrows
<1> QED
  BY <1>1 DEF Clean

\* A row is clean when it is not modified and those it links to are clean.
LEMMA CleanNext ==
  ASSUME Linked, NEW n \in 1 .. PathSize, NEW row \in RowNumbers
  PROVE  Clean(n, row) <=> row \notin modified /\ \A r \in LinkedTo(row) : Clean(n - 1, r)
<1>1. Within[n][row] = {row} \cup UNION {Within[n - 1][r] : r \in LinkedTo(row)}
  BY WithinRow
<1> QED
  BY <1>1 DEF Clean

LEMMA CleanZero ==
  ASSUME Linked, NEW row \in RowNumbers
  PROVE  Clean(0, row) <=> row \notin modified
<1>1. Within[0][row] = {row}
  BY WithinRow
<1> QED
  BY <1>1 DEF Clean

LEMMA NotChecking ==
  ASSUME Linked, NoCycle, NEW s \in Search, NEW row \in RowNumbers, NEW col,
         NEW d \in 0 .. PathSize - 1, Chain(s, row, d)
  PROVE  ~already_checking(s, row, col, d)
<1>1. SUFFICES ASSUME NEW p \in 1 .. d, s.path[p].row = row
               PROVE  FALSE
  BY DEF already_checking
<1>2. PICK q \in LinkedTo(row) : row \in Within[d - p][q]
  BY <1>1 DEF Chain
<1>3. d - p \in 0 .. PathSize /\ PathSize - 1 \in (d - p) .. PathSize
  BY Sizes
<1>4. q \in RowNumbers
  BY <1>2, LinkedRows
<1>5. Within[d - p][q] \subseteq Within[PathSize - 1][q]
  BY <1>3, <1>4, WithinGrows
<1> QED
  BY <1>2, <1>5 DEF NoCycle

LEMMA ChainExtended ==
  ASSUME Linked, NEW s \in Search, NEW e \in Search, NEW row \in RowNumbers,
         NEW d \in 0 .. PathSize - 1, Chain(s, row, d), PathKept(s, e, d),
         e.path[d + 1].row = row, NEW dst \in LinkedTo(row)
  PROVE  Chain(e, dst, d + 1)
<1>1. SUFFICES ASSUME NEW p \in 1 .. d + 1
               PROVE  /\ e.path[p].row \in RowNumbers
                      /\ \E q \in LinkedTo(e.path[p].row) : dst \in Within[(d + 1) - p][q]
  BY DEF Chain
<1>2. CASE p = d + 1
  <2>1. (d + 1) - p = 0 /\ dst \in RowNumbers
    BY <1>2, LinkedRows
  <2>2. dst \in Within[0][dst]
    BY <2>1, WithinRow
  <2> QED
    BY <1>2, <2>1, <2>2
<1>3. CASE p # d + 1
  <2>0. p \in Nat /\ d \in Nat /\ PathSize \in Nat /\ 1 <= p /\ p <= d + 1 /\ d <= PathSize - 1
    BY Sizes
  <2>1. p \in 1 .. d /\ d - p \in 0 .. PathSize - 1 /\ (d - p) + 1 = (d + 1) - p
    BY ONLY <1>3, <2>0
  <2>2. e.path[p].row = s.path[p].row /\ s.path[p].row \in RowNumbers
    BY <2>1 DEF PathKept, Chain
  <2>3. PICK q \in LinkedTo(s.path[p].row) : row \in Within[d - p][q]
    BY <2>1 DEF Chain
  <2>4. q \in RowNumbers
    BY <2>2, <2>3, LinkedRows
  <2>5. dst \in Within[(d - p) + 1][q]
    BY <2>1, <2>3, <2>4, WithinExtended
  <2> QED
    BY <2>1, <2>2, <2>3, <2>5
<1> QED
  BY <1>2, <1>3

LEMMA ChainKept ==
  ASSUME NEW s \in Search, NEW t \in Search, NEW row, NEW d, Chain(s, row, d),
         PathKept(s, t, d)
  PROVE  Chain(t, row, d)
BY DEF Chain, PathKept

LEMMA PathKeptTwice ==
  ASSUME NEW s \in Search, NEW t \in Search, NEW u \in Search, NEW d, PathKept(s, t, d),
         PathKept(t, u, d)
  PROVE  PathKept(s, u, d)
BY DEF PathKept

LEMMA CutKept ==
  ASSUME NEW t \in Search, NEW u \in Search, NEW d \in Nat, PathKept(t, u, d), Cut(t, d)
  PROVE  Cut(u, d)
<1>1. \A p \in 2 .. d : p \in 1 .. d
  OBVIOUS
<1> QED
  BY <1>1 DEF PathKept, Cut

\* For a search of a row with k levels left: it answers that there is a
\* modified row only when it found one within k - 1 links.
Answers(k, s, row, t) ==
  /\ t \in Search
  /\ PathKept(s, t, PathSize - k)
  /\ t.ret => k >= 1 /\ ~Clean(k - 1, row)

\* It answers that there is none only when there is none within k - 1 links;
\* and none at any depth, or the rows of the path, but the first, are flagged.
Trusted(k, s, row, t) ==
  AllClean(s) /\ Chain(s, row, PathSize - k) /\ (k = PathSize => row \notin modified) =>
    /\ AllClean(t)
    /\ ~t.ret => /\ k >= 1 => Clean(k - 1, row)
                 /\ Clean(PathSize - 1, row) \/ Cut(t, PathSize - k)

Simple == Len(Columns) = 1 /\ NoCycle

Level(k, f) ==
  /\ f \in Searches
  /\ \A s \in Search, row \in RowNumbers :
       ~s.ret => Answers(k, s, row, f[s][row]) /\ (Simple => Trusted(k, s, row, f[s][row]))

\* The same of the first m links of a list, with j levels left below it.
ListAnswers(j, e, targets, m, t) ==
  /\ t \in Search
  /\ PathKept(e, t, PathSize - j)
  /\ t.ret => j >= 1 /\ \E n \in 1 .. m : ~Clean(j - 1, targets[n])

ListTrusted(j, e, targets, m, t) ==
  AllClean(e) /\ (\A n \in DOMAIN targets : Chain(e, targets[n], PathSize - j)) =>
    /\ AllClean(t)
    /\ ~t.ret => /\ j >= 1 => \A n \in 1 .. m : Clean(j - 1, targets[n])
                 /\ \/ \A n \in 1 .. m : Clean(PathSize - 1, targets[n])
                    \/ Cut(t, PathSize - j)

LEMMA ListSound ==
  ASSUME Linked, NEW j \in 0 .. PathSize - 1, NEW deeper, Level(j, deeper),
         NEW e \in Search, ~e.ret, NEW targets \in Seq(RowNumbers)
  PROVE  LET t == check_list(deeper, e, targets)
         IN /\ ListAnswers(j, e, targets, Len(targets), t)
            /\ Simple => ListTrusted(j, e, targets, Len(targets), t)
<1> DEFINE N == Len(targets)
<1>1. /\ N \in Nat /\ DOMAIN targets = 1 .. N /\ \A n \in 1 .. N : targets[n] \in RowNumbers
      /\ PathSize - j \in Nat
  BY Sizes
<1>2. deeper \in Searches
  BY DEF Level
<1>3. PICK a \in [0 .. N -> Search] :
             /\ a[0] = e
             /\ \A n \in 1 .. N : a[n] = NextLink(deeper, a[n - 1], targets[n])
             /\ check_list(deeper, e, targets) = a[N]
  BY <1>2, ListSteps
<1> DEFINE P == {m \in 0 .. N : /\ ListAnswers(j, e, targets, m, a[m])
                                /\ Simple => ListTrusted(j, e, targets, m, a[m])}
<1>4. 0 \in P
  <2>1. 1 .. 0 = {} /\ 0 \in 0 .. N
    BY <1>1
  <2>2. PathKept(e, e, PathSize - j)
    BY DEF PathKept
  <2>3. ListAnswers(j, e, targets, 0, e)
    BY <2>2 DEF ListAnswers
  <2>4. ListTrusted(j, e, targets, 0, e)
    BY <2>1 DEF ListTrusted
  <2> QED
    BY <1>3, <2>1, <2>3, <2>4
<1>5. ASSUME NEW m \in 0 .. N - 1, m \in P
      PROVE  m + 1 \in P
  <2>1. m + 1 \in 1 .. N /\ m + 1 \in 0 .. N /\ (m + 1) - 1 = m /\ m \in 0 .. N
    BY <1>1
  <2>2. PICK t \in Search : t = a[m]
    BY <1>3, <2>1
  <2>3. PICK dst \in RowNumbers : dst = targets[m + 1]
    BY <1>1, <2>1
  <2>4. PICK u : u = a[m + 1]
    OBVIOUS
  <2>5. u = NextLink(deeper, t, dst)
    BY <1>3, <2>1, <2>2, <2>3, <2>4
  <2>6. /\ ListAnswers(j, e, targets, m, t)
        /\ Simple => ListTrusted(j, e, targets, m, t)
    BY <1>5, <2>2
  <2>7. 1 .. m + 1 = 1 .. m \cup {m + 1}
    BY <1>1
  <2>8. CASE t.ret
    <3>1. u = t
      BY <2>5, <2>8 DEF NextLink
    <3>2. ListAnswers(j, e, targets, m + 1, u)
      BY <2>6, <2>7, <3>1 DEF ListAnswers
    <3>3. ASSUME Simple PROVE ListTrusted(j, e, targets, m + 1, u)
      BY <2>6, <2>8, <3>1, <3>3 DEF ListTrusted
    <3> QED
      BY <2>1, <2>4, <3>2, <3>3
  <2>9. CASE ~t.ret
    <3>1. u = deeper[t][dst]
      BY <2>5, <2>9 DEF NextLink
    <3>2. Answers(j, t, dst, u) /\ (Simple => Trusted(j, t, dst, u))
      BY <2>9, <3>1 DEF Level
    <3>3. u \in Search /\ PathKept(t, u, PathSize - j)
      BY <3>2 DEF Answers
    <3>4. PathKept(e, t, PathSize - j)
      BY <2>6 DEF ListAnswers
    <3>5. PathKept(e, u, PathSize - j)
      BY <3>3, <3>4, PathKeptTwice
    <3>6. u.ret => j >= 1 /\ \E n \in 1 .. m + 1 : ~Clean(j - 1, targets[n])
      BY <2>3, <2>7, <3>2 DEF Answers
    <3>7. ListAnswers(j, e, targets, m + 1, u)
      BY <3>3, <3>5, <3>6 DEF ListAnswers
    <3>8. ASSUME Simple, AllClean(e),
                 \A n \in DOMAIN targets : Chain(e, targets[n], PathSize - j)
          PROVE  /\ AllClean(u)
                 /\ ~u.ret => /\ j >= 1 => \A n \in 1 .. m + 1 : Clean(j - 1, targets[n])
                              /\ \/ \A n \in 1 .. m + 1 : Clean(PathSize - 1, targets[n])
                                 \/ Cut(u, PathSize - j)
      <4>1. /\ AllClean(t)
            /\ j >= 1 => \A n \in 1 .. m : Clean(j - 1, targets[n])
            /\ \/ \A n \in 1 .. m : Clean(PathSize - 1, targets[n])
               \/ Cut(t, PathSize - j)
        BY <2>6, <2>9, <3>8 DEF ListTrusted
      <4>2. Chain(e, dst, PathSize - j)
        BY <1>1, <2>1, <2>3, <3>8
      <4>3. Chain(t, dst, PathSize - j)
        BY <3>4, <4>2, ChainKept
      <4>4. j # PathSize
        BY Sizes
      <4>5. /\ AllClean(u)
            /\ ~u.ret => /\ j >= 1 => Clean(j - 1, dst)
                         /\ Clean(PathSize - 1, dst) \/ Cut(u, PathSize - j)
        BY <3>2, <3>8, <4>1, <4>3, <4>4 DEF Trusted
      <4>6. Cut(t, PathSize - j) => Cut(u, PathSize - j)
        BY <1>1, <3>3, CutKept
      <4> QED
        BY <2>3, <2>7, <4>1, <4>5, <4>6
    <3>9. Simple => ListTrusted(j, e, targets, m + 1, u)
      BY <3>8 DEF ListTrusted
    <3> QED
      BY <2>1, <2>4, <3>7, <3>9
  <2> QED
    BY <2>8, <2>9
<1>6. N \in P
  <2>1. \A m \in 0 .. N : m \in P
    <3> HIDE DEF P
    <3> QED
      BY <1>1, <1>4, <1>5, Induction
  <2> HIDE DEF P
  <2> QED
    BY <1>1, <2>1
<1> QED
  BY <1>3, <1>6

\* The same of the links of a row, with j levels left below it.
LinksAnswers(j, s, row, t) ==
  /\ t \in Search
  /\ PathKept(s, t, PathSize - j - 1)
  /\ t.ret => j >= 1 /\ \E r \in LinkedTo(row) : ~Clean(j - 1, r)

LinksTrusted(j, s, row, t) ==
  AllClean(s) /\ Chain(s, row, PathSize - j - 1) =>
    /\ AllClean(t)
    /\ ~t.ret => /\ j >= 1 => \A r \in LinkedTo(row) : Clean(j - 1, r)
                 /\ \/ \A r \in LinkedTo(row) : Clean(PathSize - 1, r)
                    \/ Cut(t, PathSize - j)

LEMMA EnteredKeeps ==
  ASSUME NEW s \in Search, NEW row \in RowNumbers, NEW col \in 1 .. Len(Columns),
         NEW d \in 0 .. PathSize - 1
  PROVE  PathKept(s, Entered(s, row, col, d), d)
BY EnteredIs DEF PathKept

LEMMA ColumnSound ==
  ASSUME Linked, NEW j \in 0 .. PathSize - 1, NEW deeper, Level(j, deeper),
         NEW s \in Search, ~s.ret, NEW row \in RowNumbers, NEW col \in 1 .. Len(Columns)
  PROVE  LET c == CheckColumn(deeper, s, row, col, PathSize - j - 1)
         IN /\ c \in ColumnSearch
            /\ LinksAnswers(j, s, row, c.search)
            /\ c.search.ret => c.ends
            /\ Simple => LinksTrusted(j, s, row, c.search)
<1> DEFINE d == PathSize - j - 1
           targets == links[row][col]
<1>1. /\ PathSize - j - 1 \in 0 .. PathSize - 1 /\ (PathSize - j - 1) + 1 = PathSize - j
      /\ d \in Nat /\ PathSize - j \in Nat
  BY Sizes
<1>2. deeper \in Searches
  BY DEF Level
<1>3. CheckColumn(deeper, s, row, col, d) \in ColumnSearch /\ targets \in Seq(RowNumbers)
  BY <1>1, <1>2, ColumnTyped
<1>4. PICK e \in Search : e = Entered(s, row, col, d)
  BY <1>1, EnteredIs
<1>5. ~e.ret /\ e.memo = s.memo /\ e.path[d + 1].row = row
  BY <1>1, <1>4, EnteredIs
<1>6. PathKept(s, e, d)
  BY <1>1, <1>4, EnteredKeeps
<1>7. PICK t : t = check_list(deeper, e, targets)
  OBVIOUS
<1>8. /\ ListAnswers(j, e, targets, Len(targets), t)
      /\ Simple => ListTrusted(j, e, targets, Len(targets), t)
  BY <1>3, <1>5, <1>7, ListSound
<1>9. /\ \A n \in DOMAIN targets : targets[n] \in LinkedTo(row)
      /\ 1 .. Len(targets) = DOMAIN targets
  BY <1>3, Sizes, LinkedRows
<1>10. CASE already_checking(s, row, col, d)
  <2>1. PICK c : c = CheckColumn(deeper, s, row, col, d)
    OBVIOUS
  <2>2. c = [search |-> s, ends |-> FALSE]
    BY <1>10, <2>1 DEF CheckColumn
  <2>3. c.search = s
    BY <2>2
  <2>4. LinksAnswers(j, s, row, s)
    BY DEF LinksAnswers, PathKept
  <2>5. ASSUME Simple, Chain(s, row, d)
        PROVE  FALSE
    BY <1>1, <1>10, <2>5, NotChecking DEF Simple
  <2>6. Simple => LinksTrusted(j, s, row, s)
    BY <2>5 DEF LinksTrusted
  <2> QED
    BY <1>3, <2>1, <2>3, <2>4, <2>6
<1>11. CASE ~already_checking(s, row, col, d)
  <2>1. PICK c : c = CheckColumn(deeper, s, row, col, d)
    OBVIOUS
  <2>2. c = [search |-> t, ends |-> t.ret \/ (~Columns[col] /\ targets # <<>>)]
    BY <1>4, <1>7, <1>11, <2>1 DEF CheckColumn
  <2>3. c.search = t /\ (t.ret => c.ends)
    BY <2>2
  <2>4. t \in Search /\ PathKept(e, t, PathSize - j)
    BY <1>8 DEF ListAnswers
  <2>5. PathKept(e, t, d)
    BY <1>1, <2>4 DEF PathKept
  <2>6. PathKept(s, t, d)
    BY <1>6, <2>4, <2>5, PathKeptTwice
  <2>7. t.ret => j >= 1 /\ \E r \in LinkedTo(row) : ~Clean(j - 1, r)
    BY <1>8, <1>9 DEF ListAnswers
  <2>8. LinksAnswers(j, s, row, t)
    BY <2>4, <2>6, <2>7 DEF LinksAnswers
  <2>9. ASSUME Simple, AllClean(s), Chain(s, row, d)
        PROVE  /\ AllClean(t)
               /\ ~t.ret => /\ j >= 1 => \A r \in LinkedTo(row) : Clean(j - 1, r)
                            /\ \/ \A r \in LinkedTo(row) : Clean(PathSize - 1, r)
                               \/ Cut(t, PathSize - j)
    <3>1. AllClean(e)
      BY <1>5, <2>9 DEF AllClean
    <3>2. ASSUME NEW n \in DOMAIN targets
          PROVE  Chain(e, targets[n], PathSize - j)
      <4>1. targets[n] \in LinkedTo(row)
        BY <1>9
      <4>2. Chain(e, targets[n], d + 1)
        BY <1>1, <1>5, <1>6, <2>9, <4>1, ChainExtended
      <4> QED
        BY <1>1, <4>2
    <3>3. /\ AllClean(t)
          /\ ~t.ret => /\ j >= 1 => \A n \in DOMAIN targets : Clean(j - 1, targets[n])
                       /\ \/ \A n \in DOMAIN targets : Clean(PathSize - 1, targets[n])
                          \/ Cut(t, PathSize - j)
      BY <1>8, <1>9, <2>9, <3>1, <3>2 DEF ListTrusted
    <3>4. \A r \in LinkedTo(row) : \E n \in DOMAIN targets : r = targets[n]
      <4>1. DOMAIN Columns = {col}
        BY <2>9, Sizes DEF Simple
      <4> QED
        BY <4>1, LinkedRows
    <3> QED
      BY <3>3, <3>4
  <2>10. Simple => LinksTrusted(j, s, row, t)
    BY <2>9 DEF LinksTrusted
  <2> QED
    BY <1>3, <2>1, <2>3, <2>8, <2>10
<1> QED
  BY <1>10, <1>11

LEMMA OutgoingSound ==
  ASSUME Linked, NEW j \in 0 .. PathSize - 1, NEW deeper, Level(j, deeper),
         NEW s \in Search, ~s.ret, NEW row \in RowNumbers
  PROVE  LET t == check_outgoing_links(deeper, s, row, PathSize - j - 1)
         IN /\ LinksAnswers(j, s, row, t)
            /\ Simple => LinksTrusted(j, s, row, t)
<1> DEFINE N == Len(Columns)
           d == PathSize - j - 1
<1>1. N \in Nat /\ d \in 0 .. PathSize - 1
  BY Sizes
<1>2. deeper \in Searches
  BY DEF Level
<1>3. PICK a \in [0 .. N -> ColumnSearch] :
             /\ a[0] = [search |-> s, ends |-> FALSE]
             /\ \A n \in 1 .. N : a[n] = NextColumn(deeper, a[n - 1], row, n, d)
             /\ check_outgoing_links(deeper, s, row, d) = a[N].search
  BY <1>1, <1>2, ColumnSteps
<1> DEFINE P == {n \in 0 .. N : /\ LinksAnswers(j, s, row, a[n].search)
                                /\ a[n].search.ret => a[n].ends}
<1>4. a[0].search = s /\ ~a[0].ends
  BY <1>3
<1>5. 0 \in P
  <2>1. LinksAnswers(j, s, row, s)
    BY DEF LinksAnswers, PathKept
  <2> QED
    BY <1>1, <1>4, <2>1
<1>6. ASSUME NEW n \in 0 .. N - 1, n \in P
      PROVE  n + 1 \in P
  <2>1. n + 1 \in 1 .. N /\ n + 1 \in 0 .. N /\ (n + 1) - 1 = n /\ n \in 0 .. N
    BY <1>1
  <2>2. PICK c \in ColumnSearch : c = a[n]
    BY <1>3, <2>1
  <2>3. PICK b : b = a[n + 1]
    OBVIOUS
  <2>4. b = NextColumn(deeper, c, row, n + 1, d)
    BY <1>3, <2>1, <2>2, <2>3
  <2>5. LinksAnswers(j, s, row, c.search) /\ (c.search.ret => c.ends)
    BY <1>6, <2>2
  <2>6. CASE c.ends
    <3>1. b = c
      BY <2>4, <2>6 DEF NextColumn
    <3> QED
      BY <2>1, <2>3, <2>5, <3>1
  <2>7. CASE ~c.ends
    <3>1. PICK t \in Search : t = c.search
      BY DEF ColumnSearch
    <3>2. ~t.ret
      BY <2>5, <2>7, <3>1
    <3>3. b = CheckColumn(deeper, t, row, n + 1, d)
      BY <2>4, <2>7, <3>1 DEF NextColumn
    <3>4. LinksAnswers(j, t, row, b.search) /\ (b.search.ret => b.ends)
      BY <2>1, <3>2, <3>3, ColumnSound
    <3>5. PathKept(s, t, d) /\ PathKept(t, b.search, d) /\ b.search \in Search
      BY <2>5, <3>1, <3>4 DEF LinksAnswers
    <3>6. PathKept(s, b.search, d)
      BY <3>5, PathKeptTwice
    <3>7. LinksAnswers(j, s, row, b.search)
      BY <3>4, <3>6 DEF LinksAnswers
    <3> QED
      BY <2>1, <2>3, <3>4, <3>7
  <2> QED
    BY <2>6, <2>7
<1>7. N \in P
  <2>1. \A n \in 0 .. N : n \in P
    <3> HIDE DEF P
    <3> QED
      BY <1>1, <1>5, <1>6, Induction
  <2> HIDE DEF P
  <2> QED
    BY <1>1, <2>1
<1>8. ASSUME Simple
      PROVE  LinksTrusted(j, s, row, a[N].search)
  <2>1. N = 1 /\ 1 \in 1 .. N /\ 1 - 1 = 0
    BY <1>8 DEF Simple
  <2>2. a[1] = NextColumn(deeper, a[0], row, 1, d)
    BY <1>3, <2>1
  <2>3. a[1] = CheckColumn(deeper, s, row, 1, d)
    BY <1>4, <2>2 DEF NextColumn
  <2>4. LinksTrusted(j, s, row, a[1].search)
    BY <1>8, <2>1, <2>3, ColumnSound
  <2> QED
    BY <2>1, <2>4
<1> QED
  BY <1>3, <1>7, <1>8

LEMMA RowTooDeep ==
  ASSUME NEW deeper, NEW s \in Search, ~s.ret, NEW row \in RowNumbers
  PROVE  LET t == check_row(deeper, s, row, PathSize - 0)
         IN Answers(0, s, row, t) /\ Trusted(0, s, row, t)
<1>1. PICK t : t = check_row(deeper, s, row, PathSize - 0)
  OBVIOUS
<1>2. PathSize \in Nat /\ PathSize - 0 = PathSize /\ PathSize # 0
  BY Sizes
<1>3. t = TooDeep(s)
  BY <1>1, <1>2 DEF check_row
<1>4. PathKept(s, t, PathSize) /\ Cut(t, PathSize) /\ t \in Search /\ ~t.ret /\ t.memo = s.memo
  BY <1>3, TooDeepIs DEF PathKept, Cut
<1>5. Answers(0, s, row, t)
  BY <1>2, <1>4 DEF Answers
<1>6. Trusted(0, s, row, t)
  BY <1>2, <1>4 DEF Trusted, AllClean
<1> QED
  BY <1>1, <1>5, <1>6

LEMMA RowSound ==
  ASSUME Linked, NEW k \in 1 .. PathSize, NEW deeper, Level(k - 1, deeper),
         NEW s \in Search, ~s.ret, NEW row \in RowNumbers
  PROVE  LET t == check_row(deeper, s, row, PathSize - k)
         IN Answers(k, s, row, t) /\ (Simple => Trusted(k, s, row, t))
<1>1. PICK j \in 0 .. PathSize - 1 : j = k - 1
  BY Sizes
<1>2. PICK d \in 0 .. PathSize - 1 : d = PathSize - k
  BY Sizes
<1>3. /\ d = PathSize - j - 1 /\ d + 1 = PathSize - j /\ (d > 0 <=> k # PathSize)
      /\ d + 1 \in 1 .. PathSize /\ (d > 0 => d + 1 \in 2 .. PathSize - j)
      /\ k \in 0 .. PathSize /\ ~(d >= PathSize) /\ k >= 1 /\ (j >= 1 <=> k # 1)
      /\ k - 1 \in 0 .. PathSize - 1 /\ PathSize - 1 \in (k - 1) .. PathSize
      /\ PathSize \in Nat
  BY <1>1, <1>2, Sizes
<1>4. PICK t : t = check_row(deeper, s, row, PathSize - k)
  OBVIOUS
<1>5. PICK r : r = check_outgoing_links(deeper, s, row, PathSize - j - 1)
  OBVIOUS
<1>6. LinksAnswers(j, s, row, r) /\ (Simple => LinksTrusted(j, s, row, r))
  BY <1>1, <1>5, OutgoingSound
<1>7. t = IF d > 0 /\ row \in modified THEN [s EXCEPT !.ret = TRUE]
          ELSE IF row \in s.memo THEN s
          ELSE IF ~r.ret /\ ~r.path[d + 1].depth_exceeded THEN Remembered(r, row)
          ELSE r
  <2>1. check_outgoing_links(deeper, s, row, PathSize - k) = r
    BY <1>2, <1>3, <1>5
  <2>2. check_row(deeper, s, row, d) =
          IF d > 0 /\ row \in modified THEN [s EXCEPT !.ret = TRUE]
          ELSE IF row \in s.memo THEN s
          ELSE IF ~r.ret /\ ~r.path[d + 1].depth_exceeded THEN Remembered(r, row)
          ELSE r
    BY <1>2, <1>3, <2>1 DEF check_row
  <2> QED
    BY <1>2, <1>4, <2>2
<1>8. CASE d > 0 /\ row \in modified
  <2>1. t = [s EXCEPT !.ret = TRUE]
    BY <1>7, <1>8
  <2>2. t \in Search /\ t.ret /\ t.memo = s.memo /\ t.path = s.path
    BY <2>1 DEF Search
  <2>3. ~Clean(k - 1, row)
    <3>1. row \in Within[k - 1][row]
      BY <1>3, WithinRow
    <3> QED
      BY <1>8, <3>1 DEF Clean
  <2>4. PathKept(s, t, PathSize - k)
    BY <2>2 DEF PathKept
  <2>5. Answers(k, s, row, t)
    BY <1>3, <2>2, <2>3, <2>4 DEF Answers
  <2>6. Trusted(k, s, row, t)
    BY <2>2 DEF Trusted, AllClean
  <2> QED
    BY <1>4, <2>5, <2>6
<1>9. CASE ~(d > 0 /\ row \in modified) /\ row \in s.memo
  <2>1. t = s
    BY <1>7, <1>9
  <2>2. Answers(k, s, row, t)
    BY <2>1 DEF Answers, PathKept
  <2>3. ASSUME AllClean(s)
        PROVE  Clean(PathSize - 1, row) /\ Clean(k - 1, row)
    <3>1. Clean(PathSize - 1, row)
      BY <1>9, <2>3 DEF AllClean
    <3> QED
      BY <1>3, <3>1, CleanLess
  <2>4. Trusted(k, s, row, t)
    BY <2>1, <2>3 DEF Trusted
  <2> QED
    BY <1>4, <2>2, <2>4
<1>10. CASE ~(d > 0 /\ row \in modified) /\ row \notin s.memo
  <2>1. r \in Search /\ PathKept(s, r, PathSize - k)
    BY <1>2, <1>3, <1>6 DEF LinksAnswers
  <2>2. t = IF ~r.ret /\ ~r.path[d + 1].depth_exceeded THEN Remembered(r, row) ELSE r
    BY <1>7, <1>10
  <2>3. /\ t \in Search /\ t.ret = r.ret /\ t.path = r.path
        /\ \/ t.memo = r.memo
           \/ t.memo = r.memo \cup {row} /\ ~r.ret /\ ~r.path[d + 1].depth_exceeded
    BY <2>1, <2>2, RememberedIs
  <2>4. PathKept(s, t, PathSize - k)
    BY <2>1, <2>3 DEF PathKept
  <2>5. ASSUME r.ret
        PROVE  ~Clean(k - 1, row)
    <3>1. j >= 1 /\ \E q \in LinkedTo(row) : ~Clean(j - 1, q)
      BY <1>6, <2>5 DEF LinksAnswers
    <3>2. j \in 1 .. PathSize
      BY <3>1, <1>3
    <3>3. ~Clean(j, row)
      BY <3>1, <3>2, CleanNext
    <3> QED
      BY <1>1, <3>3
  <2>6. Answers(k, s, row, t)
    BY <1>3, <2>3, <2>4, <2>5 DEF Answers
  <2>7. ASSUME Simple, AllClean(s), Chain(s, row, PathSize - k),
               k = PathSize => row \notin modified
        PROVE  /\ AllClean(t)
               /\ ~t.ret => /\ Clean(k - 1, row)
                            /\ Clean(PathSize - 1, row) \/ Cut(t, PathSize - k)
    <3>1. row \notin modified
      BY <1>3, <1>10, <2>7
    <3>2. /\ AllClean(r)
          /\ ~r.ret => /\ j >= 1 => \A q \in LinkedTo(row) : Clean(j - 1, q)
                       /\ \/ \A q \in LinkedTo(row) : Clean(PathSize - 1, q)
                          \/ Cut(r, PathSize - j)
      BY <1>2, <1>3, <1>6, <2>7 DEF LinksTrusted
    <3>3. ASSUME ~r.ret
          PROVE  Clean(k - 1, row)
      <4>1. CASE j = 0
        BY <1>1, <3>1, <4>1, CleanZero
      <4>2. CASE j # 0
        <5>1. j \in 1 .. PathSize /\ j >= 1
          BY <1>3, <4>2
        <5>2. Clean(j, row)
          BY <3>1, <3>2, <3>3, <5>1, CleanNext
        <5> QED
          BY <1>1, <5>2
      <4> QED
        BY <4>1, <4>2
    <3>4. ASSUME ~r.ret, \A q \in LinkedTo(row) : Clean(PathSize - 1, q)
          PROVE  Clean(PathSize - 1, row)
      <4>1. CASE PathSize = 1
        <5>1. PathSize - 1 = 0
          BY <4>1
        <5> QED
          BY <3>1, <5>1, CleanZero
      <4>2. CASE PathSize # 1
        <5>1. /\ PathSize - 1 \in 1 .. PathSize /\ (PathSize - 1) - 1 \in 0 .. PathSize
              /\ PathSize - 1 \in ((PathSize - 1) - 1) .. PathSize
          BY <4>2, Sizes
        <5>2. \A q \in LinkedTo(row) : Clean((PathSize - 1) - 1, q)
          <6>1. \A q \in LinkedTo(row) : q \in RowNumbers
            BY LinkedRows
          <6> QED
            BY <3>4, <5>1, <6>1, CleanLess
        <5> QED
          BY <3>1, <5>1, <5>2, CleanNext
      <4> QED
        BY <4>1, <4>2
    <3>5. ~r.ret => Clean(PathSize - 1, row) \/ Cut(r, PathSize - j)
      BY <3>2, <3>4
    <3>6. ASSUME ~r.ret, ~r.path[d + 1].depth_exceeded
          PROVE  Clean(PathSize - 1, row)
      <4>1. CASE d = 0
        <5>1. k = PathSize
          BY <1>3, <4>1
        <5> QED
          BY <3>3, <3>6, <5>1
      <4>2. CASE d # 0
        <5>1. d + 1 \in 2 .. PathSize - j
          BY <1>3, <4>2
        <5>2. ~Cut(r, PathSize - j)
          BY <3>6, <5>1 DEF Cut
        <5> QED
          BY <3>5, <3>6, <5>2
      <4> QED
        BY <4>1, <4>2
    <3>7. AllClean(t)
      BY <2>3, <3>2, <3>6 DEF AllClean
    <3>8. Cut(r, PathSize - j) => Cut(t, PathSize - k)
      <4>1. \A p \in 2 .. PathSize - k : p \in 2 .. PathSize - j
        BY <1>1, <1>3
      <4> QED
        BY <2>3, <4>1 DEF Cut
    <3> QED
      BY <2>3, <3>3, <3>5, <3>7, <3>8
  <2>8. Simple => Trusted(k, s, row, t)
    BY <2>7 DEF Trusted
  <2> QED
    BY <1>4, <2>6, <2>8
<1> QED
  BY <1>8, <1>9, <1>10

LEMMA LevelTyped ==
  ASSUME Linked, NEW k \in 0 .. PathSize, NEW deeper, k > 0 => deeper \in Searches
  PROVE  CheckedAt(k, deeper) \in Searches
<1>1. \A s \in Search, row \in RowNumbers : check_row(deeper, s, row, PathSize - k) \in Search
  BY RowTyped
<1> QED
  BY <1>1 DEF CheckedAt, Searches

LEMMA CheckedSteps ==
  ASSUME Linked
  PROVE  /\ Checked[0] = CheckedAt(0, << >>)
         /\ \A k \in 1 .. PathSize : Checked[k] = CheckedAt(k, Checked[k - 1])
         /\ \A k \in 0 .. PathSize : Checked[k] \in Searches
<1> DEFINE N == PathSize
           V == Searches
           b == CheckedAt(0, << >>)
           F == [p \in V \X (1 .. N) |-> CheckedAt(p[2], p[1])]
           Rec(f) == f = [left \in 0 .. N |->
                           CheckedAt(left, IF left = 0 THEN << >> ELSE f[left - 1])]
           w == CHOOSE f : Rec(f)
<1>1. N \in Nat /\ 0 \in 0 .. N /\ ~(0 > 0)
  BY Sizes
<1>2. b \in V
  BY <1>1, LevelTyped
<1>3. ASSUME NEW v \in V, NEW k \in 1 .. N
      PROVE  CheckedAt(k, v) \in V
  <2>1. k \in 0 .. PathSize
    BY Sizes
  <2> QED
    BY <2>1, LevelTyped
<1>4. F \in [V \X (1 .. N) -> V]
  <2> HIDE DEF V, N
  <2> QED
    BY <1>3
<1>5. Recursive(N, V, b, F) # {}
  <2> HIDE DEF F, V, N, b
  <2> QED
    BY <1>1, <1>2, <1>4, Recursion, Zenon
<1>6. PICK f \in [0 .. N -> V] :
             f[0] = b /\ \A k \in 1 .. N : f[k] = F[<<f[k - 1], k>>]
  <2> HIDE DEF F, V, N, b
  <2> QED
    BY <1>5 DEF Recursive
<1>7. ASSUME NEW k \in 1 .. N
      PROVE  f[k] = CheckedAt(k, f[k - 1])
  <2>1. k - 1 \in 0 .. N
    BY <1>1
  <2>2. <<f[k - 1], k>> \in V \X (1 .. N)
    BY <2>1
  <2> HIDE DEF V, N
  <2> QED
    BY <1>6, <2>2
<1>8. Rec(f)
  <2>1. f = [left \in 0 .. N |-> f[left]]
    BY <1>6
  <2>2. ASSUME NEW left \in 0 .. N
        PROVE  f[left] = CheckedAt(left, IF left = 0 THEN << >> ELSE f[left - 1])
    <3>1. CASE left = 0
      BY <1>6, <3>1
    <3>2. CASE left # 0
      <4>1. left \in 1 .. N
        BY <1>1, <3>2
      <4> HIDE DEF N
      <4> QED
        BY <1>7, <3>2, <4>1
    <3> QED
      BY <3>1, <3>2
  <2> HIDE DEF N, V
  <2> QED
    BY <2>1, <2>2
<1>9. Rec(w)
  <2> HIDE DEF Rec
  <2> QED
    BY <1>8
<1>10. w[0] = b /\ \A k \in 1 .. N : w[k] = CheckedAt(k, w[k - 1])
  <2>1. \A k \in 1 .. N : k \in 0 .. N /\ k # 0
    BY <1>1
  <2> HIDE DEF w, N
  <2> QED
    BY <1>1, <1>9, <2>1
<1>11. Checked = w
  BY DEF Checked
<1> HIDE DEF w, b, N
<1> DEFINE P == {n \in 0 .. N : w[n] \in V}
<1>12. 0 \in P
  BY <1>1, <1>2, <1>10
<1>13. ASSUME NEW n \in 0 .. N - 1, n \in P
       PROVE  n + 1 \in P
  <2>1. n + 1 \in 1 .. N /\ n + 1 \in 0 .. N /\ (n + 1) - 1 = n
    BY <1>1
  <2>2. w[n + 1] = CheckedAt(n + 1, w[n])
    BY <1>10, <2>1
  <2> HIDE DEF V
  <2> QED
    BY <1>3, <1>13, <2>1, <2>2
<1>14. \A n \in 0 .. N : n \in P
  <2> HIDE DEF P
  <2> QED
    BY <1>1, <1>12, <1>13, Induction
<1> QED
  BY <1>10, <1>11, <1>14 DEF N, b

\* A search with any number of levels left answers rightly.
LEMMA CheckedSound ==
  ASSUME Linked, NEW k \in 0 .. PathSize
  PROVE  Level(k, Checked[k])
<1> DEFINE P == {n \in 0 .. PathSize : Level(n, Checked[n])}
<1>1. PathSize \in Nat /\ 0 \in 0 .. PathSize
  BY Sizes
<1>2. 0 \in P
  <2>1. Checked[0] \in Searches /\ Checked[0] = CheckedAt(0, << >>)
    BY <1>1, CheckedSteps
  <2>2. ASSUME NEW s \in Search, NEW row \in RowNumbers, ~s.ret
        PROVE  Answers(0, s, row, Checked[0][s][row]) /\ Trusted(0, s, row, Checked[0][s][row])
    <3>1. Checked[0][s][row] = check_row(<< >>, s, row, PathSize - 0)
      BY <2>1 DEF CheckedAt
    <3> QED
      BY <2>2, <3>1, RowTooDeep
  <2> QED
    BY <1>1, <2>1, <2>2 DEF Level
<1>3. ASSUME NEW n \in 0 .. PathSize - 1, n \in P
      PROVE  n + 1 \in P
  <2>1. PICK m \in 1 .. PathSize : m = n + 1 /\ m - 1 = n
    BY <1>1
  <2>2. m \in 0 .. PathSize
    BY <1>1
  <2>3. Checked[m] \in Searches /\ Checked[m] = CheckedAt(m, Checked[m - 1])
    BY <2>2, CheckedSteps
  <2>4. Level(m - 1, Checked[m - 1])
    BY <1>3, <2>1
  <2>5. ASSUME NEW s \in Search, NEW row \in RowNumbers, ~s.ret
        PROVE  /\ Answers(m, s, row, Checked[m][s][row])
               /\ Simple => Trusted(m, s, row, Checked[m][s][row])
    <3>1. Checked[m][s][row] = check_row(Checked[m - 1], s, row, PathSize - m)
      BY <2>3 DEF CheckedAt
    <3> QED
      BY <2>4, <2>5, <3>1, RowSound
  <2> QED
    BY <2>1, <2>2, <2>3, <2>5 DEF Level
<1>4. \A n \in 0 .. PathSize : n \in P
  <2> HIDE DEF P
  <2> QED
    BY <1>1, <1>2, <1>3, Induction
<1> QED
  BY <1>4

-----------------------------------------------------------------------------
(* The theorems                                                            *)

\* A row was answered to be modified only when a modified row is near enough;
\* where the links are simple, what is remembered and what was answered not to
\* be modified is right.
DeepInv ==
  /\ Linked
  /\ not_modified \in SUBSET RowNumbers
  /\ current_path \in [1 .. PathSize -> Path]
  /\ DOMAIN answers \in SUBSET RowNumbers
  /\ \A row \in DOMAIN answers : answers[row] => ~Clean(PathSize - 1, row)
  /\ Simple => /\ \A row \in not_modified : Clean(PathSize - 1, row)
               /\ \A row \in DOMAIN answers : ~answers[row] => Clean(PathSize - 1, row)

LEMMA DeepInvInit == DeepInit => DeepInv
<1> SUFFICES ASSUME DeepInit PROVE DeepInv
  OBVIOUS
<1>1. Linked
  <2>1. links \in [RowNumbers -> [DOMAIN Columns -> SeqOf(RowNumbers, MaxLinks)]]
    BY DEF DeepInit
  <2>2. SeqOf(RowNumbers, MaxLinks) \subseteq Seq(RowNumbers)
    <3>1. ASSUME NEW m \in 0 .. MaxLinks
          PROVE  [1 .. m -> RowNumbers] \subseteq Seq(RowNumbers)
      <4>1. m \in Nat
        BY DeepBounds
      <4> QED
        BY <4>1
    <3> QED
      BY <3>1 DEF SeqOf
  <2>3. modified \subseteq RowNumbers
    BY DEF DeepInit
  <2> QED
    BY <2>1, <2>2, <2>3 DEF Linked, RowLinks
<1>2. current_path \in [1 .. PathSize -> Path]
  <2>1. Uninitialized \subseteq Path
    <3>1. 0 \in 0 .. Len(Columns)
      BY Sizes
    <3> QED
      BY <3>1 DEF Uninitialized, Path
  <2> QED
    BY <2>1 DEF DeepInit
<1>3. not_modified = {} /\ DOMAIN answers = {}
  BY DEF DeepInit
<1> QED
  BY <1>1, <1>2, <1>3 DEF DeepInv

LEMMA DeepInvNext == DeepInv /\ [DeepNext]_deepVars => DeepInv'
<1> SUFFICES ASSUME DeepInv, [DeepNext]_deepVars PROVE DeepInv'
  OBVIOUS
<1>1. Linked
  BY DEF DeepInv
<1>2. links' = links /\ modified' = modified
  BY DEF DeepNext, Ask, deepVars
<1>3. Within' = Within
  BY <1>2 DEF Within, LinkedTo
<1>4. Linked' /\ Simple' = Simple
  BY <1>1, <1>2, <1>3 DEF Linked, Simple, NoCycle, LinkedTo
<1>5. \A n, row : Clean(n, row)' <=> Clean(n, row)
  BY <1>2, <1>3 DEF Clean
<1>6. CASE UNCHANGED deepVars
  <2>1. answers' = answers /\ not_modified' = not_modified /\ current_path' = current_path
    BY <1>6 DEF deepVars
  <2> QED
    BY <1>4, <1>5, <2>1 DEF DeepInv
<1>7. ASSUME NEW row \in RowNumbers, Ask(row)
      PROVE  DeepInv'
  <2>1. PICK asked : asked = [ret |-> FALSE, memo |-> not_modified, path |-> current_path]
    OBVIOUS
  <2>2. asked \in Search /\ ~asked.ret /\ asked.memo = not_modified
    BY <2>1 DEF DeepInv, Search
  <2>3. PICK s : s = Checked[PathSize][asked][row]
    OBVIOUS
  <2>4. Level(PathSize, Checked[PathSize])
    BY <1>1, Sizes, CheckedSound
  <2>5. Answers(PathSize, asked, row, s) /\ (Simple => Trusted(PathSize, asked, row, s))
    BY <2>2, <2>3, <2>4 DEF Level
  <2>6. s \in Search /\ (s.ret => ~Clean(PathSize - 1, row))
    BY <2>5 DEF Answers
  <2>7. /\ answers' = [r \in DOMAIN answers \cup {row} |->
                        IF r = row THEN row \in modified \/ s.ret ELSE answers[r]]
        /\ not_modified' = IF row \in modified THEN not_modified ELSE s.memo
        /\ current_path' = IF row \in modified THEN current_path ELSE s.path
    BY <1>7, <2>1, <2>3 DEF Ask
  <2>8. row \in modified => ~Clean(PathSize - 1, row)
    <3>1. row \in Within[PathSize - 1][row]
      BY <1>1, Sizes, WithinRow
    <3> QED
      BY <3>1 DEF Clean
  <2>9. not_modified' \in SUBSET RowNumbers /\ current_path' \in [1 .. PathSize -> Path]
    BY <2>6, <2>7, Typed DEF DeepInv
  <2>10. DOMAIN answers' = DOMAIN answers \cup {row}
    BY <2>7
  <2>11. ASSUME NEW r \in DOMAIN answers'
         PROVE  answers'[r] => ~Clean(PathSize - 1, r)
    <3>1. CASE r = row
      BY <2>6, <2>7, <2>8, <2>10, <3>1
    <3>2. CASE r # row
      BY <2>7, <2>10, <3>2 DEF DeepInv
    <3> QED
      BY <3>1, <3>2
  <2>12. ASSUME Simple, row \notin modified
         PROVE  AllClean(s) /\ (~s.ret => Clean(PathSize - 1, row))
    <3>1. AllClean(asked)
      BY <2>2, <2>12 DEF DeepInv, AllClean
    <3>2. PathSize - PathSize = 0 /\ 1 .. 0 = {} /\ PathSize >= 1
      BY Sizes
    <3>3. Chain(asked, row, PathSize - PathSize)
      BY <3>2 DEF Chain
    <3> QED
      BY <2>5, <2>12, <3>1, <3>2, <3>3 DEF Trusted
  <2>13. ASSUME Simple
         PROVE  /\ \A r \in not_modified' : Clean(PathSize - 1, r)
                /\ \A r \in DOMAIN answers' : ~answers'[r] => Clean(PathSize - 1, r)
    <3>1. \A r \in not_modified' : Clean(PathSize - 1, r)
      BY <2>7, <2>12, <2>13 DEF DeepInv, AllClean
    <3>2. ASSUME NEW r \in DOMAIN answers', ~answers'[r]
          PROVE  Clean(PathSize - 1, r)
      <4>1. CASE r = row
        BY <2>7, <2>10, <2>12, <2>13, <3>2, <4>1
      <4>2. CASE r # row
        BY <2>7, <2>10, <2>13, <3>2, <4>2 DEF DeepInv
      <4> QED
        BY <4>1, <4>2
    <3> QED
      BY <3>1, <3>2
  <2>14. DOMAIN answers' \in SUBSET RowNumbers
    BY <2>10 DEF DeepInv
  <2> QED
    BY <1>4, <1>5, <2>9, <2>11, <2>13, <2>14 DEF DeepInv
<1> QED
  BY <1>6, <1>7 DEF DeepNext

LEMMA DeepInvAlways == DeepSpec => []DeepInv
<1> QED
  BY DeepInvInit, DeepInvNext, PTL DEF DeepSpec

\* For any number of rows and link columns, any links and any size of the path,
\* a row is only reported when it or a row it links to was modified.
THEOREM NeverFalseAlarm == DeepSpec => []NoFalseAlarm
<1>1. DeepInv => NoFalseAlarm
  BY DEF DeepInv, NoFalseAlarm, Clean
<1> QED
  BY <1>1, DeepInvAlways, PTL

\* For any number of rows, any links that make no cycle and any size of the
\* path, no modification of a linked row is missed, although searches are cut
\* and their findings remembered.
THEOREM EveryLinkedModificationFound == DeepSpec => []LinkedModificationFound
<1>1. DeepInv => LinkedModificationFound
  BY DEF DeepInv, LinkedModificationFound, Clean, Simple
<1> QED
  BY <1>1, DeepInvAlways, PTL
=============================================================================
