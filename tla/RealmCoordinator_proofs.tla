------------------------ MODULE RealmCoordinator_proofs -----------------------
(***************************************************************************)
(* Theorems about RealmCoordinator, for all instances, notifiers and       *)
(* bounds: what its variables hold, that with one instance that writes the *)
(* worker never goes back, and that then every block is told of each       *)
(* version once.                                                           *)
(***************************************************************************)
EXTENDS RealmCoordinator, TLAPS

LEMMA Consts ==
  /\ Owner \in [Notifiers -> Realms] /\ Writers \subseteq Realms
  /\ none \notin Realms /\ MaxVersion \in Nat \ {0}
  BY ConstantsAssumption

-----------------------------------------------------------------------------
(* Types                                                                   *)

Versions == 0 .. MaxVersion
Changes == SUBSET (1 .. MaxVersion)

\* Who holds the write lock has a version left to commit.
FileTypes ==
  /\ latest \in 1 .. MaxVersion /\ writer \in Writers \cup {none}
  /\ writer # none => latest < MaxVersion

RealmTypes ==
  /\ version \in [Realms -> Versions] /\ target \in [Realms -> Versions]
  /\ delivering \in [Realms -> Versions]
  /\ stage \in [Realms -> Stages] /\ calling \in [Realms -> SUBSET Notifiers]

NotifierTypes ==
  place \in [Notifiers -> Places] /\ sg_version \in [Notifiers -> Versions]

CallbackTypes ==
  /\ accumulated_changes \in [Notifiers -> Changes]
  /\ changes_to_deliver \in [Notifiers -> Changes]
  /\ told \in [Notifiers -> Changes] /\ seen \in [Notifiers -> Versions]

RunTypes ==
  /\ step \in Steps
  /\ new_notifiers \in SUBSET Notifiers /\ notifiers \in SUBSET Notifiers

WorkerTypes ==
  /\ skip_version \in Versions
  /\ final_version \in Versions /\ skip \in Versions /\ notifier_sg \in Versions
  /\ change_info \in Changes

Values ==
  FileTypes /\ RealmTypes /\ NotifierTypes /\ CallbackTypes /\ RunTypes /\ WorkerTypes

Flags ==
  /\ wake \in BOOLEAN
  /\ signaled \in [Realms -> BOOLEAN] /\ dropped \in [Realms -> BOOLEAN]
  /\ has_run \in [Notifiers -> BOOLEAN] /\ initial_delivered \in [Notifiers -> BOOLEAN]

LEMMA Types ==
  Values /\ Flags => TypeOK
  BY Zenon DEF TypeOK, Values, Flags, Versions, Changes, FileTypes, RealmTypes, NotifierTypes,
     CallbackTypes, RunTypes, WorkerTypes

LEMMA TypeInit == Init => Values /\ Flags
<1> HAVE Init
<1>1. Values BY Consts DEF Init, Values, Versions, Changes, Stages, Places, Steps,
        FileTypes, RealmTypes, NotifierTypes,
        CallbackTypes, RunTypes, WorkerTypes
<1>2. Flags BY Zenon DEF Init, Flags
<1> QED BY <1>1, <1>2

USE DEF fileVars, realmVars, callbackVars, historyVars, workerVars, notifierVars

LEMMA Interval ==
  ASSUME NEW a \in Versions, NEW b \in Versions
  PROVE  a + 1 .. b \in Changes
  BY Consts DEF Versions, Changes

LEMMA TypeRegister ==
  ASSUME Values, Flags, NEW n \in Notifiers, register_notifier(n)
  PROVE  Values' /\ Flags'
<1> USE Values DEF Values
<1>1. FileTypes' /\ RealmTypes' /\ CallbackTypes' /\ RunTypes' /\ WorkerTypes'
  BY Zenon DEF FileTypes, RealmTypes, CallbackTypes, RunTypes, WorkerTypes,
     register_notifier
<1>2. NotifierTypes'
  BY Consts DEF NotifierTypes, RealmTypes, Versions, Places, Stages,
     register_notifier
<1>3. Flags'
  BY Zenon DEF Flags, register_notifier
<1> QED
  BY <1>1, <1>2, <1>3

LEMMA TypeUnregister ==
  ASSUME Values, Flags, NEW n \in Notifiers, unregister(n)
  PROVE  Values' /\ Flags'
<1> USE Values DEF Values
<1>1. FileTypes' /\ CallbackTypes' /\ RunTypes' /\ WorkerTypes'
  BY Zenon DEF FileTypes, CallbackTypes, RunTypes, WorkerTypes, unregister
<1>2. RealmTypes'
  BY Consts DEF RealmTypes, Versions, Stages, unregister
<1>3. NotifierTypes'
  BY Consts DEF NotifierTypes, Versions, Places, unregister
<1>4. Flags'
  BY Zenon DEF Flags, unregister
<1> QED
  BY <1>1, <1>2, <1>3, <1>4

LEMMA TypeAfterAdvance ==
  ASSUME Values, Flags, NEW r \in Realms, NEW n \in Notifiers, after_advance(r, n)
  PROVE  Values' /\ Flags'
<1> USE Values DEF Values
<1>1. FileTypes' /\ NotifierTypes' /\ RunTypes' /\ WorkerTypes'
  BY Zenon DEF FileTypes, NotifierTypes, RunTypes, WorkerTypes, after_advance
<1>2. RealmTypes'
  BY Consts DEF RealmTypes, Versions, Stages, after_advance
<1>3. CallbackTypes'
  BY Consts DEF CallbackTypes, RealmTypes, Versions, Changes, Stages,
     after_advance
<1>4. Flags'
  BY SMT DEF Flags, after_advance
<1> QED
  BY <1>1, <1>2, <1>3, <1>4

LEMMA TypeAllSent ==
  ASSUME Values, Flags, NEW r \in Realms, AllSent(r)
  PROVE  Values' /\ Flags'
<1> USE Values DEF Values
<1>1. FileTypes' /\ NotifierTypes' /\ CallbackTypes' /\ RunTypes' /\ WorkerTypes'
  BY Zenon DEF FileTypes, NotifierTypes, CallbackTypes, RunTypes,
     WorkerTypes, AllSent
<1>2. RealmTypes'
  BY Consts DEF RealmTypes, Versions, Stages, AllSent
<1>3. Flags'
  BY Zenon DEF Flags, AllSent
<1> QED
  BY <1>1, <1>2, <1>3

LEMMA TypeNotifyWhileWriting ==
  ASSUME Values, Flags, NEW r \in Realms, notifyWhileWriting(r)
  PROVE  Values' /\ Flags'
<1> USE Values DEF Values
<1>1. FileTypes' /\ RealmTypes' /\ NotifierTypes' /\ CallbackTypes' /\ RunTypes' /\ WorkerTypes'
  BY Zenon DEF FileTypes, RealmTypes, NotifierTypes, CallbackTypes,
     RunTypes, WorkerTypes, notifyWhileWriting
<1>2. Flags'
  BY SMT DEF Flags, notifyWhileWriting
<1> QED
  BY <1>1, <1>2

LEMMA TypeRefresh ==
  ASSUME Values, Flags, NEW r \in Realms, refresh(r)
  PROVE  Values' /\ Flags'
<1> USE Values DEF Values
<1>1. FileTypes' /\ NotifierTypes' /\ CallbackTypes' /\ RunTypes' /\ WorkerTypes'
  BY Zenon DEF FileTypes, NotifierTypes, CallbackTypes, RunTypes,
     WorkerTypes, refresh
<1>2. RealmTypes'
  BY Consts DEF RealmTypes, FileTypes, Versions, Stages, refresh
<1>3. Flags'
  BY SMT DEF Flags, refresh
<1> QED
  BY <1>1, <1>2, <1>3

LEMMA TypeBegin ==
  ASSUME Values, Flags, NEW r \in Realms, begin_transaction(r)
  PROVE  Values' /\ Flags'
<1> USE Values DEF Values
<1>1. NotifierTypes' /\ CallbackTypes' /\ RunTypes' /\ WorkerTypes'
  BY Zenon DEF NotifierTypes, CallbackTypes, RunTypes, WorkerTypes,
     begin_transaction
<1>2. FileTypes'
  BY Consts DEF FileTypes, begin_transaction
<1>3. RealmTypes'
  BY Consts DEF RealmTypes, FileTypes, Versions, Stages, begin_transaction
<1>4. Flags'
  BY SMT DEF Flags, begin_transaction
<1> QED
  BY <1>1, <1>2, <1>3, <1>4

LEMMA TypeBeginInCallback ==
  ASSUME Values, Flags, NEW r \in Realms, beginInCallback(r)
  PROVE  Values' /\ Flags'
<1> USE Values DEF Values
<1>1. NotifierTypes' /\ CallbackTypes' /\ RunTypes' /\ WorkerTypes'
  BY Zenon DEF NotifierTypes, CallbackTypes, RunTypes, WorkerTypes,
     beginInCallback
<1>2. FileTypes'
  BY Consts DEF FileTypes, beginInCallback
<1>3. RealmTypes'
  BY Consts DEF RealmTypes, FileTypes, Versions, Stages, beginInCallback
<1>4. Flags'
  BY Zenon DEF Flags, beginInCallback
<1> QED
  BY <1>1, <1>2, <1>3, <1>4

LEMMA TypeCommit ==
  ASSUME Values, Flags, NEW r \in Realms, commit_write(r)
  PROVE  Values' /\ Flags'
<1> USE Values DEF Values
<1>1. NotifierTypes' /\ CallbackTypes' /\ RunTypes'
  BY Zenon DEF NotifierTypes, CallbackTypes, RunTypes, commit_write, Commit
<1>2. FileTypes'
  BY Consts DEF FileTypes, commit_write, Commit, in_transaction
<1>3. RealmTypes'
  BY Consts DEF RealmTypes, FileTypes, Versions, Stages, commit_write,
     Commit, in_transaction
<1>4. WorkerTypes'
  BY Consts, Interval DEF WorkerTypes, FileTypes, Versions, Changes,
     commit_write, Commit, in_transaction
<1>5. Flags'
  BY Zenon DEF Flags, commit_write, Commit
<1> QED
  BY <1>1, <1>2, <1>3, <1>4, <1>5

LEMMA TypeCancel ==
  ASSUME Values, Flags, NEW r \in Realms, cancel_transaction(r)
  PROVE  Values' /\ Flags'
<1> USE Values DEF Values
<1>1. RealmTypes' /\ NotifierTypes' /\ CallbackTypes' /\ RunTypes' /\ WorkerTypes'
  BY Zenon DEF RealmTypes, NotifierTypes, CallbackTypes, RunTypes,
     WorkerTypes, cancel_transaction
<1>2. FileTypes'
  BY Consts DEF FileTypes, cancel_transaction
<1>3. Flags'
  BY Zenon DEF Flags, cancel_transaction
<1> QED
  BY <1>1, <1>2, <1>3

LEMMA TypeLock ==
  ASSUME Values, Flags, lockNotifiers
  PROVE  Values' /\ Flags'
<1> USE Values DEF Values
<1>1. FileTypes' /\ RealmTypes' /\ CallbackTypes'
  BY Zenon DEF FileTypes, RealmTypes, CallbackTypes, lockNotifiers
<1>2. NotifierTypes'
  BY Consts DEF NotifierTypes, Versions, Places, lockNotifiers, Main, New
<1>3. RunTypes'
  BY Consts DEF RunTypes, Steps, lockNotifiers, Main, New
<1>4. WorkerTypes'
  BY Consts, Interval DEF WorkerTypes, FileTypes, Versions, Changes,
     lockNotifiers
<1>5. Flags'
  BY Zenon DEF Flags, lockNotifiers
<1> QED
  BY <1>1, <1>2, <1>3, <1>4, <1>5

LEMMA TypeSkip ==
  ASSUME Values, Flags, advanceToSkipVersion
  PROVE  Values' /\ Flags'
<1> USE Values DEF Values
<1>1. FileTypes' /\ RealmTypes' /\ NotifierTypes' /\ CallbackTypes'
  BY Zenon DEF FileTypes, RealmTypes, NotifierTypes, CallbackTypes,
     advanceToSkipVersion, advance_to_final
<1>2. RunTypes'
  BY Consts DEF RunTypes, Steps, advanceToSkipVersion, advance_to_final
<1>3. WorkerTypes'
  BY Consts, Interval DEF WorkerTypes, advanceToSkipVersion, advance_to_final
<1>4. Flags'
  BY Zenon DEF Flags, advanceToSkipVersion, advance_to_final
<1> QED
  BY <1>1, <1>2, <1>3, <1>4

LEMMA TypeHandOverSkip ==
  ASSUME Values, Flags, handOverSkipVersion
  PROVE  Values' /\ Flags'
<1> USE Values DEF Values
<1>1. FileTypes' /\ RealmTypes'
  BY Zenon DEF FileTypes, RealmTypes, handOverSkipVersion, add_changes
<1>2. NotifierTypes'
  BY Consts DEF NotifierTypes, WorkerTypes, Versions, Places, Changes,
     handOverSkipVersion, add_changes
<1>3. CallbackTypes'
  BY Consts DEF CallbackTypes, WorkerTypes, Versions, Changes,
     handOverSkipVersion, add_changes
<1>4. RunTypes'
  BY Consts DEF RunTypes, Steps, handOverSkipVersion, add_changes
<1>5. WorkerTypes'
  <2>1. 0 \in Versions /\ {} \in Changes
    BY Consts DEF Versions, Changes
  <2> QED
    BY <2>1, Zenon DEF WorkerTypes, handOverSkipVersion
<1>6. Flags'
  BY Zenon DEF Flags, handOverSkipVersion, add_changes
<1> QED
  BY <1>1, <1>2, <1>3, <1>4, <1>5, <1>6

LEMMA TypeFinal ==
  ASSUME Values, Flags, advanceToFinalVersion
  PROVE  Values' /\ Flags'
<1> USE Values DEF Values
<1>1. FileTypes' /\ RealmTypes' /\ NotifierTypes' /\ CallbackTypes'
  BY Zenon DEF FileTypes, RealmTypes, NotifierTypes, CallbackTypes,
     advanceToFinalVersion, advance_to_final
<1>2. RunTypes'
  BY Consts DEF RunTypes, Steps, advanceToFinalVersion, advance_to_final
<1>3. WorkerTypes'
  <2> DEFINE v == IF final_version = 0 THEN latest ELSE final_version
  <2>1. v \in Versions
    BY Consts DEF WorkerTypes, FileTypes, Versions
  <2> HIDE DEF v
  <2>2. advance_to_final(v, "handover")
    BY Zenon DEF v, advanceToFinalVersion
  <2> QED
    BY <2>1, <2>2, Interval DEF WorkerTypes, advance_to_final
<1>4. Flags'
  BY Zenon DEF Flags, advanceToFinalVersion, advance_to_final
<1> QED
  BY <1>1, <1>2, <1>3, <1>4

LEMMA TypeHandover ==
  ASSUME Values, Flags, prepare_handover
  PROVE  Values' /\ Flags'
<1> USE Values DEF Values
<1>1. FileTypes' /\ RealmTypes'
  BY Zenon DEF FileTypes, RealmTypes, prepare_handover, add_changes
<1>2. NotifierTypes'
  BY Consts DEF NotifierTypes, WorkerTypes, Versions, Places, Changes,
     prepare_handover, add_changes
<1>3. CallbackTypes'
  BY Consts DEF CallbackTypes, WorkerTypes, Versions, Changes,
     prepare_handover, add_changes
<1>4. RunTypes'
  BY Consts DEF RunTypes, Steps, prepare_handover, add_changes
<1>5. WorkerTypes'
  BY Consts, Interval DEF WorkerTypes, Versions, Changes, prepare_handover,
     add_changes
<1>6. Flags'
  BY SMT DEF Flags, prepare_handover, add_changes
<1> QED
  BY <1>1, <1>2, <1>3, <1>4, <1>5, <1>6

LEMMA TypeNotifyRealms ==
  ASSUME Values, Flags, notifyRealms
  PROVE  Values' /\ Flags'
<1> USE Values DEF Values
<1>1. FileTypes' /\ RealmTypes' /\ NotifierTypes' /\ CallbackTypes' /\ WorkerTypes'
  BY Zenon DEF FileTypes, RealmTypes, NotifierTypes, CallbackTypes,
     WorkerTypes, notifyRealms
<1>2. RunTypes'
  BY Consts DEF RunTypes, Steps, notifyRealms
<1>3. Flags'
  BY Zenon DEF Flags, notifyRealms
<1> QED
  BY <1>1, <1>2, <1>3

LEMMA TypeSend ==
  ASSUME Values, Flags, NEW r \in Realms, NEW P \in SUBSET Notifiers,
         NEW v \in Versions, NEW w \in Versions, Send(r, P, v, w)
  PROVE  RealmTypes' /\ initial_delivered' = initial_delivered
         /\ accumulated_changes' \in [Notifiers -> Changes]
         /\ changes_to_deliver' \in [Notifiers -> Changes]
  BY Consts DEF Values, RealmTypes, CallbackTypes, Send, package_for_delivery,
     Versions, Changes, Stages

\* What is sent when.
LEMMA Sent ==
  ASSUME Values, NEW r \in Realms
  PROVE  /\ latest \in Versions /\ version[r] \in Versions
         /\ \A n \in Notifiers : sg_version[n] \in Versions
         /\ HasRun(r) \in SUBSET Notifiers /\ notifiers_for_realm(r) \in SUBSET Notifiers
  BY Consts DEF Values, FileTypes, RealmTypes, NotifierTypes, Versions, HasRun,
     notifiers_for_realm, Main, New

LEMMA TypeProcess ==
  ASSUME Values, Flags, NEW r \in Realms, process_available_async(r)
  PROVE  Values' /\ Flags'
<1> DEFINE P == {n \in HasRun(r) : sg_version[n] = version[r]}
<1>1. Send(r, P, version[r], version[r]) /\ P \in SUBSET Notifiers
  BY Sent DEF process_available_async
<1>2. RealmTypes' /\ CallbackTypes' /\ initial_delivered' = initial_delivered
  BY <1>1, TypeSend, Sent DEF process_available_async, Values, CallbackTypes
<1>3. FileTypes' /\ NotifierTypes' /\ RunTypes' /\ WorkerTypes'
  BY Zenon DEF process_available_async, Values, FileTypes, NotifierTypes, RunTypes, WorkerTypes
<1>4. Flags'
  BY <1>2 DEF process_available_async, Flags
<1> QED
  BY <1>2, <1>3, <1>4 DEF Values

LEMMA TypeReady ==
  ASSUME Values, Flags, NEW r \in Realms, advance_to_ready(r)
  PROVE  Values' /\ Flags'
<1>1. RealmTypes' /\ initial_delivered' = initial_delivered
      /\ accumulated_changes' \in [Notifiers -> Changes]
      /\ changes_to_deliver' \in [Notifiers -> Changes]
  <2>1. CASE HasRun(r) = {}
    BY <2>1, TypeSend, Sent DEF advance_to_ready
  <2>2. CASE HasRun(r) # {}
    <3>1. PICK n \in HasRun(r) :
            IF sg_version[n] > version[r]
            THEN Send(r, HasRun(r), sg_version[n], sg_version[n])
            ELSE /\ package_for_delivery(HasRun(r))
                 /\ UNCHANGED <<version, delivering, calling, stage, target>>
      BY <2>2, Zenon DEF advance_to_ready
    <3>2. CASE Send(r, HasRun(r), sg_version[n], sg_version[n])
      BY <3>2, TypeSend, Sent
    <3>3. CASE /\ package_for_delivery(HasRun(r))
               /\ UNCHANGED <<version, delivering, calling, stage, target>>
      BY <3>3, Consts DEF package_for_delivery, Values, RealmTypes, CallbackTypes, Changes
    <3> QED
      BY <3>1, <3>2, <3>3, Zenon
  <2> QED
    BY <2>1, <2>2
<1>2. CallbackTypes'
  BY <1>1 DEF advance_to_ready, Values, CallbackTypes
<1>3. FileTypes' /\ NotifierTypes' /\ RunTypes' /\ WorkerTypes'
  BY Zenon DEF advance_to_ready, Values, FileTypes, NotifierTypes, RunTypes, WorkerTypes
<1>4. Flags'
  BY <1>1 DEF advance_to_ready, Flags
<1> QED
  BY <1>1, <1>2, <1>3, <1>4 DEF Values

LEMMA TypeLatest ==
  ASSUME Values, Flags, NEW r \in Realms, advance_to_latest(r)
  PROVE  Values' /\ Flags'
<1>1. PICK v \in Versions : Send(r, notifiers_for_realm(r), v, v)
  <2>1. CASE notifiers_for_realm(r) = {}
    BY <2>1, Sent DEF advance_to_latest
  <2>2. CASE notifiers_for_realm(r) # {}
    BY <2>2, Sent DEF advance_to_latest
  <2> QED
    BY <2>1, <2>2
<1>2. RealmTypes' /\ CallbackTypes' /\ initial_delivered' = initial_delivered
  BY <1>1, TypeSend, Sent DEF advance_to_latest, Values, CallbackTypes
<1>3. FileTypes' /\ NotifierTypes' /\ RunTypes' /\ WorkerTypes'
  BY Zenon DEF advance_to_latest, Values, FileTypes, NotifierTypes, RunTypes, WorkerTypes
<1>4. Flags'
  BY <1>2, Zenon DEF advance_to_latest, Flags
<1> QED
  BY <1>2, <1>3, <1>4 DEF Values

LEMMA TypePromote ==
  ASSUME Values, Flags, NEW r \in Realms, promote_to_write(r)
  PROVE  Values' /\ Flags'
<1>1. RealmTypes' /\ CallbackTypes' /\ initial_delivered' = initial_delivered
  BY TypeSend, Sent DEF promote_to_write, Values, CallbackTypes
<1>2. FileTypes' /\ NotifierTypes' /\ RunTypes' /\ WorkerTypes'
  BY Zenon DEF promote_to_write, Values, FileTypes, NotifierTypes, RunTypes, WorkerTypes
<1>3. Flags'
  BY <1>1, Zenon DEF promote_to_write, Flags
<1> QED
  BY <1>1, <1>2, <1>3 DEF Values

LEMMA TypeStep ==
  ASSUME Values, Flags, [Next]_vars
  PROVE  Values' /\ Flags'
<1>1. CASE Worker
  BY <1>1, TypeLock, TypeSkip, TypeHandOverSkip, TypeFinal, TypeHandover, TypeNotifyRealms
  DEF Worker
<1>2. CASE \E r \in Realms : Goes(r)
  BY <1>2, TypeNotifyWhileWriting, TypeProcess, TypeReady, TypeLatest, TypePromote,
     TypeAfterAdvance, TypeAllSent DEF Goes
<1>3. CASE \E r \in Realms :
             Ends(r) \/ refresh(r) \/ begin_transaction(r) \/ beginInCallback(r)
  BY <1>3, TypeCommit, TypeCancel, TypeRefresh, TypeBegin, TypeBeginInCallback DEF Ends
<1>4. CASE \E n \in Notifiers : register_notifier(n) \/ unregister(n)
  BY <1>4, TypeRegister, TypeUnregister
<1>5. CASE UNCHANGED vars
  BY <1>5, Zenon DEF vars, Values, Flags, FileTypes, RealmTypes, NotifierTypes,
     CallbackTypes, RunTypes, WorkerTypes
<1> QED
  BY <1>1, <1>2, <1>3, <1>4, <1>5 DEF Next

\* The variables keep their types, and no version is past the last one, for
\* all constants (realm_coordinator.cpp:322-783).
THEOREM TypesHold == Spec => []TypeOK
<1>1. Init => Values /\ Flags
  BY TypeInit
<1>2. (Values /\ Flags) /\ [Next]_vars => (Values /\ Flags)'
  BY TypeStep
<1>3. Values /\ Flags => TypeOK
  BY Types
<1> QED
  BY <1>1, <1>2, <1>3, PTL DEF Spec

-----------------------------------------------------------------------------
(* The worker never goes back                                              *)

\* One instance writes, and its collections are not released.
SingleWriter ==
  /\ \A v, w \in Writers : v = w
  /\ \A n \in Released : Owner[n] \notin Writers

\* The inductive invariant: what the worker has taken is ahead of it, and the
\* version to skip to is the latest as long as it has not taken it.
Ahead ==
  /\ step # "aborted"
  /\ notifier_sg <= latest /\ skip <= latest /\ final_version <= latest
  /\ step = "skip" => notifier_sg <= skip /\ (final_version # 0 => skip <= final_version)
  /\ step \in {"skip_handover", "advance"} =>
       (final_version # 0 => notifier_sg <= final_version)

SkipToLatest ==
  skip_version # 0 => skip_version = latest /\ \E n \in Main : Owner[n] \in Writers

Forward == Ahead /\ SkipToLatest

LEMMA Numbers ==
  ASSUME Values
  PROVE  /\ latest \in Nat \ {0} /\ skip_version \in Nat /\ skip \in Nat
         /\ final_version \in Nat /\ notifier_sg \in Nat
  BY Consts DEF Values, FileTypes, WorkerTypes, Versions

LEMMA ForwardInit == Init => Forward
  BY DEF Init, Forward, Ahead, SkipToLatest

\* Most steps change nothing it is about.
LEMMA ForwardKept ==
  ASSUME Forward, UNCHANGED <<latest, place, skip_version, step, final_version, skip, notifier_sg>>
  PROVE  Forward'
  BY Zenon DEF Forward, Ahead, SkipToLatest, Main

LEMMA ForwardNotifier ==
  ASSUME Values, SingleWriter, Forward, NEW n \in Notifiers, register_notifier(n) \/ unregister(n)
  PROVE  Forward'
<1>1. UNCHANGED <<latest, skip_version, step, final_version, skip, notifier_sg>>
  BY DEF register_notifier, unregister
<1>2. ASSUME NEW m \in Main, Owner[m] \in Writers
      PROVE  m \in Main'
  BY <1>2 DEF SingleWriter, Main, register_notifier, unregister, Values, NotifierTypes
<1> QED
  BY <1>1, <1>2, Zenon DEF Forward, Ahead, SkipToLatest

\* A version to skip to that is still there belongs to a notifier of the
\* instance that commits, which replaces it.
LEMMA ForwardCommit ==
  ASSUME Values, SingleWriter, Forward, NEW r \in Realms, commit_write(r)
  PROVE  Forward'
<1>0. /\ latest \in Nat \ {0} /\ skip_version \in Nat /\ skip \in Nat
      /\ final_version \in Nat /\ notifier_sg \in Nat
  BY Numbers, Zenon
<1>1. /\ latest' = latest + 1
      /\ UNCHANGED <<place, step, final_version, skip, notifier_sg>>
      /\ skip_version' = IF have_notifiers(r) THEN latest + 1 ELSE skip_version
  BY Zenon DEF commit_write, Commit
<1>2. r \in Writers
  BY Consts DEF commit_write, Commit, in_transaction, Values, FileTypes
<1>3. Ahead'
  <2>1. notifier_sg' <= latest' /\ skip' <= latest' /\ final_version' <= latest'
    BY <1>0, <1>1 DEF Forward, Ahead
  <2>2. UNCHANGED <<step, final_version, skip, notifier_sg>>
    BY <1>1
  <2> QED
    BY <2>1, <2>2, Zenon DEF Forward, Ahead
<1>4. SkipToLatest'
  <2>1. CASE have_notifiers(r)
    BY <1>1, <1>2, <2>1 DEF have_notifiers, Main, SkipToLatest
  <2>2. CASE ~have_notifiers(r)
    BY <1>1, <1>2, <2>2 DEF have_notifiers, Main, SingleWriter, Forward, SkipToLatest
  <2> QED
    BY <2>1, <2>2
<1> QED
  BY <1>3, <1>4 DEF Forward

LEMMA ForwardLock ==
  ASSUME Values, Forward, lockNotifiers
  PROVE  Forward'
<1>0. /\ latest \in Nat \ {0} /\ skip_version \in Nat /\ skip \in Nat
      /\ final_version \in Nat /\ notifier_sg \in Nat
  BY Numbers, Zenon
<1>1. CASE Main \cup New = {}
  <2>1. /\ step' = "notify"
        /\ UNCHANGED <<latest, place, final_version, skip, notifier_sg, skip_version>>
    BY <1>1, Zenon DEF lockNotifiers
  <2> QED
    BY <2>1, Zenon DEF Forward, Ahead, SkipToLatest, Main
<1>2. CASE Main \cup New # {}
  <2>1. /\ latest' = latest
        /\ final_version' = IF New = {} THEN 0 ELSE latest
        /\ notifier_sg' = IF Main = {} THEN latest ELSE notifier_sg
        /\ skip' = skip_version /\ skip_version' = 0
        /\ step' = IF skip_version = 0 THEN "advance" ELSE "skip"
    BY <1>2, Zenon DEF lockNotifiers
  <2>2. Ahead'
    BY <2>1, <1>0 DEF Forward, Ahead, SkipToLatest
  <2> QED
    BY <2>1, <2>2 DEF Forward, SkipToLatest
<1> QED
  BY <1>1, <1>2

LEMMA ForwardWorker ==
  ASSUME Values, Forward,
         advanceToSkipVersion \/ handOverSkipVersion \/ advanceToFinalVersion
           \/ prepare_handover \/ notifyRealms
  PROVE  Forward'
<1>0. /\ latest \in Nat \ {0} /\ skip_version \in Nat /\ skip \in Nat
      /\ final_version \in Nat /\ notifier_sg \in Nat
  BY Numbers, Zenon
<1>1. UNCHANGED <<latest, place, skip_version>>
  BY Zenon DEF advanceToSkipVersion, handOverSkipVersion, advanceToFinalVersion,
     prepare_handover, notifyRealms, advance_to_final
<1>2. Ahead'
  <2>1. CASE advanceToSkipVersion
    <3>1. step = "skip" /\ UNCHANGED <<final_version, skip>>
      BY <2>1 DEF advanceToSkipVersion, advance_to_final
    <3>2. ~(skip < notifier_sg)
      BY <3>1, <1>0 DEF Forward, Ahead
    <3>3. step' = "skip_handover" /\ notifier_sg' = skip
      BY <2>1, <3>2 DEF advanceToSkipVersion, advance_to_final
    <3> QED
      BY <1>1, <3>1, <3>3, <1>0 DEF Forward, Ahead
  <2>2. CASE handOverSkipVersion
    <3>1. /\ step = "skip_handover" /\ step' = "advance" /\ skip' = 0
          /\ UNCHANGED <<final_version, notifier_sg>>
      BY <2>2 DEF handOverSkipVersion
    <3> QED
      BY <1>1, <3>1, <1>0 DEF Forward, Ahead
  <2>3. CASE advanceToFinalVersion
    <3> DEFINE v == IF final_version = 0 THEN latest ELSE final_version
    <3>1. v \in Nat /\ notifier_sg <= v /\ v <= latest
      BY <2>3, <1>0 DEF Forward, Ahead, advanceToFinalVersion
    <3> HIDE DEF v
    <3>2. ~(v < notifier_sg)
      BY <3>1, <1>0
    <3>3. step' = "handover" /\ notifier_sg' = v /\ UNCHANGED <<final_version, skip>>
      BY <2>3, <3>2 DEF v, advanceToFinalVersion, advance_to_final
    <3> QED
      BY <1>1, <3>1, <3>3, <1>0 DEF Forward, Ahead
  <2>4. CASE prepare_handover
    <3>1. /\ step' = "notify" /\ final_version' = 0
          /\ UNCHANGED <<skip, notifier_sg>>
      BY <2>4 DEF prepare_handover
    <3> QED
      BY <1>1, <3>1, <1>0 DEF Forward, Ahead
  <2>5. CASE notifyRealms
    <3>1. step' = "idle" /\ UNCHANGED <<final_version, skip, notifier_sg>>
      BY <2>5 DEF notifyRealms
    <3> QED
      BY <1>1, <3>1, <1>0 DEF Forward, Ahead
  <2> QED
    BY <2>1, <2>2, <2>3, <2>4, <2>5
<1> QED
  BY <1>1, <1>2, Zenon DEF Forward, SkipToLatest, Main

LEMMA ForwardStep ==
  ASSUME SingleWriter, Values, Forward, [Next]_vars
  PROVE  Forward'
<1>1. CASE Worker
  BY <1>1, ForwardLock, ForwardWorker, Zenon DEF Worker
<1>2. ASSUME NEW r \in Realms, Goes(r)
      PROVE  Forward'
  <2>1. UNCHANGED <<latest, place, skip_version, step, final_version, skip, notifier_sg>>
    BY <1>2, Zenon DEF Goes, notifyWhileWriting, process_available_async, advance_to_ready,
       advance_to_latest, promote_to_write, after_advance, AllSent
  <2> QED
    BY <2>1, ForwardKept
<1>3. ASSUME NEW r \in Realms,
             cancel_transaction(r) \/ refresh(r) \/ begin_transaction(r) \/ beginInCallback(r)
      PROVE  Forward'
  <2>1. UNCHANGED <<latest, place, skip_version, step, final_version, skip, notifier_sg>>
    BY <1>3, Zenon DEF cancel_transaction, refresh, begin_transaction, beginInCallback
  <2> QED
    BY <2>1, ForwardKept
<1>4. CASE \E r \in Realms : commit_write(r)
  BY <1>4, ForwardCommit
<1>5. CASE \E n \in Notifiers : register_notifier(n) \/ unregister(n)
  BY <1>5, ForwardNotifier
<1>6. CASE UNCHANGED vars
  BY <1>6, ForwardKept, Zenon DEF vars
<1> QED
  BY <1>1, <1>2, <1>3, <1>4, <1>5, <1>6, Zenon DEF Next, Ends

\* With one instance that writes, whose collections live, the worker's
\* transaction never has to go back (group_shared.hpp:1030), for any number of
\* instances, notifiers and versions (realm_coordinator.cpp:335-339, 549-639).
THEOREM WorkerNeverGoesBack ==
  ASSUME SingleWriter
  PROVE  Spec => []NeverBack
<1>1. Init => Values /\ Flags /\ Forward
  BY TypeInit, ForwardInit
<1>2. (Values /\ Flags /\ Forward) /\ [Next]_vars => (Values /\ Flags /\ Forward)'
  BY TypeStep, ForwardStep
<1>3. Forward => NeverBack
  BY DEF Forward, Ahead, NeverBack
<1> QED
  BY <1>1, <1>2, <1>3, PTL DEF Spec

-----------------------------------------------------------------------------
(* Each block is told of each version once                                 *)

Handed == {n \in Main : has_run[n]}

\* Who writes is at the latest version, also while it waits for the notifiers.
WriterAtLatest ==
  \A w \in Writers :
    /\ version[w] = latest
    /\ stage[w] \in {"promoting", "refreshing"} => target[w] = latest

Promoting == \A r \in Realms : stage[r] = "promoting" => r \in Writers

\* The notifiers that have run are at one version, that of the worker's
\* transaction or, before it hands over, the one its changes begin at.
WorkerInStep ==
  /\ \A n \in Handed : sg_version[n] \in 1 .. latest
  /\ \A m, n \in Handed : sg_version[m] = sg_version[n]
  /\ step \in {"idle", "skip", "advance", "notify"} =>
       \A n \in Handed : sg_version[n] = notifier_sg
  /\ step \in {"skip_handover", "handover"} =>
       \A n \in Handed :
         sg_version[n] <= notifier_sg /\ change_info = sg_version[n] + 1 .. notifier_sg
  /\ step = "handover" => notifier_sg # 0
  /\ step \in {"idle", "notify"} => \A n \in Main : has_run[n]
  /\ step \in {"skip", "skip_handover", "advance", "handover"} =>
       \A n \in Main : /\ has_run[n] <=> n \in notifiers
                       /\ ~has_run[n] => n \in new_notifiers
  /\ \A n \in notifiers \cup new_notifiers : place[n] \in {"main", "dead"}

\* A notifier whose callback is to be called was packaged for it; what it
\* accumulated goes on from there.
Packaged(n) ==
  LET r == Owner[n] IN
  /\ place[n] = "main" /\ has_run[n] /\ stage[r] = "sending"
  /\ delivering[r] \in 1 .. sg_version[n]
  /\ accumulated_changes[n] = delivering[r] + 1 .. sg_version[n]
  /\ initial_delivered[n] => /\ seen[n] <= delivering[r]
                             /\ changes_to_deliver[n] = seen[n] + 1 .. delivering[r]
  /\ r \notin Writers => version[r] = delivering[r]

\* One whose callback is not has accumulated what it was not told of, and
\* unless its instance writes was told of all up to the version of that.
Accumulating(n) ==
  LET r == Owner[n] IN
  /\ seen[n] <= sg_version[n] /\ accumulated_changes[n] = seen[n] + 1 .. sg_version[n]
  /\ r \notin Writers => seen[n] = version[r]

CallbackInStep(n) ==
  /\ initial_delivered[n] <=> seen[n] # 0
  /\ initial_delivered[n] => has_run[n]
  /\ has_run[n] => place[n] \in {"main", "dead"}
  /\ n \in calling[Owner[n]] => Packaged(n)
  /\ place[n] = "main" /\ initial_delivered[n] /\ n \notin calling[Owner[n]] => Accumulating(n)

Owned == \A r \in Realms : \A n \in calling[r] : Owner[n] = r

RealmsInStep == WriterAtLatest /\ Promoting /\ Owned

InStep == RealmsInStep /\ WorkerInStep /\ \A n \in Notifiers : CallbackInStep(n)

LEMMA Elements ==
  ASSUME Values, NEW n \in Notifiers
  PROVE  /\ Owner[n] \in Realms /\ version[Owner[n]] \in Nat /\ delivering[Owner[n]] \in Nat
         /\ sg_version[n] \in Nat /\ seen[n] \in Nat /\ place[n] \in Places
  BY Consts DEF Values, RealmTypes, NotifierTypes, CallbackTypes, Versions

LEMMA InStepInit == Init => InStep
<1> HAVE Init
<1>1. Main = {}
  BY DEF Init, Main
<1>2. RealmsInStep /\ WorkerInStep
  BY <1>1, Consts DEF Init, RealmsInStep, WriterAtLatest, Promoting, WorkerInStep, Handed, Owned
<1>3. \A n \in Notifiers : CallbackInStep(n)
  BY Consts DEF Init, CallbackInStep
<1> QED
  BY <1>2, <1>3 DEF InStep

\* A notifier is only called while its instance sends.
LEMMA NotCalling ==
  ASSUME InStep, NEW n \in Notifiers, stage[Owner[n]] # "sending"
  PROVE  n \notin calling[Owner[n]]
  BY Zenon DEF InStep, CallbackInStep, Packaged

LEMMA Alive ==
  ASSUME InStep, NEW r \in Realms
  PROVE  HasRun(r) = {n \in Handed : Owner[n] = r}
<1>1. \A n \in Notifiers : has_run[n] /\ place[n] = "new" => FALSE
  BY DEF InStep, CallbackInStep
<1> QED
  BY <1>1 DEF HasRun, notifiers_for_realm, Main, New, Handed

\* Whoever is packaged is at one version; the instance goes there, or, if it
\* writes, to the latest; then the callbacks are in step.
LEMMA SendInStep ==
  ASSUME Values, Flags, InStep, NEW r \in Realms, NEW P \in SUBSET HasRun(r),
         NEW v \in Versions, NEW w \in Versions, Send(r, P, v, w), stage[r] # "sending",
         \A n \in P : sg_version[n] = v,
         r \notin Writers => w = v /\ \A n \in HasRun(r) : initial_delivered[n] => n \in P,
         r \in Writers => w = latest,
         UNCHANGED <<latest, place, sg_version, has_run, seen>>
  PROVE  RealmsInStep' /\ \A n \in Notifiers : CallbackInStep(n)'
<1>0. \A n \in P : n \in Notifiers /\ Owner[n] = r /\ has_run[n] /\ place[n] = "main"
  BY Alive DEF Handed, Main
<1>1. /\ version' = [version EXCEPT ![r] = w] /\ delivering' = [delivering EXCEPT ![r] = v]
      /\ calling' = [calling EXCEPT ![r] =
           {n \in P : ~initial_delivered[n] \/ accumulated_changes[n] # {}}]
      /\ stage' = [stage EXCEPT ![r] = "sending"] /\ target' = [target EXCEPT ![r] = 0]
      /\ accumulated_changes' = [n \in Notifiers |-> IF n \in P THEN {} ELSE accumulated_changes[n]]
      /\ changes_to_deliver' =
           [n \in Notifiers |-> IF n \in P THEN accumulated_changes[n] ELSE changes_to_deliver[n]]
      /\ initial_delivered' = initial_delivered
  BY Zenon DEF Send, package_for_delivery
<1>2. WriterAtLatest' /\ Promoting'
  BY <1>1, Consts DEF InStep, RealmsInStep, WriterAtLatest, Promoting, Values, RealmTypes
<1>3. Owned'
  BY <1>0, <1>1 DEF InStep, RealmsInStep, Owned, Values, RealmTypes
<1>4. ASSUME NEW n \in Notifiers
      PROVE  CallbackInStep(n)'
  <2> USE Consts
  <2>0. CallbackInStep(n)
    BY Zenon DEF InStep
  <2>1. CASE Owner[n] # r
    <3>1. /\ version'[Owner[n]] = version[Owner[n]] /\ delivering'[Owner[n]] = delivering[Owner[n]]
          /\ calling'[Owner[n]] = calling[Owner[n]] /\ stage'[Owner[n]] = stage[Owner[n]]
          /\ accumulated_changes'[n] = accumulated_changes[n]
          /\ changes_to_deliver'[n] = changes_to_deliver[n]
      BY <1>0, <1>1, <2>1 DEF Values, RealmTypes
    <3> QED
      BY <1>1, <2>0, <3>1, Zenon DEF CallbackInStep, Packaged, Accumulating
  <2>2. CASE Owner[n] = r /\ n \notin P
    <3>1. n \notin calling[r] /\ n \notin calling'[r]
          /\ accumulated_changes'[n] = accumulated_changes[n]
      BY <1>1, <2>2, NotCalling DEF Values, RealmTypes
    <3>2. place[n] = "main" /\ initial_delivered[n] => r \in Writers
      BY <2>0, <2>2, Alive DEF CallbackInStep, Handed, Main
    <3> QED
      BY <1>1, <2>0, <2>2, <3>1, <3>2, Zenon DEF CallbackInStep, Accumulating
  <2>3. CASE n \in P
    <3>1. /\ n \notin calling[r] /\ accumulated_changes'[n] = {}
          /\ changes_to_deliver'[n] = accumulated_changes[n]
          /\ stage'[r] = "sending" /\ delivering'[r] = v /\ version'[r] = w
          /\ n \in calling'[r] <=> ~initial_delivered[n] \/ accumulated_changes[n] # {}
      BY <1>0, <1>1, <2>3, NotCalling DEF Values, RealmTypes
    <3>2. Owner[n] = r /\ has_run[n] /\ place[n] = "main" /\ sg_version[n] = v
      BY <1>0, <2>3
    <3>3. v \in Nat \ {0} /\ seen[n] \in Nat
      BY <3>2, Elements DEF InStep, WorkerInStep, Handed, Main, Versions
    <3>4. v + 1 .. v = {} /\ v \in 1 .. v
      BY <3>3
    <3>5. initial_delivered[n] => /\ seen[n] <= v /\ accumulated_changes[n] = seen[n] + 1 .. v
      BY <2>0, <3>1, <3>2, Zenon DEF CallbackInStep, Accumulating
    <3>6. initial_delivered[n] /\ accumulated_changes[n] = {} => seen[n] = v
      <4> SUFFICES ASSUME initial_delivered[n], accumulated_changes[n] = {}
                   PROVE  seen[n] = v
        OBVIOUS
      <4>1. seen[n] <= v /\ seen[n] + 1 .. v = {}
        BY <3>5
      <4>2. seen[n] < v => v \in seen[n] + 1 .. v
        BY <3>3
      <4> QED
        BY <3>3, <4>1, <4>2
    <3>7. n \in calling'[r] => Packaged(n)'
      BY <1>1, <3>1, <3>2, <3>4, <3>5, Zenon DEF Packaged
    <3>8. n \notin calling'[r] => Accumulating(n)'
      <4> SUFFICES ASSUME n \notin calling'[r]
                   PROVE  Accumulating(n)'
        OBVIOUS
      <4>1. seen[n] = v
        BY <3>1, <3>6
      <4>2. v <= v
        BY <3>3
      <4> QED
        BY <1>1, <3>1, <3>2, <3>4, <4>1, <4>2, Zenon DEF Accumulating
    <3> QED
      BY <1>1, <2>0, <3>2, <3>7, <3>8, Zenon DEF CallbackInStep
  <2> QED
    BY <1>0, <2>1, <2>2, <2>3
<1> QED
  BY <1>2, <1>3, <1>4 DEF RealmsInStep

-----------------------------------------------------------------------------
(* The steps of the instances keep the callbacks in step                   *)

LEMMA WorkerKept ==
  ASSUME WorkerInStep, latest \in Nat, latest' \in {latest, latest + 1},
         UNCHANGED <<place, has_run, sg_version, step, notifier_sg, change_info, notifiers,
                     new_notifiers>>
  PROVE  WorkerInStep'
<1>1. \A n \in Handed : sg_version[n] \in 1 .. latest'
  BY DEF WorkerInStep
<1>2. Handed' = Handed /\ Main' = Main
  BY DEF Handed, Main
<1> QED
  BY <1>1, <1>2, Zenon DEF WorkerInStep

LEMMA CallbackKept ==
  ASSUME NEW n \in Notifiers, CallbackInStep(n),
         UNCHANGED <<version, stage, delivering, calling, callbackVars, seen, sg_version, has_run>>,
         place'[n] = place[n]
  PROVE  CallbackInStep(n)'
  BY Zenon DEF CallbackInStep, Packaged, Accumulating

LEMMA RealmsKept ==
  ASSUME RealmsInStep, UNCHANGED <<latest, version, stage, target, calling>>
  PROVE  RealmsInStep'
  BY Zenon DEF RealmsInStep, WriterAtLatest, Promoting, Owned

LEMMA InStepUnchanged ==
  ASSUME InStep, Values,
         UNCHANGED <<latest, version, stage, target, delivering, calling, callbackVars, seen,
                     notifierVars, step, notifier_sg, change_info, notifiers, new_notifiers>>
  PROVE  InStep'
<1>1. latest \in Nat
  BY Numbers, Zenon
<1>2. WorkerInStep'
  BY <1>1, WorkerKept DEF InStep
<1>3. RealmsInStep'
  BY RealmsKept, Zenon DEF InStep
<1>4. \A n \in Notifiers : CallbackInStep(n)'
  BY CallbackKept, Zenon DEF InStep
<1> QED
  BY <1>2, <1>3, <1>4 DEF InStep

LEMMA InStepProcess ==
  ASSUME Values, Flags, InStep, NEW r \in Realms, process_available_async(r)
  PROVE  InStep'
<1> DEFINE P == {n \in HasRun(r) : sg_version[n] = version[r]}
<1>1. /\ Send(r, P, version[r], version[r]) /\ stage[r] = "idle" /\ version[r] = latest
      /\ UNCHANGED <<latest, place, sg_version, has_run, seen, step, notifier_sg, change_info,
                     notifiers, new_notifiers>>
  BY Zenon DEF process_available_async
<1>2. ASSUME r \notin Writers, NEW n \in HasRun(r), initial_delivered[n]
      PROVE  n \in P
  <2>1. n \in Handed /\ n \in Notifiers /\ Owner[n] = r /\ place[n] = "main"
    BY <1>2, Alive DEF Handed, Main
  <2>2. Accumulating(n)
    BY <1>1, <1>2, <2>1, NotCalling DEF InStep, CallbackInStep
  <2>3. sg_version[n] \in 1 .. latest /\ seen[n] \in Nat
    BY <2>1, Elements DEF InStep, WorkerInStep
  <2>4. sg_version[n] = version[r]
    BY <1>1, <1>2, <2>1, <2>2, <2>3 DEF Accumulating
  <2> QED
    BY <2>4
<1>3. version[r] \in Versions
  BY Sent, Zenon
<1>4. RealmsInStep' /\ \A n \in Notifiers : CallbackInStep(n)'
  <2> HIDE DEF P
  <2>1. P \in SUBSET HasRun(r) /\ \A n \in P : sg_version[n] = version[r]
    BY DEF P
  <2> QED
    BY <1>1, <1>2, <1>3, <2>1, SendInStep
<1>5. WorkerInStep'
  BY <1>1, WorkerKept, Numbers DEF InStep
<1> QED
  BY <1>4, <1>5 DEF InStep

\* What is packaged without being sent had nothing in it.
LEMMA PackageInStep ==
  ASSUME Values, Flags, InStep, NEW r \in Realms, r \notin Writers, stage[r] = "idle",
         NEW m \in HasRun(r), ~(sg_version[m] > version[r]), package_for_delivery(HasRun(r)),
         UNCHANGED <<latest, version, delivering, calling, stage, target, place, sg_version,
                     has_run, seen>>
  PROVE  RealmsInStep' /\ \A n \in Notifiers : CallbackInStep(n)'
<1>1. RealmsInStep'
  BY RealmsKept, Zenon DEF InStep
<1>2. ASSUME NEW n \in Notifiers
      PROVE  CallbackInStep(n)'
  <2>0. CallbackInStep(n)
    BY Zenon DEF InStep
  <2>1. initial_delivered' = initial_delivered
    BY DEF package_for_delivery
  <2>2. CASE n \notin HasRun(r)
    <3>1. accumulated_changes'[n] = accumulated_changes[n]
          /\ changes_to_deliver'[n] = changes_to_deliver[n]
      BY <2>2 DEF package_for_delivery
    <3> QED
      BY <2>0, <2>1, <3>1, Zenon DEF CallbackInStep, Packaged, Accumulating
  <2>3. CASE n \in HasRun(r)
    <3>1. Owner[n] = r /\ n \in Handed /\ m \in Handed /\ accumulated_changes'[n] = {}
      BY <2>3, Alive DEF package_for_delivery
    <3>2. n \notin calling[r]
      BY <3>1, NotCalling
    <3>3. initial_delivered[n] => Accumulating(n)'
      <4> SUFFICES ASSUME initial_delivered[n]
                   PROVE  Accumulating(n)'
        OBVIOUS
      <4>1. Accumulating(n)
        BY <2>0, <3>1, <3>2 DEF CallbackInStep, Handed, Main
      <4>2. sg_version[n] = sg_version[m]
        BY <3>1 DEF InStep, WorkerInStep
      <4>3. sg_version[n] \in Nat /\ version[r] \in Nat /\ seen[n] \in Nat
        BY <3>1, Elements
      <4>4. seen[n] + 1 .. sg_version[n] = {}
        BY <3>1, <4>1, <4>2, <4>3 DEF Accumulating
      <4> QED
        BY <3>1, <4>1, <4>4, Zenon DEF Accumulating
    <3> QED
      BY <2>0, <2>1, <3>1, <3>2, <3>3, Zenon DEF CallbackInStep
  <2> QED
    BY <2>2, <2>3
<1> QED
  BY <1>1, <1>2

LEMMA InStepReady ==
  ASSUME Values, Flags, InStep, NEW r \in Realms, advance_to_ready(r)
  PROVE  InStep'
<1>1. /\ stage[r] = "idle" /\ version[r] # latest
      /\ UNCHANGED <<latest, place, sg_version, has_run, seen, step, notifier_sg, change_info,
                     notifiers, new_notifiers>>
  BY Zenon DEF advance_to_ready
<1>2. r \notin Writers
  BY <1>1 DEF InStep, RealmsInStep, WriterAtLatest
<1>3. RealmsInStep' /\ \A n \in Notifiers : CallbackInStep(n)'
  <2>1. CASE HasRun(r) = {}
    <3>1. Send(r, {}, latest, latest)
      BY <2>1, Zenon DEF advance_to_ready
    <3> QED
      BY <1>1, <1>2, <2>1, <3>1, SendInStep, Sent
  <2>2. CASE HasRun(r) # {}
    <3>1. PICK n \in HasRun(r) :
            IF sg_version[n] > version[r]
            THEN Send(r, HasRun(r), sg_version[n], sg_version[n])
            ELSE /\ package_for_delivery(HasRun(r))
                 /\ UNCHANGED <<version, delivering, calling, stage, target>>
      BY <2>2, Zenon DEF advance_to_ready
    <3>2. CASE Send(r, HasRun(r), sg_version[n], sg_version[n])
      <4>1. \A m \in HasRun(r) : sg_version[m] = sg_version[n]
        BY Alive DEF InStep, WorkerInStep
      <4>2. sg_version[n] \in Versions
        BY Sent
      <4> QED
        BY <1>1, <1>2, <3>2, <4>1, <4>2, SendInStep
    <3>3. CASE ~(sg_version[n] > version[r])
      BY <1>1, <1>2, <3>1, <3>3, PackageInStep
    <3> QED
      BY <3>1, <3>2, <3>3
  <2> QED
    BY <2>1, <2>2
<1>4. WorkerInStep'
  BY <1>1, WorkerKept, Numbers DEF InStep
<1> QED
  BY <1>3, <1>4 DEF InStep

\* Those waited for have run, and are at the version waited for or past it.
LEMMA Waited ==
  ASSUME Values, InStep, NEW r \in Realms, NEW v, Ready(r, v)
  PROVE  /\ notifiers_for_realm(r) = HasRun(r)
         /\ \A n \in HasRun(r) : sg_version[n] >= v /\ sg_version[n] \in 1 .. latest
         /\ \A m, n \in HasRun(r) : sg_version[m] = sg_version[n]
  BY Alive DEF Ready, HasRun, InStep, WorkerInStep

LEMMA InStepLatest ==
  ASSUME Values, Flags, InStep, NEW r \in Realms, advance_to_latest(r)
  PROVE  InStep'
<1> DEFINE P == HasRun(r)
<1>0. notifiers_for_realm(r) = P
  BY Waited, Zenon DEF advance_to_latest
<1>1. /\ stage[r] = "refreshing" /\ Ready(r, target[r])
      /\ IF P = {} THEN Send(r, {}, latest, latest)
         ELSE \E n \in P : Send(r, P, sg_version[n], sg_version[n])
      /\ UNCHANGED <<latest, place, sg_version, has_run, seen, step, notifier_sg, change_info,
                     notifiers, new_notifiers>>
  BY <1>0, Zenon DEF advance_to_latest
<1>2. RealmsInStep' /\ \A n \in Notifiers : CallbackInStep(n)'
  <2>1. CASE P = {}
    BY <1>1, <2>1, SendInStep, Sent
  <2>2. CASE P # {}
    <3>1. PICK n \in P : Send(r, P, sg_version[n], sg_version[n])
      BY <1>1, <2>2
    <3>2. /\ \A m \in P : sg_version[m] = sg_version[n]
          /\ sg_version[n] >= target[r] /\ sg_version[n] \in 1 .. latest
      BY <1>1, Waited
    <3>3. r \in Writers => sg_version[n] = latest
      BY <1>1, <3>2, Numbers DEF InStep, RealmsInStep, WriterAtLatest
    <3>4. sg_version[n] \in Versions
      BY Sent
    <3> QED
      BY <1>1, <3>1, <3>2, <3>3, <3>4, SendInStep
  <2> QED
    BY <2>1, <2>2
<1>3. WorkerInStep'
  BY <1>1, WorkerKept, Numbers DEF InStep
<1> QED
  BY <1>2, <1>3 DEF InStep

LEMMA InStepPromote ==
  ASSUME Values, Flags, InStep, NEW r \in Realms, promote_to_write(r)
  PROVE  InStep'
<1>0. /\ stage[r] = "promoting" /\ Ready(r, target[r])
      /\ Send(r, notifiers_for_realm(r), latest, latest)
      /\ UNCHANGED <<latest, place, sg_version, has_run, seen, step, notifier_sg, change_info,
                     notifiers, new_notifiers>>
  BY Zenon DEF promote_to_write
<1>1. r \in Writers /\ target[r] = latest
  BY <1>0 DEF InStep, RealmsInStep, Promoting, WriterAtLatest
<1>2. notifiers_for_realm(r) = HasRun(r) /\ \A n \in HasRun(r) : sg_version[n] = latest
  BY <1>0, <1>1, Waited, Numbers
<1>3. RealmsInStep' /\ \A n \in Notifiers : CallbackInStep(n)'
  BY <1>0, <1>1, <1>2, SendInStep, Sent
<1>4. WorkerInStep'
  BY <1>0, WorkerKept, Numbers DEF InStep
<1> QED
  BY <1>3, <1>4 DEF InStep

LEMMA InStepAfterAdvance ==
  ASSUME Values, Flags, InStep, NEW r \in Realms, NEW n \in Notifiers, after_advance(r, n)
  PROVE  InStep'
<1>1. /\ n \in calling[r] /\ stage[r] = "sending"
      /\ calling' = [calling EXCEPT ![r] = @ \ {n}]
      /\ initial_delivered' = [initial_delivered EXCEPT ![n] = TRUE]
      /\ changes_to_deliver' = [changes_to_deliver EXCEPT ![n] = {}]
      /\ seen' = [seen EXCEPT ![n] = delivering[r]]
      /\ UNCHANGED <<latest, version, stage, target, delivering, accumulated_changes, place,
                     sg_version, has_run, step, notifier_sg, change_info, notifiers,
                     new_notifiers>>
  BY Zenon DEF after_advance
<1>2. Owner[n] = r /\ Packaged(n)
  BY <1>1, Zenon DEF InStep, RealmsInStep, Owned, CallbackInStep
<1>3. RealmsInStep'
  <2>1. WriterAtLatest' /\ Promoting'
    BY <1>1, Zenon DEF InStep, RealmsInStep, WriterAtLatest, Promoting
  <2>2. Owned'
    BY <1>1 DEF InStep, RealmsInStep, Owned, Values, RealmTypes
  <2> QED
    BY <2>1, <2>2 DEF RealmsInStep
<1>4. WorkerInStep'
  BY <1>1, WorkerKept, Numbers DEF InStep
<1>5. ASSUME NEW m \in Notifiers
      PROVE  CallbackInStep(m)'
  <2>0. CallbackInStep(m)
    BY Zenon DEF InStep
  <2>1. CASE m = n
    <3>1. /\ n \notin calling'[r] /\ initial_delivered'[n] = TRUE /\ seen'[n] = delivering[r]
      BY <1>1 DEF Values, RealmTypes, CallbackTypes, Flags
    <3>2. delivering[r] # 0 /\ delivering[r] <= sg_version[n]
      BY <1>2, Elements DEF Packaged
    <3>3. Accumulating(n)'
      BY <1>1, <1>2, <3>1, <3>2, Zenon DEF Packaged, Accumulating
    <3>4. seen'[n] # 0
      BY <3>1, <3>2
    <3> QED
      BY <1>1, <1>2, <2>1, <3>1, <3>3, <3>4, Zenon DEF CallbackInStep, Packaged
  <2>2. CASE m # n
    <3>1. /\ m \in calling'[Owner[m]] <=> m \in calling[Owner[m]]
          /\ changes_to_deliver'[m] = changes_to_deliver[m] /\ seen'[m] = seen[m]
      BY <1>1, <2>2, Elements DEF Values, RealmTypes, CallbackTypes
    <3>2. initial_delivered'[m] = initial_delivered[m]
      BY <1>1, <2>2 DEF Flags
    <3> QED
      BY <1>1, <2>0, <3>1, <3>2, Zenon DEF CallbackInStep, Packaged, Accumulating
  <2> QED
    BY <2>1, <2>2
<1> QED
  BY <1>3, <1>4, <1>5 DEF InStep

\* The thread of an instance goes from one stage to another, none of its
\* callbacks is to be called.
LEMMA InStepStage ==
  ASSUME Values, Flags, InStep, NEW r \in Realms,
         AllSent(r) \/ refresh(r) \/ begin_transaction(r)
  PROVE  InStep'
<1>1. /\ UNCHANGED <<latest, version, calling, callbackVars, seen, place,
                     sg_version, has_run, step, notifier_sg, change_info, notifiers,
                     new_notifiers>>
      /\ \/ stage' = [stage EXCEPT ![r] = "idle"] /\ target' = target
         \/ /\ stage' = [stage EXCEPT ![r] = "refreshing"]
            /\ target' = [target EXCEPT ![r] = latest]
         \/ /\ stage' = [stage EXCEPT ![r] = "promoting"] /\ r \in Writers
            /\ target' = [target EXCEPT ![r] = latest]
  BY Zenon DEF AllSent, refresh, begin_transaction
<1>2. \A n \in Notifiers : Owner[n] = r => n \notin calling[r]
  <2>1. CASE AllSent(r)
    BY <2>1 DEF AllSent
  <2>2. CASE stage[r] = "idle"
    BY <2>2, NotCalling
  <2> QED
    BY <2>1, <2>2 DEF refresh, begin_transaction
<1>3. RealmsInStep'
  <2>1. WriterAtLatest' /\ Promoting'
    BY <1>1, Consts DEF InStep, RealmsInStep, WriterAtLatest, Promoting, Values, RealmTypes
  <2>2. Owned'
    BY <1>1, Zenon DEF InStep, RealmsInStep, Owned
  <2> QED
    BY <2>1, <2>2 DEF RealmsInStep
<1>4. WorkerInStep'
  BY <1>1, WorkerKept, Numbers DEF InStep
<1>5. ASSUME NEW n \in Notifiers
      PROVE  CallbackInStep(n)'
  <2>0. CallbackInStep(n)
    BY Zenon DEF InStep
  <2>1. CASE Owner[n] = r
    BY <1>1, <1>2, <2>0, <2>1, Zenon DEF CallbackInStep, Accumulating
  <2>2. CASE Owner[n] # r
    <3>1. stage'[Owner[n]] = stage[Owner[n]]
      BY <1>1, <2>2, Elements DEF Values, RealmTypes
    <3>2. delivering'[Owner[n]] = delivering[Owner[n]]
      BY <2>2, Elements DEF AllSent, refresh, begin_transaction, Values, RealmTypes
    <3> QED
      BY <1>1, <2>0, <3>1, <3>2, Zenon DEF CallbackInStep, Packaged, Accumulating
  <2> QED
    BY <2>1, <2>2
<1> QED
  BY <1>3, <1>4, <1>5 DEF InStep

\* Who writes was at the latest version: beginning does not move it.
LEMMA InStepBeginInCallback ==
  ASSUME Values, Flags, InStep, NEW r \in Realms, beginInCallback(r)
  PROVE  InStep'
<1>1. version' = version
  BY DEF beginInCallback, InStep, RealmsInStep, WriterAtLatest, Values, RealmTypes
<1>2. UNCHANGED <<latest, stage, target, delivering, calling, callbackVars, seen,
                  notifierVars, step, notifier_sg, change_info, notifiers, new_notifiers>>
  BY Zenon DEF beginInCallback
<1> QED
  BY <1>1, <1>2, InStepUnchanged, Zenon

\* A commit moves only the instance that writes.
LEMMA InStepCommit ==
  ASSUME SingleWriter, Values, Flags, InStep, NEW r \in Realms, commit_write(r)
  PROVE  InStep'
<1>1. /\ latest' = latest + 1 /\ version' = [version EXCEPT ![r] = latest']
      /\ UNCHANGED <<stage, target, delivering, calling, callbackVars, seen, place,
                     sg_version, has_run, step, notifier_sg, change_info, notifiers,
                     new_notifiers>>
  BY Zenon DEF commit_write, Commit
<1>2. r \in Writers /\ stage[r] \in {"idle", "sending"}
  BY Consts DEF commit_write, Commit, in_transaction, Runs, Values, FileTypes
<1>3. RealmsInStep'
  <2>1. ASSUME NEW w \in Writers
        PROVE  version'[w] = latest' /\ stage'[w] \notin {"promoting", "refreshing"}
    <3>1. w = r
      BY <1>2 DEF SingleWriter
    <3> QED
      BY <1>1, <1>2, <3>1 DEF Values, RealmTypes
  <2>2. Promoting' /\ Owned'
    BY <1>1, Zenon DEF InStep, RealmsInStep, Promoting, Owned
  <2> QED
    BY <2>1, <2>2, Zenon DEF RealmsInStep, WriterAtLatest
<1>4. WorkerInStep'
  BY <1>1, WorkerKept, Numbers DEF InStep
<1>5. ASSUME NEW n \in Notifiers
      PROVE  CallbackInStep(n)'
  <2>0. CallbackInStep(n)
    BY Zenon DEF InStep
  <2>1. Owner[n] \notin Writers => version'[Owner[n]] = version[Owner[n]]
    BY <1>1, <1>2, Elements DEF Values, RealmTypes
  <2> QED
    BY <1>1, <2>0, <2>1, Zenon DEF CallbackInStep, Packaged, Accumulating
<1> QED
  BY <1>3, <1>4, <1>5 DEF InStep

LEMMA InStepRegister ==
  ASSUME Values, Flags, InStep, NEW n \in Notifiers, register_notifier(n)
  PROVE  InStep'
<1>1. /\ place[n] = "none" /\ place' = [place EXCEPT ![n] = "new"]
      /\ sg_version' = [sg_version EXCEPT ![n] = version[Owner[n]]]
      /\ UNCHANGED <<latest, version, stage, target, delivering, calling, callbackVars, seen,
                     has_run, step, notifier_sg, change_info, notifiers, new_notifiers>>
  BY Zenon DEF register_notifier
<1>2. RealmsInStep'
  BY <1>1, RealmsKept, Zenon DEF InStep
<1>3. Main' = Main /\ Handed' = Handed /\ n \notin Main
  BY <1>1 DEF Main, Handed, Values, NotifierTypes
<1>4. \A m \in Notifiers : m # n => sg_version'[m] = sg_version[m] /\ place'[m] = place[m]
  BY <1>1 DEF Values, NotifierTypes
<1>5. WorkerInStep'
  <2>1. \A m \in Handed : sg_version'[m] = sg_version[m]
    BY <1>3, <1>4 DEF Handed, Main
  <2>2. \A m \in notifiers \cup new_notifiers : place'[m] = place[m]
    BY <1>1, <1>4 DEF InStep, WorkerInStep, Values, RunTypes
  <2>3. WorkerInStep /\ UNCHANGED <<latest, has_run, step, notifier_sg, change_info, notifiers, new_notifiers>>
    BY <1>1 DEF InStep
  <2>4. /\ \A m \in Handed' : sg_version'[m] \in 1 .. latest'
        /\ \A m, k \in Handed' : sg_version'[m] = sg_version'[k]
    BY <1>3, <2>1, <2>3, Zenon DEF WorkerInStep
  <2>5. /\ step' \in {"idle", "skip", "advance", "notify"} =>
             \A m \in Handed' : sg_version'[m] = notifier_sg'
        /\ step' \in {"skip_handover", "handover"} =>
             \A m \in Handed' :
               sg_version'[m] <= notifier_sg' /\ change_info' = sg_version'[m] + 1 .. notifier_sg'
    BY <1>3, <2>1, <2>3, Zenon DEF WorkerInStep
  <2> QED
    BY <1>3, <2>2, <2>3, <2>4, <2>5, Zenon DEF WorkerInStep
<1>6. ASSUME NEW m \in Notifiers
      PROVE  CallbackInStep(m)'
  <2>0. CallbackInStep(m)
    BY Zenon DEF InStep
  <2>1. CASE m = n
    <3>1. ~has_run[m] /\ m \notin calling[Owner[m]] /\ ~initial_delivered[m]
      BY <1>1, <2>0, <2>1 DEF CallbackInStep, Packaged
    <3> QED
      BY <1>1, <2>0, <3>1, Zenon DEF CallbackInStep
  <2>2. CASE m # n
    BY <1>1, <1>4, <2>0, <2>2, Zenon DEF CallbackInStep, Packaged, Accumulating
  <2> QED
    BY <2>1, <2>2
<1> QED
  BY <1>2, <1>5, <1>6 DEF InStep

LEMMA InStepUnregister ==
  ASSUME Values, Flags, InStep, NEW n \in Notifiers, unregister(n)
  PROVE  InStep'
<1>1. /\ place[n] \in {"new", "main"} /\ place' = [place EXCEPT ![n] = "dead"]
      /\ calling' = [calling EXCEPT ![Owner[n]] = @ \ {n}]
      /\ UNCHANGED <<latest, version, stage, target, delivering, callbackVars, seen, sg_version,
                     has_run, step, notifier_sg, change_info, notifiers, new_notifiers>>
  BY Zenon DEF unregister
<1>2. RealmsInStep'
  <2>1. WriterAtLatest' /\ Promoting'
    BY <1>1, Zenon DEF InStep, RealmsInStep, WriterAtLatest, Promoting
  <2>2. Owned'
    BY <1>1, Elements DEF InStep, RealmsInStep, Owned, Values, RealmTypes
  <2> QED
    BY <2>1, <2>2 DEF RealmsInStep
<1>3. /\ Main' \subseteq Main /\ Handed' \subseteq Handed
      /\ \A m \in Notifiers : place[m] \in {"main", "dead"} => place'[m] \in {"main", "dead"}
  BY <1>1 DEF Main, Handed, Values, NotifierTypes
<1>4. WorkerInStep'
  <2>1. \A m \in notifiers \cup new_notifiers : place'[m] \in {"main", "dead"}
    BY <1>3 DEF InStep, WorkerInStep, Values, RunTypes
  <2> QED
    BY <1>1, <1>3, <2>1, Zenon DEF InStep, WorkerInStep
<1>5. ASSUME NEW m \in Notifiers
      PROVE  CallbackInStep(m)'
  <2>0. CallbackInStep(m)
    BY Zenon DEF InStep
  <2>1. CASE m = n
    <3>1. place'[m] = "dead" /\ m \notin calling'[Owner[m]]
      BY <1>1, <2>1, Elements DEF Values, NotifierTypes, RealmTypes
    <3> QED
      BY <1>1, <2>0, <3>1 DEF CallbackInStep
  <2>2. CASE m # n
    <3>1. place'[m] = place[m] /\ (m \in calling'[Owner[m]] <=> m \in calling[Owner[m]])
      BY <1>1, <2>2, Elements DEF Values, NotifierTypes, RealmTypes
    <3> QED
      BY <1>1, <2>0, <3>1, Zenon DEF CallbackInStep, Packaged, Accumulating
  <2> QED
    BY <2>1, <2>2
<1> QED
  BY <1>2, <1>4, <1>5 DEF InStep

-----------------------------------------------------------------------------
(* The steps of the worker do                                              *)

LEMMA InStepNotify ==
  ASSUME Values, InStep, notifyRealms
  PROVE  InStep'
<1>1. /\ step = "notify" /\ step' = "idle"
      /\ UNCHANGED <<latest, version, stage, target, delivering, calling, callbackVars, seen,
                     notifierVars, notifier_sg, change_info, notifiers, new_notifiers>>
  BY Zenon DEF notifyRealms
<1>2. Main' = Main /\ Handed' = Handed
  BY <1>1, Zenon DEF Main, Handed
<1>3. WorkerInStep'
  BY <1>1, <1>2 DEF InStep, WorkerInStep
<1>4. RealmsInStep'
  BY <1>1, RealmsKept, Zenon DEF InStep
<1>5. \A n \in Notifiers : CallbackInStep(n)'
  BY <1>1, CallbackKept, Zenon DEF InStep
<1> QED
  BY <1>3, <1>4, <1>5 DEF InStep

LEMMA InStepLock ==
  ASSUME Values, Flags, InStep, lockNotifiers
  PROVE  InStep'
<1>1. /\ step = "idle"
      /\ UNCHANGED <<latest, version, stage, target, delivering, calling, callbackVars, seen,
                     sg_version, has_run, change_info>>
  BY Zenon DEF lockNotifiers
<1>2. \A n \in New : ~has_run[n] /\ ~initial_delivered[n] /\ n \notin calling[Owner[n]]
  BY DEF New, InStep, CallbackInStep, Packaged
<1>3. RealmsInStep'
  BY <1>1, RealmsKept, Zenon DEF InStep
<1>4. CASE Main \cup New = {}
  <2>1. step' = "notify" /\ UNCHANGED <<place, new_notifiers, notifiers, notifier_sg>>
    BY <1>4, Zenon DEF lockNotifiers
  <2>2. Main' = {} /\ Handed' = {}
    BY <1>4, <2>1, Zenon DEF Main, Handed
  <2>3. WorkerInStep'
    BY <1>1, <2>1, <2>2 DEF InStep, WorkerInStep
  <2>4. \A n \in Notifiers : CallbackInStep(n)'
    BY <1>1, <2>1, CallbackKept, Zenon DEF InStep
  <2> QED
    BY <1>3, <2>3, <2>4 DEF InStep
<1>5. CASE Main \cup New # {}
  <2>1. /\ new_notifiers' = New /\ notifiers' = Main
        /\ notifier_sg' = IF Main = {} THEN latest ELSE notifier_sg
        /\ place' = [n \in Notifiers |-> IF n \in New THEN "main" ELSE place[n]]
        /\ step' \in {"advance", "skip"}
    BY <1>5, Zenon DEF lockNotifiers
  <2>2. Main' = Main \cup New /\ Handed' = Handed
    BY <1>1, <1>2, <2>1 DEF Main, New, Handed, Values, NotifierTypes
  <2>3. \A n \in Notifiers : n \notin New => place'[n] = place[n]
    BY <2>1
  <2>4. WorkerInStep'
    <3>1. Handed # {} => notifier_sg' = notifier_sg
      BY <2>1 DEF Handed
    <3>2. \A n \in Handed' : sg_version'[n] = notifier_sg'
      BY <1>1, <2>2, <3>1 DEF InStep, WorkerInStep
    <3>3. \A n \in Main' : /\ has_run'[n] <=> n \in notifiers'
                           /\ ~has_run'[n] => n \in new_notifiers'
      <4>1. \A n \in Main : has_run[n] /\ n \notin New
        BY <1>1 DEF InStep, WorkerInStep, Main, New
      <4> QED
        BY <1>1, <1>2, <2>1, <2>2, <4>1, Zenon
    <3>4. \A n \in notifiers' \cup new_notifiers' : place'[n] \in {"main", "dead"}
      BY <2>1 DEF Main, New
    <3>5. /\ \A n \in Handed' : sg_version'[n] \in 1 .. latest'
          /\ \A m, n \in Handed' : sg_version'[m] = sg_version'[n]
      BY <1>1, <2>2, Zenon DEF InStep, WorkerInStep
    <3>6. step' \notin {"skip_handover", "handover", "idle", "notify"}
      BY <2>1
    <3> QED
      BY <3>2, <3>3, <3>4, <3>5, <3>6, Zenon DEF WorkerInStep
  <2>5. ASSUME NEW n \in Notifiers
        PROVE  CallbackInStep(n)'
    <3>1. CallbackInStep(n)
      BY Zenon DEF InStep
    <3>2. CASE n \in New
      BY <1>1, <1>2, <3>1, <3>2, Zenon DEF CallbackInStep
    <3>3. CASE n \notin New
      BY <1>1, <2>3, <3>1, <3>3, CallbackKept, Zenon
    <3> QED
      BY <3>2, <3>3
  <2> QED
    BY <1>3, <2>4, <2>5 DEF InStep
<1> QED
  BY <1>4, <1>5

\* Advancing finds the changes from the version the notifiers are at.
LEMMA InStepAdvance ==
  ASSUME Values, Flags, Forward, InStep, advanceToSkipVersion \/ advanceToFinalVersion
  PROVE  InStep'
<1>0. /\ latest \in Nat \ {0} /\ skip \in Nat /\ final_version \in Nat /\ notifier_sg \in Nat
  BY Numbers, Zenon
<1>1. PICK v \in Nat, next \in {"skip_handover", "handover"} :
        /\ advance_to_final(v, next)
        /\ notifier_sg <= v /\ step \in {"skip", "advance"}
        /\ next = "handover" => v # 0
  <2>1. CASE advanceToSkipVersion
    <3>1. advance_to_final(skip, "skip_handover") /\ step = "skip"
      BY <2>1 DEF advanceToSkipVersion
    <3>2. notifier_sg <= skip
      BY <3>1 DEF Forward, Ahead
    <3> QED
      BY <1>0, <3>1, <3>2
  <2>2. CASE advanceToFinalVersion
    <3> DEFINE v == IF final_version = 0 THEN latest ELSE final_version
    <3>1. advance_to_final(v, "handover") /\ step = "advance"
      BY <2>2 DEF advanceToFinalVersion
    <3>2. v \in Nat /\ v # 0 /\ notifier_sg <= v
      BY <1>0, <3>1 DEF Forward, Ahead
    <3> HIDE DEF v
    <3> QED
      BY <3>1, <3>2
  <2> QED
    BY <2>1, <2>2
<1>2. /\ step' = next /\ notifier_sg' = v /\ change_info' = notifier_sg + 1 .. v
      /\ UNCHANGED <<latest, version, stage, target, delivering, calling, callbackVars, seen,
                     notifierVars, notifiers, new_notifiers>>
  <2>1. ~(v < notifier_sg)
    BY <1>0, <1>1
  <2> QED
    BY <1>1, <2>1, Zenon DEF advance_to_final
<1>3. Main' = Main /\ Handed' = Handed
  BY <1>2, Zenon DEF Main, Handed
<1>4. WorkerInStep'
  <2>1. \A n \in Handed : sg_version[n] = notifier_sg
    BY <1>1 DEF InStep, WorkerInStep
  <2>2. \A n \in Handed' :
          sg_version'[n] <= notifier_sg' /\ change_info' = sg_version'[n] + 1 .. notifier_sg'
    BY <1>1, <1>2, <1>3, <2>1
  <2>3. /\ \A n \in Handed' : sg_version'[n] \in 1 .. latest'
        /\ \A m, n \in Handed' : sg_version'[m] = sg_version'[n]
        /\ \A n \in notifiers' \cup new_notifiers' : place'[n] \in {"main", "dead"}
    BY <1>2, <1>3, Zenon DEF InStep, WorkerInStep
  <2>4. \A n \in Main' : /\ has_run'[n] <=> n \in notifiers'
                         /\ ~has_run'[n] => n \in new_notifiers'
    <3>1. step \in {"skip", "skip_handover", "advance", "handover"}
      BY <1>1
    <3> QED
      BY <1>2, <1>3, <3>1, Zenon DEF InStep, WorkerInStep
  <2>5. step' \notin {"idle", "skip", "advance", "notify"}
        /\ (step' = "handover" => notifier_sg' # 0)
    BY <1>1, <1>2
  <2> QED
    BY <2>2, <2>3, <2>4, <2>5, Zenon DEF WorkerInStep
<1>5. RealmsInStep'
  BY <1>2, RealmsKept, Zenon DEF InStep
<1>6. \A n \in Notifiers : CallbackInStep(n)'
  BY <1>2, CallbackKept, Zenon DEF InStep
<1> QED
  BY <1>4, <1>5, <1>6 DEF InStep

\* Adding the changes to what was accumulated goes on to the new version.
LEMMA Joined ==
  ASSUME NEW a \in Nat, NEW b \in Nat, NEW c \in Nat, a <= b, b <= c
  PROVE  (a + 1 .. b) \cup (b + 1 .. c) = a + 1 .. c
  OBVIOUS

\* What is handed over takes the callbacks of the notifiers that have run from
\* one version to the next.
LEMMA HandOver ==
  ASSUME Values, InStep, NEW n \in Notifiers, step \in {"skip_handover", "handover"},
         has_run[n], n \in notifiers,
         UNCHANGED <<version, stage, delivering, calling, changes_to_deliver, initial_delivered,
                     seen, place>>,
         has_run'[n], sg_version'[n] = notifier_sg,
         accumulated_changes'[n] = accumulated_changes[n] \cup change_info
  PROVE  CallbackInStep(n)'
<1>0. CallbackInStep(n) /\ notifier_sg \in Nat
  BY Numbers, Zenon DEF InStep
<1>1. CASE place[n] # "main"
  BY <1>0, <1>1, Zenon DEF CallbackInStep, Packaged
<1>2. CASE place[n] = "main"
  <2>1. sg_version[n] <= notifier_sg /\ change_info = sg_version[n] + 1 .. notifier_sg
    BY <1>2 DEF InStep, WorkerInStep, Handed, Main
  <2>2. n \in calling[Owner[n]] => Packaged(n)'
    <3> SUFFICES ASSUME n \in calling[Owner[n]]
                 PROVE  Packaged(n)'
      OBVIOUS
    <3>1. Packaged(n)
      BY <1>0 DEF CallbackInStep
    <3>2. delivering[Owner[n]] \in 1 .. notifier_sg
      BY <1>0, <2>1, <3>1, Elements DEF Packaged
    <3>3. accumulated_changes'[n] = delivering[Owner[n]] + 1 .. notifier_sg
      BY <1>0, <2>1, <3>1, Joined, Elements DEF Packaged
    <3> QED
      BY <3>1, <3>2, <3>3, Zenon DEF Packaged
  <2>3. initial_delivered[n] /\ n \notin calling[Owner[n]] => Accumulating(n)'
    <3> SUFFICES ASSUME initial_delivered[n], n \notin calling[Owner[n]]
                 PROVE  Accumulating(n)'
      OBVIOUS
    <3>1. Accumulating(n)
      BY <1>0, <1>2 DEF CallbackInStep
    <3>2. seen[n] <= notifier_sg
      BY <1>0, <2>1, <3>1, Elements DEF Accumulating
    <3>3. accumulated_changes'[n] = seen[n] + 1 .. notifier_sg
      BY <1>0, <2>1, <3>1, Joined, Elements DEF Accumulating
    <3> QED
      BY <3>1, <3>2, <3>3, Zenon DEF Accumulating
  <2> QED
    BY <1>0, <1>2, <2>2, <2>3, Zenon DEF CallbackInStep
<1> QED
  BY <1>1, <1>2

LEMMA InStepHandOverSkip ==
  ASSUME Values, Flags, Forward, InStep, handOverSkipVersion
  PROVE  InStep'
<1>1. /\ step = "skip_handover" /\ step' = "advance"
      /\ sg_version' = [n \in Notifiers |-> IF n \in notifiers THEN notifier_sg ELSE sg_version[n]]
      /\ accumulated_changes' = [n \in Notifiers |->
           IF n \in notifiers THEN accumulated_changes[n] \cup change_info
           ELSE accumulated_changes[n]]
      /\ UNCHANGED <<latest, version, stage, target, delivering, calling, changes_to_deliver,
                     initial_delivered, seen, place, has_run, new_notifiers, notifiers,
                     notifier_sg>>
  BY Zenon DEF handOverSkipVersion, add_changes
<1>2. Main' = Main /\ Handed' = Handed
  BY <1>1, Zenon DEF Main, Handed
<1>3. \A n \in Main : (has_run[n] <=> n \in notifiers) /\ (~has_run[n] => n \in new_notifiers)
  BY <1>1 DEF InStep, WorkerInStep
<1>4. \A n \in Handed : sg_version'[n] = notifier_sg /\ notifier_sg \in 1 .. latest
  <2> SUFFICES ASSUME NEW n \in Handed
               PROVE  sg_version'[n] = notifier_sg /\ notifier_sg \in 1 .. latest
    OBVIOUS
  <2>1. n \in notifiers /\ n \in Notifiers
    BY <1>3 DEF Handed, Main
  <2>2. sg_version[n] \in 1 .. latest /\ sg_version[n] <= notifier_sg
    BY <1>1 DEF InStep, WorkerInStep
  <2>3. notifier_sg \in Nat /\ latest \in Nat
    BY Numbers, Zenon
  <2> QED
    BY <1>1, <2>1, <2>2, <2>3 DEF Forward, Ahead
<1>5. WorkerInStep'
  <2>1. \A n \in notifiers' \cup new_notifiers' : place'[n] \in {"main", "dead"}
    BY <1>1, Zenon DEF InStep, WorkerInStep
  <2>2. /\ \A n \in Handed' : sg_version'[n] \in 1 .. latest' /\ sg_version'[n] = notifier_sg'
        /\ \A m, n \in Handed' : sg_version'[m] = sg_version'[n]
    BY <1>1, <1>2, <1>4
  <2>3. step' \notin {"skip_handover", "handover", "idle", "notify"}
    BY <1>1
  <2> QED
    BY <1>1, <1>2, <1>3, <2>1, <2>2, <2>3, Zenon DEF WorkerInStep
<1>6. RealmsInStep'
  BY <1>1, RealmsKept, Zenon DEF InStep
<1>7. ASSUME NEW n \in Notifiers
      PROVE  CallbackInStep(n)'
  <2>0. CallbackInStep(n)
    BY Zenon DEF InStep
  <2>1. CASE n \in notifiers /\ has_run[n]
    BY <1>1, <2>1, HandOver
  <2>2. CASE n \notin notifiers
    <3>1. sg_version'[n] = sg_version[n] /\ accumulated_changes'[n] = accumulated_changes[n]
      BY <1>1, <2>2
    <3> QED
      BY <1>1, <2>0, <3>1, Zenon DEF CallbackInStep, Packaged, Accumulating
  <2>3. CASE ~has_run[n]
    BY <1>1, <2>0, <2>3, Zenon DEF CallbackInStep, Packaged
  <2> QED
    BY <2>1, <2>2, <2>3
<1> QED
  BY <1>5, <1>6, <1>7 DEF InStep

LEMMA InStepHandover ==
  ASSUME Values, Flags, Forward, InStep, prepare_handover
  PROVE  InStep'
<1> DEFINE ran == notifiers \cup new_notifiers
<1>1. /\ step = "handover" /\ step' = "notify"
      /\ sg_version' = [n \in Notifiers |-> IF n \in ran THEN notifier_sg ELSE sg_version[n]]
      /\ has_run' = [n \in Notifiers |-> has_run[n] \/ n \in ran]
      /\ accumulated_changes' = [n \in Notifiers |->
           IF n \in notifiers THEN accumulated_changes[n] \cup change_info
           ELSE accumulated_changes[n]]
      /\ new_notifiers' = {} /\ notifiers' = {}
      /\ UNCHANGED <<latest, version, stage, target, delivering, calling, changes_to_deliver,
                     initial_delivered, seen, place, notifier_sg>>
  BY Zenon DEF prepare_handover, add_changes
<1>2. Main' = Main /\ Handed' \subseteq Main
  BY <1>1, Zenon DEF Main, Handed
<1>3. \A n \in Main : n \in Notifiers /\ n \in ran
  BY <1>1, Zenon DEF InStep, WorkerInStep, Main
<1>4. notifier_sg \in 1 .. latest
  <2>1. notifier_sg \in Nat /\ latest \in Nat
    BY Numbers, Zenon
  <2>2. notifier_sg # 0
    BY <1>1 DEF InStep, WorkerInStep
  <2> QED
    BY <2>1, <2>2 DEF Forward, Ahead
<1> HIDE DEF ran
<1>5. WorkerInStep'
  <2>1. \A n \in Main' : has_run'[n] /\ sg_version'[n] = notifier_sg'
    BY <1>1, <1>2, <1>3
  <2>2. notifiers' \cup new_notifiers' = {}
    BY <1>1
  <2>3. /\ \A n \in Handed' : sg_version'[n] \in 1 .. latest' /\ sg_version'[n] = notifier_sg'
        /\ \A m, n \in Handed' : sg_version'[m] = sg_version'[n]
    BY <1>1, <1>2, <1>4, <2>1
  <2>4. step' \notin {"skip", "skip_handover", "advance", "handover"}
    BY <1>1
  <2> QED
    BY <2>1, <2>2, <2>3, <2>4, Zenon DEF WorkerInStep
<1>6. RealmsInStep'
  BY <1>1, RealmsKept, Zenon DEF InStep
<1>7. ASSUME NEW n \in Notifiers
      PROVE  CallbackInStep(n)'
  <2>0. CallbackInStep(n)
    BY Zenon DEF InStep
  <2>1. CASE n \in notifiers /\ has_run[n]
    <3>1. has_run'[n] /\ sg_version'[n] = notifier_sg
      BY <1>1, <2>1 DEF ran
    <3> QED
      BY <1>1, <2>1, <3>1, HandOver
  <2>2. CASE n \notin ran
    <3>1. /\ sg_version'[n] = sg_version[n] /\ accumulated_changes'[n] = accumulated_changes[n]
      BY <1>1, <2>2 DEF ran
    <3>2. has_run'[n] <=> has_run[n]
      BY <1>1, <2>2, Zenon
    <3> QED
      BY <1>1, <2>0, <3>1, <3>2, Zenon DEF CallbackInStep, Packaged, Accumulating
  <2>3. CASE ~has_run[n] /\ n \in ran
    <3>1. place[n] \in {"main", "dead"}
      BY <2>3, Zenon DEF InStep, WorkerInStep, ran
    <3> QED
      BY <1>1, <2>0, <2>3, <3>1, Zenon DEF CallbackInStep, Packaged
  <2>4. CASE n \notin notifiers /\ has_run[n] /\ n \in ran
    <3>1. place[n] # "main"
      BY <1>1, <2>4 DEF InStep, WorkerInStep, Main
    <3> QED
      BY <1>1, <2>0, <2>4, <3>1, Zenon DEF CallbackInStep, Packaged
  <2> QED
    BY <2>1, <2>2, <2>3, <2>4 DEF ran
<1> QED
  BY <1>5, <1>6, <1>7 DEF InStep

LEMMA InStepStep ==
  ASSUME SingleWriter, Values, Flags, Forward, InStep, [Next]_vars
  PROVE  InStep'
<1>1. CASE Worker
  BY <1>1, InStepLock, InStepAdvance, InStepHandOverSkip, InStepHandover, InStepNotify, Zenon
  DEF Worker
<1>2. ASSUME NEW r \in Realms, Goes(r)
      PROVE  InStep'
  <2>1. CASE notifyWhileWriting(r)
    <3>1. UNCHANGED <<latest, version, stage, target, delivering, calling, callbackVars, seen,
                      notifierVars, step, notifier_sg, change_info, notifiers, new_notifiers>>
      BY <2>1, Zenon DEF notifyWhileWriting
    <3> QED
      BY <3>1, InStepUnchanged, Zenon
  <2> QED
    BY <1>2, <2>1, InStepProcess, InStepReady, InStepLatest, InStepPromote, InStepAfterAdvance,
       InStepStage, Zenon DEF Goes
<1>3. ASSUME NEW r \in Realms, cancel_transaction(r)
      PROVE  InStep'
  <2>1. UNCHANGED <<latest, version, stage, target, delivering, calling, callbackVars, seen,
                    notifierVars, step, notifier_sg, change_info, notifiers, new_notifiers>>
    BY <1>3, Zenon DEF cancel_transaction
  <2> QED
    BY <2>1, InStepUnchanged, Zenon
<1>4. CASE \E r \in Realms :
             commit_write(r) \/ refresh(r) \/ begin_transaction(r) \/ beginInCallback(r)
  BY <1>4, InStepCommit, InStepStage, InStepBeginInCallback, Zenon
<1>5. CASE \E n \in Notifiers : register_notifier(n) \/ unregister(n)
  BY <1>5, InStepRegister, InStepUnregister, Zenon
<1>6. CASE UNCHANGED vars
  <2>1. UNCHANGED <<latest, version, stage, target, delivering, calling, callbackVars, seen,
                    notifierVars, step, notifier_sg, change_info, notifiers, new_notifiers>>
    BY <1>6, Zenon DEF vars
  <2> QED
    BY <2>1, InStepUnchanged, Zenon
<1> QED
  BY <1>1, <1>2, <1>3, <1>4, <1>5, <1>6, Zenon DEF Next, Ends

-----------------------------------------------------------------------------
\* A step that does not call a callback or commit is none of the contract's.
LEMMA ContractStep ==
  ASSUME Values, Flags, InStep, [Next]_vars
  PROVE  [Contract!Next]_(Contract!vars)
<1>1. ASSUME NEW r \in Realms, NEW n \in Notifiers, after_advance(r, n)
      PROVE  Contract!Call(n)
  <2>1. n \in calling[r] /\ Owner[n] = r /\ Packaged(n) /\ CallbackInStep(n)
    BY <1>1, Zenon DEF after_advance, InStep, RealmsInStep, Owned, CallbackInStep
  <2>2. n \in Handed
    BY <2>1 DEF Packaged, Handed, Main
  <2>3. delivering[r] \in 1 .. latest
    BY <2>1, <2>2, Elements, Numbers DEF Packaged, InStep, WorkerInStep
  <2>4. delivering[r] \in seen[n] .. latest
    <3>1. seen[n] <= delivering[r]
      <4>1. CASE initial_delivered[n]
        BY <2>1, <4>1 DEF Packaged
      <4>2. CASE ~initial_delivered[n]
        BY <2>1, <2>3, <4>2 DEF CallbackInStep
      <4> QED
        BY <4>1, <4>2
    <3> QED
      BY <2>3, <3>1, Elements
  <2>5. (IF initial_delivered[n] THEN changes_to_deliver[n] ELSE {})
          = (IF seen[n] = 0 THEN {} ELSE seen[n] + 1 .. delivering[r])
    BY <2>1, Zenon DEF CallbackInStep, Packaged
  <2>6. /\ latest' = latest
        /\ seen' = [seen EXCEPT ![n] = delivering[r]]
        /\ told' = [told EXCEPT ![n] =
             IF initial_delivered[n] THEN changes_to_deliver[n] ELSE {}]
    BY <1>1, Zenon DEF after_advance
  <2>7. delivering[r] # 0
    BY <2>3
  <2> HIDE DEF Contract!Call
  <2> QED
    BY <2>4, <2>5, <2>6, <2>7, Zenon DEF Contract!Call
<1>2. ASSUME NEW r \in Realms, commit_write(r)
      PROVE  Contract!Commit
  BY <1>2, Zenon DEF commit_write, Commit, Contract!Commit
<1>3. CASE Worker
  BY <1>3, Zenon DEF Worker, lockNotifiers, advanceToSkipVersion, handOverSkipVersion,
     advanceToFinalVersion, prepare_handover, notifyRealms, advance_to_final, Contract!vars
<1>4. ASSUME NEW r \in Realms,
             \/ notifyWhileWriting(r) \/ process_available_async(r) \/ advance_to_ready(r)
             \/ advance_to_latest(r) \/ promote_to_write(r) \/ AllSent(r)
             \/ cancel_transaction(r) \/ refresh(r) \/ begin_transaction(r) \/ beginInCallback(r)
      PROVE  UNCHANGED Contract!vars
  BY <1>4, Zenon DEF notifyWhileWriting, process_available_async, advance_to_ready,
     advance_to_latest, promote_to_write, AllSent, cancel_transaction, refresh,
     begin_transaction, beginInCallback, Contract!vars
<1>5. ASSUME NEW n \in Notifiers, register_notifier(n) \/ unregister(n)
      PROVE  UNCHANGED Contract!vars
  BY <1>5, Zenon DEF register_notifier, unregister, Contract!vars
<1>6. CASE UNCHANGED vars
  BY <1>6, Zenon DEF vars, Contract!vars
<1> QED
  BY <1>1, <1>2, <1>3, <1>4, <1>5, <1>6, Zenon DEF Next, Goes, Ends, Contract!Next

\* With one instance that writes, whose collections live, every notification
\* block is told of each version once and of none twice, for any number of
\* instances, notifiers and versions (realm_coordinator.cpp:549-783,
\* collection_notifier.cpp:283-442).
THEOREM EachToldOnce ==
  ASSUME SingleWriter
  PROVE  Spec => ToldOnce
<1> DEFINE Inv == Values /\ Flags /\ Forward /\ InStep
<1>1. Init => Inv /\ Contract!Init
  BY TypeInit, ForwardInit, InStepInit, Zenon DEF Init, Contract!Init
<1>2. Inv /\ [Next]_vars => Inv'
  BY TypeStep, ForwardStep, InStepStep
<1>3. Inv /\ [Next]_vars => [Contract!Next]_(Contract!vars)
  BY ContractStep
<1> QED
  BY <1>1, <1>2, <1>3, PTL DEF Spec, ToldOnce, Contract!Spec
=============================================================================
