--------------------------- MODULE RealmCoordinator --------------------------
(***************************************************************************)
(* The coordinator of the Realm instances of one file: each instance is    *)
(* used by one thread with a run loop, the notifiers of its collections    *)
(* are run by one worker thread, and what they found is handed over under  *)
(* m_notifier_mutex. A step holds the mutex from acquiring to releasing it.*)
(*                                                                         *)
(* Versions are numbers and the changes between two of them the set of     *)
(* the versions that made them: every commit changes every collection.     *)
(* Each notifier is one of a query's results and has one callback;         *)
(* the instances refresh automatically and are in a read transaction.      *)
(***************************************************************************)
EXTENDS Integers, FiniteSets

CONSTANTS
  Realms,               (* the Realm instances                             *)
  Notifiers,            (* the notifiers that may be registered            *)
  Owner,                (* the instance of each                            *)
  Writers,              (* the instances that write                        *)
  Refreshers,           (* the instances that refresh by themselves        *)
  Released,             (* the notifiers whose collection may be released  *)
  none,                 (* no instance                                     *)
  MaxVersion            (* bound: the last version committed               *)

ASSUME ConstantsAssumption ==
  /\ Owner \in [Notifiers -> Realms] /\ Writers \subseteq Realms /\ Refreshers \subseteq Realms
  /\ Released \subseteq Notifiers
  /\ none \notin Realms /\ MaxVersion \in Nat \ {0}

VARIABLES
  latest,               (* the latest snapshot of the file                 *)
  writer,               (* the instance that holds the write lock          *)
  (* of each instance *)
  version,              (* get_version_of_current_transaction              *)
  stage,                (* what its thread does                            *)
  target,               (* the version it waits for in package_and_wait    *)
  delivering,           (* the version of the package                      *)
  calling,              (* the notifiers whose callbacks are still to call *)
  signaled,             (* the run loop source of WeakRealmNotifier        *)
  (* of each notifier *)
  place,                (* not registered, in m_new_notifiers, in          *)
                        (* m_notifiers, or not is_alive                    *)
  sg_version, has_run,  (* m_sg_version, m_has_run                         *)
  accumulated_changes, changes_to_deliver, initial_delivered,
                        (* of its callback                                 *)
  dropped,              (* history: a signal of the instance was dropped   *)
                        (* since the last commit                           *)
  seen, told,  (* history: the versions its callback is not to be *)
                        (* told of, the last version and the versions told *)
  (* of the coordinator *)
  skip_version,         (* m_notifier_skip_version, 0 for none             *)
  wake,                 (* the worker's pipe has been written to           *)
  (* of the worker, in run_async_notifiers *)
  step,                 (* the next step                                   *)
  new_notifiers, notifiers,     (* the notifiers of this run               *)
  final_version,        (* version, 0 for the latest                       *)
  skip,                 (* skip_version                                    *)
  notifier_sg,          (* the version of m_notifier_sg                    *)
  change_info           (* the changes it was advanced over                *)

realmVars == <<version, stage, target, delivering, calling, signaled>>
callbackVars == <<accumulated_changes, changes_to_deliver, initial_delivered>>
notifierVars == <<place, sg_version, has_run>>
historyVars == <<dropped, seen, told>>
workerVars == <<step, new_notifiers, notifiers, final_version, skip, notifier_sg, change_info>>
fileVars == <<latest, writer>>
vars == <<fileVars, realmVars, callbackVars, notifierVars, historyVars, workerVars,
          skip_version, wake>>

Stages == {"idle", "promoting", "refreshing", "sending"}
Places == {"none", "new", "main", "dead"}
Steps == {"idle", "skip", "skip_handover", "advance", "handover", "notify", "aborted"}

Init ==
  /\ latest = 1 /\ writer = none
  /\ version = [r \in Realms |-> 1] /\ stage = [r \in Realms |-> "idle"]
  /\ target = [r \in Realms |-> 0] /\ delivering = [r \in Realms |-> 0]
  /\ calling = [r \in Realms |-> {}] /\ signaled = [r \in Realms |-> FALSE]
  /\ place = [n \in Notifiers |-> "none"] /\ sg_version = [n \in Notifiers |-> 0]
  /\ has_run = [n \in Notifiers |-> FALSE]
  /\ accumulated_changes = [n \in Notifiers |-> {}]
  /\ changes_to_deliver = [n \in Notifiers |-> {}]
  /\ initial_delivered = [n \in Notifiers |-> FALSE]
  /\ dropped = [r \in Realms |-> FALSE]
  /\ seen = [n \in Notifiers |-> 0] /\ told = [n \in Notifiers |-> {}]
  /\ skip_version = 0 /\ wake = FALSE
  /\ step = "idle" /\ new_notifiers = {} /\ notifiers = {}
  /\ final_version = 0 /\ skip = 0 /\ notifier_sg = 0 /\ change_info = {}

Main == {n \in Notifiers : place[n] = "main"}
New == {n \in Notifiers : place[n] = "new"}
notifiers_for_realm(r) == {n \in Main \cup New : Owner[n] = r}

\* Outside of a wait the thread of r runs the program's code: in a handler of
\* the run loop, or in a callback while others are still to be called.
Runs(r) == stage[r] \in {"idle", "sending"}
in_transaction(r) == writer = r

-----------------------------------------------------------------------------
(* Notifiers                                                               *)

register_notifier(n) ==
  LET r == Owner[n] IN
  /\ place[n] = "none" /\ Runs(r) /\ ~in_transaction(r)
  /\ place' = [place EXCEPT ![n] = "new"]
  /\ sg_version' = [sg_version EXCEPT ![n] = version[r]]
  /\ wake' = TRUE
  /\ UNCHANGED <<fileVars, realmVars, callbackVars, has_run, historyVars, workerVars, skip_version>>

\* The collection and the token are released.
unregister(n) ==
  LET r == Owner[n] IN
  /\ n \in Released /\ place[n] \in {"new", "main"} /\ Runs(r)
  /\ place' = [place EXCEPT ![n] = "dead"]
  /\ calling' = [calling EXCEPT ![r] = @ \ {n}]
  /\ UNCHANGED <<fileVars, version, stage, target, delivering, signaled, callbackVars,
                 sg_version, has_run, historyVars, workerVars, skip_version, wake>>

package_for_delivery(P) ==
  /\ accumulated_changes' = [n \in Notifiers |-> IF n \in P THEN {} ELSE accumulated_changes[n]]
  /\ changes_to_deliver' =
       [n \in Notifiers |-> IF n \in P THEN accumulated_changes[n] ELSE changes_to_deliver[n]]
  /\ UNCHANGED initial_delivered

\* The notifiers P, whose version is v, are packaged; then the instance is at
\* version w and their callbacks are called.
Send(r, P, v, w) ==
  /\ package_for_delivery(P)
  /\ version' = [version EXCEPT ![r] = w]
  /\ delivering' = [delivering EXCEPT ![r] = v]
  /\ calling' = [calling EXCEPT ![r] =
       {n \in P : ~initial_delivered[n] \/ accumulated_changes[n] # {}}]
  /\ stage' = [stage EXCEPT ![r] = "sending"]
  /\ target' = [target EXCEPT ![r] = 0]

\* One round of the loop of after_advance.
after_advance(r, n) ==
  /\ stage[r] = "sending" /\ n \in calling[r]
  /\ calling' = [calling EXCEPT ![r] = @ \ {n}]
  /\ initial_delivered' = [initial_delivered EXCEPT ![n] = TRUE]
  /\ changes_to_deliver' = [changes_to_deliver EXCEPT ![n] = {}]
  /\ seen' = [seen EXCEPT ![n] = delivering[r]]
  /\ told' = [told EXCEPT ![n] =
       IF initial_delivered[n] THEN changes_to_deliver[n] ELSE {}]
  /\ UNCHANGED <<fileVars, version, stage, target, delivering, signaled,
                 accumulated_changes, notifierVars, dropped, workerVars,
                 skip_version, wake>>

\* The callbacks are called: m_is_sending_notifications is reset.
AllSent(r) ==
  /\ stage[r] = "sending" /\ calling[r] = {}
  /\ stage' = [stage EXCEPT ![r] = "idle"]
  /\ delivering' = [delivering EXCEPT ![r] = 0]
  /\ UNCHANGED <<fileVars, version, target, calling, signaled, callbackVars,
                 notifierVars, historyVars, workerVars, skip_version, wake>>

-----------------------------------------------------------------------------
(* Realm: notify and refresh                                               *)

HasRun(r) == {n \in notifiers_for_realm(r) : has_run[n]}

\* In a write transaction the signal is dropped.
notifyWhileWriting(r) ==
  /\ signaled[r] /\ stage[r] = "idle" /\ in_transaction(r)
  /\ signaled' = [signaled EXCEPT ![r] = FALSE]
  /\ dropped' = [dropped EXCEPT ![r] = TRUE]
  /\ UNCHANGED <<fileVars, version, stage, target, delivering, calling, callbackVars,
                 notifierVars, seen, told, workerVars, skip_version, wake>>

\* Nothing changed: what this instance wrote itself, and first calls.
process_available_async(r) ==
  /\ signaled[r] /\ stage[r] = "idle" /\ ~in_transaction(r)
  /\ version[r] = latest
  /\ signaled' = [signaled EXCEPT ![r] = FALSE]
  /\ Send(r, {n \in HasRun(r) : sg_version[n] = version[r]}, version[r], version[r])
  /\ UNCHANGED <<fileVars, notifierVars, historyVars, workerVars, skip_version, wake>>

\* Mutant: instead of to the version of the package the instance advances to
\* the latest.
AdvanceToLatestAlways(r) ==
  /\ signaled[r] /\ stage[r] = "idle" /\ ~in_transaction(r)
  /\ version[r] # latest
  /\ signaled' = [signaled EXCEPT ![r] = FALSE]
  /\ Send(r, HasRun(r), latest, latest)
  /\ UNCHANGED <<fileVars, notifierVars, historyVars, workerVars, skip_version, wake>>

\* Something changed: the instance advances to the version the notifiers are
\* at, to the latest when none has run, and stays when they are not ahead of
\* it. They are packaged in any case.
advance_to_ready(r) ==
  /\ signaled[r] /\ stage[r] = "idle" /\ ~in_transaction(r)
  /\ version[r] # latest
  /\ signaled' = [signaled EXCEPT ![r] = FALSE]
  /\ IF HasRun(r) = {} THEN Send(r, {}, latest, latest)
     ELSE \E n \in HasRun(r) :
            IF sg_version[n] > version[r]
            THEN Send(r, HasRun(r), sg_version[n], sg_version[n])
            ELSE /\ package_for_delivery(HasRun(r))
                 /\ UNCHANGED <<version, delivering, calling, stage, target>>
  /\ UNCHANGED <<fileVars, notifierVars, historyVars, workerVars, skip_version, wake>>

\* What package_and_wait waits for.
Ready(r, v) == \A n \in notifiers_for_realm(r) : has_run[n] /\ sg_version[n] >= v

\* refresh: advance_to_latest waits for the notifiers. wait_for_notifiers
\* wakes the worker.
refresh(r) ==
  /\ r \in Refreshers /\ stage[r] = "idle" /\ ~in_transaction(r)
  /\ stage' = [stage EXCEPT ![r] = "refreshing"]
  /\ target' = [target EXCEPT ![r] = latest]
  /\ wake' = (wake \/ ~Ready(r, latest))
  /\ UNCHANGED <<fileVars, version, delivering, calling, signaled, callbackVars, notifierVars,
                 historyVars, workerVars, skip_version>>

advance_to_latest(r) ==
  /\ stage[r] = "refreshing" /\ Ready(r, target[r])
  /\ LET P == notifiers_for_realm(r) IN
     IF P = {} THEN Send(r, {}, latest, latest)
     ELSE \E n \in P : Send(r, P, sg_version[n], sg_version[n])
  /\ UNCHANGED <<fileVars, signaled, notifierVars, historyVars, workerVars, skip_version, wake>>

-----------------------------------------------------------------------------
(* Realm: write transactions                                               *)

\* begin_transaction takes the write lock and finds which version it goes to;
\* then it waits for the notifiers.
begin_transaction(r) ==
  /\ r \in Writers /\ latest < MaxVersion
  /\ stage[r] = "idle" /\ writer = none
  /\ writer' = r
  /\ stage' = [stage EXCEPT ![r] = "promoting"]
  /\ target' = [target EXCEPT ![r] = latest]
  /\ wake' = (wake \/ ~Ready(r, latest))
  /\ UNCHANGED <<latest, version, delivering, calling, signaled, callbackVars,
                 notifierVars, historyVars, workerVars, skip_version>>

promote_to_write(r) ==
  /\ stage[r] = "promoting" /\ Ready(r, target[r])
  /\ Send(r, notifiers_for_realm(r), latest, latest)
  /\ UNCHANGED <<fileVars, signaled, notifierVars, historyVars, workerVars, skip_version, wake>>

\* Begun in a callback, a write transaction waits for nobody and tells nobody.
beginInCallback(r) ==
  /\ r \in Writers /\ latest < MaxVersion
  /\ stage[r] = "sending" /\ writer = none
  /\ writer' = r
  /\ version' = [version EXCEPT ![r] = latest]
  /\ UNCHANGED <<latest, stage, target, delivering, calling, signaled, callbackVars,
                 notifierVars, historyVars, workerVars, skip_version, wake>>

\* The transaction is committed, the skip version is set and the worker woken.
Commit(r, skip_to, wake_up) ==
  /\ in_transaction(r) /\ Runs(r)
  /\ latest' = latest + 1
  /\ version' = [version EXCEPT ![r] = latest']
  /\ writer' = none
  /\ dropped' = [q \in Realms |-> FALSE]
  /\ skip_version' = skip_to
  /\ wake' = (wake \/ wake_up)
  /\ UNCHANGED <<stage, target, delivering, calling, signaled, callbackVars, notifierVars,
                 seen, told, workerVars>>

have_notifiers(r) == \E n \in Main : Owner[n] = r

\* Mutant: nobody is woken.
CommitSilently(r) == Commit(r, IF have_notifiers(r) THEN latest + 1 ELSE skip_version, FALSE)

\* Mutant: the version to skip to is the one after the commit.
CommitSkippingFurther(r) == Commit(r, IF have_notifiers(r) THEN latest + 2 ELSE skip_version, TRUE)

\* Mutant: a version to skip to that the worker has not taken yet is kept.
CommitKeepingSkip(r) ==
  Commit(r, IF have_notifiers(r) /\ skip_version = 0 THEN latest + 1 ELSE skip_version, TRUE)

\* The notifiers are to stop at the version of a commit of their instance.
commit_write(r) == Commit(r, IF have_notifiers(r) THEN latest + 1 ELSE skip_version, TRUE)

cancel_transaction(r) ==
  /\ in_transaction(r) /\ Runs(r)
  /\ writer' = none
  /\ UNCHANGED <<latest, realmVars, callbackVars, notifierVars, historyVars,
                 workerVars, skip_version, wake>>

-----------------------------------------------------------------------------
(* The worker: on_change, and in it run_async_notifiers                    *)

\* Every callback of the notifiers N is given the changes.
add_changes(N, changes) ==
  /\ accumulated_changes' = [n \in Notifiers |->
       IF n \in N THEN accumulated_changes[n] \cup changes ELSE accumulated_changes[n]]
  /\ UNCHANGED <<changes_to_deliver, initial_delivered>>

\* The first part, up to unlocking: the dead are gone, the new notifiers are
\* to be brought to the version that is now the latest, m_notifiers from where
\* they are. With none of these the helper group begins to read anew.
lockNotifiers ==
  /\ step = "idle" /\ wake
  /\ wake' = FALSE
  /\ IF Main \cup New = {}
     THEN /\ step' = "notify"
          /\ UNCHANGED <<place, new_notifiers, notifiers, final_version, skip, notifier_sg,
                         skip_version>>
     ELSE /\ new_notifiers' = New /\ notifiers' = Main
          /\ final_version' = IF New = {} THEN 0 ELSE latest
          /\ notifier_sg' = IF Main = {} THEN latest ELSE notifier_sg
          /\ skip' = skip_version /\ skip_version' = 0
          /\ place' = [n \in Notifiers |-> IF n \in New THEN "main" ELSE place[n]]
          /\ step' = IF skip_version = 0 THEN "advance" ELSE "skip"
  /\ UNCHANGED <<fileVars, realmVars, callbackVars, sg_version, has_run, historyVars, change_info>>

\* m_notifier_sg is advanced: a version before its own is refused by an
\* assertion, and ends the process.
advance_to_final(v, next) ==
  /\ IF v < notifier_sg
     THEN step' = "aborted" /\ UNCHANGED <<notifier_sg, change_info>>
     ELSE /\ step' = next
          /\ notifier_sg' = v
          /\ change_info' = notifier_sg + 1 .. v
  /\ UNCHANGED <<fileVars, realmVars, callbackVars, notifierVars, historyVars,
                 new_notifiers, notifiers, final_version, skip, skip_version, wake>>

advanceToSkipVersion == step = "skip" /\ advance_to_final(skip, "skip_handover")

handOverSkipVersion ==
  /\ step = "skip_handover"
  /\ step' = "advance"
  /\ sg_version' = [n \in Notifiers |-> IF n \in notifiers THEN notifier_sg ELSE sg_version[n]]
  /\ add_changes(notifiers, change_info)
  /\ skip' = 0 /\ change_info' = {}
  /\ UNCHANGED <<fileVars, realmVars, place, has_run, historyVars, new_notifiers, notifiers,
                 final_version, notifier_sg, skip_version, wake>>

advanceToFinalVersion ==
  /\ step = "advance"
  /\ advance_to_final(IF final_version = 0 THEN latest ELSE final_version, "handover")

\* The second part under the mutex. For the new ones it is the first run,
\* which has no changes.
prepare_handover ==
  LET ran == notifiers \cup new_notifiers IN
  /\ step = "handover"
  /\ step' = "notify"
  /\ sg_version' = [n \in Notifiers |-> IF n \in ran THEN notifier_sg ELSE sg_version[n]]
  /\ has_run' = [n \in Notifiers |-> has_run[n] \/ n \in ran]
  /\ add_changes(notifiers, change_info)
  /\ new_notifiers' = {} /\ notifiers' = {}
  /\ final_version' = 0 /\ change_info' = {}
  /\ UNCHANGED <<fileVars, realmVars, place, historyVars, skip, notifier_sg, skip_version, wake>>

\* The run loops of all instances are signaled.
notifyRealms ==
  /\ step = "notify"
  /\ step' = "idle"
  /\ signaled' = [r \in Realms |-> TRUE]
  /\ UNCHANGED <<fileVars, version, stage, target, delivering, calling, callbackVars,
                 notifierVars, historyVars, new_notifiers, notifiers, final_version, skip,
                 notifier_sg, change_info, skip_version, wake>>

-----------------------------------------------------------------------------
Worker ==
  \/ lockNotifiers \/ advanceToSkipVersion \/ handOverSkipVersion
  \/ advanceToFinalVersion \/ prepare_handover \/ notifyRealms

\* What the run loop and the code of Realm go on with by themselves.
Goes(r) ==
  \/ notifyWhileWriting(r) \/ process_available_async(r) \/ advance_to_ready(r)
  \/ advance_to_latest(r) \/ promote_to_write(r)
  \/ \E n \in Notifiers : after_advance(r, n)
  \/ AllSent(r)

Ends(r) == commit_write(r) \/ cancel_transaction(r)

Next ==
  \/ Worker
  \/ \E r \in Realms :
       Goes(r) \/ Ends(r) \/ refresh(r) \/ begin_transaction(r) \/ beginInCallback(r)
  \/ \E n \in Notifiers :
       register_notifier(n) \/ unregister(n)

Spec == Init /\ [][Next]_vars

\* The worker thread runs, a run loop runs what it is signaled for, callbacks
\* return, and who began a write transaction ends it. Nobody need write,
\* refresh or register.
FairSpec ==
  /\ Spec
  /\ WF_vars(Worker)
  /\ \A r \in Realms : WF_vars(Goes(r)) /\ WF_vars(Ends(r))

-----------------------------------------------------------------------------
(* Properties                                                              *)

TypeOK ==
  /\ latest \in 1 .. MaxVersion /\ writer \in Writers \cup {none}
  /\ {version, target, delivering} \subseteq [Realms -> 0 .. MaxVersion]
  /\ stage \in [Realms -> Stages] /\ calling \in [Realms -> SUBSET Notifiers]
  /\ {signaled, dropped} \subseteq [Realms -> BOOLEAN]
  /\ place \in [Notifiers -> Places] /\ sg_version \in [Notifiers -> 0 .. MaxVersion]
  /\ {has_run, initial_delivered} \subseteq [Notifiers -> BOOLEAN]
  /\ {accumulated_changes, changes_to_deliver, told}
       \subseteq [Notifiers -> SUBSET (1 .. MaxVersion)]
  /\ seen \in [Notifiers -> 0 .. MaxVersion]
  /\ skip_version \in 0 .. MaxVersion /\ wake \in BOOLEAN
  /\ step \in Steps /\ new_notifiers \subseteq Notifiers /\ notifiers \subseteq Notifiers
  /\ {final_version, skip, notifier_sg} \subseteq 0 .. MaxVersion
  /\ change_info \subseteq 1 .. MaxVersion

Contract == INSTANCE ChangeNotifications WITH
  Blocks <- Notifiers, committed <- latest

\* Whatever the threads do between the steps of the worker, a block is told of
\* each version once, and of none twice.
ToldOnce == Contract!Spec

\* The worker's transaction never has to go back (group_shared.hpp:1030:
\* REALM_ASSERT(new_read_lock.m_version >= m_read_lock.m_version)).
NeverBack == step # "aborted"

\* A notifier is behind when its block was not told of the latest version or
\* its instance waits for the notifiers.
Behind(n) == seen[n] < latest \/ stage[Owner[n]] \in {"promoting", "refreshing"}

\* A block catches up with the latest version, by the worker, the run loop or
\* the next write, and who waits for the notifiers, with the write lock or to
\* refresh, goes on: the worker never waits for it. But not if the collection
\* is released, and not if the instance was signaled during a write
\* transaction: that drops the signal (shared_realm.cpp:578), and while a
\* commit makes up for it, a cancelled transaction does not.
EventuallyTold ==
  \A n \in Notifiers :
    place[n] \in {"new", "main"} /\ Behind(n)
      ~> ~Behind(n) \/ place[n] = "dead" \/ dropped[Owner[n]]
=============================================================================
