--------------------------- MODULE RateListService ---------------------------
(***************************************************************************)
(* The service that fetches rate lists: rounds of one request per currency *)
(* started by the 30 s timer, single requests started by the Exchange      *)
(* button, and the dispatch group that should tell when a round is over.   *)
(*                                                                         *)
(* The variable `group' of the source is GLOBAL and is replaced by every   *)
(* round, while the completion block of a request reads it when it runs.   *)
(* A block of an earlier round therefore leaves a group it never entered.  *)
(* Groups are numbered here by the round that created them; only the       *)
(* current one is ever entered or left, so only its count is kept.         *)
(*                                                                         *)
(* All the handlers run on the main queue, one at a time; what interleaves *)
(* is their order, and the server.                                         *)
(***************************************************************************)
EXTENDS NetworkActivityIndicatorManager, FiniteSets

CONSTANTS
  Currency,     (* the rows of the Currency table                          *)
  MaxGroup,     (* bound: rounds started                                   *)
  MaxPress,     (* bound: exchange requests started                        *)
  MaxVersion    (* bound: versions of the rates the server publishes       *)

ASSUME CurrencyAssumption == IsFiniteSet(Currency) /\ Currency # {}
ASSUME BoundsAssumption ==
  MaxGroup \in Nat /\ MaxPress \in Nat /\ MaxVersion \in Nat \ {0}

VARIABLES
  group,        (* the current dispatch group, 0 while it is nil           *)
  entered,      (* enters minus leaves of the current group                *)
  armed,        (* it has a notify block that has not been submitted       *)
  queued,       (* groups whose notify block waits on the main queue       *)
  inFlight,     (* request -> version of the body received, 0 before that  *)
  presses,      (* exchange requests started so far                        *)
  rateList,     (* version of each currency's stored list, 0 when nil      *)
  published,    (* the newest version at the server                        *)
  crashed,      (* libdispatch aborted on an unbalanced leave              *)
  \* History variables, read by properties only.
  lost,         (* per group: its requests that ended in the failure block *)
  stray,        (* per group: leaves by requests of other groups           *)
  received,     (* per group: currencies answered since it was created     *)
  logged,       (* "All rate lists received": the group, the lists missing *)
  overtaken     (* requests in flight when their base got another answer   *)

groupVars == <<group, entered, armed, queued, crashed>>
historyVars == <<lost, stray, received, logged, overtaken>>
vars == <<indicatorVars, groupVars, inFlight, presses, rateList, published,
          historyVars>>

Group == 1..MaxGroup
Version == 1..MaxVersion

\* press is 0 for a request of a round, and numbers the exchange requests;
\* group is the group the request entered.
Request == [press : 0..MaxPress, base : Currency, group : Group]

requests == DOMAIN inFlight

RoundRequests(g) == {[press |-> 0, base |-> c, group |-> g] : c \in Currency}

Init ==
  /\ IndicatorInit
  /\ group = 0 /\ entered = 0 /\ armed = FALSE /\ queued = {}
  /\ crashed = FALSE
  /\ inFlight = [r \in {} |-> 0]
  /\ presses = 0
  /\ rateList = [c \in Currency |-> 0]
  /\ published = 1
  /\ lost = [g \in Group |-> 0]
  /\ stray = [g \in Group |-> 0]
  /\ received = [g \in Group |-> {}]
  /\ logged = {}
  /\ overtaken = {}

-----------------------------------------------------------------------------
\* GET: the requests of S go out.
Send(S) ==
  inFlight' = [r \in requests \cup S |-> IF r \in requests THEN inFlight[r] ELSE 0]

\* The request's completion block has run.
Complete(r) == inFlight' = [q \in requests \ {r} |-> inFlight[q]]

\* Mutant: one currency of the round does not enter.
NewGroupMissesOne ==
  /\ group' = group + 1
  /\ entered' = Cardinality(Currency) - 1
  /\ armed' = TRUE
  /\ UNCHANGED <<queued, crashed>>

\* Mutant: the notify block is given to the group before anyone enters.
NewGroupNotifiedFirst ==
  /\ group' = group + 1
  /\ entered' = Cardinality(Currency)
  /\ armed' = FALSE
  /\ queued' = queued \cup {group + 1}
  /\ UNCHANGED crashed

\* Mutant: no notify block.
NewGroupNotNotified ==
  /\ group' = group + 1
  /\ entered' = Cardinality(Currency)
  /\ UNCHANGED <<armed, queued, crashed>>

\* Mutant: the round enters its group too, and never leaves.
NewGroupEntersItself ==
  /\ group' = group + 1
  /\ entered' = Cardinality(Currency) + 1
  /\ armed' = TRUE
  /\ UNCHANGED <<queued, crashed>>

\* dispatch_group_create, one dispatch_group_enter per currency, then
\* dispatch_group_notify.
NewGroup ==
  /\ group' = group + 1
  /\ entered' = Cardinality(Currency)
  /\ armed' = TRUE
  /\ UNCHANGED <<queued, crashed>>

\* Mutant: the request does not enter.
EnterNothing == UNCHANGED groupVars

\* dispatch_group_enter(group) for a single request.
Enter ==
  /\ entered' = entered + 1
  /\ UNCHANGED <<group, armed, queued, crashed>>

\* dispatch_group_leave(group), called by the block of request r.
Leave(r) ==
  /\ crashed' = (entered = 0)
  /\ entered' = IF entered = 0 THEN 0 ELSE entered - 1
  /\ armed' = (armed /\ entered # 1)
  /\ queued' = IF armed /\ entered = 1 THEN queued \cup {group} ELSE queued
  /\ stray' = IF r.group = group THEN stray ELSE [stray EXCEPT ![group] = @ + 1]
  /\ UNCHANGED group

-----------------------------------------------------------------------------
\* A round: viewDidLoad's first one, then one per tick of the timer.
getRateListForCurrencies ==
  /\ ~crashed
  /\ group < MaxGroup
  /\ NewGroup
  /\ Send(RoundRequests(group + 1))
  /\ networkOperationsStarted(Cardinality(Currency))
  /\ UNCHANGED <<presses, rateList, published, historyVars>>

\* Mutant: the button works before the first round.
PressBeforeRound(c) ==
  /\ ~crashed
  /\ presses < MaxPress
  /\ presses' = presses + 1
  /\ Enter
  /\ Send({[press |-> presses + 1, base |-> c, group |-> group]})
  /\ networkOperationsStarted(1)
  /\ UNCHANGED <<rateList, published, historyVars>>

\* The Exchange button asks for the list of currency c.  The screen is only
\* up once its first round has been started.
getRateListForCurrency(c) ==
  /\ ~crashed
  /\ group # 0
  /\ presses < MaxPress
  /\ presses' = presses + 1
  /\ Enter
  /\ Send({[press |-> presses + 1, base |-> c, group |-> group]})
  /\ networkOperationsStarted(1)
  /\ UNCHANGED <<rateList, published, historyVars>>

\* Mutant: the block has captured another currency.
StoreAnywhere(r) == \E c \in Currency : rateList' = [rateList EXCEPT ![c] = inFlight[r]]

\* currency.rateList = rateList, for the currency the block captured.
Store(r) == rateList' = [rateList EXCEPT ![r.base] = inFlight[r]]

\* The success block of request r.
SuccessBlock(r) ==
  /\ ~crashed
  /\ r \in requests
  /\ inFlight[r] # 0
  /\ networkOperationFinished
  /\ Store(r)
  /\ Leave(r)
  /\ Complete(r)
  /\ received' = [g \in Group |-> IF g <= group THEN received[g] \cup {r.base}
                                               ELSE received[g]]
  /\ overtaken' = {q \in requests \ {r} : q \in overtaken \/ q.base = r.base}
  /\ UNCHANGED <<presses, published, lost, logged>>

\* Mutant: the failure block does not tell the spinner.
FailureKeepsSpinner(r) ==
  /\ ~crashed
  /\ r \in requests
  /\ Complete(r)
  /\ lost' = [lost EXCEPT ![r.group] = @ + 1]
  /\ overtaken' = overtaken \ {r}
  /\ UNCHANGED <<indicatorVars, groupVars, presses, rateList, published, stray,
                 received, logged>>

\* The failure block of request r: timeout, refused connection, HTTP error or
\* an unreadable body.  It does not leave the group.
FailureBlock(r) ==
  /\ ~crashed
  /\ r \in requests
  /\ networkOperationFinished
  /\ Complete(r)
  /\ lost' = [lost EXCEPT ![r.group] = @ + 1]
  /\ overtaken' = overtaken \ {r}
  /\ UNCHANGED <<groupVars, presses, rateList, published, stray, received, logged>>

\* The block given to dispatch_group_notify for group g.
NotifyBlock(g) ==
  /\ ~crashed
  /\ g \in queued
  /\ queued' = queued \ {g}
  /\ logged' = logged \cup {[group |-> g, missing |-> Currency \ received[g]]}
  /\ UNCHANGED <<indicatorVars, group, entered, armed, crashed, inFlight, presses,
                 rateList, published, lost, stray, received, overtaken>>

-----------------------------------------------------------------------------
\* The server: it answers with the newest rates, and may publish newer ones.
Serve(r) ==
  /\ ~crashed
  /\ r \in requests
  /\ inFlight[r] = 0
  /\ inFlight' = [inFlight EXCEPT ![r] = published]
  /\ UNCHANGED <<indicatorVars, groupVars, presses, rateList, published, historyVars>>

Publish ==
  /\ ~crashed
  /\ published < MaxVersion
  /\ published' = published + 1
  /\ UNCHANGED <<indicatorVars, groupVars, inFlight, presses, rateList, historyVars>>

Next ==
  \/ getRateListForCurrencies
  \/ \E c \in Currency : getRateListForCurrency(c)
  \/ \E r \in requests : Serve(r) \/ SuccessBlock(r) \/ FailureBlock(r)
  \/ \E g \in queued : NotifyBlock(g)
  \/ Publish

Spec == Init /\ [][Next]_vars

\* The main queue runs what is submitted to it, and every request ends in one
\* of its two blocks, at the latest when its time-out fires.  Nobody is obliged
\* to press the button and the server need not publish or answer.
Fairness ==
  /\ \A r \in Request : WF_vars(r \in requests /\ (SuccessBlock(r) \/ FailureBlock(r)))
  /\ \A g \in Group : WF_vars(NotifyBlock(g))

FairSpec == Spec /\ Fairness

-----------------------------------------------------------------------------
\* The types of the variables; requests in flight were issued within the bounds.
TypeOK ==
  /\ loadingCount \in Nat /\ indicatorVisible \in BOOLEAN
  /\ group \in 0..MaxGroup /\ entered \in Nat /\ armed \in BOOLEAN
  /\ queued \subseteq Group /\ crashed \in BOOLEAN
  /\ requests \subseteq Request /\ IsFiniteSet(requests)
  /\ inFlight \in [requests -> 0..MaxVersion]
  /\ presses \in 0..MaxPress
  /\ rateList \in [Currency -> 0..MaxVersion]
  /\ published \in Version
  /\ lost \in [Group -> Nat] /\ stray \in [Group -> Nat]
  /\ received \in [Group -> SUBSET Currency]
  /\ logged \subseteq [group : Group, missing : SUBSET Currency]
  /\ overtaken \subseteq requests

\* The spinner turns exactly while requests are in flight, whatever the order
\* in which rounds, presses, answers and failures come, and although the
\* counter moves in steps of a pointer (NetworkActivityIndicatorManager.m:13-30).
IndicatorMatchesLoad ==
  /\ loadingCount = PointerStep * Cardinality(requests)
  /\ indicatorVisible <=> requests # {}

\* What the current group's count really counts: its own requests in flight,
\* plus those that failed (the failure block never leaves), minus the leaves
\* of requests that entered an earlier group (RateListService.m:52,74,76-82).
OwnRequests == {r \in requests : r.group = group}

GroupBalance ==
  ~crashed /\ group # 0 =>
    entered + stray[group] = Cardinality(OwnRequests) + lost[group]

\* The unbalanced leave that aborts the program takes a request that outlived
\* its round: without one, no order of answers and failures can cause it.
CrashNeedsStraggler == crashed => stray[group] > 0

\* "All rate lists received" is only logged while a list of that round is still
\* missing if a leave of another round was booked on it.
ReportedUnlessStrayed ==
  \A l \in logged : l.missing = {} \/ stray[l.group] > 0

\* What the log line says (ViewController.m:80).
ReportedMeansAllReceived == \A l \in logged : l.missing = {}

\* A stored list is never replaced by an older one unless the request that
\* brought the older one was overtaken by another request for the same currency.
RatesRegressOnlyWhenOvertaken ==
  [][\A c \in Currency : rateList'[c] < rateList[c] =>
       \E r \in overtaken : r.base = c /\ r \notin requests']_vars

\* A round that nothing disturbs is reported: every one is, unless one of its
\* requests fails, a leave of another round is booked on it, the next round
\* replaces its group, or the program aborts.
Disturbed(g) == lost[g] > 0 \/ stray[g] > 0 \/ group # g \/ crashed

EveryRoundReported ==
  \A g \in Group : group = g ~> Disturbed(g) \/ \E l \in logged : l.group = g

\* One straggler is enough to abort the program: once more leaves of other
\* rounds than failures are booked on the current group, the last of its own
\* answers finds the count at zero, unless a request fails or the next round
\* comes first.
StragglerAborts ==
  \A g \in Group :
    group = g /\ stray[g] > lost[g] ~> crashed \/ group # g \/ lost[g] >= stray[g]

\* The spinner does not turn for ever once the rounds and presses stop.
IndicatorGoesOff == indicatorVisible ~> ~indicatorVisible \/ crashed

=============================================================================
