----------------------- MODULE RateListService_proofs -----------------------
(***************************************************************************)
(* Theorems about RateListService, for every finite set of currencies and  *)
(* every bound.                                                            *)
(***************************************************************************)
EXTENDS RateListService, FiniteSetTheorems, TLAPS

-----------------------------------------------------------------------------
\* What the helpers of the module do.

\* There is at least one currency (RateListService.m:36 loops at least once).
LEMMA CurrencyCount == Cardinality(Currency) \in Nat \ {0}
  BY CurrencyAssumption, FS_CardinalityType, FS_EmptySet

\* A round sends one request per currency (RateListService.m:36-38).
LEMMA RoundSize ==
  ASSUME NEW g
  PROVE  /\ IsFiniteSet(RoundRequests(g))
         /\ Cardinality(RoundRequests(g)) = Cardinality(Currency)
<1> DEFINE f == [c \in Currency |-> [press |-> 0, base |-> c, group |-> g]]
<1>1. f \in [Currency -> RoundRequests(g)]
  BY DEF RoundRequests
<1>2. \A c, d \in Currency : f[c] = f[d] => c = d
  OBVIOUS
<1>3. \A r \in RoundRequests(g) : \E c \in Currency : f[c] = r
  BY DEF RoundRequests
<1>4. f \in Bijection(Currency, RoundRequests(g))
  BY <1>1, <1>2, <1>3, Zenon DEF Bijection, Injection, Surjection, IsInjective
<1>5. ExistsBijection(Currency, RoundRequests(g))
  BY <1>4 DEF ExistsBijection
<1>6. QED
  BY <1>5, CurrencyAssumption, FS_Bijection

\* The requests of a round carry its number.
LEMMA RoundMembers ==
  ASSUME NEW g, NEW r \in RoundRequests(g)
  PROVE  r.press = 0 /\ r.base \in Currency /\ r.group = g
  BY DEF RoundRequests

-----------------------------------------------------------------------------
(***************************************************************************)
(* The spinner.  The counter moves in steps of PointerStep, so it is a     *)
(* multiple of it; k below is the number of requests in flight.            *)
(***************************************************************************)

\* n requests start while k are in flight.
LEMMA Started ==
  ASSUME NEW k \in Nat, NEW n \in Nat,
         loadingCount = PointerStep * k, indicatorVisible \in BOOLEAN,
         indicatorVisible <=> k # 0, networkOperationsStarted(n)
  PROVE  /\ loadingCount' = PointerStep * (k + n)
         /\ indicatorVisible' \in BOOLEAN
         /\ indicatorVisible' <=> k + n # 0
<1>1. loadingCount' = PointerStep * (k + n)
  <2>1. CASE PointerStep = 4 BY <2>1 DEF networkOperationsStarted
  <2>2. CASE PointerStep = 8 BY <2>2 DEF networkOperationsStarted
  <2> QED BY <2>1, <2>2, PointerStepAssumption
<1>2. loadingCount = 0 <=> k = 0
  BY PointerStepAssumption
<1>3. k + n # 0 <=> k # 0 \/ n > 0
  OBVIOUS
<1>4. /\ indicatorVisible' \in BOOLEAN
      /\ indicatorVisible' <=> k + n # 0
  BY <1>2, <1>3, Zenon DEF networkOperationsStarted
<1> QED
  BY <1>1, <1>4

\* One of k requests ends.
LEMMA Finished ==
  ASSUME NEW k \in Nat \ {0},
         loadingCount = PointerStep * k, indicatorVisible \in BOOLEAN,
         indicatorVisible <=> k # 0, networkOperationFinished
  PROVE  /\ loadingCount' = PointerStep * (k - 1)
         /\ indicatorVisible' \in BOOLEAN
         /\ indicatorVisible' <=> k - 1 # 0
<1> DEFINE left == IF loadingCount > 0 THEN loadingCount - PointerStep ELSE 0
<1>1. left = PointerStep * (k - 1)
  <2>1. CASE PointerStep = 4 BY <2>1
  <2>2. CASE PointerStep = 8 BY <2>2
  <2> QED BY <2>1, <2>2, PointerStepAssumption
<1>2. left # 0 <=> k - 1 # 0
  BY <1>1, PointerStepAssumption
<1>3. loadingCount' = left /\ indicatorVisible' = (indicatorVisible /\ left # 0)
  BY Zenon DEF networkOperationFinished
<1>4. /\ indicatorVisible' \in BOOLEAN
      /\ indicatorVisible' <=> k - 1 # 0
  <2> HIDE DEF left
  <2> QED BY <1>2, <1>3, Zenon
<1> QED
  BY <1>1, <1>3, <1>4

-----------------------------------------------------------------------------
(***************************************************************************)
(* Type correctness rests on two more facts: which requests can exist      *)
(* (none before the first round, and none of a round or a press that has   *)
(* not happened), and that the spinner's counter is an exact multiple of   *)
(* the requests in flight, without which it could be taken below zero.     *)
(***************************************************************************)
Issued ==
  /\ group = 0 => requests = {}
  /\ \A r \in requests : r.group <= group /\ r.press <= presses

TypeInv == TypeOK /\ Issued /\ IndicatorMatchesLoad

\* The initial state satisfies the invariant.
LEMMA InitTypeInv == Init => TypeInv
<1> SUFFICES ASSUME Init PROVE TypeInv
  OBVIOUS
<1>1. requests = {} /\ inFlight \in [requests -> 0..MaxVersion]
  BY DEF Init, requests
<1>2. IsFiniteSet(requests) /\ Cardinality(requests) = 0
  BY <1>1, FS_EmptySet
<1>3. TypeOK
  <2>1. logged \subseteq [group : Group, missing : SUBSET Currency]
    BY DEF Init
  <2>2. received \in [Group -> SUBSET Currency]
    BY DEF Init
  <2>3. loadingCount \in Nat /\ indicatorVisible \in BOOLEAN
    BY DEF Init, IndicatorInit
  <2>4. /\ group \in 0..MaxGroup /\ entered \in Nat
        /\ presses \in 0..MaxPress /\ published \in Version
    BY BoundsAssumption DEF Init, Version
  <2>7. armed \in BOOLEAN /\ queued \subseteq Group /\ crashed \in BOOLEAN
    BY DEF Init
  <2>5. /\ rateList \in [Currency -> 0..MaxVersion]
        /\ lost \in [Group -> Nat] /\ stray \in [Group -> Nat]
    BY BoundsAssumption DEF Init
  <2>6. overtaken \subseteq requests /\ requests \subseteq Request
    BY <1>1 DEF Init
  <2> QED
    BY <1>1, <1>2, <2>1, <2>2, <2>3, <2>4, <2>5, <2>6, <2>7, Zenon DEF TypeOK
<1>4. Issued
  BY <1>1 DEF Issued
<1>5. IndicatorMatchesLoad
  BY <1>1, <1>2, PointerStepAssumption DEF Init, IndicatorInit, IndicatorMatchesLoad
<1> QED
  BY <1>3, <1>4, <1>5 DEF TypeInv

\* Requests go out, and the spinner is told of each of them.
LEMMA SendType ==
  ASSUME NEW S, S \subseteq Request, IsFiniteSet(S), S \cap requests = {},
         TypeInv, Send(S), networkOperationsStarted(Cardinality(S))
  PROVE  /\ requests' = requests \cup S
         /\ requests' \subseteq Request /\ IsFiniteSet(requests')
         /\ inFlight' \in [requests' -> 0..MaxVersion]
         /\ loadingCount' \in Nat /\ indicatorVisible' \in BOOLEAN
         /\ IndicatorMatchesLoad'
<1>1. requests' = requests \cup S
  BY DEF Send, requests
<1>2. /\ IsFiniteSet(requests) /\ requests \subseteq Request
      /\ inFlight \in [requests -> 0..MaxVersion] /\ indicatorVisible \in BOOLEAN
  BY DEF TypeInv, TypeOK
<1>3. /\ IsFiniteSet(requests')
      /\ Cardinality(requests') = Cardinality(requests) + Cardinality(S)
      /\ Cardinality(requests) \in Nat /\ Cardinality(S) \in Nat
      /\ requests # {} <=> Cardinality(requests) # 0
      /\ requests' # {} <=> Cardinality(requests') # 0
  <2>1. requests \cap S = {}
    OBVIOUS
  <2>2. Cardinality(requests) \in Nat /\ Cardinality(S) \in Nat
    BY <1>2, FS_CardinalityType
  <2>3. /\ IsFiniteSet(requests \cup S)
        /\ Cardinality(requests \cup S) = Cardinality(requests) + Cardinality(S) - 0
    BY <1>2, <2>1, FS_Union, FS_EmptySet
  <2>4. \A T : IsFiniteSet(T) => (T # {} <=> Cardinality(T) # 0)
    BY FS_EmptySet
  <2>5. /\ IsFiniteSet(requests')
        /\ Cardinality(requests') = Cardinality(requests) + Cardinality(S)
    BY <1>1, <2>2, <2>3
  <2> QED
    BY <1>2, <2>2, <2>4, <2>5, Zenon
<1>4. inFlight' \in [requests' -> 0..MaxVersion]
  BY <1>1, <1>2, BoundsAssumption DEF Send
<1>5. /\ loadingCount' = PointerStep * (Cardinality(requests) + Cardinality(S))
      /\ indicatorVisible' \in BOOLEAN
      /\ indicatorVisible' <=> Cardinality(requests) + Cardinality(S) # 0
  <2>1. /\ loadingCount = PointerStep * Cardinality(requests)
        /\ indicatorVisible <=> Cardinality(requests) # 0
    BY <1>3, Zenon DEF TypeInv, IndicatorMatchesLoad
  <2> QED BY <1>2, <1>3, <2>1, Started
<1>6. IndicatorMatchesLoad'
  BY <1>3, <1>5, Zenon DEF IndicatorMatchesLoad
<1>7. loadingCount' \in Nat
  BY <1>3, <1>5, PointerStepAssumption
<1> QED
  BY <1>1, <1>2, <1>3, <1>4, <1>5, <1>6, <1>7

\* A request ends, and the spinner is told.
LEMMA CompleteType ==
  ASSUME NEW r \in requests, TypeInv, Complete(r), networkOperationFinished
  PROVE  /\ requests' = requests \ {r}
         /\ requests' \subseteq Request /\ IsFiniteSet(requests')
         /\ inFlight' \in [requests' -> 0..MaxVersion]
         /\ loadingCount' \in Nat /\ indicatorVisible' \in BOOLEAN
         /\ IndicatorMatchesLoad'
<1>1. requests' = requests \ {r}
  BY DEF Complete, requests
<1>2. /\ IsFiniteSet(requests) /\ requests \subseteq Request
      /\ inFlight \in [requests -> 0..MaxVersion] /\ indicatorVisible \in BOOLEAN
  BY DEF TypeInv, TypeOK
<1>3. /\ IsFiniteSet(requests')
      /\ Cardinality(requests') = Cardinality(requests) - 1
      /\ Cardinality(requests) \in Nat \ {0}
      /\ requests' # {} <=> Cardinality(requests') # 0
  BY <1>1, <1>2, FS_RemoveElement, FS_EmptySet, FS_CardinalityType
<1>4. inFlight' \in [requests' -> 0..MaxVersion]
  BY <1>1, <1>2 DEF Complete
<1>5. /\ loadingCount' = PointerStep * (Cardinality(requests) - 1)
      /\ indicatorVisible' \in BOOLEAN
      /\ indicatorVisible' <=> Cardinality(requests) - 1 # 0
  <2>1. /\ loadingCount = PointerStep * Cardinality(requests)
        /\ indicatorVisible <=> Cardinality(requests) # 0
    <3>1. Cardinality(requests) # 0 /\ requests # {}
      BY <1>3
    <3> QED BY <3>1, Zenon DEF TypeInv, IndicatorMatchesLoad
  <2> QED BY <1>2, <1>3, <2>1, Finished
<1>6. IndicatorMatchesLoad'
  BY <1>3, <1>5, Zenon DEF IndicatorMatchesLoad
<1>7. loadingCount' \in Nat
  BY <1>3, <1>5, PointerStepAssumption
<1> QED
  BY <1>1, <1>2, <1>3, <1>4, <1>5, <1>6, <1>7

\* A round keeps the invariant.
LEMMA RoundTypeInv ==
  ASSUME TypeInv, getRateListForCurrencies
  PROVE  TypeInv'
<1> DEFINE S == RoundRequests(group + 1)
<1>1. /\ group \in Nat /\ group + 1 \in Group /\ group' = group + 1
      /\ group' \in 0..MaxGroup
  BY BoundsAssumption DEF TypeInv, TypeOK, getRateListForCurrencies, NewGroup, Group
<1>2. S \subseteq Request /\ IsFiniteSet(S) /\ Cardinality(S) = Cardinality(Currency)
  BY <1>1, RoundSize, BoundsAssumption DEF RoundRequests, Request
<1>3. S \cap requests = {}
  <2> SUFFICES ASSUME NEW r \in S, r \in requests PROVE FALSE
    OBVIOUS
  <2>1. r.group = group + 1 /\ r.group <= group
    BY RoundMembers DEF TypeInv, Issued
  <2> QED BY <1>1, <2>1
<1>4. Send(S) /\ networkOperationsStarted(Cardinality(S))
  BY <1>2 DEF getRateListForCurrencies, NewGroup
<1>5. /\ requests' = requests \cup S
      /\ requests' \subseteq Request /\ IsFiniteSet(requests')
      /\ inFlight' \in [requests' -> 0..MaxVersion]
      /\ loadingCount' \in Nat /\ indicatorVisible' \in BOOLEAN
      /\ IndicatorMatchesLoad'
  BY <1>2, <1>3, <1>4, SendType
<1>6. TypeOK'
  <2>1. /\ entered' \in Nat
        /\ armed' \in BOOLEAN
    BY CurrencyCount DEF getRateListForCurrencies, NewGroup
  <2>2. overtaken' \subseteq requests'
    BY <1>5 DEF TypeInv, TypeOK, getRateListForCurrencies, NewGroup, historyVars
  <2> QED
    BY <1>1, <1>5, <2>1, <2>2
       DEF TypeInv, TypeOK, getRateListForCurrencies, NewGroup, historyVars
<1>7. Issued'
  <2>1. group' # 0
    BY <1>1
  <2>2. ASSUME NEW r \in requests' PROVE r.group <= group' /\ r.press <= presses'
    <3>1. presses' = presses /\ presses \in Nat
      BY BoundsAssumption DEF TypeInv, TypeOK, getRateListForCurrencies, NewGroup
    <3>2. CASE r \in requests
      <4>1. r.group <= group /\ r.press <= presses /\ r.group \in Nat
        BY <3>2 DEF TypeInv, TypeOK, Issued, Request, Group
      <4> QED BY <4>1, <3>1, <1>1
    <3>3. CASE r \in S
      BY <3>1, <3>3, <1>1, RoundMembers
    <3> QED BY <1>5, <3>2, <3>3
  <2> QED BY <2>1, <2>2 DEF Issued
<1> QED
  BY <1>5, <1>6, <1>7 DEF TypeInv

\* A press keeps the invariant.
LEMMA PressTypeInv ==
  ASSUME TypeInv, NEW c \in Currency, getRateListForCurrency(c)
  PROVE  TypeInv'
<1> DEFINE r == [press |-> presses + 1, base |-> c, group |-> group]
           S == {r}
<1>1. /\ group \in Group /\ group' = group
      /\ presses \in Nat /\ presses' = presses + 1 /\ presses' \in 0..MaxPress
  BY BoundsAssumption DEF TypeInv, TypeOK, getRateListForCurrency, Enter, Group
<1>2. S \subseteq Request /\ IsFiniteSet(S) /\ Cardinality(S) = 1
  <2>1. presses + 1 \in 0..MaxPress
    BY <1>1
  <2>2. r \in Request
    BY <1>1, <2>1 DEF Request
  <2> QED BY <2>2, FS_Singleton
<1>3. S \cap requests = {}
  <2> SUFFICES ASSUME r \in requests PROVE FALSE
    OBVIOUS
  <2>1. r.press = presses + 1 /\ r.press <= presses
    BY DEF TypeInv, Issued
  <2> QED BY <1>1, <2>1
<1>4. Send(S) /\ networkOperationsStarted(Cardinality(S))
  BY <1>2 DEF getRateListForCurrency, Enter
<1>5. /\ requests' = requests \cup S
      /\ requests' \subseteq Request /\ IsFiniteSet(requests')
      /\ inFlight' \in [requests' -> 0..MaxVersion]
      /\ loadingCount' \in Nat /\ indicatorVisible' \in BOOLEAN
      /\ IndicatorMatchesLoad'
  <2> HIDE DEF S
  <2> QED BY <1>2, <1>3, <1>4, SendType
<1>6. TypeOK'
  <2>1. entered' \in Nat
    BY DEF TypeInv, TypeOK, getRateListForCurrency, Enter
  <2>2. overtaken' \subseteq requests'
    BY <1>5 DEF TypeInv, TypeOK, getRateListForCurrency, Enter, historyVars
  <2> QED
    BY <1>1, <1>5, <2>1, <2>2
       DEF TypeInv, TypeOK, getRateListForCurrency, Enter, historyVars
<1>7. Issued'
  <2>1. group' # 0
    BY <1>1 DEF getRateListForCurrency, Enter
  <2>2. ASSUME NEW q \in requests' PROVE q.group <= group' /\ q.press <= presses'
    <3>1. group \in Nat
      BY <1>1 DEF Group
    <3>2. CASE q \in requests
      <4>1. q.group <= group /\ q.press <= presses /\ q.press \in Nat
        BY <3>2 DEF TypeInv, TypeOK, Issued, Request
      <4> QED BY <4>1, <3>1, <1>1
    <3>3. CASE q = r
      BY <3>1, <3>3, <1>1
    <3> QED BY <1>5, <3>2, <3>3
  <2> QED BY <2>1, <2>2 DEF Issued
<1> QED
  BY <1>5, <1>6, <1>7 DEF TypeInv

\* A request that is over leaves the remaining ones as they were.
LEMMA CompleteIssued ==
  ASSUME TypeInv, requests' \subseteq requests, UNCHANGED <<group, presses>>
  PROVE  Issued'
  BY DEF TypeInv, Issued

\* The success block keeps the invariant.
LEMMA SuccessTypeInv ==
  ASSUME TypeInv, NEW r \in requests, SuccessBlock(r)
  PROVE  TypeInv'
<1>1. /\ requests' = requests \ {r}
      /\ requests' \subseteq Request /\ IsFiniteSet(requests')
      /\ inFlight' \in [requests' -> 0..MaxVersion]
      /\ loadingCount' \in Nat /\ indicatorVisible' \in BOOLEAN
      /\ IndicatorMatchesLoad'
  BY CompleteType DEF SuccessBlock, Store
<1>2. UNCHANGED <<group, presses, published, lost, logged>>
  BY DEF SuccessBlock, Store, Leave
<1>3. Issued'
  BY <1>1, <1>2, CompleteIssued
<1>4. r \in Request /\ r.base \in Currency /\ r.group \in Group
  BY DEF TypeInv, TypeOK, Request
<1>5. group \in Group /\ group \in Nat
  BY BoundsAssumption DEF TypeInv, TypeOK, Issued, Group
<1>6. TypeOK'
  <2>1. /\ entered' \in Nat
        /\ queued' \subseteq Group
    BY <1>5 DEF TypeInv, TypeOK, SuccessBlock, Store, Leave
  <2>2. crashed' \in BOOLEAN /\ armed' \in BOOLEAN
    BY Zenon DEF SuccessBlock, Store, Leave, TypeInv, TypeOK
  <2>3. rateList' \in [Currency -> 0..MaxVersion]
    BY <1>4 DEF TypeInv, TypeOK, SuccessBlock, Store
  <2>4. stray' \in [Group -> Nat]
    BY <1>5 DEF TypeInv, TypeOK, SuccessBlock, Store, Leave
  <2>5. received' \in [Group -> SUBSET Currency]
    BY <1>4 DEF TypeInv, TypeOK, SuccessBlock, Store
  <2>6. overtaken' \subseteq requests'
    BY <1>1 DEF SuccessBlock, Store
  <2> QED
    BY <1>1, <1>2, <2>1, <2>2, <2>3, <2>4, <2>5, <2>6 DEF TypeInv, TypeOK
<1> QED
  BY <1>1, <1>3, <1>6 DEF TypeInv

\* The failure block keeps the invariant.
LEMMA FailureTypeInv ==
  ASSUME TypeInv, NEW r \in requests, FailureBlock(r)
  PROVE  TypeInv'
<1>1. /\ requests' = requests \ {r}
      /\ requests' \subseteq Request /\ IsFiniteSet(requests')
      /\ inFlight' \in [requests' -> 0..MaxVersion]
      /\ loadingCount' \in Nat /\ indicatorVisible' \in BOOLEAN
      /\ IndicatorMatchesLoad'
  BY CompleteType DEF FailureBlock
<1>2. Issued'
  BY <1>1, CompleteIssued DEF FailureBlock, groupVars
<1>3. TypeOK'
  <2>1. lost' \in [Group -> Nat]
    BY DEF TypeInv, TypeOK, FailureBlock, Request
  <2>2. overtaken' \subseteq requests'
    BY <1>1 DEF TypeInv, TypeOK, FailureBlock
  <2> QED
    BY <1>1, <2>1, <2>2 DEF TypeInv, TypeOK, FailureBlock, groupVars
<1> QED
  BY <1>1, <1>2, <1>3 DEF TypeInv

\* The remaining steps start and end no request.
LEMMA OtherTypeInv ==
  ASSUME TypeInv,
         \/ \E r \in requests : Serve(r)
         \/ \E g \in queued : NotifyBlock(g)
         \/ Publish
         \/ UNCHANGED vars
  PROVE  TypeInv'
<1>1. ASSUME NEW r \in requests, Serve(r) PROVE TypeInv'
  <2>1. requests' = requests /\ inFlight' \in [requests' -> 0..MaxVersion]
    BY <1>1 DEF TypeInv, TypeOK, Serve, requests, Version
  <2> QED
    BY <1>1, <2>1 DEF TypeInv, TypeOK, Issued, IndicatorMatchesLoad, Serve,
                      indicatorVars, groupVars, historyVars
<1>2. ASSUME NEW g \in queued, NotifyBlock(g) PROVE TypeInv'
  <2>1. requests' = requests
    BY <1>2 DEF NotifyBlock, requests
  <2>2. logged' \subseteq [group : Group, missing : SUBSET Currency]
    BY <1>2 DEF TypeInv, TypeOK, NotifyBlock
  <2> QED
    BY <1>2, <2>1, <2>2
       DEF TypeInv, TypeOK, Issued, IndicatorMatchesLoad, NotifyBlock, indicatorVars
<1>3. CASE Publish
  <2>1. requests' = requests
    BY <1>3 DEF Publish, requests
  <2>2. published' \in Version
    BY <1>3, BoundsAssumption DEF TypeInv, TypeOK, Publish, Version
  <2> QED
    BY <1>3, <2>1, <2>2
       DEF TypeInv, TypeOK, Issued, IndicatorMatchesLoad, Publish,
           indicatorVars, groupVars, historyVars
<1>4. CASE UNCHANGED vars
  <2>1. requests' = requests
    BY <1>4 DEF vars, requests
  <2> QED
    BY <1>4, <2>1 DEF TypeInv, TypeOK, Issued, IndicatorMatchesLoad, vars,
                      indicatorVars, groupVars, historyVars
<1> QED
  BY <1>1, <1>2, <1>3, <1>4

\* Every state is well-typed, holds no request that was not issued, and shows
\* the spinner exactly while requests are in flight
\* (NetworkActivityIndicatorManager.m:13-30, RateListService.m:32-83).
THEOREM TypeCorrect == Spec => []TypeInv
<1>1. TypeInv /\ [Next]_vars => TypeInv'
  BY RoundTypeInv, PressTypeInv, SuccessTypeInv, FailureTypeInv, OtherTypeInv DEF Next
<1> QED
  BY InitTypeInv, <1>1, PTL DEF Spec

\* Every variable keeps its type (RateListService.m, whole).
THEOREM TypeOKCorrect == Spec => []TypeOK
<1>1. TypeInv => TypeOK
  BY DEF TypeInv
<1> QED
  BY TypeCorrect, <1>1, PTL

\* The spinner turns exactly while requests are in flight, for every order of
\* rounds, presses, answers and failures.
THEOREM IndicatorCorrect == Spec => []IndicatorMatchesLoad
<1>1. TypeInv => IndicatorMatchesLoad
  BY DEF TypeInv
<1> QED
  BY TypeCorrect, <1>1, PTL

-----------------------------------------------------------------------------
(***************************************************************************)
(* The count of the dispatch group.  A round starts on a group that nobody *)
(* has lost or strayed on; from then on GroupBalance says what the count   *)
(* really counts, and the two facts about aborting and reporting follow.   *)
(***************************************************************************)
Untouched == \A g \in Group : g > group =>
  lost[g] = 0 /\ stray[g] = 0 /\ received[g] = {}

CountInv == Untouched /\ GroupBalance /\ CrashNeedsStraggler

\* The requests of the current group form a finite set.
LEMMA OwnFinite ==
  ASSUME TypeInv
  PROVE  IsFiniteSet(OwnRequests) /\ Cardinality(OwnRequests) \in Nat
<1>1. OwnRequests \in SUBSET requests /\ IsFiniteSet(requests)
  BY DEF OwnRequests, TypeInv, TypeOK
<1> QED
  BY <1>1, FS_Subset, FS_CardinalityType

\* The end of a request takes it out of its own group and of no other.
LEMMA OwnComplete ==
  ASSUME TypeInv, NEW r \in requests, requests' = requests \ {r}, group' = group
  PROVE  IF r.group = group
         THEN /\ Cardinality(OwnRequests) >= 1
              /\ Cardinality(OwnRequests') = Cardinality(OwnRequests) - 1
         ELSE OwnRequests' = OwnRequests
<1>1. CASE r.group = group
  <2>1. r \in OwnRequests /\ OwnRequests' = OwnRequests \ {r}
    BY <1>1 DEF OwnRequests
  <2>2. Cardinality(OwnRequests') = Cardinality(OwnRequests) - 1
    BY <2>1, OwnFinite, FS_RemoveElement
  <2>3. Cardinality(OwnRequests) # 0
    BY <2>1, OwnFinite, FS_EmptySet
  <2> QED BY <1>1, <2>2, <2>3, OwnFinite
<1>2. CASE r.group # group
  BY <1>2 DEF OwnRequests
<1> QED
  BY <1>1, <1>2

\* A round counts one entry per currency on an untouched group.
LEMMA RoundCount ==
  ASSUME TypeInv, CountInv, getRateListForCurrencies
  PROVE  CountInv'
<1>1. /\ group' = group + 1 /\ group \in Nat /\ group' \in Group
      /\ UNCHANGED <<lost, stray, received, crashed>> /\ ~crashed
      /\ entered' = Cardinality(Currency)
      /\ requests' = requests \cup RoundRequests(group')
  BY BoundsAssumption
     DEF TypeInv, TypeOK, getRateListForCurrencies, NewGroup, historyVars, Group,
         Send, requests
<1>2. lost[group'] = 0 /\ stray[group'] = 0
  BY <1>1 DEF CountInv, Untouched
<1>3. OwnRequests' = RoundRequests(group')
  <2>1. \A r \in requests : r.group # group'
    BY <1>1 DEF TypeInv, TypeOK, Issued, Request, Group
  <2> QED BY <1>1, <2>1, RoundMembers DEF OwnRequests
<1>4. GroupBalance'
  BY <1>1, <1>2, <1>3, RoundSize, CurrencyCount DEF GroupBalance
<1>5. Untouched'
  BY <1>1 DEF CountInv, Untouched, Group
<1>6. CrashNeedsStraggler'
  BY <1>1 DEF CrashNeedsStraggler
<1> QED
  BY <1>4, <1>5, <1>6 DEF CountInv

\* A press adds one entry and one request.
LEMMA PressCount ==
  ASSUME TypeInv, CountInv, NEW c \in Currency, getRateListForCurrency(c)
  PROVE  CountInv'
<1> DEFINE r == [press |-> presses + 1, base |-> c, group |-> group]
<1>1. /\ group' = group /\ entered' = entered + 1
      /\ UNCHANGED <<lost, stray, received, crashed>> /\ ~crashed
      /\ requests' = requests \cup {r}
  BY DEF getRateListForCurrency, Enter, historyVars, Send, requests
<1>2. r \notin requests
  BY BoundsAssumption DEF TypeInv, TypeOK, Issued
<1>3. OwnRequests' = OwnRequests \cup {r} /\ r \notin OwnRequests
  BY <1>1, <1>2 DEF OwnRequests
<1>4. Cardinality(OwnRequests') = Cardinality(OwnRequests) + 1
  BY <1>3, OwnFinite, FS_AddElement
<1>5. group \in Group /\ lost[group] \in Nat /\ stray[group] \in Nat /\ entered \in Nat
  BY DEF TypeInv, TypeOK, getRateListForCurrency, Enter, Group
<1>6. GroupBalance'
  BY <1>1, <1>4, <1>5, OwnFinite DEF CountInv, GroupBalance, getRateListForCurrency, Enter
<1> QED
  BY <1>1, <1>6 DEF CountInv, Untouched, CrashNeedsStraggler

\* A success block balances the entry of its own group, or strays.
LEMMA SuccessCount ==
  ASSUME TypeInv, CountInv, NEW r \in requests, SuccessBlock(r)
  PROVE  CountInv'
<1>1. /\ requests' = requests \ {r} /\ ~crashed
      /\ UNCHANGED <<group, lost>>
  BY DEF SuccessBlock, Store, Leave, Complete, requests
<1>2. r \in Request /\ group \in Group /\ group # 0 /\ entered \in Nat
  BY DEF TypeInv, TypeOK, Issued, Group
<1>3. entered + stray[group] = Cardinality(OwnRequests) + lost[group]
  BY <1>1, <1>2 DEF CountInv, GroupBalance
<1>4. lost[group] \in Nat /\ stray[group] \in Nat
  BY <1>2 DEF TypeInv, TypeOK
<1>5. stray'[group] = IF r.group = group THEN stray[group] ELSE stray[group] + 1
  BY <1>2 DEF SuccessBlock, Store, Leave, TypeInv, TypeOK
<1>6. CrashNeedsStraggler'
  <2> SUFFICES ASSUME crashed' PROVE stray'[group] > 0
    BY <1>1 DEF CrashNeedsStraggler
  <2>1. entered = 0
    BY Zenon DEF SuccessBlock, Store, Leave
  <2> QED
    BY <1>1, <1>3, <1>4, <1>5, <2>1, OwnComplete, OwnFinite
<1>7. GroupBalance'
  <2> SUFFICES ASSUME ~crashed'
               PROVE  (entered + stray[group] = Cardinality(OwnRequests) + lost[group])'
    BY DEF GroupBalance
  <2>1. entered # 0
    BY Zenon DEF SuccessBlock, Store, Leave
  <2>2. entered' = entered - 1
    BY <2>1 DEF SuccessBlock, Store, Leave
  <2> QED
    BY <1>1, <1>2, <1>3, <1>4, <1>5, <2>1, <2>2, OwnComplete, OwnFinite
<1>8. Untouched'
  <2>1. \A g \in Group : g > group => stray'[g] = stray[g] /\ received'[g] = received[g]
    BY <1>2 DEF SuccessBlock, Store, Leave, TypeInv, TypeOK, Group
  <2> QED BY <1>1, <2>1 DEF CountInv, Untouched
<1> QED
  BY <1>6, <1>7, <1>8 DEF CountInv

\* A failure block moves its request from in flight to lost.
LEMMA FailureCount ==
  ASSUME TypeInv, CountInv, NEW r \in requests, FailureBlock(r)
  PROVE  CountInv'
<1>1. /\ requests' = requests \ {r} /\ ~crashed
      /\ UNCHANGED <<group, entered, stray, received, crashed>>
  BY DEF FailureBlock, Complete, requests, groupVars
<1>2. /\ r \in Request /\ r.group \in Group /\ r.group <= group
      /\ group \in Group /\ group # 0 /\ entered \in Nat
  BY DEF TypeInv, TypeOK, Issued, Request, Group
<1>3. entered + stray[group] = Cardinality(OwnRequests) + lost[group]
  BY <1>1, <1>2 DEF CountInv, GroupBalance
<1>4. lost \in [Group -> Nat] /\ stray[group] \in Nat
  BY <1>2 DEF TypeInv, TypeOK
<1>5. lost' = [lost EXCEPT ![r.group] = @ + 1]
  BY DEF FailureBlock
<1>6. GroupBalance'
  BY <1>1, <1>2, <1>3, <1>4, <1>5, OwnComplete, OwnFinite DEF GroupBalance
<1>7. Untouched'
  BY <1>1, <1>2, <1>4, <1>5 DEF CountInv, Untouched, Group
<1> QED
  BY <1>1, <1>6, <1>7 DEF CountInv, CrashNeedsStraggler

\* The other steps touch neither the group nor the requests.
LEMMA OtherCount ==
  ASSUME CountInv,
         \/ \E r \in requests : Serve(r)
         \/ \E g \in queued : NotifyBlock(g)
         \/ Publish
         \/ UNCHANGED vars
  PROVE  CountInv'
<1>1. /\ requests' = requests
      /\ UNCHANGED <<group, entered, crashed, lost, stray, received>>
  BY DEF Serve, NotifyBlock, Publish, vars, groupVars, historyVars, requests
<1> QED
  BY <1>1 DEF CountInv, Untouched, GroupBalance, CrashNeedsStraggler, OwnRequests

\* The group's count is what GroupBalance says in every reachable state.
THEOREM CountCorrect == Spec => []CountInv
<1>1. Init => CountInv
  BY DEF Init, CountInv, Untouched, GroupBalance, CrashNeedsStraggler
<1>2. TypeInv /\ CountInv /\ [Next]_vars => CountInv'
  BY RoundCount, PressCount, SuccessCount, FailureCount, OtherCount DEF Next
<1> QED
  BY TypeCorrect, <1>1, <1>2, PTL DEF Spec

\* The current group's count is its own requests in flight, plus those that
\* failed, minus the leaves of other groups (RateListService.m:52, 74, 76-82).
THEOREM BalanceCorrect == Spec => []GroupBalance
<1>1. CountInv => GroupBalance
  BY DEF CountInv
<1> QED
  BY CountCorrect, <1>1, PTL

\* The program aborts on an unbalanced leave only after a leave by a request of
\* an earlier round (RateListService.m:34, 74).
THEOREM CrashCorrect == Spec => []CrashNeedsStraggler
<1>1. CountInv => CrashNeedsStraggler
  BY DEF CountInv
<1> QED
  BY CountCorrect, <1>1, PTL

-----------------------------------------------------------------------------
(***************************************************************************)
(* What the report means.  While a round is current each of its currencies *)
(* has been answered, is still asked for, or some request was lost.  When  *)
(* the count reaches zero without a stray leave, the balance leaves only   *)
(* the first.                                                              *)
(***************************************************************************)
RoundCovered ==
  group # 0 => \A c \in Currency :
    \/ c \in received[group]
    \/ [press |-> 0, base |-> c, group |-> group] \in requests
    \/ lost[group] > 0

QueuedCovered == \A g \in queued : received[g] = Currency \/ stray[g] > 0

ReportInv == RoundCovered /\ QueuedCovered /\ ReportedUnlessStrayed

\* Rounds and presses: the new round asks for every currency.
LEMMA SendReport ==
  ASSUME TypeInv, ReportInv,
         getRateListForCurrencies \/ \E c \in Currency : getRateListForCurrency(c)
  PROVE  ReportInv'
<1>1. UNCHANGED <<queued, lost, stray, received, logged>>
  BY DEF getRateListForCurrencies, NewGroup, getRateListForCurrency, Enter, historyVars
<1>2. RoundCovered'
  <2>1. CASE getRateListForCurrencies
    <3>1. RoundRequests(group') \subseteq requests'
      BY <2>1 DEF getRateListForCurrencies, NewGroup, Send, requests
    <3> QED BY <3>1 DEF RoundCovered, RoundRequests
  <2>2. ASSUME NEW c \in Currency, getRateListForCurrency(c) PROVE RoundCovered'
    <3>1. requests \subseteq requests' /\ group' = group
      BY <2>2 DEF getRateListForCurrency, Enter, Send, requests
    <3> QED BY <1>1, <3>1 DEF ReportInv, RoundCovered
  <2> QED BY <2>1, <2>2
<1>3. QueuedCovered' /\ ReportedUnlessStrayed'
  BY <1>1 DEF ReportInv, QueuedCovered, ReportedUnlessStrayed
<1> QED
  BY <1>2, <1>3 DEF ReportInv

\* A success block: the last leave of a group nobody strayed on finds every
\* currency answered.
LEMMA SuccessReport ==
  ASSUME TypeInv, CountInv, ReportInv, NEW r \in requests, SuccessBlock(r)
  PROVE  ReportInv'
<1>1. /\ requests' = requests \ {r} /\ ~crashed
      /\ UNCHANGED <<group, lost, logged>>
  BY DEF SuccessBlock, Store, Leave, Complete, requests
<1>2. r \in Request /\ group \in Group /\ group # 0 /\ entered \in Nat
  BY DEF TypeInv, TypeOK, Issued, Group
<1>3. received'[group] = received[group] \cup {r.base}
  BY <1>2 DEF SuccessBlock, Store, TypeInv, TypeOK, Group
<1>4. \A g \in Group : received[g] \subseteq received'[g] /\ received'[g] \subseteq Currency
  BY <1>2 DEF SuccessBlock, Store, TypeInv, TypeOK, Request
<1>5. \A g \in Group : stray[g] > 0 => stray'[g] > 0
  BY <1>2 DEF SuccessBlock, Store, Leave, TypeInv, TypeOK
<1>6. RoundCovered'
  <2> SUFFICES ASSUME NEW c \in Currency
               PROVE  \/ c \in received'[group]
                      \/ [press |-> 0, base |-> c, group |-> group] \in requests'
                      \/ lost[group] > 0
    BY <1>1 DEF RoundCovered
  <2>1. CASE r = [press |-> 0, base |-> c, group |-> group]
    BY <1>3, <2>1
  <2>2. CASE r # [press |-> 0, base |-> c, group |-> group]
    BY <1>1, <1>2, <1>3, <2>2 DEF ReportInv, RoundCovered
  <2> QED BY <2>1, <2>2
<1>7. QueuedCovered'
  <2> SUFFICES ASSUME NEW g \in queued', ~(stray'[g] > 0)
               PROVE  received'[g] = Currency
    BY DEF QueuedCovered
  <2>1. CASE g \in queued
    <3>1. g \in Group /\ received[g] = Currency
      BY <1>5, <2>1 DEF ReportInv, QueuedCovered, TypeInv, TypeOK
    <3> QED BY <1>4, <3>1
  <2>2. CASE g \notin queued
    <3>1. g = group /\ entered = 1
      BY <2>2 DEF SuccessBlock, Store, Leave
    <3>2. entered' = 0 /\ ~crashed'
      <4>1. entered # 0 /\ entered - 1 = 0
        BY <3>1
      <4> QED BY <4>1, Zenon DEF SuccessBlock, Store, Leave
    <3>3. 0 + stray'[group] = Cardinality(OwnRequests') + lost[group]
      BY <1>1, <1>2, <3>2, SuccessCount DEF CountInv, GroupBalance
    <3>4. stray'[group] = 0
      BY <1>2, <3>1, SuccessTypeInv DEF TypeInv, TypeOK
    <3>5. Cardinality(OwnRequests') \in Nat /\ IsFiniteSet(OwnRequests')
      <4>1. OwnRequests' \in SUBSET OwnRequests
        BY <1>1 DEF OwnRequests
      <4> QED BY <4>1, OwnFinite, FS_Subset, FS_CardinalityType
    <3>6. lost[group] = 0 /\ Cardinality(OwnRequests') = 0
      BY <1>2, <3>3, <3>4, <3>5 DEF TypeInv, TypeOK
    <3>7. OwnRequests' = {}
      BY <3>5, <3>6, FS_EmptySet
    <3>8. ASSUME NEW c \in Currency PROVE c \in received'[group]
      <4>1. [press |-> 0, base |-> c, group |-> group] \notin requests'
        BY <1>1, <3>7 DEF OwnRequests
      <4> QED BY <1>1, <1>2, <1>6, <3>6, <4>1 DEF RoundCovered
    <3> QED BY <1>2, <1>4, <3>1, <3>8
  <2> QED BY <2>1, <2>2
<1>8. ReportedUnlessStrayed'
  BY <1>1, <1>5 DEF ReportInv, ReportedUnlessStrayed, TypeInv, TypeOK
<1> QED
  BY <1>6, <1>7, <1>8 DEF ReportInv

\* A failure block: what is no longer asked for is lost.
LEMMA FailureReport ==
  ASSUME TypeInv, ReportInv, NEW r \in requests, FailureBlock(r)
  PROVE  ReportInv'
<1>1. /\ requests' = requests \ {r}
      /\ UNCHANGED <<group, queued, stray, received, logged>>
      /\ lost' = [lost EXCEPT ![r.group] = @ + 1]
  BY DEF FailureBlock, Complete, requests, groupVars
<1>2. r \in Request /\ group \in Group /\ lost \in [Group -> Nat]
  BY DEF TypeInv, TypeOK, Issued, Group, Request
<1>3. RoundCovered'
  <2>1. CASE r.group = group
    BY <1>1, <1>2, <2>1 DEF RoundCovered
  <2>2. CASE r.group # group
    BY <1>1, <1>2, <2>2 DEF ReportInv, RoundCovered
  <2> QED BY <2>1, <2>2
<1> QED
  BY <1>1, <1>3 DEF ReportInv, QueuedCovered, ReportedUnlessStrayed

\* The notify block logs what the covered queue allows.
LEMMA NotifyReport ==
  ASSUME TypeInv, ReportInv, NEW g \in queued, NotifyBlock(g)
  PROVE  ReportInv'
<1>1. requests' = requests
  BY DEF NotifyBlock, requests
<1>2. RoundCovered' /\ QueuedCovered'
  BY <1>1 DEF ReportInv, RoundCovered, QueuedCovered, NotifyBlock
<1>3. ReportedUnlessStrayed'
  BY DEF ReportInv, QueuedCovered, ReportedUnlessStrayed, NotifyBlock
<1> QED
  BY <1>2, <1>3 DEF ReportInv

\* "All rate lists received" is only logged while a list of that round is
\* missing if a leave of another round was booked on it
\* (RateListService.m:40-45, ViewController.m:79-81).
THEOREM ReportCorrect == Spec => []ReportedUnlessStrayed
<1>1. Init => ReportInv
  BY DEF Init, ReportInv, RoundCovered, QueuedCovered, ReportedUnlessStrayed
<1>2. TypeInv /\ CountInv /\ ReportInv /\ [Next]_vars => ReportInv'
  <2> SUFFICES ASSUME TypeInv, CountInv, ReportInv, [Next]_vars PROVE ReportInv'
    OBVIOUS
  <2>1. ASSUME (\E r \in requests : Serve(r)) \/ Publish \/ UNCHANGED vars
        PROVE  ReportInv'
    <3>1. requests' = requests /\ UNCHANGED <<group, queued, lost, stray, received, logged>>
      BY <2>1 DEF Serve, Publish, vars, groupVars, historyVars, requests
    <3> QED
      BY <3>1 DEF ReportInv, RoundCovered, QueuedCovered, ReportedUnlessStrayed
  <2> QED
    BY <2>1, SendReport, SuccessReport, FailureReport, NotifyReport DEF Next
<1>3. ReportInv => ReportedUnlessStrayed
  BY DEF ReportInv
<1> QED
  BY TypeCorrect, CountCorrect, <1>1, <1>2, <1>3, PTL DEF Spec

-----------------------------------------------------------------------------
(***************************************************************************)
(* Answers out of order.  An answer in flight that is older than the list  *)
(* stored for its currency has been overtaken by the one that was stored.  *)
(***************************************************************************)
VersionInv ==
  /\ \A r \in requests : inFlight[r] <= published
  /\ \A c \in Currency : rateList[c] <= published
  /\ \A r \in requests :
       inFlight[r] # 0 /\ inFlight[r] < rateList[r.base] => r \in overtaken

\* The version facts every step needs.
LEMMA VersionNat ==
  ASSUME TypeInv
  PROVE  /\ published \in Nat /\ published # 0
         /\ \A r \in requests : inFlight[r] \in Nat /\ r.base \in Currency
         /\ \A c \in Currency : rateList[c] \in Nat
  BY BoundsAssumption DEF TypeInv, TypeOK, Version, Request

\* Storing a list overtakes every other request for the same currency.
LEMMA SuccessVersion ==
  ASSUME TypeInv, VersionInv, NEW r \in requests, SuccessBlock(r)
  PROVE  VersionInv'
<1>1. /\ requests' = requests \ {r}
      /\ \A q \in requests' : inFlight'[q] = inFlight[q]
      /\ published' = published
  BY DEF SuccessBlock, Store, Complete, requests
<1>2. \A c \in Currency : rateList'[c] = IF c = r.base THEN inFlight[r] ELSE rateList[c]
  BY DEF SuccessBlock, Store, TypeInv, TypeOK
<1>3. \A q \in requests' : q \in overtaken' <=> q \in overtaken \/ q.base = r.base
  BY <1>1 DEF SuccessBlock, Store
<1> QED
  BY <1>1, <1>2, <1>3, VersionNat DEF VersionInv

\* Requests that go out have no answer yet.
LEMMA SendVersion ==
  ASSUME TypeInv, VersionInv, NEW S, Send(S), S \subseteq requests',
         UNCHANGED <<rateList, published, overtaken>>
  PROVE  VersionInv'
<1>1. requests' = requests \cup S
  BY DEF Send, requests
<1>2. \A r \in requests' : inFlight'[r] = IF r \in requests THEN inFlight[r] ELSE 0
  BY <1>1 DEF Send
<1>3. \A r \in requests' : inFlight'[r] <= published
  BY <1>2, VersionNat DEF VersionInv
<1> QED
  BY <1>1, <1>2, <1>3 DEF VersionInv

\* A stored list is replaced by an older one only when its request was
\* overtaken by another request for the same currency
\* (RateListService.m:57-68; nothing orders the answers of two requests).
THEOREM RatesCorrect == Spec => RatesRegressOnlyWhenOvertaken
<1>1. Init => VersionInv
  BY DEF Init, VersionInv, requests
<1>2. TypeInv /\ VersionInv /\ [Next]_vars => VersionInv'
  <2> SUFFICES ASSUME TypeInv, VersionInv, [Next]_vars PROVE VersionInv'
    OBVIOUS
  <2>1. CASE getRateListForCurrencies
    <3> DEFINE S == RoundRequests(group + 1)
    <3>1. Send(S) /\ S \subseteq requests' /\ UNCHANGED <<rateList, published, overtaken>>
      BY <2>1 DEF getRateListForCurrencies, NewGroup, historyVars, Send, requests
    <3> QED BY <3>1, SendVersion
  <2>2. ASSUME NEW c \in Currency, getRateListForCurrency(c) PROVE VersionInv'
    <3> DEFINE S == {[press |-> presses + 1, base |-> c, group |-> group]}
    <3>1. Send(S) /\ S \subseteq requests' /\ UNCHANGED <<rateList, published, overtaken>>
      BY <2>2 DEF getRateListForCurrency, Enter, historyVars, Send, requests
    <3> QED BY <3>1, SendVersion
  <2>3. ASSUME NEW r \in requests, FailureBlock(r) PROVE VersionInv'
    <3>1. /\ requests' = requests \ {r}
          /\ \A q \in requests' : inFlight'[q] = inFlight[q]
          /\ UNCHANGED <<rateList, published>> /\ overtaken' = overtaken \ {r}
      BY <2>3 DEF FailureBlock, Complete, requests
    <3> QED BY <3>1 DEF VersionInv
  <2>4. ASSUME NEW r \in requests, Serve(r) PROVE VersionInv'
    <3>1. /\ requests' = requests
          /\ \A q \in requests : inFlight'[q] = IF q = r THEN published ELSE inFlight[q]
          /\ UNCHANGED <<rateList, published, overtaken>>
      BY <2>4 DEF Serve, historyVars, requests, TypeInv, TypeOK
    <3> QED BY <3>1, VersionNat DEF VersionInv
  <2>5. CASE Publish
    <3>1. requests' = requests /\ UNCHANGED <<inFlight, rateList, overtaken>>
      BY <2>5 DEF Publish, historyVars, requests
    <3>2. published' = published + 1
      BY <2>5 DEF Publish
    <3> QED BY <3>1, <3>2, VersionNat DEF VersionInv
  <2>6. ASSUME (\E g \in queued : NotifyBlock(g)) \/ UNCHANGED vars PROVE VersionInv'
    <3>1. requests' = requests /\ UNCHANGED <<inFlight, rateList, published, overtaken>>
      BY <2>6 DEF NotifyBlock, vars, historyVars, requests
    <3> QED BY <3>1 DEF VersionInv
  <2> QED
    BY <2>1, <2>2, <2>3, <2>4, <2>5, <2>6, SuccessVersion DEF Next
<1>3. TypeInv /\ VersionInv /\ [Next]_vars =>
        [\A c \in Currency : rateList'[c] < rateList[c] =>
           \E r \in overtaken : r.base = c /\ r \notin requests']_vars
  <2> SUFFICES ASSUME TypeInv, VersionInv, Next,
                      NEW c \in Currency, rateList'[c] < rateList[c]
               PROVE  \E r \in overtaken : r.base = c /\ r \notin requests'
    OBVIOUS
  <2>1. rateList' # rateList
    BY VersionNat
  <2>2. PICK r \in requests : SuccessBlock(r)
    BY <2>1
       DEF Next, getRateListForCurrencies, NewGroup, getRateListForCurrency, Enter,
           Serve, FailureBlock, NotifyBlock, Publish
  <2>3. /\ requests' = requests \ {r} /\ inFlight[r] # 0
        /\ \A d \in Currency : rateList'[d] = IF d = r.base THEN inFlight[r] ELSE rateList[d]
    BY <2>2 DEF SuccessBlock, Store, Complete, requests, TypeInv, TypeOK
  <2>4. c = r.base /\ inFlight[r] < rateList[r.base]
    BY <2>3, VersionNat
  <2> QED
    BY <2>3, <2>4 DEF VersionInv
<1> QED
  BY TypeCorrect, <1>1, <1>2, <1>3, PTL DEF Spec, RatesRegressOnlyWhenOvertaken

=============================================================================
