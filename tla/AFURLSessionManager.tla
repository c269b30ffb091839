------------------------- MODULE AFURLSessionManager --------------------------
(***************************************************************************)
(* The data tasks of AFNetworking's session manager, as RateListService    *)
(* makes them: a task is made and given a delegate on the main thread; the *)
(* session tells what arrives on the manager's operation queue, one at a   *)
(* time; a body is serialized on a concurrent queue and the completion     *)
(* handler runs on the main queue. The dictionary of the delegates is used *)
(* under a lock, by the main thread and the operation queue.               *)
(*                                                                         *)
(* NSURLSession is external: it tells the pieces of a body in order, and   *)
(* that the task is over after all of them or, with an error or a time-out,*)
(* at any time.                                                            *)
(***************************************************************************)
EXTENDS Integers, Sequences, FiniteSets

CONSTANTS
  Task,
  MaxPieces,            (* bound: the pieces of a body                     *)
  ListsLater            (* the session may list, to the handler of init,   *)
                        (* tasks that are made after it was asked          *)

ASSUME SessionAssumption == MaxPieces \in Nat \ {0} /\ ListsLater \in BOOLEAN

VARIABLES
  state,                (* of each task: not made, made, resumed or over   *)
  pieces,               (* the pieces that arrived                         *)
  delegates,            (* mutableTaskDelegatesKeyedByTaskIdentifier       *)
  operationQueue,       (* what the session has to tell                    *)
  processing,           (* the bodies on the concurrent queue              *)
  mainQueue,            (* the completions on the main queue               *)
  listing,              (* the session was asked for its tasks             *)
  answered              (* what the completion handlers were called with   *)

sessionVars == <<state, pieces, listing>>
queueVars == <<operationQueue, processing, mainQueue>>
vars == <<sessionVars, delegates, queueVars, answered>>

\* No task is left over from before: init's handler is still to come.
Init ==
  /\ state = [t \in Task |-> "none"] /\ pieces = [t \in Task |-> 0]
  /\ delegates = [t \in {} |-> <<>>]
  /\ operationQueue = <<>> /\ processing = {} /\ mainQueue = <<>>
  /\ listing = TRUE
  /\ answered = [t \in {} |-> <<>>]

Failure == <<>>

With(f, t, x) == [u \in DOMAIN f \cup {t} |-> IF u = t THEN x ELSE f[u]]
Without(f, S) == [u \in DOMAIN f \ S |-> f[u]]

\* The main thread is not between making a task and resuming it.
MainIdle == \A t \in Task : state[t] # "made"

-----------------------------------------------------------------------------
(* The main thread                                                         *)

dataTaskWithHTTPMethod(t) ==
  /\ MainIdle /\ state[t] = "none"
  /\ state' = [state EXCEPT ![t] = "made"]
  /\ UNCHANGED <<pieces, listing, delegates, queueVars, answered>>

\* The delegate replaces the one the task may have; the task is resumed.
addDelegateForDataTask(t) ==
  /\ state[t] = "made"
  /\ state' = [state EXCEPT ![t] = "resumed"]
  /\ delegates' = With(delegates, t, [mutableData |-> <<>>, completionHandler |-> TRUE])
  /\ UNCHANGED <<pieces, listing, queueVars, answered>>

\* The block of the completion runs, and calls the handler if there is one.
completionHandler ==
  /\ MainIdle /\ mainQueue # <<>>
  /\ LET c == Head(mainQueue) IN
     answered' = IF c.completionHandler
                 THEN With(answered, c.task,
                           Append(IF c.task \in DOMAIN answered THEN answered[c.task] ELSE <<>>,
                                  c.answer))
                 ELSE answered
  /\ mainQueue' = Tail(mainQueue)
  /\ UNCHANGED <<sessionVars, delegates, operationQueue, processing>>

-----------------------------------------------------------------------------
(* The session                                                             *)

Tell(event) == operationQueue' = Append(operationQueue, event)

dataArrives(t) ==
  /\ state[t] = "resumed" /\ pieces[t] < MaxPieces
  /\ pieces' = [pieces EXCEPT ![t] = @ + 1]
  /\ Tell([kind |-> "data", task |-> t, data |-> pieces'[t]])
  /\ UNCHANGED <<state, listing, delegates, processing, mainQueue, answered>>

taskEnds(t) ==
  /\ state[t] = "resumed"
  /\ state' = [state EXCEPT ![t] = "over"]
  /\ \E error \in BOOLEAN :
       /\ ~error => pieces[t] = MaxPieces
       /\ Tell([kind |-> "complete", task |-> t, error |-> error])
  /\ UNCHANGED <<pieces, listing, delegates, processing, mainQueue, answered>>

\* The tasks init asked for are listed.
listsTasks ==
  /\ listing
  /\ listing' = FALSE
  /\ Tell([kind |-> "tasks", tasks |->
       IF ListsLater THEN {t \in Task : state[t] \in {"made", "resumed"}} ELSE {}])
  /\ UNCHANGED <<state, pieces, delegates, processing, mainQueue, answered>>

-----------------------------------------------------------------------------
(* The operation queue                                                     *)

Told(kind) == operationQueue # <<>> /\ Head(operationQueue).kind = kind

\* init's handler: the tasks listed are given delegates that call nobody.
addDelegates ==
  /\ Told("tasks")
  /\ LET listed == Head(operationQueue).tasks IN
     delegates' = [t \in DOMAIN delegates \cup listed |->
       IF t \in listed THEN [mutableData |-> <<>>, completionHandler |-> FALSE]
       ELSE delegates[t]]
  /\ operationQueue' = Tail(operationQueue)
  /\ UNCHANGED <<sessionVars, processing, mainQueue, answered>>

\* Mutant: the data received last is kept.
ReceiveDataAnew ==
  /\ Told("data")
  /\ LET e == Head(operationQueue) IN
     delegates' = IF e.task \in DOMAIN delegates
                  THEN [delegates EXCEPT ![e.task].mutableData = <<e.data>>]
                  ELSE delegates
  /\ operationQueue' = Tail(operationQueue)
  /\ UNCHANGED <<sessionVars, processing, mainQueue, answered>>

didReceiveData ==
  /\ Told("data")
  /\ LET e == Head(operationQueue) IN
     delegates' = IF e.task \in DOMAIN delegates
                  THEN [delegates EXCEPT ![e.task].mutableData = Append(@, e.data)]
                  ELSE delegates
  /\ operationQueue' = Tail(operationQueue)
  /\ UNCHANGED <<sessionVars, processing, mainQueue, answered>>

\* What is to be completed, with the data of the delegate of now.
Completion(t, answer) ==
  [task |-> t, answer |-> answer, completionHandler |-> delegates[t].completionHandler]

\* Mutant: a body is serialized in any case.
CompleteFallingThrough ==
  /\ Told("complete")
  /\ LET e == Head(operationQueue) IN
     /\ mainQueue' = IF e.task \in DOMAIN delegates /\ e.error
                     THEN Append(mainQueue, Completion(e.task, Failure)) ELSE mainQueue
     /\ processing' = IF e.task \in DOMAIN delegates
                      THEN processing \cup {Completion(e.task, delegates[e.task].mutableData)}
                      ELSE processing
     /\ operationQueue' = <<[kind |-> "remove", task |-> e.task]>> \o Tail(operationQueue)
  /\ UNCHANGED <<sessionVars, delegates, answered>>

\* Mutant: the delegate is looked up when it was removed.
CompleteRemoved ==
  /\ Told("complete")
  /\ operationQueue' = <<[kind |-> "remove", task |-> Head(operationQueue).task]>>
                         \o Tail(operationQueue)
  /\ UNCHANGED <<sessionVars, delegates, processing, mainQueue, answered>>

\* A failure is completed at once, a body is serialized first.
didCompleteWithError ==
  /\ Told("complete")
  /\ LET e == Head(operationQueue)
         delegated == e.task \in DOMAIN delegates
     IN
     /\ mainQueue' = IF delegated /\ e.error
                     THEN Append(mainQueue, Completion(e.task, Failure)) ELSE mainQueue
     /\ processing' = IF delegated /\ ~e.error
                      THEN processing \cup {Completion(e.task, delegates[e.task].mutableData)}
                      ELSE processing
     /\ operationQueue' =
          IF delegated THEN <<[kind |-> "remove", task |-> e.task]>> \o Tail(operationQueue)
          ELSE Tail(operationQueue)
  /\ UNCHANGED <<sessionVars, delegates, answered>>

\* Mutant: the delegate of a task that failed stays.
RemoveAnswered ==
  /\ Told("remove")
  /\ LET t == Head(operationQueue).task IN
     delegates' = IF pieces[t] = MaxPieces THEN Without(delegates, {t}) ELSE delegates
  /\ operationQueue' = Tail(operationQueue)
  /\ UNCHANGED <<sessionVars, processing, mainQueue, answered>>

\* The same method goes on, with the lock taken again.
removeDelegateForTask ==
  /\ Told("remove")
  /\ delegates' = Without(delegates, {Head(operationQueue).task})
  /\ operationQueue' = Tail(operationQueue)
  /\ UNCHANGED <<sessionVars, processing, mainQueue, answered>>

\* The concurrent queue: a body is read, or cannot be.
responseObjectForResponse(c) ==
  /\ processing' = processing \ {c}
  /\ \E answer \in {c.answer, Failure} :
       mainQueue' = Append(mainQueue, [c EXCEPT !.answer = answer])
  /\ UNCHANGED <<sessionVars, delegates, operationQueue, answered>>

-----------------------------------------------------------------------------
Session == listsTasks \/ \E t \in Task : dataArrives(t)

Operation ==
  addDelegates \/ didReceiveData \/ didCompleteWithError \/ removeDelegateForTask

Main == completionHandler \/ \E t \in Task : addDelegateForDataTask(t)

Next ==
  \/ Session \/ Operation \/ Main
  \/ \E t \in Task : dataTaskWithHTTPMethod(t) \/ taskEnds(t)
  \/ \E c \in processing : responseObjectForResponse(c)

Spec == Init /\ [][Next]_vars

\* The queues run what is on them, and a task is over at the latest when its
\* time-out fires; no piece need arrive.
FairSpec ==
  /\ Spec
  /\ WF_vars(Operation) /\ WF_vars(Main)
  /\ WF_vars(\E c \in processing : responseObjectForResponse(c))
  /\ \A t \in Task : WF_vars(taskEnds(t))

-----------------------------------------------------------------------------
(* Properties                                                              *)

WholeBody == [k \in 1 .. MaxPieces |-> k]
Again == <<0>>

Contract == INSTANCE Requests WITH
  sent <- {t \in Task : state[t] # "none"},
  answered <- [t \in DOMAIN answered |->
                IF Len(answered[t]) = 1 THEN answered[t][1] ELSE Again]

\* A task is answered once at most, with its whole body or a failure, although
\* bodies overtake each other on the concurrent queue and the delegate may be
\* gone when its handler runs (AFURLSessionManager.m:250-318, 1082-1098).
AnsweredOnce == Contract!Spec

\* Every task is answered (the requests of a round and a press wait for it:
\* RateListService.m:48-58).
EachAnswered == \A t \in Task : state[t] # "none" ~> t \in DOMAIN answered

\* The manager lets go of the delegate of a task that is over, and with it of
\* the blocks (AFURLSessionManager.m:669-678).
DelegatesReleased ==
  \A t \in Task : state[t] = "over" ~> t \notin DOMAIN delegates
===============================================================================
