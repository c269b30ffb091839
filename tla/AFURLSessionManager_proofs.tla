---------------------- MODULE AFURLSessionManager_proofs ----------------------
(***************************************************************************)
(* For any tasks, any number of pieces, and whichever tasks the session    *)
(* lists, the session manager implements Requests: a task is answered once *)
(* at most, with its whole body or a failure. IInv says where the one      *)
(* completion of a task is (Stages) and where its pieces are (Pieces).     *)
(***************************************************************************)
EXTENDS AFURLSessionManager, TLAPS

Data(t, d) == [kind |-> "data", task |-> t, data |-> d]
Complete(t, e) == [kind |-> "complete", task |-> t, error |-> e]

Events ==
  {Data(t, d) : t \in Task, d \in 1 .. MaxPieces}
    \cup {Complete(t, e) : t \in Task, e \in BOOLEAN}
    \cup [kind : {"remove"}, task : Task]
    \cup [kind : {"tasks"}, tasks : SUBSET Task]

Delegate == [mutableData : Seq(Nat), completionHandler : BOOLEAN]
Completions == [task : Task, answer : Seq(Nat), completionHandler : BOOLEAN]

Types ==
  /\ state \in [Task -> {"none", "made", "resumed", "over"}]
  /\ pieces \in [Task -> 0 .. MaxPieces]
  /\ DOMAIN delegates \subseteq Task /\ delegates \in [DOMAIN delegates -> Delegate]
  /\ operationQueue \in Seq(Events)
  /\ processing \in SUBSET Completions /\ mainQueue \in Seq(Completions)
  /\ DOMAIN answered \subseteq Task /\ answered = [t \in DOMAIN answered |-> answered[t]]

\* The stages of the completion of t: to be told, to be read, to be run, done.
ToTell(i, t) == i \in DOMAIN operationQueue /\ operationQueue[i] \in {Complete(t, e) : e \in BOOLEAN}
ToRead(c, t) == c \in processing /\ c.task = t
ToRun(i, t) == i \in DOMAIN mainQueue /\ mainQueue[i].task = t
WasRun(t) == t \in DOMAIN answered

\* A task is at one stage at most, once, and at none before it is over.
StagesOf(t) ==
  /\ \A i : ToTell(i, t) => state[t] = "over" /\ ~WasRun(t) /\ \A j : ToTell(j, t) => j = i
  /\ \A c : ToRead(c, t) => state[t] = "over" /\ ~WasRun(t) /\ \A b : ToRead(b, t) => b = c
  /\ \A i : ToRun(i, t) => state[t] = "over" /\ ~WasRun(t) /\ \A j : ToRun(j, t) => j = i
  /\ WasRun(t) => state[t] = "over"
  /\ \A i, c : ~(ToTell(i, t) /\ ToRead(c, t))
  /\ \A i, j : ~(ToTell(i, t) /\ ToRun(j, t))
  /\ \A j, c : ~(ToRun(j, t) /\ ToRead(c, t))

Stages == \A t \in Task : StagesOf(t)

Piece(i, t, d) == i \in DOMAIN operationQueue /\ operationQueue[i] = Data(t, d)

\* The pieces of t are told in order, and before the completion.
InOrder(t) ==
  /\ state[t] \in {"none", "made"} => pieces[t] = 0
  /\ \A i : ToTell(i, t) /\ operationQueue[i] = Complete(t, FALSE) => pieces[t] = MaxPieces
  /\ \A i, d : Piece(i, t, d) => d \in 1 .. pieces[t]
  /\ \A i, j, c, d : Piece(i, t, c) /\ Piece(j, t, d) /\ i < j => c < d
  /\ \A i, j, d : ToTell(i, t) /\ Piece(j, t, d) => j < i

\* The first n pieces of t were told, the others are to be.
Received(t, n) ==
  /\ \A i, d : Piece(i, t, d) => d > n
  /\ \A d \in n + 1 .. pieces[t] : \E i \in Nat : Piece(i, t, d)

\* The delegate with the handler has the pieces that were told.
Kept(t) ==
  t \in DOMAIN delegates /\ delegates[t].completionHandler =>
    /\ state[t] \notin {"none", "made"}
    /\ \E n \in 0 .. pieces[t] :
         delegates[t].mutableData = [k \in 1 .. n |-> k] /\ Received(t, n)

Pieces == \A t \in Task : InOrder(t) /\ Kept(t)

\* What is told is the whole body or a failure.
Answers ==
  /\ \A c \in processing : c.completionHandler => c.answer = WholeBody
  /\ \A i \in DOMAIN mainQueue :
       mainQueue[i].completionHandler => mainQueue[i].answer \in {WholeBody, Failure}
  /\ \A t \in DOMAIN answered : \E a \in {WholeBody, Failure} : answered[t] = <<a>>

IInv == Types /\ Stages /\ Pieces /\ Answers

-----------------------------------------------------------------------------
(* Events and queues                                                       *)

\* The pieces and the completions of the queue are told apart.
LEMMA Kinds ==
  /\ \A t, u, c, d : Data(t, c) = Data(u, d) <=> t = u /\ c = d
  /\ \A t, u, e, f : Complete(t, e) = Complete(u, f) <=> t = u /\ e = f
  /\ \A t, u, d, e : Data(t, d) # Complete(u, e)
  /\ \A t, d : Data(t, d).kind = "data" /\ Data(t, d).task = t /\ Data(t, d).data = d
  /\ \A t, e : /\ Complete(t, e).kind = "complete" /\ Complete(t, e).task = t
               /\ Complete(t, e).error = e
BY DEF Data, Complete

\* An event is of its kind.
LEMMA EventKinds ==
  ASSUME NEW x \in Events
  PROVE  /\ x.kind = "data" =>
              x = Data(x.task, x.data) /\ x.task \in Task /\ x.data \in 1 .. MaxPieces
         /\ x.kind = "complete" =>
              x = Complete(x.task, x.error) /\ x.task \in Task /\ x.error \in BOOLEAN
         /\ x.kind = "remove" => x.task \in Task
         /\ x.kind = "tasks" => x.tasks \in SUBSET Task
BY DEF Events, Data, Complete

\* What is first is gone, the others move up.
LEMMA Behead ==
  ASSUME NEW S, NEW q \in Seq(S), q # <<>>
  PROVE  /\ Tail(q) \in Seq(S) /\ 1 \in DOMAIN q /\ Head(q) = q[1] /\ q[1] \in S
         /\ \A i : i \in DOMAIN q <=> i \in 1 .. Len(q)
         /\ \A i : i \in DOMAIN Tail(q) <=> i \in Nat /\ i >= 1 /\ i + 1 \in DOMAIN q
         /\ \A i \in DOMAIN Tail(q) : Tail(q)[i] = q[i + 1]
OBVIOUS

\* What is appended is last.
LEMMA Enqueue ==
  ASSUME NEW S, NEW q \in Seq(S), NEW x \in S
  PROVE  /\ Append(q, x) \in Seq(S)
         /\ \A i : i \in DOMAIN q <=> i \in 1 .. Len(q)
         /\ \A i : i \in DOMAIN Append(q, x) <=> i \in DOMAIN q \/ i = Len(q) + 1
         /\ Len(q) \in Nat
         /\ \A i \in DOMAIN q : Append(q, x)[i] = q[i]
         /\ Append(q, x)[Len(q) + 1] = x
OBVIOUS

\* Another takes the place of the first.
LEMMA Replace ==
  ASSUME NEW S, NEW q \in Seq(S), q # <<>>, NEW x \in S
  PROVE  /\ <<x>> \o Tail(q) \in Seq(S)
         /\ DOMAIN (<<x>> \o Tail(q)) = DOMAIN q
         /\ (<<x>> \o Tail(q))[1] = x
         /\ \A i \in DOMAIN q : i # 1 => (<<x>> \o Tail(q))[i] = q[i]
<1> DEFINE r == <<x>> \o Tail(q)
<1>1. Tail(q) \in Seq(S) /\ Len(Tail(q)) = Len(q) - 1 /\ Len(q) \in Nat /\ Len(q) >= 1
  OBVIOUS
<1>2. r \in Seq(S) /\ Len(r) = 1 + Len(Tail(q))
  BY <1>1
<1>3. \A i \in 1 .. Len(r) : r[i] = IF i <= 1 THEN x ELSE Tail(q)[i - 1]
  BY <1>1
<1>4. \A i \in 1 .. Len(q) - 1 : Tail(q)[i] = q[i + 1]
  OBVIOUS
<1> QED BY <1>1, <1>2, <1>3, <1>4

-----------------------------------------------------------------------------
(* What the steps do to the queues                                         *)

\* The first event is gone.
LEMMA TailStep ==
  ASSUME Types, operationQueue # <<>>, operationQueue' = Tail(operationQueue)
  PROVE  /\ operationQueue' \in Seq(Events)
         /\ \A i, t : ToTell(i, t)' => i \in Nat /\ ToTell(i + 1, t)
         /\ \A i, t, d : Piece(i, t, d)' <=> i \in Nat /\ i >= 1 /\ Piece(i + 1, t, d)
         /\ \A i, t : ToTell(i, t)' => operationQueue'[i] = operationQueue[i + 1]
BY Behead, SMT DEF Types, ToTell, Piece

\* An event is last.
LEMMA AppendStep ==
  ASSUME Types, NEW x \in Events, operationQueue' = Append(operationQueue, x)
  PROVE  /\ operationQueue' \in Seq(Events)
         /\ Len(operationQueue) \in Nat
         /\ \A i, t : ToTell(i, t)' =>
                ToTell(i, t) \/ (i = Len(operationQueue) + 1 /\ x \in {Complete(t, e) : e \in BOOLEAN})
         /\ \A i, t, d : Piece(i, t, d)' <=>
                Piece(i, t, d) \/ (i = Len(operationQueue) + 1 /\ x = Data(t, d))
         /\ \A i, t, d : Piece(i, t, d) \/ ToTell(i, t) => i \in 1 .. Len(operationQueue)
         /\ \A i, t : ToTell(i, t) => operationQueue'[i] = operationQueue[i]
         /\ operationQueue'[Len(operationQueue) + 1] = x
<1>1. operationQueue \in Seq(Events)
  BY DEF Types
<1> DEFINE q == operationQueue
           r == operationQueue'
           n == Len(operationQueue) + 1
<1>2. /\ r \in Seq(Events) /\ Len(q) \in Nat
      /\ \A i : i \in DOMAIN q <=> i \in 1 .. Len(q)
      /\ \A i : i \in DOMAIN r <=> i \in DOMAIN q \/ i = n
      /\ \A i \in DOMAIN q : r[i] = q[i]
      /\ r[n] = x
  BY <1>1, Enqueue
<1>3. n \notin DOMAIN q
  BY <1>2
<1>4. /\ \A i, t : ToTell(i, t) <=> i \in DOMAIN q /\ q[i] \in {Complete(t, e) : e \in BOOLEAN}
      /\ \A i, t : ToTell(i, t)' <=> i \in DOMAIN r /\ r[i] \in {Complete(t, e) : e \in BOOLEAN}
      /\ \A i, t, d : Piece(i, t, d) <=> i \in DOMAIN q /\ q[i] = Data(t, d)
      /\ \A i, t, d : Piece(i, t, d)' <=> i \in DOMAIN r /\ r[i] = Data(t, d)
  BY DEF ToTell, Piece
<1> HIDE DEF q, r, n
<1>5. ASSUME NEW i, NEW t, ToTell(i, t)'
      PROVE  ToTell(i, t) \/ (i = n /\ x \in {Complete(t, e) : e \in BOOLEAN})
  <2>1. i \in DOMAIN r /\ r[i] \in {Complete(t, e) : e \in BOOLEAN}
    BY <1>4, <1>5, Zenon
  <2>2. CASE i = n
    BY <1>2, <2>1, <2>2
  <2>3. CASE i # n
    <3>1. i \in DOMAIN q /\ q[i] \in {Complete(t, e) : e \in BOOLEAN}
      BY <1>2, <2>1, <2>3
    <3> QED BY <1>4, <3>1, Zenon
  <2> QED BY <2>2, <2>3
<1>6. ASSUME NEW i, NEW t, NEW d PROVE Piece(i, t, d)' <=> Piece(i, t, d) \/ (i = n /\ x = Data(t, d))
  <2>1. CASE i = n
    BY <1>2, <1>3, <1>4, <2>1
  <2>2. CASE i # n
    BY <1>2, <1>4, <2>2
  <2> QED BY <2>1, <2>2
<1>7. /\ \A i, t, d : Piece(i, t, d) \/ ToTell(i, t) => i \in 1 .. Len(q)
      /\ \A i, t : ToTell(i, t) => r[i] = q[i]
  BY <1>2, <1>4, Zenon
<1>8. /\ operationQueue' \in Seq(Events) /\ Len(operationQueue) \in Nat
      /\ operationQueue'[Len(operationQueue) + 1] = x
  BY <1>2 DEF q, r, n
<1>9. \A i, t : ToTell(i, t)' =>
                ToTell(i, t) \/ (i = Len(operationQueue) + 1 /\ x \in {Complete(t, e) : e \in BOOLEAN})
  BY <1>5, Zenon DEF n
<1>10. \A i, t, d : Piece(i, t, d)' <=>
                Piece(i, t, d) \/ (i = Len(operationQueue) + 1 /\ x = Data(t, d))
  BY <1>6, Zenon DEF n
<1>11. /\ \A i, t, d : Piece(i, t, d) \/ ToTell(i, t) => i \in 1 .. Len(operationQueue)
       /\ \A i, t : ToTell(i, t) => operationQueue'[i] = operationQueue[i]
  BY <1>7 DEF q, r
<1> QED BY <1>8, <1>9, <1>10, <1>11, Zenon

\* An event of another kind takes the place of the first.
LEMMA ReplaceStep ==
  ASSUME Types, operationQueue # <<>>, NEW x \in Events, x.kind = "remove",
         operationQueue' = <<x>> \o Tail(operationQueue)
  PROVE  /\ operationQueue' \in Seq(Events)
         /\ \A i, t : ToTell(i, t)' => ToTell(i, t) /\ i # 1 /\ operationQueue'[i] = operationQueue[i]
         /\ \A i, t, d : Piece(i, t, d)' <=> Piece(i, t, d) /\ i # 1
<1>1. operationQueue \in Seq(Events)
  BY DEF Types
<1> DEFINE q == operationQueue
           r == operationQueue'
<1>2. r \in Seq(Events) /\ DOMAIN r = DOMAIN q /\ r[1] = x /\ \A i \in DOMAIN q : i # 1 => r[i] = q[i]
  BY <1>1, Replace
<1>3. (\A t, d : x # Data(t, d)) /\ (\A t, e : x # Complete(t, e))
  BY Kinds
<1>4. \A i, t : ToTell(i, t) <=> i \in DOMAIN q /\ \E e \in BOOLEAN : q[i] = Complete(t, e)
  BY DEF ToTell
<1>5. \A i, t : ToTell(i, t)' <=> i \in DOMAIN r /\ \E e \in BOOLEAN : r[i] = Complete(t, e)
  BY DEF ToTell
<1>6. \A i, t, d : Piece(i, t, d) <=> i \in DOMAIN q /\ q[i] = Data(t, d)
  BY DEF Piece
<1>7. \A i, t, d : Piece(i, t, d)' <=> i \in DOMAIN r /\ r[i] = Data(t, d)
  BY DEF Piece
<1> HIDE DEF q, r
<1>8. \A i, t : ToTell(i, t)' => ToTell(i, t) /\ i # 1 /\ r[i] = q[i]
  <2> SUFFICES ASSUME NEW i, NEW t, ToTell(i, t)' PROVE ToTell(i, t) /\ i # 1 /\ r[i] = q[i]
    OBVIOUS
  <2>1. PICK e \in BOOLEAN : i \in DOMAIN r /\ r[i] = Complete(t, e)
    BY <1>5
  <2>2. i # 1
    BY <1>2, <1>3, <2>1
  <2> QED BY <1>2, <1>4, <2>1, <2>2
<1>9. \A i, t, d : Piece(i, t, d)' <=> Piece(i, t, d) /\ i # 1
  <2> SUFFICES ASSUME NEW i, NEW t, NEW d PROVE Piece(i, t, d)' <=> Piece(i, t, d) /\ i # 1
    OBVIOUS
  <2>1. CASE i = 1
    BY <1>2, <1>3, <1>7, <2>1
  <2>2. CASE i # 1
    BY <1>2, <1>6, <1>7, <2>2
  <2> QED BY <2>1, <2>2
<1> QED BY <1>2, <1>8, <1>9 DEF q, r

\* A completion is last on the main queue.
LEMMA RunAppended ==
  ASSUME Types, NEW c \in Completions, mainQueue' = Append(mainQueue, c)
  PROVE  /\ mainQueue' \in Seq(Completions)
         /\ \A i, t : ToRun(i, t) => i # Len(mainQueue) + 1
         /\ \A i, t : ToRun(i, t)' <=> ToRun(i, t) \/ (i = Len(mainQueue) + 1 /\ c.task = t)
         /\ \A i \in DOMAIN mainQueue' :
              mainQueue'[i] = c \/ (i \in DOMAIN mainQueue /\ mainQueue'[i] = mainQueue[i])
<1>1. mainQueue \in Seq(Completions)
  BY DEF Types
<1> DEFINE q == mainQueue
<1>2. /\ Append(q, c) \in Seq(Completions)
      /\ \A i : i \in DOMAIN q <=> i \in 1 .. Len(q)
      /\ \A i : i \in DOMAIN Append(q, c) <=> i \in DOMAIN q \/ i = Len(q) + 1
      /\ Len(q) \in Nat
      /\ \A i \in DOMAIN q : Append(q, c)[i] = q[i]
      /\ Append(q, c)[Len(q) + 1] = c
  BY <1>1, Enqueue
<1> HIDE DEF q
<1> QED BY <1>2 DEF q, ToRun

\* The first completion of the main queue is gone.
LEMMA RunTaken ==
  ASSUME Types, mainQueue # <<>>, mainQueue' = Tail(mainQueue)
  PROVE  /\ mainQueue' \in Seq(Completions)
         /\ Head(mainQueue) = mainQueue[1] /\ mainQueue[1] \in Completions
         /\ ToRun(1, mainQueue[1].task)
         /\ \A i, t : ToRun(i, t)' <=> i \in Nat /\ i >= 1 /\ ToRun(i + 1, t)
         /\ \A i \in DOMAIN mainQueue' : i + 1 \in DOMAIN mainQueue /\ mainQueue'[i] = mainQueue[i + 1]
BY Behead, SMT DEF Types, ToRun

\* The first event is of its kind, and a piece or a completion if it is told as one.
LEMMA HeadStep ==
  ASSUME Types, operationQueue # <<>>
  PROVE  /\ Head(operationQueue) = operationQueue[1] /\ operationQueue[1] \in Events
         /\ 1 \in DOMAIN operationQueue /\ Tail(operationQueue) \in Seq(Events)
BY Behead DEF Types

LEMMA HeadPiece ==
  ASSUME Types, Told("data"), NEW e, e = Head(operationQueue)
  PROVE  e.task \in Task /\ e.data \in 1 .. MaxPieces /\ Piece(1, e.task, e.data)
<1>1. operationQueue # <<>> /\ e.kind = "data"
  BY DEF Told
<1>2. e = operationQueue[1] /\ e \in Events /\ 1 \in DOMAIN operationQueue
  BY <1>1, HeadStep
<1> QED BY <1>1, <1>2, EventKinds DEF Piece

LEMMA HeadComplete ==
  ASSUME Types, Told("complete"), NEW e, e = Head(operationQueue)
  PROVE  /\ e.task \in Task /\ e.error \in BOOLEAN /\ ToTell(1, e.task)
         /\ operationQueue[1] = Complete(e.task, e.error)
<1>1. operationQueue # <<>> /\ e.kind = "complete"
  BY DEF Told
<1>2. e = operationQueue[1] /\ e \in Events /\ 1 \in DOMAIN operationQueue
  BY <1>1, HeadStep
<1> QED BY <1>1, <1>2, EventKinds DEF ToTell

-----------------------------------------------------------------------------
(* The stages                                                              *)

\* While only the first event goes, nothing enters a stage.
LEMMA StagesAfterTail ==
  ASSUME IInv, operationQueue # <<>>, operationQueue' = Tail(operationQueue),
         UNCHANGED <<state, processing, mainQueue, answered>>
  PROVE  Stages'
<1>1. \A i, t : ToTell(i, t)' => i \in Nat /\ ToTell(i + 1, t)
  BY TailStep DEF IInv
<1>2. /\ \A c, t : ToRead(c, t)' <=> ToRead(c, t)
      /\ \A i, t : ToRun(i, t)' <=> ToRun(i, t)
      /\ \A t : WasRun(t)' <=> WasRun(t)
  BY DEF ToRead, ToRun, WasRun
<1>3. SUFFICES ASSUME NEW t \in Task PROVE StagesOf(t)'
  BY DEF Stages
<1>4. StagesOf(t)
  BY DEF IInv, Stages
<1>5. \A i : ToTell(i, t)' => state[t] = "over" /\ ~WasRun(t) /\ \A j : ToTell(j, t)' => j = i
  BY <1>1, <1>4 DEF StagesOf
<1> QED BY <1>1, <1>2, <1>4, <1>5, Zenon DEF StagesOf

\* An event that is no completion is appended.
LEMMA StagesAfterAppend ==
  ASSUME IInv, NEW x \in Events, x.kind # "complete",
         operationQueue' = Append(operationQueue, x),
         UNCHANGED <<state, processing, mainQueue, answered>>
  PROVE  Stages'
<1>1. \A e, t : x # Complete(t, e)
  BY Kinds
<1>2. \A i, t : ToTell(i, t)' => ToTell(i, t)
  BY <1>1, AppendStep DEF IInv
<1>3. /\ \A c, t : ToRead(c, t)' <=> ToRead(c, t)
      /\ \A i, t : ToRun(i, t)' <=> ToRun(i, t)
      /\ \A t : WasRun(t)' <=> WasRun(t)
  BY DEF ToRead, ToRun, WasRun
<1>4. SUFFICES ASSUME NEW t \in Task PROVE StagesOf(t)'
  BY DEF Stages
<1>5. StagesOf(t)
  BY DEF IInv, Stages
<1> QED BY <1>2, <1>3, <1>5, Zenon DEF StagesOf

\* A task that is not over yet, and the queues stay.
LEMMA StagesAfterState ==
  ASSUME IInv, NEW u \in Task, NEW v, state[u] # "over",
         state' = [state EXCEPT ![u] = v],
         UNCHANGED <<operationQueue, processing, mainQueue, answered>>
  PROVE  Stages'
<1>1. /\ \A i, t : ToTell(i, t)' <=> ToTell(i, t)
      /\ \A c, t : ToRead(c, t)' <=> ToRead(c, t)
      /\ \A i, t : ToRun(i, t)' <=> ToRun(i, t)
      /\ \A t : WasRun(t)' <=> WasRun(t)
  BY DEF ToTell, ToRead, ToRun, WasRun
<1>2. \A t \in Task : state[t] = "over" => state'[t] = "over"
  BY DEF IInv, Types
<1>3. SUFFICES ASSUME NEW t \in Task PROVE StagesOf(t)'
  BY DEF Stages
<1>4. StagesOf(t)
  BY DEF IInv, Stages
<1> QED BY <1>1, <1>2, <1>4, Zenon DEF StagesOf

LEMMA StagesTaskEnds ==
  ASSUME IInv, NEW u \in Task, taskEnds(u)
  PROVE  Stages'
<1>1. PICK e \in BOOLEAN : operationQueue' = Append(operationQueue, Complete(u, e))
  BY DEF taskEnds, Tell, Complete
<1>2. Complete(u, e) \in Events
  BY DEF Events
<1>3. \A i, t : ToTell(i, t)' => ToTell(i, t) \/ (i = Len(operationQueue) + 1 /\ t = u)
  BY <1>1, <1>2, AppendStep, Kinds DEF IInv
<1>4. /\ \A c, t : ToRead(c, t)' <=> ToRead(c, t)
      /\ \A i, t : ToRun(i, t)' <=> ToRun(i, t)
      /\ \A t : WasRun(t)' <=> WasRun(t)
  BY DEF ToRead, ToRun, WasRun, taskEnds
<1>5. /\ \A t \in Task : state[t] = "over" => state'[t] = "over"
      /\ state[u] # "over" /\ state'[u] = "over"
  BY DEF IInv, Types, taskEnds
<1>6. SUFFICES ASSUME NEW t \in Task PROVE StagesOf(t)'
  BY DEF Stages
<1>7. StagesOf(t)
  BY DEF IInv, Stages
<1>8. CASE t # u
  <2>1. \A i : ToTell(i, t)' => ToTell(i, t)
    BY <1>3, <1>8
  <2>2. state[t] = "over" => state'[t] = "over"
    BY <1>5
  <2> QED BY <1>4, <1>7, <2>1, <2>2, Zenon DEF StagesOf
<1>9. CASE t = u
  <2>1. (\A i : ~ToTell(i, t)) /\ (\A c : ~ToRead(c, t)) /\ (\A i : ~ToRun(i, t)) /\ ~WasRun(t)
    BY <1>5, <1>7, <1>9, Zenon DEF StagesOf
  <2>2. \A i : ToTell(i, t)' => i = Len(operationQueue) + 1
    BY <1>3, <1>9, <2>1
  <2>3. state'[t] = "over"
    BY <1>5, <1>9
  <2> QED BY <1>4, <2>1, <2>2, <2>3, Zenon DEF StagesOf
<1> QED BY <1>8, <1>9

LEMMA StagesCompletionHandler ==
  ASSUME IInv, completionHandler
  PROVE  Stages'
<1> DEFINE h == mainQueue[1]
<1>1. /\ mainQueue # <<>> /\ mainQueue' = Tail(mainQueue)
      /\ UNCHANGED <<state, operationQueue, processing>>
  BY DEF completionHandler, sessionVars
<1>2. /\ h \in Completions /\ ToRun(1, h.task) /\ Head(mainQueue) = h
      /\ \A i, t : ToRun(i, t)' => i \in Nat /\ i >= 1 /\ ToRun(i + 1, t)
  BY <1>1, RunTaken DEF IInv
<1>3. h.task \in Task
  BY <1>2 DEF Completions
<1>4. \A t : WasRun(t)' => WasRun(t) \/ t = h.task
  BY <1>2 DEF completionHandler, With, WasRun
<1>5. /\ \A i, t : ToTell(i, t)' <=> ToTell(i, t)
      /\ \A c, t : ToRead(c, t)' <=> ToRead(c, t)
  BY <1>1 DEF ToTell, ToRead
<1>6. SUFFICES ASSUME NEW t \in Task PROVE StagesOf(t)'
  BY DEF Stages
<1>7. StagesOf(t)
  BY DEF IInv, Stages
<1> HIDE DEF h
<1>8. CASE t = h.task
  <2>1. \A i : ToRun(i, t) => i = 1
    BY <1>2, <1>7, <1>8, Zenon DEF StagesOf
  <2>2. \A i : ~ToRun(i, t)'
    BY <1>2, <2>1
  <2>3. state[t] = "over" /\ (\A i : ~ToTell(i, t)) /\ (\A c : ~ToRead(c, t))
    BY <1>2, <1>7, <1>8, Zenon DEF StagesOf
  <2> QED BY <1>1, <1>5, <2>2, <2>3, Zenon DEF StagesOf
<1>9. CASE t # h.task
  <2>1. ~WasRun(t) => ~WasRun(t)'
    BY <1>4, <1>9
  <2>2. \A i, j : ToRun(i, t)' /\ ToRun(j, t)' => j = i
    BY <1>2, <1>7 DEF StagesOf
  <2>3. \A i : ToRun(i, t)' => ToRun(i + 1, t)
    BY <1>2
  <2> QED BY <1>1, <1>5, <1>7, <2>1, <2>2, <2>3, Zenon DEF StagesOf
<1> QED BY <1>8, <1>9

\* What didCompleteWithError does for a task with a delegate.
LEMMA Completing ==
  ASSUME IInv, didCompleteWithError, NEW e, e = Head(operationQueue), e.task \in DOMAIN delegates
  PROVE  /\ operationQueue # <<>> /\ UNCHANGED <<state, pieces, delegates, answered>>
         /\ [kind |-> "remove", task |-> e.task] \in Events
         /\ operationQueue' = <<[kind |-> "remove", task |-> e.task]>> \o Tail(operationQueue)
         /\ \A a \in Seq(Nat) : /\ Completion(e.task, a) \in Completions
                                /\ Completion(e.task, a).task = e.task
                                /\ Completion(e.task, a).answer = a
                                /\ Completion(e.task, a).completionHandler = delegates[e.task].completionHandler
         /\ Failure \in Seq(Nat) /\ delegates[e.task].mutableData \in Seq(Nat)
         /\ \/ /\ e.error /\ processing' = processing
               /\ mainQueue' = Append(mainQueue, Completion(e.task, Failure))
            \/ /\ ~e.error /\ mainQueue' = mainQueue
               /\ processing' = processing \cup {Completion(e.task, delegates[e.task].mutableData)}
<1>1. Types /\ Told("complete")
  BY DEF IInv, didCompleteWithError
<1>2. e.task \in Task /\ e.error \in BOOLEAN
  BY <1>1, HeadComplete
<1>3. operationQueue # <<>> /\ [kind |-> "remove", task |-> e.task] \in Events
  BY <1>1, <1>2 DEF Told, Events
<1>4. delegates[e.task] \in Delegate
  BY <1>1 DEF Types
<1>5. /\ \A a \in Seq(Nat) : /\ Completion(e.task, a) \in Completions
                             /\ Completion(e.task, a).task = e.task
                             /\ Completion(e.task, a).answer = a
                             /\ Completion(e.task, a).completionHandler = delegates[e.task].completionHandler
      /\ Failure \in Seq(Nat) /\ delegates[e.task].mutableData \in Seq(Nat)
  BY <1>2, <1>4 DEF Completion, Completions, Delegate, Failure
<1>6. /\ UNCHANGED <<state, pieces, delegates, answered>>
      /\ operationQueue' = <<[kind |-> "remove", task |-> e.task]>> \o Tail(operationQueue)
      /\ mainQueue' = IF e.error THEN Append(mainQueue, Completion(e.task, Failure)) ELSE mainQueue
      /\ processing' = IF ~e.error
                       THEN processing \cup {Completion(e.task, delegates[e.task].mutableData)}
                       ELSE processing
  BY DEF didCompleteWithError, sessionVars
<1>7. CASE e.error
  BY <1>3, <1>5, <1>6, <1>7, Zenon
<1>8. CASE ~e.error
  BY <1>3, <1>5, <1>6, <1>8, Zenon
<1> QED BY <1>7, <1>8

\* Without a delegate the completion is dropped.
LEMMA Dropping ==
  ASSUME didCompleteWithError, Head(operationQueue).task \notin DOMAIN delegates
  PROVE  /\ operationQueue # <<>> /\ operationQueue' = Tail(operationQueue)
         /\ UNCHANGED <<state, pieces, delegates, processing, mainQueue, answered>>
BY DEF didCompleteWithError, Told, sessionVars

LEMMA StagesComplete ==
  ASSUME IInv, didCompleteWithError
  PROVE  Stages'
<1>1. CASE Head(operationQueue).task \notin DOMAIN delegates
  BY <1>1, Dropping, StagesAfterTail
<1>2. CASE Head(operationQueue).task \in DOMAIN delegates
  <2> DEFINE e == Head(operationQueue)
             u == e.task
             x == [kind |-> "remove", task |-> u]
  <2>1. Types /\ Told("complete")
    BY DEF IInv, didCompleteWithError
  <2>2. u \in Task /\ ToTell(1, u)
    BY <2>1, HeadComplete
  <2>3. /\ operationQueue # <<>> /\ UNCHANGED <<state, answered>>
        /\ x \in Events /\ x.kind = "remove" /\ operationQueue' = <<x>> \o Tail(operationQueue)
    BY <1>2, Completing
  <2>4. \/ /\ processing' = processing
           /\ \E c \in Completions : c.task = u /\ mainQueue' = Append(mainQueue, c)
        \/ /\ mainQueue' = mainQueue
           /\ \E c \in Completions : c.task = u /\ processing' = processing \cup {c}
    <3>1. /\ \A a \in Seq(Nat) : Completion(u, a) \in Completions /\ Completion(u, a).task = u
          /\ Failure \in Seq(Nat) /\ delegates[u].mutableData \in Seq(Nat)
          /\ \/ processing' = processing /\ mainQueue' = Append(mainQueue, Completion(u, Failure))
             \/ /\ mainQueue' = mainQueue
                /\ processing' = processing \cup {Completion(u, delegates[u].mutableData)}
      BY <1>2, Completing, Zenon
    <3> QED BY <3>1, Zenon
  <2> HIDE DEF e, u, x
  <2>5. \A i, t : ToTell(i, t)' => ToTell(i, t) /\ i # 1
    BY <2>1, <2>3, ReplaceStep
  <2>6. \A t : WasRun(t)' <=> WasRun(t)
    BY <2>3 DEF WasRun
  <2>7. SUFFICES ASSUME NEW t \in Task PROVE StagesOf(t)'
    BY DEF Stages
  <2>8. StagesOf(t) /\ (t = u => \A i : ~ToTell(i, t)')
    <3>1. StagesOf(t)
      BY DEF IInv, Stages
    <3>2. t = u => \A i : ToTell(i, t) => i = 1
      BY <2>2, <3>1, Zenon DEF StagesOf
    <3> QED BY <2>5, <3>1, <3>2
  <2>9. t = u => state[t] = "over" /\ ~WasRun(t) /\ (\A c : ~ToRead(c, t)) /\ (\A i : ~ToRun(i, t))
    BY <2>2, <2>8, Zenon DEF StagesOf
  <2>10. CASE processing' = processing
              /\ \E c \in Completions : c.task = u /\ mainQueue' = Append(mainQueue, c)
    <3>1. \A i : ToRun(i, t)' => ToRun(i, t) \/ (i = Len(mainQueue) + 1 /\ t = u)
      BY <2>1, <2>10, RunAppended
    <3>2. \A c : ToRead(c, t)' <=> ToRead(c, t)
      BY <2>10 DEF ToRead
    <3>3. CASE t = u
      <4>1. (\A i : ToRun(i, t)' => i = Len(mainQueue) + 1) /\ (\A c : ~ToRead(c, t)')
        BY <2>9, <3>1, <3>2, <3>3
      <4> QED BY <2>3, <2>6, <2>8, <2>9, <3>3, <4>1, Zenon DEF StagesOf
    <3>4. CASE t # u
      <4>1. \A i : ToRun(i, t)' => ToRun(i, t)
        BY <3>1, <3>4
      <4> QED BY <2>3, <2>5, <2>6, <2>8, <3>2, <4>1, Zenon DEF StagesOf
    <3> QED BY <3>3, <3>4
  <2>11. CASE mainQueue' = mainQueue
              /\ \E c \in Completions : c.task = u /\ processing' = processing \cup {c}
    <3>1. PICK c : c.task = u /\ processing' = processing \cup {c}
      BY <2>11
    <3>2. \A b : ToRead(b, t)' => ToRead(b, t) \/ (b = c /\ t = u)
      BY <3>1 DEF ToRead
    <3>3. \A i : ToRun(i, t)' <=> ToRun(i, t)
      BY <2>11 DEF ToRun
    <3>4. CASE t = u
      <4>1. (\A b : ToRead(b, t)' => b = c) /\ (\A i : ~ToRun(i, t)')
        BY <2>9, <3>2, <3>3, <3>4
      <4> QED BY <2>3, <2>6, <2>8, <2>9, <3>4, <4>1, Zenon DEF StagesOf
    <3>5. CASE t # u
      <4>1. \A b : ToRead(b, t)' => ToRead(b, t)
        BY <3>2, <3>5
      <4> QED BY <2>3, <2>5, <2>6, <2>8, <3>3, <4>1, Zenon DEF StagesOf
    <3> QED BY <3>4, <3>5
  <2> QED BY <2>4, <2>10, <2>11
<1> QED BY <1>1, <1>2

LEMMA StagesRead ==
  ASSUME IInv, NEW c \in processing, responseObjectForResponse(c)
  PROVE  Stages'
<1>1. c \in Completions /\ c.task \in Task
  BY DEF IInv, Types, Completions
<1>2. PICK a \in {c.answer, Failure} : mainQueue' = Append(mainQueue, [c EXCEPT !.answer = a])
  BY DEF responseObjectForResponse
<1> DEFINE d == [c EXCEPT !.answer = a]
<1>3. d \in Completions /\ d.task = c.task
  <2>1. c.answer \in Seq(Nat) /\ <<>> \in Seq(Nat)
    BY <1>1 DEF Completions
  <2>2. a \in Seq(Nat)
    BY <2>1 DEF Failure
  <2> QED BY <1>1, <2>2 DEF Completions
<1>4. mainQueue' = Append(mainQueue, d)
  BY <1>2
<1> HIDE DEF d
<1>5. \A i, t : ToRun(i, t)' => ToRun(i, t) \/ (i = Len(mainQueue) + 1 /\ t = c.task)
  BY <1>3, <1>4, RunAppended DEF IInv
<1>6. /\ \A b, t : ToRead(b, t)' <=> ToRead(b, t) /\ b # c
      /\ ToRead(c, c.task)
      /\ UNCHANGED <<state, operationQueue, answered>>
  BY DEF responseObjectForResponse, ToRead, sessionVars
<1>7. (\A i, t : ToTell(i, t)' <=> ToTell(i, t)) /\ (\A t : WasRun(t)' <=> WasRun(t))
  BY <1>6 DEF ToTell, WasRun
<1>8. SUFFICES ASSUME NEW t \in Task PROVE StagesOf(t)'
  BY DEF Stages
<1>9. StagesOf(t)
  BY DEF IInv, Stages
<1>10. CASE t = c.task
  <2>1. /\ state[t] = "over" /\ ~WasRun(t) /\ (\A i : ~ToTell(i, t)) /\ (\A i : ~ToRun(i, t))
        /\ \A b : ToRead(b, t) => b = c
    BY <1>6, <1>9, <1>10, Zenon DEF StagesOf
  <2>2. \A b : ~ToRead(b, t)'
    BY <1>6, <2>1
  <2>3. \A i : ToRun(i, t)' => i = Len(mainQueue) + 1
    BY <1>5, <2>1
  <2> QED BY <1>6, <1>7, <2>1, <2>2, <2>3, Zenon DEF StagesOf
<1>11. CASE t # c.task
  <2>1. \A i : ToRun(i, t)' => ToRun(i, t)
    BY <1>5, <1>11
  <2>2. \A b : ToRead(b, t)' => ToRead(b, t)
    BY <1>6
  <2> QED BY <1>6, <1>7, <1>9, <2>1, <2>2, Zenon DEF StagesOf
<1> QED BY <1>10, <1>11

-----------------------------------------------------------------------------
(* The pieces                                                              *)

LEMMA PiecesUnchanged ==
  ASSUME IInv, UNCHANGED <<state, pieces, operationQueue, delegates>>
  PROVE  Pieces'
<1>1. (\A i, t : ToTell(i, t)' <=> ToTell(i, t)) /\ (\A i, t, d : Piece(i, t, d)' <=> Piece(i, t, d))
  BY DEF ToTell, Piece
<1>2. \A t, n : Received(t, n)' <=> Received(t, n)
  BY <1>1 DEF Received
<1> SUFFICES ASSUME NEW t \in Task PROVE InOrder(t)' /\ Kept(t)'
  BY DEF Pieces
<1>3. InOrder(t) /\ Kept(t)
  BY DEF IInv, Pieces
<1>4. InOrder(t)'
  BY <1>1, <1>3, Zenon DEF InOrder
<1>5. Kept(t)'
  BY <1>2, <1>3, Zenon DEF Kept
<1> QED BY <1>4, <1>5

\* The first event goes.
LEMMA InOrderAfterTail ==
  ASSUME IInv, operationQueue # <<>>, operationQueue' = Tail(operationQueue),
         UNCHANGED <<state, pieces>>, NEW t \in Task
  PROVE  InOrder(t)'
<1>1. /\ \A i : ToTell(i, t)' => /\ i \in Nat /\ ToTell(i + 1, t)
                                /\ operationQueue'[i] = operationQueue[i + 1]
      /\ \A i, d : Piece(i, t, d)' => i \in Nat /\ Piece(i + 1, t, d)
  BY TailStep DEF IInv
<1>2. InOrder(t)
  BY DEF IInv, Pieces
<1>3. state'[t] \in {"none", "made"} => pieces'[t] = 0
  BY <1>2 DEF InOrder
<1>4. \A i : ToTell(i, t)' /\ operationQueue'[i] = Complete(t, FALSE) => pieces'[t] = MaxPieces
  BY <1>1, <1>2 DEF InOrder
<1>5. \A i, d : Piece(i, t, d)' => d \in 1 .. pieces'[t]
  BY <1>1, <1>2 DEF InOrder
<1>6. \A i, j, c, d : Piece(i, t, c)' /\ Piece(j, t, d)' /\ i < j => c < d
  <2> SUFFICES ASSUME NEW i, NEW j, NEW c, NEW d, Piece(i, t, c)', Piece(j, t, d)', i < j
               PROVE  c < d
    OBVIOUS
  <2>1. Piece(i + 1, t, c) /\ Piece(j + 1, t, d) /\ i + 1 < j + 1
    BY <1>1
  <2> QED BY <1>2, <2>1 DEF InOrder
<1>7. \A i, j, d : ToTell(i, t)' /\ Piece(j, t, d)' => j < i
  <2> SUFFICES ASSUME NEW i, NEW j, NEW d, ToTell(i, t)', Piece(j, t, d)' PROVE j < i
    OBVIOUS
  <2>1. ToTell(i + 1, t) /\ Piece(j + 1, t, d) /\ i \in Nat /\ j \in Nat
    BY <1>1
  <2>2. j + 1 < i + 1
    BY <1>2, <2>1 DEF InOrder
  <2> QED BY <2>1, <2>2
<1> QED BY <1>3, <1>4, <1>5, <1>6, <1>7 DEF InOrder

\* It was no piece of t.
LEMMA ReceivedAfterTail ==
  ASSUME IInv, operationQueue # <<>>, operationQueue' = Tail(operationQueue),
         pieces' = pieces, NEW t \in Task, NEW n \in Nat, Received(t, n),
         \A d : ~Piece(1, t, d)
  PROVE  Received(t, n)'
<1>1. \A i, d : Piece(i, t, d)' <=> i \in Nat /\ i >= 1 /\ Piece(i + 1, t, d)
  BY TailStep DEF IInv
<1>2. \A i, d : Piece(i, t, d)' => d > n
  BY <1>1 DEF Received
<1>3. ASSUME NEW d \in n + 1 .. pieces'[t]
      PROVE  \E i \in Nat : Piece(i, t, d)'
  <2>1. PICK i \in Nat : Piece(i, t, d)
    BY DEF Received
  <2>2. i # 1 /\ i \in 1 .. Len(operationQueue)
    BY <2>1, SMT DEF Piece, IInv, Types
  <2>3. i - 1 \in Nat /\ i - 1 >= 1 /\ (i - 1) + 1 = i
    BY <2>2
  <2>4. Piece(i - 1, t, d)'
    BY <1>1, <2>1, <2>3
  <2> QED BY <2>3, <2>4
<1> QED BY <1>2, <1>3 DEF Received

\* The delegates stay, or go, or get ones without a handler.
LEMMA PiecesAfterTail ==
  ASSUME IInv, operationQueue # <<>>, operationQueue' = Tail(operationQueue),
         UNCHANGED <<state, pieces>>,
         \A t \in Task : t \in DOMAIN delegates' /\ delegates'[t].completionHandler =>
            /\ t \in DOMAIN delegates /\ delegates'[t] = delegates[t]
            /\ \A d : ~Piece(1, t, d)
  PROVE  Pieces'
<1> SUFFICES ASSUME NEW t \in Task PROVE InOrder(t)' /\ Kept(t)'
  BY DEF Pieces
<1>1. InOrder(t)'
  BY InOrderAfterTail
<1>2. ASSUME t \in DOMAIN delegates', delegates'[t].completionHandler
      PROVE  /\ state'[t] \notin {"none", "made"}
             /\ \E n \in 0 .. pieces'[t] :
                  delegates'[t].mutableData = [k \in 1 .. n |-> k] /\ Received(t, n)'
  <2>1. /\ t \in DOMAIN delegates /\ delegates'[t] = delegates[t]
        /\ \A d : ~Piece(1, t, d)
    BY <1>2
  <2>2. Kept(t)
    BY DEF IInv, Pieces
  <2>3. PICK n \in 0 .. pieces[t] : delegates[t].mutableData = [k \in 1 .. n |-> k] /\ Received(t, n)
    BY <1>2, <2>1, <2>2 DEF Kept
  <2>4. n \in Nat
    BY DEF IInv, Types
  <2>5. Received(t, n)'
    BY <2>1, <2>3, <2>4, ReceivedAfterTail
  <2> QED BY <1>2, <2>1, <2>2, <2>3, <2>5 DEF Kept
<1> QED BY <1>1, <1>2 DEF Kept

\* An event that is no piece, and no completion but of a task that ends, is last.
LEMMA PiecesAfterAppend ==
  ASSUME IInv, NEW x \in Events, operationQueue' = Append(operationQueue, x),
         UNCHANGED <<pieces, delegates>>, x.kind # "data",
         \A t \in Task : /\ state'[t] \in {"none", "made"} <=> state[t] \in {"none", "made"}
                         /\ x = Complete(t, FALSE) => pieces[t] = MaxPieces
  PROVE  Pieces'
<1>1. /\ \A i, t, d : Piece(i, t, d)' <=> Piece(i, t, d)
      /\ \A i, t, d : Piece(i, t, d) => i \in 1 .. Len(operationQueue)
      /\ \A i, t : ToTell(i, t)' => ToTell(i, t) \/ i = Len(operationQueue) + 1
      /\ \A i, t : ToTell(i, t) => operationQueue'[i] = operationQueue[i]
      /\ operationQueue'[Len(operationQueue) + 1] = x
      /\ Len(operationQueue) \in Nat
  <2>1. Types
    BY DEF IInv
  <2>2. /\ Len(operationQueue) \in Nat
        /\ \A i, t : ToTell(i, t)' =>
                ToTell(i, t) \/ (i = Len(operationQueue) + 1 /\ x \in {Complete(t, e) : e \in BOOLEAN})
        /\ \A i, t, d : Piece(i, t, d)' <=>
                Piece(i, t, d) \/ (i = Len(operationQueue) + 1 /\ x = Data(t, d))
        /\ \A i, t, d : Piece(i, t, d) \/ ToTell(i, t) => i \in 1 .. Len(operationQueue)
        /\ \A i, t : ToTell(i, t) => operationQueue'[i] = operationQueue[i]
        /\ operationQueue'[Len(operationQueue) + 1] = x
    BY <2>1, AppendStep
  <2>3. \A t, d : x # Data(t, d)
    BY Kinds
  <2> QED BY <2>2, <2>3, Zenon
<1>2. \A t, n : Received(t, n)' <=> Received(t, n)
  BY <1>1 DEF Received
<1> SUFFICES ASSUME NEW t \in Task PROVE InOrder(t)' /\ Kept(t)'
  BY DEF Pieces
<1>3. InOrder(t) /\ Kept(t)
  BY DEF IInv, Pieces
<1>4. InOrder(t)'
  <2>1. state'[t] \in {"none", "made"} => pieces'[t] = 0
    BY <1>3 DEF InOrder
  <2>2. \A i : ToTell(i, t)' /\ operationQueue'[i] = Complete(t, FALSE) => pieces'[t] = MaxPieces
    BY <1>1, <1>3 DEF InOrder
  <2>3. \A i, d : Piece(i, t, d)' => d \in 1 .. pieces'[t]
    BY <1>1, <1>3 DEF InOrder
  <2>4. \A i, j, c, d : Piece(i, t, c)' /\ Piece(j, t, d)' /\ i < j => c < d
    BY <1>1, <1>3, Zenon DEF InOrder
  <2>5. \A i, j, d : ToTell(i, t)' /\ Piece(j, t, d)' => j < i
    BY <1>1, <1>3 DEF InOrder
  <2> QED BY <2>1, <2>2, <2>3, <2>4, <2>5 DEF InOrder
<1>5. Kept(t)'
  BY <1>2, <1>3, Zenon DEF Kept
<1> QED BY <1>4, <1>5

\* The next piece of u is last.
LEMMA PiecesArrives ==
  ASSUME IInv, NEW u \in Task, dataArrives(u)
  PROVE  Pieces'
<1> DEFINE p == pieces[u] + 1
<1>1. /\ state[u] = "resumed" /\ pieces[u] \in Nat /\ p \in 1 .. MaxPieces
      /\ pieces'[u] = p /\ (\A t \in Task : t # u => pieces'[t] = pieces[t])
      /\ UNCHANGED <<state, delegates>>
  <2>1. /\ state[u] = "resumed" /\ pieces[u] < MaxPieces
        /\ pieces' = [pieces EXCEPT ![u] = p]
        /\ UNCHANGED <<state, delegates>>
    BY DEF dataArrives
  <2>2. pieces \in [Task -> 0 .. MaxPieces]
    BY DEF IInv, Types
  <2>3. pieces[u] \in 0 .. MaxPieces
    BY <2>2
  <2>4. pieces'[u] = p /\ (\A t \in Task : t # u => pieces'[t] = pieces[t])
    BY <2>1, <2>2, Zenon
  <2> QED BY <2>1, <2>3, <2>4, SessionAssumption
<1>2. operationQueue' = Append(operationQueue, Data(u, p))
  BY <1>1 DEF dataArrives, Tell, Data
<1>3. Data(u, p) \in Events
  BY <1>1 DEF Events
<1>4. /\ \A i, t : ToTell(i, t)' => ToTell(i, t) /\ operationQueue'[i] = operationQueue[i]
      /\ \A i, t, d : Piece(i, t, d)' <=>
           Piece(i, t, d) \/ (i = Len(operationQueue) + 1 /\ t = u /\ d = p)
      /\ \A i, t, d : Piece(i, t, d) => i \in 1 .. Len(operationQueue)
      /\ Len(operationQueue) \in Nat
  <2>1. (\A t, e : Data(u, p) # Complete(t, e)) /\ (\A t, d : Data(u, p) = Data(t, d) <=> t = u /\ d = p)
    BY Kinds
  <2> DEFINE x == Data(u, p)
  <2>2. x \in Events /\ operationQueue' = Append(operationQueue, x) /\ Types
    BY <1>2, <1>3 DEF IInv
  <2>3. (\A t, e : x # Complete(t, e)) /\ (\A t, d : x = Data(t, d) <=> t = u /\ d = p)
    BY <2>1
  <2> HIDE DEF p, x
  <2>4. /\ Len(operationQueue) \in Nat
        /\ \A i, t : ToTell(i, t)' =>
                ToTell(i, t) \/ (i = Len(operationQueue) + 1 /\ x \in {Complete(t, e) : e \in BOOLEAN})
        /\ \A i, t, d : Piece(i, t, d)' <=>
                Piece(i, t, d) \/ (i = Len(operationQueue) + 1 /\ x = Data(t, d))
        /\ \A i, t, d : Piece(i, t, d) \/ ToTell(i, t) => i \in 1 .. Len(operationQueue)
        /\ \A i, t : ToTell(i, t) => operationQueue'[i] = operationQueue[i]
    BY <2>2, AppendStep
  <2>5. \A t : x \notin {Complete(t, e) : e \in BOOLEAN}
    BY <2>3
  <2>6. \A i, t : ToTell(i, t)' => ToTell(i, t) /\ operationQueue'[i] = operationQueue[i]
    BY <2>4, <2>5, Zenon
  <2>7. \A i, t, d : Piece(i, t, d)' <=>
           Piece(i, t, d) \/ (i = Len(operationQueue) + 1 /\ t = u /\ d = p)
    BY <2>3, <2>4
  <2>8. (\A i, t, d : Piece(i, t, d) => i \in 1 .. Len(operationQueue)) /\ Len(operationQueue) \in Nat
    BY <2>4, Zenon
  <2> QED BY <2>6, <2>7, <2>8, Zenon
<1> SUFFICES ASSUME NEW t \in Task PROVE InOrder(t)' /\ Kept(t)'
  BY DEF Pieces
<1>5. InOrder(t) /\ Kept(t) /\ StagesOf(t) /\ pieces[t] \in Nat
  BY DEF IInv, Pieces, Stages, Types
<1> HIDE DEF p
<1>6. CASE t # u
  <2>1. /\ \A i, d : Piece(i, t, d)' <=> Piece(i, t, d)
        /\ pieces'[t] = pieces[t]
    BY <1>1, <1>4, <1>6
  <2>2. \A n : Received(t, n)' <=> Received(t, n)
    BY <2>1 DEF Received
  <2>3. InOrder(t)'
    <3>1. \A i, j, d : ToTell(i, t)' /\ Piece(j, t, d)' => j < i
      BY <1>4, <1>5, <2>1, Zenon DEF InOrder
    <3>2. \A i, j, c, d : Piece(i, t, c)' /\ Piece(j, t, d)' /\ i < j => c < d
      BY <1>5, <2>1, Zenon DEF InOrder
    <3> QED BY <1>1, <1>4, <1>5, <2>1, <3>1, <3>2 DEF InOrder
  <2>4. Kept(t)'
    BY <1>1, <1>5, <2>1, <2>2 DEF Kept
  <2> QED BY <2>3, <2>4
<1>7. CASE t = u
  <2>1. \A i : ~ToTell(i, t)'
    <3>1. \A i : ~ToTell(i, t)
      BY <1>1, <1>5, <1>7, Zenon DEF StagesOf
    <3> QED BY <1>4, <3>1
  <2>2. \A i, d : Piece(i, t, d)' => d \in 1 .. p
    BY <1>1, <1>4, <1>5, <1>7 DEF InOrder, p
  <2>3. ASSUME NEW i, NEW j, NEW c, NEW d, Piece(i, t, c)', Piece(j, t, d)', i < j
        PROVE  c < d
    <3>1. CASE Piece(i, t, c) /\ Piece(j, t, d)
      BY <1>5, <2>3, <3>1 DEF InOrder
    <3>2. CASE Piece(i, t, c) /\ d = p
      <4>1. c \in 1 .. pieces[t]
        BY <1>5, <3>2 DEF InOrder
      <4> QED BY <1>1, <1>7, <3>2, <4>1 DEF p
    <3>3. CASE i = Len(operationQueue) + 1
      BY <1>4, <2>3, <3>3
    <3> QED BY <1>4, <2>3, <3>1, <3>2, <3>3
  <2>4. InOrder(t)'
    BY <1>1, <1>7, <2>1, <2>2, <2>3 DEF InOrder
  <2>5. ASSUME NEW n \in 0 .. pieces[t], Received(t, n)
        PROVE  Received(t, n)' /\ n \in 0 .. pieces'[t]
    <3>1. \A i, d : Piece(i, t, d)' => d > n
      BY <1>1, <1>4, <1>7, <2>5 DEF Received, p
    <3>2. ASSUME NEW d \in n + 1 .. pieces'[t] PROVE \E i \in Nat : Piece(i, t, d)'
      <4>1. CASE d = p
        BY <1>4, <1>7, <4>1
      <4>2. CASE d # p
        <5>1. d \in n + 1 .. pieces[t]
          BY <1>1, <1>7, <4>2 DEF p
        <5> QED BY <1>4, <2>5, <5>1 DEF Received
      <4> QED BY <4>1, <4>2
    <3> QED BY <1>1, <1>7, <3>1, <3>2 DEF Received, p
  <2>6. Kept(t)'
    BY <1>1, <1>5, <2>5 DEF Kept
  <2> QED BY <2>4, <2>6
<1> QED BY <1>6, <1>7

LEMMA PiecesMade ==
  ASSUME IInv, NEW u \in Task, dataTaskWithHTTPMethod(u)
  PROVE  Pieces'
<1>1. /\ state[u] = "none" /\ state' = [state EXCEPT ![u] = "made"]
      /\ UNCHANGED <<pieces, delegates, operationQueue>>
  BY DEF dataTaskWithHTTPMethod, queueVars
<1>2. (\A i, t : ToTell(i, t)' <=> ToTell(i, t)) /\ (\A i, t, d : Piece(i, t, d)' <=> Piece(i, t, d))
  BY <1>1 DEF ToTell, Piece
<1>3. \A t, n : Received(t, n)' <=> Received(t, n)
  BY <1>1, <1>2 DEF Received
<1>4. \A t \in Task : state'[t] \in {"none", "made"} <=> state[t] \in {"none", "made"}
  BY <1>1 DEF IInv, Types
<1> SUFFICES ASSUME NEW t \in Task PROVE InOrder(t)' /\ Kept(t)'
  BY DEF Pieces
<1>5. InOrder(t) /\ Kept(t)
  BY DEF IInv, Pieces
<1>6. InOrder(t)'
  BY <1>1, <1>2, <1>4, <1>5, Zenon DEF InOrder
<1>7. state'[t] \notin {"none", "made"} <=> state[t] \notin {"none", "made"}
  BY <1>4
<1>8. Kept(t)'
  BY <1>1, <1>3, <1>5, <1>7, Zenon DEF Kept
<1> QED BY <1>6, <1>8

LEMMA PiecesAdded ==
  ASSUME IInv, NEW u \in Task, addDelegateForDataTask(u)
  PROVE  Pieces'
<1> DEFINE x == [mutableData |-> <<>>, completionHandler |-> TRUE]
<1>1. /\ state[u] = "made" /\ state' = [state EXCEPT ![u] = "resumed"]
      /\ delegates' = With(delegates, u, x)
      /\ UNCHANGED <<pieces, operationQueue>>
  BY DEF addDelegateForDataTask, queueVars
<1>2. (\A i, t : ToTell(i, t)' <=> ToTell(i, t)) /\ (\A i, t, d : Piece(i, t, d)' <=> Piece(i, t, d))
  BY <1>1 DEF ToTell, Piece
<1>3. \A t, n : Received(t, n)' <=> Received(t, n)
  BY <1>1, <1>2 DEF Received
<1>4. /\ \A t \in Task : t # u => state'[t] = state[t]
      /\ state'[u] = "resumed"
  BY <1>1 DEF IInv, Types
<1>5. /\ \A t : t \in DOMAIN delegates' <=> t \in DOMAIN delegates \/ t = u
      /\ delegates'[u] = x
      /\ \A t \in DOMAIN delegates : t # u => delegates'[t] = delegates[t]
  BY <1>1 DEF With
<1> SUFFICES ASSUME NEW t \in Task PROVE InOrder(t)' /\ Kept(t)'
  BY DEF Pieces
<1>6. InOrder(t) /\ Kept(t)
  BY DEF IInv, Pieces
<1>7. CASE t # u
  <2>1. /\ state'[t] = state[t] /\ pieces'[t] = pieces[t]
        /\ t \in DOMAIN delegates' => t \in DOMAIN delegates /\ delegates'[t] = delegates[t]
    BY <1>1, <1>4, <1>5, <1>7
  <2>2. InOrder(t)'
    BY <1>1, <1>2, <1>6, <2>1, Zenon DEF InOrder
  <2>3. Kept(t)'
    BY <1>3, <1>6, <2>1, Zenon DEF Kept
  <2> QED BY <2>2, <2>3
<1>8. CASE t = u
  <2>1. pieces[t] = 0 /\ pieces'[t] = 0
    BY <1>1, <1>6, <1>8 DEF InOrder
  <2>2. InOrder(t)'
    BY <1>1, <1>2, <1>4, <1>6, <1>8, Zenon DEF InOrder
  <2>3. \A i, d : ~Piece(i, t, d)'
    BY <1>2, <1>6, <2>1 DEF InOrder
  <2>4. Received(t, 0)'
    BY <2>1, <2>3 DEF Received
  <2>5. <<>> = [k \in 1 .. 0 |-> k] /\ 0 \in 0 .. pieces'[t]
    BY <2>1
  <2>6. delegates'[t].mutableData = <<>> /\ state'[t] = "resumed"
    BY <1>4, <1>5, <1>8
  <2>7. Kept(t)'
    BY <2>4, <2>5, <2>6 DEF Kept
  <2> QED BY <2>2, <2>7
<1> QED BY <1>7, <1>8

\* The completion of a task with a delegate goes, its delegate is to.
LEMMA PiecesCompleting ==
  ASSUME IInv, didCompleteWithError, Head(operationQueue).task \in DOMAIN delegates
  PROVE  Pieces'
<1> DEFINE u == Head(operationQueue).task
           x == [kind |-> "remove", task |-> u]
<1>1. /\ operationQueue # <<>> /\ UNCHANGED <<state, pieces, delegates>>
      /\ x \in Events /\ x.kind = "remove" /\ operationQueue' = <<x>> \o Tail(operationQueue)
  BY Completing
<1>2. u \in Task /\ ToTell(1, u)
  BY HeadComplete DEF IInv, didCompleteWithError
<1> HIDE DEF u, x
<1>3. /\ \A i, t : ToTell(i, t)' => ToTell(i, t) /\ operationQueue'[i] = operationQueue[i]
      /\ \A i, t, d : Piece(i, t, d)' <=> Piece(i, t, d) /\ i # 1
  BY <1>1, ReplaceStep DEF IInv
<1>4. \A t, d : ~Piece(1, t, d)
  BY <1>2, Kinds DEF Piece, ToTell
<1>5. \A i, t, d : Piece(i, t, d)' <=> Piece(i, t, d)
  BY <1>3, <1>4
<1>6. \A t, n : Received(t, n)' <=> Received(t, n)
  BY <1>1, <1>5 DEF Received
<1> SUFFICES ASSUME NEW t \in Task PROVE InOrder(t)' /\ Kept(t)'
  BY DEF Pieces
<1>7. InOrder(t) /\ Kept(t)
  BY DEF IInv, Pieces
<1>8. InOrder(t)'
  BY <1>1, <1>3, <1>5, <1>7, Zenon DEF InOrder
<1>9. Kept(t)'
  BY <1>1, <1>6, <1>7, Zenon DEF Kept
<1> QED BY <1>8, <1>9

\* The delegate gets the piece it waits for.
LEMMA NextPiece ==
  ASSUME IInv, NEW t \in Task, NEW p, Piece(1, t, p), NEW n \in 0 .. pieces[t], Received(t, n)
  PROVE  p = n + 1 /\ n + 1 \in 0 .. pieces[t]
<1>1. InOrder(t) /\ pieces[t] \in Nat
  BY DEF IInv, Pieces, Types
<1>2. p \in 1 .. pieces[t] /\ p > n
  BY <1>1, Zenon DEF InOrder, Received
<1>3. n + 1 \in n + 1 .. pieces[t]
  BY <1>1, <1>2
<1>4. PICK i \in Nat : Piece(i, t, n + 1)
  BY <1>3 DEF Received
<1>5. i >= 1
  BY <1>4 DEF Piece, IInv, Types
<1>6. CASE i = 1
  BY <1>3, <1>4, <1>6, Kinds DEF Piece
<1>7. CASE i > 1
  <2>1. p < n + 1
    BY <1>1, <1>4, <1>7 DEF InOrder
  <2> QED BY <1>2, <2>1
<1> QED BY <1>5, <1>6, <1>7

LEMMA PiecesReceived ==
  ASSUME IInv, didReceiveData
  PROVE  Pieces'
<1> DEFINE e == Head(operationQueue)
           u == e.task
           p == e.data
<1>1. /\ operationQueue # <<>> /\ operationQueue' = Tail(operationQueue)
      /\ UNCHANGED <<state, pieces>> /\ Told("data")
      /\ delegates' = IF u \in DOMAIN delegates
                      THEN [delegates EXCEPT ![u].mutableData = Append(@, p)] ELSE delegates
  BY DEF didReceiveData, Told, sessionVars
<1>2. u \in Task /\ Piece(1, u, p)
  BY <1>1, HeadPiece DEF IInv
<1>3. \A t, d : Piece(1, t, d) => t = u /\ d = p
  BY <1>2, Kinds DEF Piece
<1>4. /\ DOMAIN delegates' = DOMAIN delegates
      /\ \A t \in DOMAIN delegates : t # u => delegates'[t] = delegates[t]
      /\ u \in DOMAIN delegates =>
           /\ delegates'[u].completionHandler = delegates[u].completionHandler
           /\ delegates'[u].mutableData = Append(delegates[u].mutableData, p)
  <2> HIDE DEF u, p
  <2>1. \A t \in DOMAIN delegates : delegates[t] \in Delegate
    BY DEF IInv, Types
  <2> QED BY <1>1, <2>1 DEF Delegate
<1> HIDE DEF e, u, p
<1> SUFFICES ASSUME NEW t \in Task PROVE InOrder(t)' /\ Kept(t)'
  BY DEF Pieces
<1>5. InOrder(t)'
  BY <1>1, InOrderAfterTail
<1>6. Kept(t)
  BY DEF IInv, Pieces
<1>7. ASSUME t \in DOMAIN delegates', delegates'[t].completionHandler
      PROVE  /\ state'[t] \notin {"none", "made"}
             /\ \E n \in 0 .. pieces'[t] :
                  delegates'[t].mutableData = [k \in 1 .. n |-> k] /\ Received(t, n)'
  <2>1. t \in DOMAIN delegates /\ delegates[t].completionHandler
    BY <1>4, <1>7
  <2>2. state[t] \notin {"none", "made"}
    BY <1>6, <2>1 DEF Kept
  <2>3. PICK n \in 0 .. pieces[t] : delegates[t].mutableData = [k \in 1 .. n |-> k] /\ Received(t, n)
    BY <1>6, <2>1 DEF Kept
  <2>4. n \in Nat /\ pieces[t] \in Nat
    BY DEF IInv, Types
  <2>5. CASE t # u
    <3>1. Received(t, n)'
      BY <1>1, <1>3, <2>3, <2>4, <2>5, ReceivedAfterTail
    <3> QED BY <1>1, <1>4, <2>1, <2>2, <2>3, <2>5, <3>1
  <2>6. CASE t = u
    <3>1. p = n + 1 /\ n + 1 \in 0 .. pieces[t]
      BY <1>2, <2>3, <2>6, NextPiece
    <3>2. delegates'[t].mutableData = [k \in 1 .. n + 1 |-> k]
      <4>1. Append([k \in 1 .. n |-> k], n + 1) = [k \in 1 .. n + 1 |-> k]
        BY <2>4
      <4> QED BY <1>4, <2>1, <2>3, <2>6, <3>1, <4>1
    <3>3. \A i, d : Piece(i, t, d)' <=> i \in Nat /\ i >= 1 /\ Piece(i + 1, t, d)
      BY <1>1, TailStep DEF IInv
    <3>4. InOrder(t) /\ Piece(1, t, n + 1)
      BY <1>2, <2>6, <3>1 DEF IInv, Pieces
    <3>5. ASSUME NEW i, NEW d, Piece(i, t, d)' PROVE d > n + 1
      <4>1. Piece(i + 1, t, d) /\ 1 < i + 1
        BY <3>3, <3>5
      <4>2. n + 1 < d /\ d \in 1 .. pieces[t]
        BY <3>4, <4>1 DEF InOrder
      <4> QED BY <2>4, <4>2
    <3>6. ASSUME NEW d \in (n + 1) + 1 .. pieces'[t] PROVE \E i \in Nat : Piece(i, t, d)'
      <4>1. d \in n + 1 .. pieces[t] /\ d # n + 1
        BY <1>1, <2>4, <3>6
      <4>2. PICK i \in Nat : Piece(i, t, d)
        BY <2>3, <4>1 DEF Received
      <4>3. i # 1
        BY <1>3, <3>1, <4>1, <4>2
      <4>4. i >= 1
        BY <4>2 DEF Piece, IInv, Types
      <4>5. i - 1 \in Nat /\ i - 1 >= 1 /\ (i - 1) + 1 = i
        BY <4>3, <4>4
      <4> QED BY <3>3, <4>2, <4>5
    <3>7. Received(t, n + 1)'
      BY <3>5, <3>6 DEF Received
    <3> QED BY <1>1, <2>2, <3>1, <3>2, <3>7
  <2> QED BY <2>5, <2>6
<1> QED BY <1>5, <1>7 DEF Kept

-----------------------------------------------------------------------------
(* The invariant                                                           *)

LEMMA Initially == Init => IInv
<1> SUFFICES ASSUME Init PROVE IInv
  OBVIOUS
<1>1. Types
  BY SessionAssumption DEF Init, Types
<1>2. \A t \in Task : StagesOf(t)
  BY DEF Init, StagesOf, ToTell, ToRead, ToRun, WasRun
<1>3. \A t \in Task : InOrder(t) /\ Kept(t)
  BY SessionAssumption DEF Init, InOrder, Kept, ToTell, Piece
<1>4. Answers
  BY DEF Init, Answers
<1> QED BY <1>1, <1>2, <1>3, <1>4 DEF IInv, Stages, Pieces

\* The handler of a task that was not answered is called.
LEMMA Answering ==
  ASSUME IInv, completionHandler, NEW h, h = Head(mainQueue)
  PROVE  /\ h = mainQueue[1] /\ 1 \in DOMAIN mainQueue /\ h \in Completions
         /\ ~WasRun(h.task) /\ state[h.task] = "over"
         /\ h.completionHandler =>
              answered' = [t \in DOMAIN answered \cup {h.task} |->
                            IF t = h.task THEN <<h.answer>> ELSE answered[t]]
         /\ ~h.completionHandler => answered' = answered
<1>1. mainQueue # <<>> /\ mainQueue' = Tail(mainQueue)
  BY DEF completionHandler
<1>2. h = mainQueue[1] /\ h \in Completions /\ ToRun(1, h.task)
  BY <1>1, RunTaken DEF IInv
<1>3. h.task \in Task
  BY <1>2 DEF Completions
<1>4. ~WasRun(h.task) /\ state[h.task] = "over"
  BY <1>2, <1>3, Zenon DEF IInv, Stages, StagesOf
<1>5. h.completionHandler => answered' = With(answered, h.task, Append(<<>>, h.answer))
  BY <1>4 DEF completionHandler, WasRun
<1>6. Append(<<>>, h.answer) = <<h.answer>>
  OBVIOUS
<1>7. ~h.completionHandler => answered' = answered
  BY DEF completionHandler
<1> QED BY <1>2, <1>4, <1>5, <1>6, <1>7 DEF With, ToRun

LEMMA TypesStep == IInv /\ Next => Types'
<1> SUFFICES ASSUME IInv, Next PROVE Types'
  OBVIOUS
<1>1. Types
  BY DEF IInv
<1>2. ASSUME NEW u \in Task, dataTaskWithHTTPMethod(u) PROVE Types'
  BY <1>1, <1>2 DEF dataTaskWithHTTPMethod, queueVars, Types
<1>3. ASSUME NEW u \in Task, addDelegateForDataTask(u) PROVE Types'
  <2>1. [mutableData |-> <<>>, completionHandler |-> TRUE] \in Delegate
    BY DEF Delegate
  <2>2. DOMAIN delegates' \subseteq Task /\ delegates' \in [DOMAIN delegates' -> Delegate]
    BY <1>1, <1>3, <2>1 DEF addDelegateForDataTask, With, Types
  <2> QED BY <1>1, <1>3, <2>2 DEF addDelegateForDataTask, queueVars, Types
<1>4. CASE completionHandler
  <2> DEFINE h == Head(mainQueue)
  <2>1. h \in Completions /\ (h.completionHandler => 
              answered' = [t \in DOMAIN answered \cup {h.task} |->
                            IF t = h.task THEN <<h.answer>> ELSE answered[t]])
          /\ (~h.completionHandler => answered' = answered)
    BY <1>4, Answering
  <2>2. h.task \in Task /\ h.completionHandler \in BOOLEAN
    BY <2>1 DEF Completions
  <2> HIDE DEF h
  <2>3. DOMAIN answered' \subseteq Task /\ answered' = [t \in DOMAIN answered' |-> answered'[t]]
    BY <1>1, <2>1, <2>2 DEF Types
  <2>4. mainQueue' \in Seq(Completions) /\ UNCHANGED <<sessionVars, delegates, operationQueue, processing>>
    BY <1>1, <1>4, RunTaken DEF completionHandler
  <2> QED BY <1>1, <2>3, <2>4 DEF sessionVars, Types
<1>5. ASSUME NEW u \in Task, dataArrives(u) PROVE Types'
  <2>1. pieces[u] + 1 \in 1 .. MaxPieces /\ pieces' = [pieces EXCEPT ![u] = @ + 1]
    BY <1>1, <1>5, SessionAssumption DEF dataArrives, Types
  <2>2. pieces' \in [Task -> 0 .. MaxPieces] /\ pieces'[u] = pieces[u] + 1
    BY <1>1, <2>1, SessionAssumption DEF Types
  <2>3. Data(u, pieces'[u]) \in Events
    BY <2>1, <2>2 DEF Events
  <2>4. operationQueue' \in Seq(Events)
    BY <1>1, <1>5, <2>3 DEF dataArrives, Tell, Data, Types
  <2> QED BY <1>1, <1>5, <2>2, <2>4 DEF dataArrives, Types
<1>6. ASSUME NEW u \in Task, taskEnds(u) PROVE Types'
  <2>1. PICK e \in BOOLEAN : operationQueue' = Append(operationQueue, Complete(u, e))
    BY <1>6 DEF taskEnds, Tell, Complete
  <2>2. Complete(u, e) \in Events
    BY DEF Events
  <2>3. operationQueue' \in Seq(Events)
    BY <1>1, <2>1, <2>2 DEF Types
  <2> QED BY <1>1, <1>6, <2>3 DEF taskEnds, Types
<1>7. CASE listsTasks
  <2> DEFINE x == [kind |-> "tasks", tasks |->
                    IF ListsLater THEN {t \in Task : state[t] \in {"made", "resumed"}} ELSE {}]
  <2>1. x \in Events
    BY DEF Events
  <2>2. operationQueue' = Append(operationQueue, x) /\ UNCHANGED <<state, pieces, delegates, processing, mainQueue, answered>>
    BY <1>7 DEF listsTasks, Tell
  <2> HIDE DEF x
  <2>3. operationQueue' \in Seq(Events)
    BY <1>1, <2>1, <2>2 DEF Types
  <2> QED BY <1>1, <2>2, <2>3 DEF Types
<1>8. CASE addDelegates
  <2>1. operationQueue # <<>> /\ Head(operationQueue).kind = "tasks"
    BY <1>8 DEF addDelegates, Told
  <2>2. Head(operationQueue).tasks \in SUBSET Task /\ Tail(operationQueue) \in Seq(Events)
    BY <1>1, <2>1, HeadStep, EventKinds
  <2>3. DOMAIN delegates' \subseteq Task /\ delegates' \in [DOMAIN delegates' -> Delegate]
    <3>1. [mutableData |-> <<>>, completionHandler |-> FALSE] \in Delegate
      BY DEF Delegate
    <3> QED BY <1>1, <1>8, <2>2, <3>1 DEF addDelegates, Types
  <2> QED BY <1>1, <1>8, <2>2, <2>3 DEF addDelegates, sessionVars, Types
<1>9. CASE didReceiveData
  <2> DEFINE e == Head(operationQueue)
  <2>1. operationQueue # <<>> /\ Told("data") /\ operationQueue' = Tail(operationQueue)
        /\ UNCHANGED <<sessionVars, processing, mainQueue, answered>>
        /\ delegates' = IF e.task \in DOMAIN delegates
                        THEN [delegates EXCEPT ![e.task].mutableData = Append(@, e.data)] ELSE delegates
    BY <1>9 DEF didReceiveData, Told
  <2>2. e.data \in Nat /\ Tail(operationQueue) \in Seq(Events)
    BY <1>1, <2>1, HeadPiece, HeadStep
  <2> HIDE DEF e
  <2>3. ASSUME e.task \in DOMAIN delegates
        PROVE  delegates' = [delegates EXCEPT ![e.task] =
                 [delegates[e.task] EXCEPT !.mutableData = Append(delegates[e.task].mutableData, e.data)]]
    BY <2>1, <2>3
  <2>4. ASSUME e.task \in DOMAIN delegates
        PROVE  [delegates[e.task] EXCEPT !.mutableData = Append(delegates[e.task].mutableData, e.data)]
                 \in Delegate
    <3>1. delegates[e.task] \in Delegate
      BY <1>1, <2>4 DEF Types
    <3>2. Append(delegates[e.task].mutableData, e.data) \in Seq(Nat)
      BY <2>2, <3>1 DEF Delegate
    <3> QED BY <3>1, <3>2 DEF Delegate
  <2>5. DOMAIN delegates' \subseteq Task /\ delegates' \in [DOMAIN delegates' -> Delegate]
    BY <1>1, <2>1, <2>3, <2>4 DEF Types
  <2> QED BY <1>1, <2>1, <2>2, <2>5 DEF sessionVars, Types
<1>10. CASE didCompleteWithError
  <2>1. CASE Head(operationQueue).task \notin DOMAIN delegates
    <3>1. operationQueue' \in Seq(Events)
      BY <1>1, <1>10, <2>1, Dropping, TailStep
    <3>2. UNCHANGED <<state, pieces, delegates, processing, mainQueue, answered>>
      BY <1>10, <2>1, Dropping
    <3> QED BY <1>1, <3>1, <3>2 DEF Types
  <2>2. CASE Head(operationQueue).task \in DOMAIN delegates
    <3> DEFINE e == Head(operationQueue)
               x == [kind |-> "remove", task |-> e.task]
               C(a) == Completion(e.task, a)
               md == delegates[e.task].mutableData
    <3>1. /\ operationQueue # <<>> /\ UNCHANGED <<state, pieces, delegates, answered>>
          /\ x \in Events /\ x.kind = "remove"
          /\ operationQueue' = <<x>> \o Tail(operationQueue)
          /\ C(Failure) \in Completions /\ C(md) \in Completions
          /\ \/ processing' = processing /\ mainQueue' = Append(mainQueue, C(Failure))
             \/ mainQueue' = mainQueue /\ processing' = processing \cup {C(md)}
      BY <1>10, <2>2, Completing
    <3> HIDE DEF x, C, md
    <3>2. operationQueue' \in Seq(Events)
      BY <1>1, <3>1, ReplaceStep
    <3>3. CASE processing' = processing /\ mainQueue' = Append(mainQueue, C(Failure))
      <4>1. mainQueue' \in Seq(Completions)
        BY <1>1, <3>1, <3>3, RunAppended
      <4> QED BY <1>1, <3>1, <3>2, <3>3, <4>1 DEF Types
    <3>4. CASE mainQueue' = mainQueue /\ processing' = processing \cup {C(md)}
      BY <1>1, <3>1, <3>2, <3>4 DEF Types
    <3> QED BY <3>1, <3>3, <3>4
  <2> QED BY <2>1, <2>2
<1>11. CASE removeDelegateForTask
  <2>1. operationQueue' \in Seq(Events)
    BY <1>1, <1>11, TailStep DEF removeDelegateForTask, Told
  <2>2. DOMAIN delegates' \subseteq Task /\ delegates' \in [DOMAIN delegates' -> Delegate]
    BY <1>1, <1>11 DEF removeDelegateForTask, Without, Types
  <2> QED BY <1>1, <1>11, <2>1, <2>2 DEF removeDelegateForTask, sessionVars, Types
<1>12. ASSUME NEW c \in processing, responseObjectForResponse(c) PROVE Types'
  <2>1. PICK a \in {c.answer, Failure} : mainQueue' = Append(mainQueue, [c EXCEPT !.answer = a])
    BY <1>12 DEF responseObjectForResponse
  <2>2. c \in Completions /\ c.answer \in Seq(Nat) /\ <<>> \in Seq(Nat)
    BY <1>1 DEF Types, Completions
  <2>3. a \in Seq(Nat)
    BY <2>2 DEF Failure
  <2>4. [c EXCEPT !.answer = a] \in Completions
    BY <2>2, <2>3 DEF Completions
  <2>5. mainQueue' \in Seq(Completions)
    BY <1>1, <2>1, <2>4, RunAppended
  <2> QED BY <1>1, <1>12, <2>5 DEF responseObjectForResponse, sessionVars, Types
<1> QED BY <1>2, <1>3, <1>4, <1>5, <1>6, <1>7, <1>8, <1>9, <1>10, <1>11, <1>12
       DEF Next, Session, Operation, Main

LEMMA StagesStep == IInv /\ Next => Stages'
<1> SUFFICES ASSUME IInv, Next PROVE Stages'
  OBVIOUS
<1>1. ASSUME NEW u \in Task, dataTaskWithHTTPMethod(u) PROVE Stages'
  BY <1>1, StagesAfterState DEF dataTaskWithHTTPMethod, queueVars
<1>2. ASSUME NEW u \in Task, addDelegateForDataTask(u) PROVE Stages'
  BY <1>2, StagesAfterState DEF addDelegateForDataTask, queueVars
<1>3. CASE completionHandler
  BY <1>3, StagesCompletionHandler
<1>4. ASSUME NEW u \in Task, dataArrives(u) PROVE Stages'
  <2>1. /\ pieces[u] < MaxPieces /\ pieces[u] \in 0 .. MaxPieces /\ pieces'[u] = pieces[u] + 1
        /\ UNCHANGED <<state, processing, mainQueue, answered>>
        /\ operationQueue' = Append(operationQueue, Data(u, pieces'[u]))
    BY <1>4 DEF dataArrives, Tell, Data, IInv, Types
  <2>2. Data(u, pieces'[u]) \in Events /\ Data(u, pieces'[u]).kind # "complete"
    BY <2>1, SessionAssumption, Kinds DEF Events
  <2> QED BY <2>1, <2>2, StagesAfterAppend
<1>5. ASSUME NEW u \in Task, taskEnds(u) PROVE Stages'
  BY <1>5, StagesTaskEnds
<1>6. CASE listsTasks
  <2> DEFINE x == [kind |-> "tasks", tasks |->
                    IF ListsLater THEN {t \in Task : state[t] \in {"made", "resumed"}} ELSE {}]
  <2>1. x \in Events /\ x.kind # "complete"
    BY DEF Events
  <2>2. /\ operationQueue' = Append(operationQueue, x)
        /\ UNCHANGED <<state, processing, mainQueue, answered>>
    BY <1>6 DEF listsTasks, Tell
  <2> QED BY <2>1, <2>2, StagesAfterAppend
<1>7. CASE addDelegates
  BY <1>7, StagesAfterTail DEF addDelegates, Told, sessionVars
<1>8. CASE didReceiveData
  BY <1>8, StagesAfterTail DEF didReceiveData, Told, sessionVars
<1>9. CASE didCompleteWithError
  BY <1>9, StagesComplete
<1>10. CASE removeDelegateForTask
  BY <1>10, StagesAfterTail DEF removeDelegateForTask, Told, sessionVars
<1>11. ASSUME NEW c \in processing, responseObjectForResponse(c) PROVE Stages'
  BY <1>11, StagesRead
<1> QED BY <1>1, <1>2, <1>3, <1>4, <1>5, <1>6, <1>7, <1>8, <1>9, <1>10, <1>11
       DEF Next, Session, Operation, Main

\* Of another kind, the first event is no piece.
LEMMA NoPiece ==
  ASSUME IInv, operationQueue # <<>>, Head(operationQueue).kind # "data"
  PROVE  \A t, d : ~Piece(1, t, d)
<1>1. Head(operationQueue) = operationQueue[1]
  BY HeadStep DEF IInv
<1> QED BY <1>1, Kinds DEF Piece

LEMMA PiecesStep == IInv /\ Next => Pieces'
<1> SUFFICES ASSUME IInv, Next PROVE Pieces'
  OBVIOUS
<1>1. ASSUME NEW u \in Task, dataTaskWithHTTPMethod(u) PROVE Pieces'
  BY <1>1, PiecesMade
<1>2. ASSUME NEW u \in Task, addDelegateForDataTask(u) PROVE Pieces'
  BY <1>2, PiecesAdded
<1>3. CASE completionHandler
  BY <1>3, PiecesUnchanged DEF completionHandler, sessionVars
<1>4. ASSUME NEW u \in Task, dataArrives(u) PROVE Pieces'
  BY <1>4, PiecesArrives
<1>5. ASSUME NEW u \in Task, taskEnds(u) PROVE Pieces'
  <2>1. PICK e \in BOOLEAN : /\ operationQueue' = Append(operationQueue, Complete(u, e))
                             /\ ~e => pieces[u] = MaxPieces
    BY <1>5 DEF taskEnds, Tell, Complete
  <2> DEFINE x == Complete(u, e)
  <2>2. x \in Events /\ x.kind # "data"
    BY Kinds DEF Events
  <2>3. \A t \in Task : x = Complete(t, FALSE) => pieces[t] = MaxPieces
    <3>1. \A t : x = Complete(t, FALSE) => u = t /\ (e <=> FALSE)
      BY DEF Complete
    <3> QED BY <2>1, <3>1
  <2>4. \A t \in Task : state'[t] \in {"none", "made"} <=> state[t] \in {"none", "made"}
    BY <1>5 DEF taskEnds, IInv, Types
  <2>5. UNCHANGED <<pieces, delegates>> /\ operationQueue' = Append(operationQueue, x)
    BY <1>5, <2>1 DEF taskEnds
  <2> HIDE DEF x
  <2> QED BY <2>2, <2>3, <2>4, <2>5, PiecesAfterAppend
<1>6. CASE listsTasks
  <2> DEFINE x == [kind |-> "tasks", tasks |->
                    IF ListsLater THEN {t \in Task : state[t] \in {"made", "resumed"}} ELSE {}]
  <2>1. x \in Events /\ x.kind # "data" /\ \A t, e : x # Complete(t, e)
    BY DEF Events, Complete
  <2>2. operationQueue' = Append(operationQueue, x) /\ UNCHANGED <<state, pieces, delegates>>
    BY <1>6 DEF listsTasks, Tell
  <2> HIDE DEF x
  <2> QED BY <2>1, <2>2, PiecesAfterAppend
<1>7. CASE addDelegates
  <2>1. /\ operationQueue # <<>> /\ operationQueue' = Tail(operationQueue)
        /\ UNCHANGED <<state, pieces>> /\ Head(operationQueue).kind # "data"
    BY <1>7 DEF addDelegates, Told, sessionVars
  <2>2. \A t \in Task : t \in DOMAIN delegates' /\ delegates'[t].completionHandler =>
          t \in DOMAIN delegates /\ delegates'[t] = delegates[t]
    BY <1>7 DEF addDelegates
  <2> QED BY <2>1, <2>2, NoPiece, PiecesAfterTail
<1>8. CASE didReceiveData
  BY <1>8, PiecesReceived
<1>9. CASE didCompleteWithError
  <2>1. CASE Head(operationQueue).task \notin DOMAIN delegates
    <3>1. /\ operationQueue # <<>> /\ operationQueue' = Tail(operationQueue)
          /\ UNCHANGED <<state, pieces, delegates>>
      BY <1>9, <2>1, Dropping
    <3>2. Head(operationQueue).kind # "data"
      BY <1>9 DEF didCompleteWithError, Told
    <3> QED BY <3>1, <3>2, NoPiece, PiecesAfterTail
  <2> QED BY <1>9, <2>1, PiecesCompleting
<1>10. CASE removeDelegateForTask
  <2>1. /\ operationQueue # <<>> /\ operationQueue' = Tail(operationQueue)
        /\ UNCHANGED <<state, pieces>> /\ Head(operationQueue).kind # "data"
    BY <1>10 DEF removeDelegateForTask, Told, sessionVars
  <2>2. \A t \in DOMAIN delegates' : t \in DOMAIN delegates /\ delegates'[t] = delegates[t]
    BY <1>10 DEF removeDelegateForTask, Without
  <2> QED BY <2>1, <2>2, NoPiece, PiecesAfterTail
<1>11. ASSUME NEW c \in processing, responseObjectForResponse(c) PROVE Pieces'
  BY <1>11, PiecesUnchanged DEF responseObjectForResponse, sessionVars
<1> QED BY <1>1, <1>2, <1>3, <1>4, <1>5, <1>6, <1>7, <1>8, <1>9, <1>10, <1>11
       DEF Next, Session, Operation, Main

LEMMA AnswersUnchanged ==
  ASSUME IInv, UNCHANGED <<processing, mainQueue, answered>> PROVE Answers'
BY DEF IInv, Answers

\* All pieces were received when the completion is told without an error.
LEMMA BodyWhole ==
  ASSUME IInv, NEW t \in DOMAIN delegates, delegates[t].completionHandler, ToTell(1, t),
         operationQueue[1] = Complete(t, FALSE)
  PROVE  delegates[t].mutableData = WholeBody
<1>1. t \in Task /\ pieces[t] \in Nat
  BY DEF IInv, Types
<1>2. InOrder(t) /\ Kept(t)
  BY <1>1 DEF IInv, Pieces
<1>3. pieces[t] = MaxPieces
  BY <1>2 DEF InOrder
<1>4. PICK n \in 0 .. pieces[t] : delegates[t].mutableData = [k \in 1 .. n |-> k] /\ Received(t, n)
  BY <1>2 DEF Kept
<1>5. ASSUME n # MaxPieces PROVE FALSE
  <2>1. n + 1 \in n + 1 .. pieces[t]
    BY <1>1, <1>3, <1>5
  <2>2. PICK i \in Nat : Piece(i, t, n + 1)
    BY <1>4, <2>1 DEF Received
  <2>3. i < 1
    BY <1>2, <2>2 DEF InOrder
  <2> QED BY <2>2, <2>3 DEF Piece, IInv, Types
<1> QED BY <1>4, <1>5 DEF WholeBody

LEMMA AnswersStep == IInv /\ Next => Answers'
<1> SUFFICES ASSUME IInv, Next PROVE Answers'
  OBVIOUS
<1>1. Types /\ Answers
  BY DEF IInv
<1>2. CASE UNCHANGED <<processing, mainQueue, answered>>
  BY <1>2, AnswersUnchanged
<1>3. CASE completionHandler
  <2> DEFINE h == Head(mainQueue)
  <2>1. /\ h = mainQueue[1] /\ 1 \in DOMAIN mainQueue
        /\ h.completionHandler =>
              answered' = [t \in DOMAIN answered \cup {h.task} |->
                            IF t = h.task THEN <<h.answer>> ELSE answered[t]]
        /\ ~h.completionHandler => answered' = answered
    BY <1>3, Answering
  <2>2. h.completionHandler => h.answer \in {WholeBody, Failure}
    BY <1>1, <2>1 DEF Answers
  <2>3. /\ \A i \in DOMAIN mainQueue' : i + 1 \in DOMAIN mainQueue /\ mainQueue'[i] = mainQueue[i + 1]
        /\ processing' = processing
    BY <1>1, <1>3, RunTaken DEF completionHandler
  <2> HIDE DEF h
  <2>4. \A t \in DOMAIN answered' : \E a \in {WholeBody, Failure} : answered'[t] = <<a>>
    BY <1>1, <2>1, <2>2 DEF Answers
  <2>5. \A i \in DOMAIN mainQueue' :
          mainQueue'[i].completionHandler => mainQueue'[i].answer \in {WholeBody, Failure}
    BY <1>1, <2>3 DEF Answers
  <2>6. \A c \in processing' : c.completionHandler => c.answer = WholeBody
    BY <1>1, <2>3 DEF Answers
  <2> QED BY <2>4, <2>5, <2>6 DEF Answers
<1>4. CASE didCompleteWithError
  <2>1. CASE Head(operationQueue).task \notin DOMAIN delegates
    BY <1>2, <1>4, <2>1, Dropping
  <2>2. CASE Head(operationQueue).task \in DOMAIN delegates
    <3> DEFINE e == Head(operationQueue)
               u == e.task
               md == delegates[u].mutableData
               f == Completion(u, Failure)
               b == Completion(u, md)
    <3>1. /\ answered' = answered
          /\ f \in Completions /\ f.answer = Failure
          /\ b.answer = md /\ b.completionHandler = delegates[u].completionHandler
          /\ \/ processing' = processing /\ mainQueue' = Append(mainQueue, f)
             \/ ~e.error /\ mainQueue' = mainQueue /\ processing' = processing \cup {b}
      BY <1>4, <2>2, Completing
    <3>2. e.error \in BOOLEAN /\ ToTell(1, u) /\ operationQueue[1] = Complete(u, e.error)
      BY <1>1, <1>4, HeadComplete DEF didCompleteWithError
    <3>3. ~e.error /\ b.completionHandler => b.answer = WholeBody
      <4>1. ~e.error => operationQueue[1] = Complete(u, FALSE)
        BY <3>2
      <4> QED BY <2>2, <3>1, <3>2, <4>1, BodyWhole
    <3> HIDE DEF e, u, md, f, b
    <3>4. CASE processing' = processing /\ mainQueue' = Append(mainQueue, f)
      <4>1. \A i \in DOMAIN mainQueue' :
              mainQueue'[i] = f \/ (i \in DOMAIN mainQueue /\ mainQueue'[i] = mainQueue[i])
        BY <1>1, <3>1, <3>4, RunAppended
      <4> QED BY <1>1, <3>1, <3>4, <4>1 DEF Answers
    <3>5. CASE ~e.error /\ mainQueue' = mainQueue /\ processing' = processing \cup {b}
      BY <1>1, <3>1, <3>3, <3>5 DEF Answers
    <3> QED BY <3>1, <3>4, <3>5
  <2> QED BY <2>1, <2>2
<1>5. ASSUME NEW c \in processing, responseObjectForResponse(c) PROVE Answers'
  <2>1. PICK a \in {c.answer, Failure} : mainQueue' = Append(mainQueue, [c EXCEPT !.answer = a])
    BY <1>5 DEF responseObjectForResponse
  <2> DEFINE d == [c EXCEPT !.answer = a]
  <2>2. c \in Completions /\ c.answer \in Seq(Nat) /\ <<>> \in Seq(Nat)
    BY <1>1 DEF Types, Completions
  <2>3. a \in Seq(Nat)
    BY <2>2 DEF Failure
  <2>4. d \in Completions /\ d.answer = a /\ d.completionHandler = c.completionHandler
    BY <2>2, <2>3 DEF Completions
  <2>5. d.completionHandler => d.answer \in {WholeBody, Failure}
    BY <1>1, <2>1, <2>4 DEF Answers
  <2>6. mainQueue' = Append(mainQueue, d)
    BY <2>1
  <2> HIDE DEF d
  <2>7. \A i \in DOMAIN mainQueue' :
          mainQueue'[i] = d \/ (i \in DOMAIN mainQueue /\ mainQueue'[i] = mainQueue[i])
    BY <1>1, <2>4, <2>6, RunAppended
  <2>8. processing' \subseteq processing /\ answered' = answered
    BY <1>5 DEF responseObjectForResponse
  <2> QED BY <1>1, <2>5, <2>7, <2>8 DEF Answers
<1> QED BY <1>2, <1>3, <1>4, <1>5
       DEF Next, Session, Operation, Main, dataTaskWithHTTPMethod, addDelegateForDataTask,
           dataArrives, taskEnds, listsTasks, addDelegates, didReceiveData,
           removeDelegateForTask, queueVars

\* The invariant holds in every state.
THEOREM Invariance == Spec => []IInv
<1>1. IInv /\ [Next]_vars => IInv'
  <2> SUFFICES ASSUME IInv, [Next]_vars PROVE IInv'
    OBVIOUS
  <2>1. CASE Next
    BY <2>1, TypesStep, StagesStep, PiecesStep, AnswersStep DEF IInv
  <2>2. CASE UNCHANGED vars
    <3>1. /\ UNCHANGED <<state, pieces, listing, delegates, operationQueue, processing, mainQueue, answered>>
      BY <2>2 DEF vars, sessionVars, queueVars
    <3>2. Types'
      BY <3>1 DEF IInv, Types
    <3>3. Pieces' /\ Answers'
      BY <3>1, PiecesUnchanged, AnswersUnchanged
    <3>4. \A t \in Task : StagesOf(t)'
      BY <3>1 DEF IInv, Stages, StagesOf, ToTell, ToRead, ToRun, WasRun
    <3> QED BY <3>2, <3>3, <3>4 DEF IInv, Stages
  <2> QED BY <2>1, <2>2
<1> QED BY Initially, <1>1, PTL DEF Spec

-----------------------------------------------------------------------------
(* The refinement                                                          *)

\* The answers of Requests.
Bar == [t \in DOMAIN answered |-> IF Len(answered[t]) = 1 THEN answered[t][1] ELSE Again]

\* The completion of a task with a handler is its answer.
LEMMA HandlerAnswers ==
  ASSUME IInv, completionHandler
  PROVE  \/ UNCHANGED <<state, answered>>
         \/ \E t \in Task, a \in {WholeBody, Failure} :
              /\ state[t] # "none" /\ t \notin DOMAIN answered /\ state' = state
              /\ Bar' = [u \in DOMAIN answered \cup {t} |-> IF u = t THEN a ELSE Bar[u]]
<1> DEFINE h == Head(mainQueue)
<1>1. /\ h = mainQueue[1] /\ 1 \in DOMAIN mainQueue /\ h \in Completions
      /\ ~WasRun(h.task) /\ state[h.task] = "over"
      /\ h.completionHandler =>
              answered' = [t \in DOMAIN answered \cup {h.task} |->
                            IF t = h.task THEN <<h.answer>> ELSE answered[t]]
      /\ ~h.completionHandler => answered' = answered
  BY Answering
<1>2. h.task \in Task /\ state' = state
  BY <1>1 DEF Completions, completionHandler, sessionVars
<1>3. h.completionHandler => h.answer \in {WholeBody, Failure}
  BY <1>1 DEF IInv, Answers
<1> HIDE DEF h
<1>4. CASE ~h.completionHandler
  BY <1>1, <1>2, <1>4
<1>5. CASE h.completionHandler
  <2>1. answered' = [t \in DOMAIN answered \cup {h.task} |->
                      IF t = h.task THEN <<h.answer>> ELSE answered[t]]
    BY <1>1, <1>5
  <2>2. DOMAIN answered' = DOMAIN answered \cup {h.task}
    BY <2>1
  <2>3. \A u \in DOMAIN answered' : (IF Len(answered'[u]) = 1 THEN answered'[u][1] ELSE Again)
                                      = IF u = h.task THEN h.answer ELSE Bar[u]
    <3>1. Len(<<h.answer>>) = 1 /\ <<h.answer>>[1] = h.answer
      OBVIOUS
    <3>2. answered'[h.task] = <<h.answer>>
      BY <2>1
    <3>3. \A u \in DOMAIN answered : u # h.task => answered'[u] = answered[u]
      BY <2>1
    <3> QED BY <2>2, <3>1, <3>2, <3>3 DEF Bar
  <2>4. Bar' = [u \in DOMAIN answered \cup {h.task} |-> IF u = h.task THEN h.answer ELSE Bar[u]]
    BY <2>2, <2>3 DEF Bar
  <2> QED BY <1>1, <1>2, <1>3, <1>5, <2>4 DEF WasRun
<1> QED BY <1>4, <1>5

\* The session manager implements Requests: whatever the order of its queues, a
\* task is answered once at most, with its whole body or a failure
\* (AFURLSessionManager.m:250-318, 1082-1098).
THEOREM TasksAnsweredOnce == Spec => AnsweredOnce
<1> DEFINE sentBar == {t \in Task : state[t] # "none"}
<1>1. Init => Contract!Init
  <2> SUFFICES ASSUME Init PROVE Contract!Init
    OBVIOUS
  <2>1. sentBar = {} /\ DOMAIN answered = {}
    BY DEF Init
  <2> QED BY <2>1 DEF Contract!Init
<1>2. IInv /\ [Next]_vars => [Contract!Next]_Contract!vars
  <2> SUFFICES ASSUME IInv, [Next]_vars PROVE [Contract!Next]_Contract!vars
    OBVIOUS
  <2>1. CASE UNCHANGED <<state, answered>>
    BY <2>1 DEF Contract!vars
  <2>2. ASSUME NEW u \in Task, state[u] # "none", NEW v, v # "none",
               state' = [state EXCEPT ![u] = v], answered' = answered
        PROVE  UNCHANGED Contract!vars
    <3>1. \A t \in Task : state'[t] # "none" <=> state[t] # "none"
      BY <2>2 DEF IInv, Types
    <3>2. sentBar' = sentBar
      BY <3>1
    <3> QED BY <2>2, <3>2 DEF Contract!vars
  <2>3. ASSUME NEW u \in Task, dataTaskWithHTTPMethod(u) PROVE Contract!Next
    <3>1. /\ state[u] = "none" /\ answered' = answered
          /\ \A t \in Task : state'[t] # "none" <=> state[t] # "none" \/ t = u
      BY <2>3 DEF dataTaskWithHTTPMethod, IInv, Types
    <3>2. u \notin sentBar /\ sentBar' = sentBar \cup {u}
      BY <3>1
    <3> QED BY <3>1, <3>2 DEF Contract!Next, Contract!Send
  <2>4. ASSUME NEW u \in Task, addDelegateForDataTask(u) PROVE UNCHANGED Contract!vars
    BY <2>2, <2>4 DEF addDelegateForDataTask
  <2>5. ASSUME NEW u \in Task, taskEnds(u) PROVE UNCHANGED Contract!vars
    BY <2>2, <2>5 DEF taskEnds
  <2>6. CASE completionHandler
    <3>1. CASE UNCHANGED <<state, answered>>
      BY <2>1, <3>1
    <3>2. ASSUME NEW t \in Task, NEW a \in {WholeBody, Failure},
                 state[t] # "none", t \notin DOMAIN answered, state' = state,
                 Bar' = [u \in DOMAIN answered \cup {t} |-> IF u = t THEN a ELSE Bar[u]]
          PROVE  Contract!Next
      <4>1. t \in sentBar /\ sentBar' = sentBar /\ DOMAIN Bar = DOMAIN answered
        BY <3>2 DEF Bar
      <4>2. Contract!Answer(t)
        BY <3>2, <4>1 DEF Contract!Answer, Bar
      <4> QED BY <4>2 DEF Contract!Next
    <3> QED BY <2>6, <3>1, <3>2, HandlerAnswers
  <2>7. CASE Next
    BY <2>1, <2>3, <2>4, <2>5, <2>6, <2>7
       DEF Next, Session, Operation, Main, dataArrives, listsTasks, addDelegates, didReceiveData,
           didCompleteWithError, removeDelegateForTask, responseObjectForResponse, sessionVars
  <2>8. CASE UNCHANGED vars
    BY <2>1, <2>8 DEF vars, sessionVars
  <2> QED BY <2>7, <2>8
<1> QED BY Invariance, <1>1, <1>2, PTL DEF Spec, AnsweredOnce, Contract!Spec

===============================================================================
