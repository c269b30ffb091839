-------------------------- MODULE Converter_proofs --------------------------
(***************************************************************************)
(* Theorems about the whole application, for every set of currencies, every*)
(* table of rates and every bound, on 32 and on 64 bits.                   *)
(***************************************************************************)
EXTENDS Converter, FiniteSetTheorems, TLAPS

requests == DOMAIN inFlight

-----------------------------------------------------------------------------
(***************************************************************************)
(* What the money needs to know of the rest: the rows exist before the     *)
(* screen does; an exchange request in flight is the only one of its press,*)
(* was made for a currency, and its order is open; versions are versions.  *)
(***************************************************************************)
RequestsInv ==
  /\ presses \in Nat /\ published \in 1..MaxVersion
  /\ \A n \in open : n \in Nat \ {0} /\ n <= presses
  /\ inFlight \in [requests -> 0..MaxVersion]
  /\ \A r \in requests : r.base \in Currency /\ r.press \in Nat /\ r.press <= presses
  /\ \A r \in requests : r.press # 0 => r.press \in open
  /\ \A r, q \in requests : r.press # 0 /\ r.press = q.press => r = q

ScreenInv ==
  /\ top \in Currency /\ bottom \in Currency /\ value \in Amount
  /\ amount \in [Currency -> Int]
  /\ seeded \in BOOLEAN
  /\ phase \in {"off", "launched", "running"}
  /\ phase # "off" => seeded

MoneyInv == RequestsInv /\ ScreenInv

\* The initial state satisfies it.
LEMMA InitMoney == Init => MoneyInv
<1> SUFFICES ASSUME Init PROVE MoneyInv
  OBVIOUS
<1>1. requests = {} /\ open = {}
  BY DEF Init, Service!Init, requests, open
<1>2. inFlight \in [requests -> 0..MaxVersion]
  BY <1>1 DEF Init, Service!Init, requests
<1>3. presses = 0 /\ published = 1
  BY DEF Init, Service!Init
<1>4. RequestsInv
  BY <1>1, <1>2, <1>3, ConverterAssumption DEF RequestsInv
<1>5. ScreenInv
  <2>1. top \in Currency /\ bottom \in Currency /\ value \in Amount
    BY ConverterAssumption DEF Init, Amount
  <2>2. amount \in [Currency -> Int]
    BY DEF Init
  <2>3. seeded \in BOOLEAN /\ phase = "off"
    BY DEF Init
  <2> QED BY <2>1, <2>2, <2>3 DEF ScreenInv
<1> QED
  BY <1>4, <1>5 DEF MoneyInv

\* Sending: the new requests are for currencies and are not answered; the
\* exchange request among them is the first of its press.
LEMMA RoundMoney ==
  ASSUME MoneyInv, Service!getRateListForCurrencies, UNCHANGED order
  PROVE  RequestsInv'
<1> DEFINE S == Service!RoundRequests(group + 1)
<1>1. /\ requests' = requests \cup S /\ open' = open
      /\ \A r \in requests' : inFlight'[r] = IF r \in requests THEN inFlight[r] ELSE 0
      /\ UNCHANGED <<presses, published>>
  BY DEF Service!getRateListForCurrencies, Service!NewGroup, Service!Send,
         Service!requests, requests, open
<1>2. \A r \in S : r.press = 0 /\ r.base \in Currency
  BY DEF Service!RoundRequests
<1>3. inFlight' \in [requests' -> 0..MaxVersion]
  <2>1. \A r \in requests' : inFlight'[r] \in 0..MaxVersion
    BY <1>1, ConverterAssumption DEF MoneyInv, RequestsInv
  <2>2. inFlight' = [r \in requests' |-> inFlight'[r]]
    BY DEF Service!getRateListForCurrencies, Service!NewGroup, Service!Send, requests
  <2> QED BY <2>1, <2>2
<1> QED
  BY <1>1, <1>2, <1>3 DEF MoneyInv, RequestsInv

\* A press sends the first request of its number.
LEMMA PressMoney ==
  ASSUME MoneyInv, exchangeButtonPressed
  PROVE  RequestsInv'
<1> DEFINE new == [press |-> presses + 1, base |-> top, group |-> group]
<1>1. /\ requests' = requests \cup {new} /\ open' = open \cup {presses + 1}
      /\ \A r \in requests' : inFlight'[r] = IF r \in requests THEN inFlight[r] ELSE 0
      /\ presses' = presses + 1 /\ published' = published
  BY DEF exchangeButtonPressed, Service!getRateListForCurrency, Service!Enter,
         Service!Send, Service!requests, Service!historyVars, requests, open
<1>2. inFlight' \in [requests' -> 0..MaxVersion]
  <2>1. \A r \in requests' : inFlight'[r] \in 0..MaxVersion
    BY <1>1, ConverterAssumption DEF MoneyInv, RequestsInv
  <2>2. inFlight' = [r \in requests' |-> inFlight'[r]]
    BY DEF exchangeButtonPressed, Service!getRateListForCurrency, Service!Enter,
           Service!Send, requests
  <2> QED BY <2>1, <2>2
<1>3. /\ new.press = presses + 1 /\ new.base \in Currency
      /\ \A r \in requests : r.press # presses + 1
  BY DEF MoneyInv, RequestsInv, ScreenInv
<1> QED
  BY <1>1, <1>2, <1>3 DEF MoneyInv, RequestsInv

\* The end of request r, which settles the order of its press.
LEMMA EndMoney ==
  ASSUME MoneyInv, NEW r \in requests, Service!Complete(r),
         open' = open \ {r.press}, UNCHANGED <<presses, published>>
  PROVE  RequestsInv'
<1>1. /\ requests' = requests \ {r}
      /\ \A q \in requests' : inFlight'[q] = inFlight[q]
  BY DEF Service!Complete, Service!requests, requests
<1>2. inFlight' \in [requests' -> 0..MaxVersion]
  BY <1>1 DEF Service!Complete, Service!requests, requests, MoneyInv, RequestsInv
<1> QED
  BY <1>1, <1>2 DEF MoneyInv, RequestsInv

\* The amount an exchange leaves behind.
LEMMA ConvertedType ==
  ASSUME MoneyInv, NEW r \in requests, inFlight[r] # 0
  PROVE  /\ Rate[inFlight[r]][r.base][bottom] \in Nat
         /\ Converted(r) \in [Currency -> Int]
         /\ \A c \in Currency : c # r.base /\ c # bottom => Converted(r)[c] = amount[c]
<1>1. inFlight[r] \in 1..MaxVersion /\ r.base \in Currency /\ bottom \in Currency
  BY DEF MoneyInv, RequestsInv, ScreenInv
<1>2. Rate[inFlight[r]][r.base][bottom] \in Nat
  BY <1>1, ConverterAssumption
<1>3. value \in Int /\ value * Rate[inFlight[r]][r.base][bottom] \in Int
  <2>1. value \in Int
    BY ConverterAssumption DEF MoneyInv, ScreenInv, Amount
  <2>2. \A x, y \in Int : x * y \in Int
    OBVIOUS
  <2> QED BY <1>2, <2>1, <2>2
<1> QED
  BY <1>1, <1>2, <1>3 DEF Converted, MoneyInv, ScreenInv

\* The steps that leave the requests alone keep what is known of them.
LEMMA SameRequests ==
  ASSUME MoneyInv, UNCHANGED <<inFlight, presses, published>>, open' = open
  PROVE  RequestsInv'
  BY DEF MoneyInv, RequestsInv, requests

\* The end of the process leaves no request and no order.
LEMMA EndsMoney ==
  ASSUME MoneyInv, ProcessEnds
  PROVE  MoneyInv'
<1>1. requests' = {} /\ open' = {} /\ inFlight' \in [requests' -> 0..MaxVersion]
  BY DEF ProcessEnds, requests, open
<1>2. RequestsInv'
  BY <1>1 DEF MoneyInv, RequestsInv, ProcessEnds
<1>3. ScreenInv'
  <2>1. top' \in Currency /\ bottom' \in Currency /\ value' \in Amount
    BY ConverterAssumption DEF ProcessEnds, Amount
  <2> QED BY <2>1 DEF MoneyInv, ScreenInv, ProcessEnds
<1> QED
  BY <1>2, <1>3 DEF MoneyInv

\* Every step keeps the invariant.
LEMMA StepMoney == MoneyInv /\ [Next]_vars => MoneyInv'
<1> SUFFICES ASSUME MoneyInv, [Next]_vars PROVE MoneyInv'
  OBVIOUS
<1>1. CASE Launch
  <2>1. RequestsInv'
    BY <1>1, SameRequests DEF Launch, serviceVars, open, orderVars
  <2>2. amount' \in [Currency -> Int]
    BY <1>1, ConverterAssumption DEF Launch, MoneyInv, ScreenInv
  <2>3. seeded' \in BOOLEAN /\ seeded' /\ phase' = "launched"
    BY <1>1 DEF Launch
  <2> QED
    BY <1>1, <2>1, <2>2, <2>3 DEF Launch, screenVars, MoneyInv, ScreenInv
<1>2. CASE viewDidLoad
  <2>1. RequestsInv'
    BY <1>2, RoundMoney DEF viewDidLoad, didReceivedCurrenciesFromStorage, orderVars
  <2>2. top' \in Currency /\ bottom' \in Currency /\ value' \in Amount
    BY <1>2, ConverterAssumption DEF viewDidLoad, didReceivedCurrenciesFromStorage, Amount
  <2> QED
    BY <1>2, <2>1, <2>2
       DEF viewDidLoad, didReceivedCurrenciesFromStorage, storageVars, MoneyInv,
           ScreenInv
<1>3. CASE updateTimer
  <2>1. RequestsInv'
    BY <1>3, RoundMoney DEF updateTimer, orderVars
  <2> QED
    BY <1>3, <2>1
       DEF updateTimer, storageVars, screenVars, processVars, MoneyInv, ScreenInv
<1>4. ASSUME NEW v \in Amount, textFieldValueDidChangedTo(v) PROVE MoneyInv'
  <2>1. RequestsInv'
    BY <1>4, SameRequests DEF textFieldValueDidChangedTo, Touch, serviceVars, open
  <2> QED
    BY <1>4, <2>1
       DEF textFieldValueDidChangedTo, storageVars, processVars, MoneyInv, ScreenInv
<1>5. ASSUME NEW c \in Currency, scrollTop(c) \/ scrollBottom(c) PROVE MoneyInv'
  <2>1. RequestsInv'
    BY <1>5, SameRequests DEF scrollTop, scrollBottom, Touch, serviceVars, open, orderVars
  <2> QED
    BY <1>5, <2>1
       DEF scrollTop, scrollBottom, storageVars, processVars, MoneyInv, ScreenInv
<1>6. CASE exchangeButtonPressed
  <2>1. RequestsInv'
    BY <1>6, PressMoney
  <2> QED
    BY <1>6, <2>1 DEF exchangeButtonPressed, storageVars, processVars, screenVars,
                      MoneyInv, ScreenInv
<1>7. CASE dismissAlert \/ deliverChanges \/ server \/ \E g \in queued : roundReported(g)
  <2>1. CASE server
    <3>1. /\ requests' = requests /\ open' = open /\ presses' = presses
          /\ published' \in 1..MaxVersion
          /\ inFlight' \in [requests' -> 0..MaxVersion]
      <4>1. order' = order
        BY <2>1 DEF server, orderVars
      <4>2. CASE Service!Publish
        BY <4>1, <4>2, ConverterAssumption
           DEF Service!Publish, requests, open, MoneyInv, RequestsInv
      <4>3. ASSUME NEW r \in requests, Service!Serve(r)
            PROVE  /\ requests' = requests /\ presses' = presses /\ published' = published
                   /\ inFlight' \in [requests' -> 0..MaxVersion]
        BY <4>3 DEF Service!Serve, requests, MoneyInv, RequestsInv
      <4> QED
        BY <2>1, <4>1, <4>2, <4>3 DEF server, requests, open, MoneyInv, RequestsInv
    <3>2. RequestsInv'
      BY <3>1 DEF MoneyInv, RequestsInv
    <3> QED
      BY <2>1, <3>2 DEF server, storageVars, processVars, screenVars, MoneyInv, ScreenInv
  <2>2. CASE dismissAlert \/ deliverChanges \/ \E g \in queued : roundReported(g)
    <3>1. RequestsInv'
      BY <2>2, SameRequests DEF dismissAlert, deliverChanges, roundReported,
                                Service!NotifyBlock, serviceVars, open, orderVars
    <3> QED
      BY <2>2, <3>1 DEF dismissAlert, deliverChanges, roundReported, storageVars,
                        processVars, screenVars, MoneyInv, ScreenInv
  <2> QED BY <1>7, <2>1, <2>2
<1>8. ASSUME NEW r \in requests, roundAnswered(r) PROVE MoneyInv'
  <2>1. open' = open \ {r.press}
    BY <1>8 DEF roundAnswered, open, orderVars, MoneyInv, RequestsInv
  <2>2. RequestsInv'
    BY <1>8, <2>1, EndMoney DEF roundAnswered, Service!SuccessBlock, Service!Store
  <2> QED
    BY <1>8, <2>2 DEF roundAnswered, processVars, MoneyInv, ScreenInv
<1>9. ASSUME NEW r \in requests, exchangeAnswered(r) PROVE MoneyInv'
  <2>1. open' = open \ {r.press}
    BY <1>9 DEF exchangeAnswered, didReceivedRateListFor, Settle, open
  <2>2. RequestsInv'
    BY <1>9, <2>1, EndMoney
       DEF exchangeAnswered, didReceivedRateListFor, Service!SuccessBlock,
           Service!Store
  <2>3. amount' \in [Currency -> Int]
    <3>1. inFlight[r] # 0
      BY <1>9 DEF exchangeAnswered, didReceivedRateListFor, Service!SuccessBlock
    <3>2. amount' = Converted(r) \/ amount' = amount
      BY <1>9, Zenon DEF exchangeAnswered, didReceivedRateListFor, convertCurrency
    <3> QED BY <3>1, <3>2, ConvertedType DEF MoneyInv, ScreenInv
  <2>4. value' \in Amount
    <3>1. value' = 0
      BY <1>9, Zenon DEF exchangeAnswered, didReceivedRateListFor, convertCurrency
    <3> QED BY <3>1, ConverterAssumption DEF Amount
  <2> QED
    BY <1>9, <2>2, <2>3, <2>4
       DEF exchangeAnswered, didReceivedRateListFor, processVars, MoneyInv, ScreenInv
<1>10. ASSUME NEW r \in requests, requestFailed(r) PROVE MoneyInv'
  <2>1. open' = open \ {r.press}
    BY <1>10 DEF requestFailed, open
  <2>2. RequestsInv'
    BY <1>10, <2>1, EndMoney DEF requestFailed, Service!FailureBlock
  <2> QED
    BY <1>10, <2>2 DEF requestFailed, processVars, storageVars, MoneyInv, ScreenInv
<1>11. ASSUME kill \/ \E r \in requests : killBetweenCommits(r) PROVE MoneyInv'
  BY <1>11, EndsMoney DEF kill, killBetweenCommits
<1>12. CASE UNCHANGED vars
  <2>1. RequestsInv'
    BY <1>12, SameRequests DEF vars, serviceVars, open, orderVars
  <2> QED
    BY <1>12, <2>1 DEF vars, processVars, storageVars, screenVars, MoneyInv, ScreenInv
<1> QED
  BY <1>1, <1>2, <1>3, <1>4, <1>5, <1>6, <1>7, <1>8, <1>9, <1>10, <1>11, <1>12
     DEF Next, requests

\* The invariant holds in every reachable state.
THEOREM MoneyCorrect == Spec => []MoneyInv
  BY InitMoney, StepMoney, PTL DEF Spec

-----------------------------------------------------------------------------
(***************************************************************************)
(* The refinement: seeding opens the account, a press confirms an order, a *)
(* converting answer exchanges it, a refusal, a failure or the end of the  *)
(* process cancels, and nothing else touches the money.                    *)
(***************************************************************************)
bankVars == <<seeded, amount, presses, open>>

\* A converting answer is an exchange of the order of its press.
LEMMA ConvertIsExchange ==
  ASSUME MoneyInv, NEW r \in requests, exchangeAnswered(r), Converts(r)
  PROVE  Bank!Next
<1> DEFINE rate == Rate[inFlight[r]][r.base][bottom]
<1>1. /\ r.press \in open /\ r.base \in Currency /\ bottom \in Currency
      /\ inFlight[r] \in 1..MaxVersion
  BY DEF exchangeAnswered, didReceivedRateListFor, Service!SuccessBlock,
         Service!Store, MoneyInv, RequestsInv, ScreenInv
<1>2. value \in 1..MaxAmount /\ value <= amount[r.base]
  <2>1. value \in 0..MaxAmount /\ amount[r.base] \in Int /\ MaxAmount \in Nat
    BY <1>1, ConverterAssumption DEF MoneyInv, ScreenInv, Amount
  <2> QED BY <2>1 DEF Converts, Overdraws
<1>3. rate \in {Rate[v][c][d] : v \in 1..MaxVersion, c \in Currency, d \in Currency}
  BY <1>1
<1>4. amount' = Bank!Move(amount, r.base, bottom, value, rate)
  <2>1. amount' = Converted(r)
    BY Zenon DEF exchangeAnswered, didReceivedRateListFor, convertCurrency
  <2> QED BY <2>1 DEF Converted, Bank!Move
<1>5. open' = open \ {r.press} /\ seeded' = seeded /\ presses' = presses
  BY DEF exchangeAnswered, didReceivedRateListFor, Settle, open,
         Service!SuccessBlock, Service!Store
<1>6. Bank!Exchange(r.press, r.base, bottom, value, rate)
  BY <1>1, <1>2, <1>4, <1>5 DEF Bank!Exchange
<1> QED
  <2>1. \E n \in open, from, to \in Currency, v \in 1..MaxAmount,
            x \in {Rate[k][c][d] : k \in 1..MaxVersion, c \in Currency, d \in Currency} :
              Bank!Exchange(n, from, to, v, x)
    BY <1>1, <1>2, <1>3, <1>6
  <2> QED BY <2>1 DEF Bank!Next

\* Settling one order, or all of them, without a move is a cancellation.
LEMMA SettleIsCancel ==
  ASSUME NEW S \in {{n} : n \in open} \cup {open}, open' = open \ S,
         UNCHANGED <<seeded, amount, presses>>
  PROVE  Bank!Next
<1>1. Bank!Cancel(S)
  BY DEF Bank!Cancel
<1> QED
  BY <1>1 DEF Bank!Next

\* Every step of the application is a step of the wallet or leaves it alone.
LEMMA StepIsWalletStep ==
  ASSUME MoneyInv, [Next]_vars
  PROVE  Bank!Next \/ UNCHANGED bankVars
<1>1. CASE Launch
  <2>1. open' = open /\ presses' = presses
    BY <1>1 DEF Launch, serviceVars, open, orderVars
  <2>2. CASE seeded
    BY <1>1, <2>1, <2>2 DEF Launch, bankVars, MoneyInv, ScreenInv
  <2>3. CASE ~seeded
    <3>1. amount' = [c \in Currency |-> SeedAmount] /\ seeded'
      BY <1>1, <2>3 DEF Launch
    <3>2. seeded' = TRUE
      BY <1>1 DEF Launch
    <3>3. Bank!OpenAccount
      BY <2>1, <2>3, <3>1, <3>2 DEF Bank!OpenAccount
    <3> QED BY <3>3 DEF Bank!Next
  <2> QED BY <2>2, <2>3
<1>2. CASE exchangeButtonPressed
  <2>1. seeded' = seeded /\ amount' = amount /\ presses' = presses + 1
    BY <1>2
       DEF exchangeButtonPressed, storageVars, Service!getRateListForCurrency,
           Service!Enter
  <2>2. open' = open \cup {presses + 1}
    BY <1>2, <2>1 DEF exchangeButtonPressed, open
  <2>3. seeded
    BY <1>2 DEF exchangeButtonPressed, Touchable, Running, MoneyInv, ScreenInv
  <2>4. Bank!Confirm
    BY <2>1, <2>2, <2>3 DEF Bank!Confirm
  <2> QED BY <2>4 DEF Bank!Next
<1>3. ASSUME NEW r \in requests, exchangeAnswered(r)
      PROVE  Bank!Next
  <2>1. CASE Converts(r)
    BY <1>3, <2>1, ConvertIsExchange
  <2>2. CASE ~Converts(r)
    <3>1. open' = open \ {r.press} /\ seeded' = seeded /\ presses' = presses
      BY <1>3
         DEF exchangeAnswered, didReceivedRateListFor, Settle, open,
             Service!SuccessBlock, Service!Store
    <3>2. amount' = amount
      BY <1>3, <2>2, Zenon DEF exchangeAnswered, didReceivedRateListFor, convertCurrency
    <3>3. r.press \in open
      <4>1. r.press # 0
        BY <1>3, Zenon DEF exchangeAnswered, didReceivedRateListFor, convertCurrency
      <4> QED BY <4>1 DEF MoneyInv, RequestsInv
    <3> QED BY <3>1, <3>2, <3>3, SettleIsCancel
  <2> QED BY <2>1, <2>2
<1>4. ASSUME NEW r \in requests, requestFailed(r)
      PROVE  Bank!Next \/ UNCHANGED bankVars
  <2>1. /\ open' = open \ {r.press}
        /\ UNCHANGED <<seeded, amount, presses>>
    BY <1>4 DEF requestFailed, storageVars, open, Service!FailureBlock
  <2>2. CASE r.press = 0
    BY <2>1, <2>2 DEF bankVars, MoneyInv, RequestsInv
  <2>3. CASE r.press # 0
    <3>1. r.press \in open
      BY <2>3 DEF MoneyInv, RequestsInv
    <3> QED BY <2>1, <3>1, SettleIsCancel
  <2> QED BY <2>2, <2>3
<1>5. ASSUME kill \/ \E r \in requests : killBetweenCommits(r)
      PROVE  Bank!Next
  <2>1. open' = open \ open /\ UNCHANGED <<seeded, amount, presses>>
    BY <1>5 DEF kill, killBetweenCommits, ProcessEnds, open
  <2> QED BY <2>1, SettleIsCancel
<1>6. ASSUME \/ viewDidLoad
             \/ updateTimer
             \/ \E v \in Amount : textFieldValueDidChangedTo(v)
             \/ \E c \in Currency : scrollTop(c) \/ scrollBottom(c)
             \/ dismissAlert
             \/ deliverChanges
             \/ UNCHANGED vars
      PROVE  UNCHANGED bankVars
  BY <1>6
     DEF viewDidLoad, didReceivedCurrenciesFromStorage, updateTimer,
         textFieldValueDidChangedTo, scrollTop, scrollBottom, dismissAlert,
         deliverChanges, vars, bankVars, open, Touch, orderVars, storageVars,
         serviceVars, Service!getRateListForCurrencies, Service!NewGroup
<1>7. ASSUME \/ \E r \in requests : roundAnswered(r)
             \/ \E g \in queued : roundReported(g)
             \/ server
      PROVE  UNCHANGED bankVars
  BY <1>7
     DEF roundAnswered, roundReported, server, bankVars, open, storageVars,
         orderVars, Service!SuccessBlock, Service!Store, Service!NotifyBlock,
         Service!Publish, Service!Serve
<1> QED
  BY <1>1, <1>2, <1>3, <1>4, <1>5, <1>6, <1>7 DEF Next, requests

\* The application implements the wallet: the rows are seeded once whatever is
\* killed and relaunched, every exchange consumes one confirmed order, and it
\* takes no more than there is and moves both sides together
\* (StorageService.m:51-97, ViewController.m:72-74, 88-99).
THEOREM ImplementsWallet == Spec => WalletSpec
<1>1. Init => Bank!Init
  BY DEF Init, Service!Init, Bank!Init, open
<1>2. MoneyInv /\ [Next]_vars => [Bank!Next]_(Bank!walletVars)
  BY StepIsWalletStep DEF bankVars, Bank!walletVars
<1> QED
  BY MoneyCorrect, <1>1, <1>2, PTL DEF Spec, WalletSpec, Bank!Spec

\* No balance ever becomes negative (StorageService.m:53-59).
THEOREM NoOverdraftEver == Spec => []Bank!NoOverdraft
<1> DEFINE NonNegative == \A c \in Currency : amount[c] >= 0
<1>1. Init => NonNegative
  BY DEF Init
<1>2. MoneyInv /\ NonNegative /\ [Next]_vars => NonNegative'
  <2> SUFFICES ASSUME MoneyInv, NonNegative, [Next]_vars PROVE NonNegative'
    OBVIOUS
  <2>1. CASE Launch
    BY <2>1, ConverterAssumption DEF Launch
  <2>2. ASSUME NEW r \in requests, exchangeAnswered(r), Converts(r) PROVE NonNegative'
    <3> DEFINE rate == Rate[inFlight[r]][r.base][bottom]
    <3>1. amount' = Converted(r) /\ inFlight[r] # 0
      BY <2>2, Zenon
         DEF exchangeAnswered, didReceivedRateListFor, convertCurrency,
             Service!SuccessBlock, Service!Store
    <3>2. rate \in Nat /\ value \in Nat /\ r.base \in Currency /\ bottom \in Currency
      <4>1. rate \in Nat
        BY <3>1, ConvertedType
      <4>2. value \in Nat
        BY ConverterAssumption DEF MoneyInv, ScreenInv, Amount
      <4>3. r.base \in Currency /\ bottom \in Currency
        BY DEF MoneyInv, RequestsInv, ScreenInv
      <4> QED BY <4>1, <4>2, <4>3
    <3>3. value * rate \in Nat
      <4>1. \A x, y \in Nat : x * y \in Nat
        OBVIOUS
      <4> QED BY <3>2, <4>1
    <3>4. amount[r.base] - value >= 0
      BY <2>2, <3>2 DEF Converts, Overdraws, MoneyInv, ScreenInv
    <3> QED
      BY <3>1, <3>2, <3>3, <3>4 DEF Converted, MoneyInv, ScreenInv
  <2>3. CASE amount' = amount
    BY <2>3
  <2>4. Launch \/ amount' = amount \/ \E r \in requests : exchangeAnswered(r) /\ Converts(r)
    <3>1. ASSUME NEW r \in requests, exchangeAnswered(r), ~Converts(r) PROVE amount' = amount
      BY <3>1, Zenon DEF exchangeAnswered, didReceivedRateListFor, convertCurrency
    <3> QED
      BY <3>1
         DEF Next, requests, viewDidLoad, didReceivedCurrenciesFromStorage,
             updateTimer, textFieldValueDidChangedTo, scrollTop, scrollBottom,
             exchangeButtonPressed, dismissAlert, deliverChanges, roundAnswered,
             requestFailed, killBetweenCommits, roundReported, server, kill,
             ProcessEnds, vars, storageVars
  <2> QED
    BY <2>1, <2>2, <2>3, <2>4
<1>3. NonNegative => Bank!NoOverdraft
  BY DEF Bank!NoOverdraft
<1> QED
  BY MoneyCorrect, <1>1, <1>2, <1>3, PTL DEF Spec

-----------------------------------------------------------------------------
(***************************************************************************)
(* The screen: its balances, and the group behind its button.              *)
(***************************************************************************)
LabelInv == label \in [Currency -> Int] /\ LabelsFreshUnlessPending

\* Cells dequeued again show what is stored, and the others what they showed.
LEMMA ReloadLabel ==
  ASSUME MoneyInv, LabelInv, NEW S, Reload(S)
  PROVE  /\ label' \in [Currency -> Int]
         /\ \A c \in Currency : label'[c] = IF c \in S THEN amount[c] ELSE label[c]
  BY DEF Reload, MoneyInv, ScreenInv, LabelInv

\* The labels show integers, and what the next theorem says.
LEMMA LabelsHold == Spec => []LabelInv
<1>1. Init => LabelInv
  BY DEF Init, LabelInv, LabelsFreshUnlessPending
<1>2. MoneyInv /\ LabelInv /\ [Next]_vars => LabelInv'
  <2> SUFFICES ASSUME MoneyInv, LabelInv, [Next]_vars PROVE LabelInv'
    OBVIOUS
  <2>1. CASE Launch
    BY <2>1 DEF Launch, screenVars, LabelInv, LabelsFreshUnlessPending
  <2>2. CASE viewDidLoad
    BY <2>2
       DEF viewDidLoad, didReceivedCurrenciesFromStorage, storageVars, LabelInv,
           LabelsFreshUnlessPending, MoneyInv, ScreenInv
  <2>3. ASSUME NEW c \in Currency, scrollTop(c) PROVE LabelInv'
    <3>1. UNCHANGED <<phase, amount, pending>>
      BY <2>3 DEF scrollTop, processVars, storageVars
    <3>2. label' = label \/ label' = [label EXCEPT ![c] = amount[c]]
      BY <2>3 DEF scrollTop
    <3> QED
      BY <3>1, <3>2 DEF LabelInv, LabelsFreshUnlessPending, MoneyInv, ScreenInv
  <2>4. CASE deliverChanges
    <3>1. UNCHANGED <<phase, amount>> /\ pending' = {} /\ Reload(pending)
      BY <2>4 DEF deliverChanges, processVars
    <3> QED
      BY <3>1, ReloadLabel DEF LabelInv, LabelsFreshUnlessPending
  <2>5. ASSUME NEW r \in requests, roundAnswered(r) PROVE LabelInv'
    <3>1. /\ UNCHANGED <<phase, amount>> /\ pending' = PendingAfterWrite(r)
          /\ Reload(ReportedByWrite(r))
      BY <2>5 DEF roundAnswered, processVars
    <3> QED
      BY <3>1, ReloadLabel
         DEF LabelInv, LabelsFreshUnlessPending, PendingAfterWrite, ReportedByWrite
  <2>6. ASSUME NEW r \in requests, exchangeAnswered(r) PROVE LabelInv'
    <3>1. phase' = phase /\ inFlight[r] # 0
      BY <2>6
         DEF exchangeAnswered, didReceivedRateListFor, processVars,
             Service!SuccessBlock, Service!Store
    <3>2. CASE Converts(r)
      <4>1. /\ amount' = Converted(r) /\ pending' = {r.base, bottom}
            /\ Reload(ReportedByWrite(r) \cup PendingAfterWrite(r))
        BY <2>6, <3>2, Zenon DEF exchangeAnswered, didReceivedRateListFor, convertCurrency
      <4>2. \A c \in Currency : c \notin pending' => amount'[c] = amount[c]
        BY <3>1, <4>1, ConvertedType
      <4> QED
        BY <3>1, <4>1, <4>2, ReloadLabel
           DEF LabelInv, LabelsFreshUnlessPending, PendingAfterWrite, ReportedByWrite
    <3>3. CASE ~Converts(r)
      <4>1. /\ amount' = amount /\ pending' = PendingAfterWrite(r)
            /\ Reload(ReportedByWrite(r))
        BY <2>6, <3>3, Zenon DEF exchangeAnswered, didReceivedRateListFor, convertCurrency
      <4> QED
        BY <3>1, <4>1, ReloadLabel
           DEF LabelInv, LabelsFreshUnlessPending, PendingAfterWrite, ReportedByWrite
    <3> QED BY <3>2, <3>3
  <2>7. ASSUME kill \/ \E r \in requests : killBetweenCommits(r) PROVE LabelInv'
    BY <2>7 DEF kill, killBetweenCommits, ProcessEnds, LabelInv, LabelsFreshUnlessPending
  <2>8. ASSUME \/ updateTimer
               \/ \E v \in Amount : textFieldValueDidChangedTo(v)
               \/ \E c \in Currency : scrollBottom(c)
               \/ exchangeButtonPressed
               \/ dismissAlert
               \/ \E r \in requests : requestFailed(r)
               \/ \E g \in queued : roundReported(g)
               \/ server
               \/ UNCHANGED vars
        PROVE  LabelInv'
    <3>1. UNCHANGED <<phase, amount, pending, label>>
      BY <2>8 DEF updateTimer, textFieldValueDidChangedTo, scrollBottom,
         exchangeButtonPressed, dismissAlert, requestFailed, roundReported, server, vars,
         processVars, storageVars, screenVars
    <3> QED
      BY <3>1 DEF LabelInv, LabelsFreshUnlessPending
  <2> QED
    BY <2>1, <2>2, <2>3, <2>4, <2>5, <2>6, <2>7, <2>8 DEF Next, requests
<1> QED
  BY MoneyCorrect, <1>1, <1>2, PTL DEF Spec

\* A balance on the screen is the stored one unless its row is still to be
\* reported, for every order of writes and notifications
\* (StorageService.m:32-43, ViewController.m:128-142).
THEOREM LabelsCorrect == Spec => []LabelsFreshUnlessPending
<1>1. LabelInv => LabelsFreshUnlessPending
  BY DEF LabelInv
<1> QED
  BY <1>1, LabelsHold, PTL

\* The button is only enabled while the screen is up, and the screen only comes
\* up with a round.
GroupInv ==
  /\ group \in Nat
  /\ phase = "running" => group # 0
  /\ enabled => phase = "running"

\* A press never enters a nil group (RateListService.m:16, 52,
\* ViewController.m:33, 49-50).
THEOREM ButtonCorrect == Spec => []ButtonNeedsGroup
<1>1. Init => GroupInv
  BY DEF Init, Service!Init, GroupInv
<1>2. MoneyInv /\ GroupInv /\ [Next]_vars => GroupInv'
  <2> SUFFICES ASSUME MoneyInv, GroupInv, [Next]_vars PROVE GroupInv'
    OBVIOUS
  <2>1. CASE Launch
    BY <2>1 DEF Launch, serviceVars, screenVars, GroupInv
  <2>2. CASE viewDidLoad \/ updateTimer
    <3>1. group' = group + 1
      BY <2>2
         DEF viewDidLoad, didReceivedCurrenciesFromStorage, updateTimer,
             Service!getRateListForCurrencies, Service!NewGroup
    <3>2. phase' = "running" /\ (enabled' => enabled)
      BY <2>2
         DEF viewDidLoad, didReceivedCurrenciesFromStorage, updateTimer, Running,
             processVars, screenVars
    <3> QED BY <3>1, <3>2 DEF GroupInv
  <2>3. ASSUME NEW c \in Currency, scrollTop(c) \/ scrollBottom(c) PROVE GroupInv'
    BY <2>3 DEF scrollTop, scrollBottom, Touchable, Running, serviceVars, processVars,
                GroupInv
  <2>4. ASSUME kill \/ \E r \in requests : killBetweenCommits(r) PROVE GroupInv'
    BY <2>4 DEF kill, killBetweenCommits, ProcessEnds, GroupInv
  <2>5. ASSUME \/ \E v \in Amount : textFieldValueDidChangedTo(v)
               \/ exchangeButtonPressed
               \/ dismissAlert
               \/ deliverChanges
               \/ \E r \in requests : roundAnswered(r) \/ exchangeAnswered(r) \/ requestFailed(r)
               \/ \E g \in queued : roundReported(g)
               \/ server
               \/ UNCHANGED vars
        PROVE  GroupInv'
    <3>1. UNCHANGED <<group, phase, enabled>>
      BY <2>5
         DEF textFieldValueDidChangedTo, exchangeButtonPressed, dismissAlert,
             deliverChanges, roundAnswered, exchangeAnswered, didReceivedRateListFor,
             requestFailed, roundReported, server, vars, serviceVars, processVars,
             screenVars, Service!getRateListForCurrency, Service!Enter,
             Service!SuccessBlock, Service!Store, Service!Leave, Service!FailureBlock, Service!NotifyBlock,
             Service!Publish, Service!Serve, Service!groupVars
    <3> QED BY <3>1 DEF GroupInv
  <2> QED
    BY <2>1, <2>2, <2>3, <2>4, <2>5 DEF Next, requests
<1>3. GroupInv => ButtonNeedsGroup
  BY DEF GroupInv, ButtonNeedsGroup
<1> QED
  BY MoneyCorrect, <1>1, <1>2, <1>3, PTL DEF Spec

-----------------------------------------------------------------------------
(***************************************************************************)
(* Confirmation: an order that nothing touched still describes the screen  *)
(* when its answer comes, so what the handler reads then is what the user  *)
(* saw.                                                                    *)
(***************************************************************************)
ConfirmInv ==
  /\ enabled => ~SameString(top, bottom)
  /\ order \in [open -> Order]
  /\ \A r \in requests : r.press # 0 => order[r.press].from = r.base
  /\ \A n \in open : ~order[n].touched =>
       /\ order[n].to = bottom /\ order[n].value = value
       /\ ~SameString(order[n].from, order[n].to)
  /\ spent \in BOOLEAN
  /\ spent => value = 0

\* The fields show amounts, and there is no order without the screen.
FieldInv ==
  /\ text \in [Currency -> Amount]
  /\ phase # "running" => open = {}

\* Every step keeps that.
LEMMA StepField == MoneyInv /\ FieldInv /\ [Next]_vars => FieldInv'
<1> SUFFICES ASSUME MoneyInv, FieldInv, [Next]_vars PROVE FieldInv'
  OBVIOUS
<1>0. 0 \in Amount
  BY ConverterAssumption DEF Amount
<1>1. CASE phase = "running" /\ phase' = "running"
  <2>1. \A S : Reload(S) => text' \in [Currency -> Amount]
    BY <1>0 DEF Reload, FieldInv
  <2>2. ASSUME NEW v \in Amount, textFieldValueDidChangedTo(v)
        PROVE  text' \in [Currency -> Amount]
    BY <2>2 DEF textFieldValueDidChangedTo, FieldInv
  <2>3. ASSUME NEW c \in Currency, scrollTop(c)
        PROVE  text' \in [Currency -> Amount]
    <3>1. text' = text \/ text' = [text EXCEPT ![c] = 0]
      BY <2>3 DEF scrollTop
    <3> QED BY <1>0, <3>1 DEF FieldInv
  <2>4. text' = text => text' \in [Currency -> Amount]
    BY DEF FieldInv
  <2>5. ASSUME NEW r \in requests, exchangeAnswered(r)
        PROVE  text' \in [Currency -> Amount]
    <3>1. \E S : Reload(S)
      BY <2>5, Zenon DEF exchangeAnswered, didReceivedRateListFor, convertCurrency
    <3> QED BY <2>1, <3>1
  <2>6. text' \in [Currency -> Amount]
    BY <1>1, <2>1, <2>2, <2>3, <2>4, <2>5
       DEF Next, requests, Launch, viewDidLoad, didReceivedCurrenciesFromStorage,
           updateTimer, scrollBottom, exchangeButtonPressed, dismissAlert,
           deliverChanges, roundAnswered, requestFailed, killBetweenCommits,
           roundReported, server, kill, ProcessEnds, vars, screenVars
  <2> QED BY <1>1, <2>6 DEF FieldInv
<1>2. CASE phase # "running" \/ phase' # "running"
  <2>1. CASE Launch \/ UNCHANGED vars
    <3>1. open' = open /\ text' = text
      BY <2>1 DEF Launch, vars, screenVars, orderVars, open
    <3>2. CASE Launch
      BY <3>1, <3>2 DEF Launch, FieldInv
    <3>3. CASE UNCHANGED vars
      BY <3>1, <3>3 DEF vars, processVars, FieldInv
    <3> QED BY <2>1, <3>2, <3>3
  <2>2. CASE viewDidLoad
    BY <2>2, <1>0 DEF viewDidLoad, didReceivedCurrenciesFromStorage, FieldInv
  <2>3. ASSUME kill \/ \E r \in requests : killBetweenCommits(r) PROVE FieldInv'
    BY <2>3, <1>0 DEF kill, killBetweenCommits, ProcessEnds, FieldInv, open
  <2> QED
    BY <1>2, <2>1, <2>2, <2>3
       DEF Next, requests, updateTimer, textFieldValueDidChangedTo, scrollTop,
           scrollBottom, exchangeButtonPressed, dismissAlert, deliverChanges,
           roundAnswered, exchangeAnswered, didReceivedRateListFor, requestFailed,
           roundReported, server, Touchable, Running, processVars
<1> QED BY <1>1, <1>2

\* What Touch and Settle do to the orders.
LEMMA TouchOrder ==
  ASSUME ConfirmInv, NEW S
  PROVE  /\ Touch(S) \in [open -> Order]
         /\ \A n \in open :
              /\ Touch(S)[n].from = order[n].from /\ Touch(S)[n].to = order[n].to
              /\ Touch(S)[n].value = order[n].value
              /\ n \in S => Touch(S)[n].touched
  BY DEF ConfirmInv, Touch, Order

\* Settling an order takes it away and touches the others.
LEMMA SettleOrder ==
  ASSUME ConfirmInv, NEW n
  PROVE  /\ Settle(n) \in [open \ {n} -> Order]
         /\ \A k \in open \ {n} : /\ Settle(n)[k].from = order[k].from
                                  /\ Settle(n)[k].touched
<1>1. \A k \in open \ {n} : Settle(n)[k] = Touch(open)[k]
  BY DEF Settle
<1>2. Settle(n) = [k \in open \ {n} |-> Touch(open)[k]]
  BY DEF Settle
<1> QED
  BY <1>1, <1>2, TouchOrder

\* The steps that change neither the orders nor what they remember.
LEMMA SameConfirm ==
  ASSUME MoneyInv, ConfirmInv, requests' \subseteq {r \in requests' : r.press = 0} \cup requests,
         UNCHANGED <<top, bottom, value, enabled, order, spent>>
  PROVE  ConfirmInv'
  BY DEF ConfirmInv, SameString, open

\* The exchange of an answer, as the handler computes it.
LEMMA ExchangeStep ==
  ASSUME MoneyInv, NEW n \in open, [Next]_vars, Exchanged(n)
  PROVE  \E r \in requests : exchangeAnswered(r) /\ Converts(r) /\ r.press = n
<1>1. amount' # amount /\ n \notin open' /\ seeded
  <2>1. amount' # amount /\ n \notin open'
    BY DEF Exchanged
  <2>2. CASE Launch
    <3>1. open' = open
      BY <2>2 DEF Launch, orderVars, open
    <3> QED BY <2>1, <3>1
  <2>3. CASE ~Launch /\ phase = "off"
    BY <2>1, <2>3
       DEF Next, requests, viewDidLoad, didReceivedCurrenciesFromStorage,
           updateTimer, textFieldValueDidChangedTo, scrollTop, scrollBottom,
           exchangeButtonPressed, dismissAlert, deliverChanges, roundAnswered,
           exchangeAnswered, didReceivedRateListFor, requestFailed,
           killBetweenCommits, roundReported, server, kill, Touchable, Running, vars,
           storageVars
  <2> QED
    BY <2>1, <2>2, <2>3 DEF MoneyInv, ScreenInv
<1>2. PICK r \in requests : exchangeAnswered(r)
  BY <1>1
     DEF Next, requests, Launch, viewDidLoad, didReceivedCurrenciesFromStorage,
         updateTimer, textFieldValueDidChangedTo, scrollTop, scrollBottom,
         exchangeButtonPressed, dismissAlert, deliverChanges, roundAnswered,
         requestFailed, killBetweenCommits, roundReported, server, kill, ProcessEnds,
         vars, storageVars
<1>3. Converts(r)
  BY <1>1, <1>2, Zenon DEF exchangeAnswered, didReceivedRateListFor, convertCurrency
<1>4. order' = Settle(r.press)
  BY <1>2, Zenon DEF exchangeAnswered, didReceivedRateListFor, convertCurrency
<1>5. open' = open \ {r.press}
  BY <1>4 DEF Settle, open
<1> QED
  BY <1>1, <1>2, <1>3, <1>5

\* Every step keeps what is known of the orders.
LEMMA StepConfirm ==
  MoneyInv /\ FieldInv /\ ConfirmInv /\ [Next]_vars => ConfirmInv'
<1> SUFFICES ASSUME MoneyInv, FieldInv, ConfirmInv, [Next]_vars PROVE ConfirmInv'
  OBVIOUS
<1>1. CASE Launch \/ UNCHANGED vars \/ updateTimer \/ server \/ dismissAlert
           \/ deliverChanges \/ \E g \in queued : roundReported(g)
  <2>1. UNCHANGED <<top, bottom, value, enabled, order, spent>>
    BY <1>1 DEF Launch, vars, updateTimer, server, dismissAlert, deliverChanges,
                roundReported, screenVars, orderVars
  <2>2. requests' \subseteq {r \in requests' : r.press = 0} \cup requests
    <3>1. CASE updateTimer
      BY <3>1
         DEF updateTimer, Service!getRateListForCurrencies, Service!NewGroup,
             Service!Send, Service!requests, Service!RoundRequests, requests
    <3>2. CASE server
      BY <3>2 DEF server, Service!Publish, Service!Serve, requests, MoneyInv, RequestsInv
    <3> QED
      BY <1>1, <3>1, <3>2 DEF Launch, vars, dismissAlert, deliverChanges, roundReported,
                              Service!NotifyBlock, serviceVars, requests
  <2> QED BY <2>1, <2>2, SameConfirm
<1>2. CASE viewDidLoad
  <2>1. open = {} /\ order' = order /\ spent' = spent
    BY <1>2 DEF viewDidLoad, didReceivedCurrenciesFromStorage, FieldInv, orderVars
  <2>2. enabled' = FALSE /\ value' = 0
    BY <1>2 DEF viewDidLoad, didReceivedCurrenciesFromStorage
  <2>3. \A r \in requests' : r.press = 0
    BY <1>2, <2>1
       DEF viewDidLoad, didReceivedCurrenciesFromStorage,
           Service!getRateListForCurrencies, Service!NewGroup, Service!Send,
           Service!requests, Service!RoundRequests, requests, MoneyInv, RequestsInv
  <2> QED BY <2>1, <2>2, <2>3 DEF ConfirmInv, open
<1>3. ASSUME NEW v \in Amount, textFieldValueDidChangedTo(v) PROVE ConfirmInv'
  <2>1. /\ order' = Touch(open) /\ spent' = FALSE
        /\ UNCHANGED <<top, bottom, enabled>>
    BY <1>3 DEF textFieldValueDidChangedTo
  <2>2. requests' = requests /\ open' = open
    BY <1>3 DEF textFieldValueDidChangedTo, serviceVars, requests, open, Touch
  <2> QED
    BY <2>1, <2>2, TouchOrder DEF ConfirmInv, SameString, MoneyInv, RequestsInv
<1>4. ASSUME NEW c \in Currency, scrollTop(c) PROVE ConfirmInv'
  <2>1. /\ top' = c /\ (enabled' <=> ~SameString(c, bottom))
        /\ UNCHANGED <<bottom, value, order, spent>>
    BY <1>4 DEF scrollTop, orderVars
  <2>2. requests' = requests
    BY <1>4 DEF scrollTop, serviceVars, requests
  <2> QED BY <2>1, <2>2 DEF ConfirmInv, SameString, open
<1>5. ASSUME NEW c \in Currency, scrollBottom(c) PROVE ConfirmInv'
  <2>1. /\ bottom' = c /\ (enabled' <=> ~SameString(top, c))
        /\ UNCHANGED <<top, value, spent>>
        /\ order' = IF c = bottom THEN order ELSE Touch(open)
    BY <1>5 DEF scrollBottom
  <2>2. requests' = requests
    BY <1>5 DEF scrollBottom, serviceVars, requests
  <2>3. CASE c = bottom
    BY <2>1, <2>2, <2>3 DEF ConfirmInv, SameString, open
  <2>4. CASE c # bottom
    <3>1. order' = Touch(open) /\ open' = open
      BY <2>1, <2>4 DEF Touch, open
    <3> QED
      BY <2>1, <2>2, <3>1, TouchOrder DEF ConfirmInv, SameString, MoneyInv, RequestsInv
  <2> QED BY <2>3, <2>4
<1>6. CASE exchangeButtonPressed
  <2> DEFINE k == presses + 1
  <2> DEFINE new == [from |-> top, to |-> bottom, value |-> value,
                     shown |-> text[top], touched |-> FALSE]
  <2>1. UNCHANGED <<top, bottom, value, enabled, spent>> /\ ~SameString(top, bottom)
    <3>1. enabled
      BY <1>6 DEF exchangeButtonPressed
    <3> QED BY <1>6, <3>1 DEF exchangeButtonPressed, screenVars, ConfirmInv
  <2>2. /\ requests' = requests \cup {[press |-> k, base |-> top, group |-> group]}
        /\ presses' = k
    BY <1>6
       DEF exchangeButtonPressed, Service!getRateListForCurrency, Service!Enter,
           Service!Send, Service!requests, requests
  <2>3. k \in Nat \ {0} /\ k \notin open
    BY DEF MoneyInv, RequestsInv
  <2>4. order' = [n \in open \cup {k} |-> IF n \in open THEN order[n] ELSE new]
    BY <1>6, <2>2 DEF exchangeButtonPressed
  <2>5. /\ open' = open \cup {k} /\ order'[k] = new
        /\ \A n \in open : order'[n] = order[n]
    BY <2>3, <2>4 DEF open
  <2>6. new \in Order
    BY DEF Order, MoneyInv, ScreenInv, FieldInv
  <2>7. order' \in [open' -> Order]
    BY <2>4, <2>5, <2>6 DEF ConfirmInv
  <2>8. \A r \in requests' : r.press # 0 => order'[r.press].from = r.base
    BY <2>2, <2>5 DEF ConfirmInv, MoneyInv, RequestsInv
  <2>9. \A n \in open' : ~order'[n].touched =>
          /\ order'[n].to = bottom' /\ order'[n].value = value'
          /\ ~SameString(order'[n].from, order'[n].to)
    BY <2>1, <2>5 DEF ConfirmInv
  <2> QED BY <2>1, <2>7, <2>8, <2>9 DEF ConfirmInv, SameString
<1>7. ASSUME NEW r \in requests, roundAnswered(r) PROVE ConfirmInv'
  <2>1. UNCHANGED <<top, bottom, value, enabled, order, spent>>
    BY <1>7 DEF roundAnswered, orderVars
  <2>2. requests' \subseteq requests
    BY <1>7 DEF roundAnswered, Service!SuccessBlock, Service!Store, Service!Complete,
                Service!requests, requests
  <2> QED BY <2>1, <2>2, SameConfirm
<1>8. ASSUME NEW r \in requests, exchangeAnswered(r) PROVE ConfirmInv'
  <2>1. /\ UNCHANGED <<top, bottom, enabled>> /\ order' = Settle(r.press)
        /\ value' = 0 /\ spent' \in BOOLEAN
    BY <1>8, Zenon
       DEF exchangeAnswered, didReceivedRateListFor, convertCurrency, ConfirmInv
  <2>2. requests' = requests \ {r} /\ r.press # 0
    BY <1>8
       DEF exchangeAnswered, didReceivedRateListFor, Service!SuccessBlock,
           Service!Store, Service!Complete, Service!requests, requests
  <2>3. open' = open \ {r.press}
    BY <2>1 DEF Settle, open
  <2>4. \A q \in requests' : q.press # 0 => q.press \in open' /\ q \in requests
    BY <2>2, <2>3 DEF MoneyInv, RequestsInv
  <2> QED
    BY <2>1, <2>3, <2>4, SettleOrder DEF ConfirmInv, SameString
<1>9. ASSUME NEW r \in requests, requestFailed(r) PROVE ConfirmInv'
  <2>1. /\ UNCHANGED <<top, bottom, value, enabled, spent>>
        /\ order' = [n \in open \ {r.press} |-> order[n]]
    BY <1>9 DEF requestFailed
  <2>2. requests' = requests \ {r}
    BY <1>9 DEF requestFailed, Service!FailureBlock, Service!Complete,
                Service!requests, requests
  <2>3. /\ open' = open \ {r.press}
        /\ \A n \in open' : n \in open /\ order'[n] = order[n]
    BY <2>1 DEF open
  <2>4. \A q \in requests' : q.press # 0 => q.press \in open' /\ q \in requests
    BY <2>2, <2>3 DEF MoneyInv, RequestsInv
  <2> QED
    BY <2>1, <2>3, <2>4 DEF ConfirmInv, SameString
<1>10. ASSUME kill \/ \E r \in requests : killBetweenCommits(r) PROVE ConfirmInv'
  <2>1. /\ requests' = {} /\ open' = {} /\ order' \in [open' -> Order]
        /\ enabled' = FALSE /\ spent' = FALSE
    BY <1>10 DEF kill, killBetweenCommits, ProcessEnds, requests, open
  <2> QED BY <2>1 DEF ConfirmInv
<1> QED
  BY <1>1, <1>2, <1>3, <1>4, <1>5, <1>6, <1>7, <1>8, <1>9, <1>10 DEF Next, requests

\* Together they hold in every reachable state.
THEOREM OrdersCorrect == Spec => [](MoneyInv /\ FieldInv /\ ConfirmInv)
<1>1. Init => FieldInv /\ ConfirmInv
  <2>1. Init => 0 \in Amount /\ requests = {} /\ open = {}
    BY ConverterAssumption DEF Init, Service!Init, requests, open, Amount
  <2> QED BY <2>1 DEF Init, FieldInv, ConfirmInv, open
<1> QED
  BY <1>1, InitMoney, StepMoney, StepField, StepConfirm, PTL DEF Spec

\* Every currency has a stored list, or none yet.
RateInv == rateList \in [Currency -> 0..MaxVersion]

\* Only received versions are stored.
LEMMA RateType == Spec => []RateInv
<1>1. Init => RateInv
  BY ConverterAssumption DEF Init, Service!Init, RateInv
<1>2. MoneyInv /\ RateInv /\ [Next]_vars => RateInv'
  <2> SUFFICES ASSUME MoneyInv, RateInv, [Next]_vars PROVE RateInv'
    OBVIOUS
  <2>1. \A r \in requests : r.base \in Currency /\ inFlight[r] \in 0..MaxVersion
    BY DEF MoneyInv, RequestsInv
  <2>2. rateList' = rateList
        \/ \E r \in requests : rateList' = [rateList EXCEPT ![r.base] = inFlight[r]]
    BY DEF Next, requests, Launch, viewDidLoad, didReceivedCurrenciesFromStorage,
           updateTimer, textFieldValueDidChangedTo, scrollTop, scrollBottom,
           exchangeButtonPressed, dismissAlert, deliverChanges, roundAnswered,
           exchangeAnswered, didReceivedRateListFor, requestFailed,
           killBetweenCommits, roundReported, server, kill, vars, serviceVars,
           Service!getRateListForCurrencies, Service!NewGroup,
           Service!getRateListForCurrency, Service!Enter, Service!SuccessBlock,
           Service!Store, Service!FailureBlock, Service!NotifyBlock, Service!Publish,
           Service!Serve
  <2> QED BY <2>1, <2>2 DEF RateInv
<1> QED
  BY <1>1, <1>2, MoneyCorrect, PTL DEF Spec

\* An order that nothing touched between the press and the answer is executed
\* as it was confirmed (ViewController.m:72-74, 88-99).
THEOREM ConfirmedCorrect == Spec => ExecutedAsConfirmed
<1> DEFINE A == \A n \in open : Exchanged(n) /\ ~order[n].touched =>
                  LET o == order[n] IN
                  /\ amount' = Bank!Move(amount, o.from, o.to, o.value,
                                         Rate[rateList'[o.from]][o.from][o.to])
                  /\ TaggedStrings => o.from # o.to
<1>1. MoneyInv /\ FieldInv /\ ConfirmInv /\ RateInv /\ [Next]_vars => A
  <2> SUFFICES ASSUME MoneyInv, ConfirmInv, RateInv, [Next]_vars,
                      NEW n \in open, Exchanged(n), ~order[n].touched
               PROVE  LET o == order[n] IN
                      /\ amount' = Bank!Move(amount, o.from, o.to, o.value,
                                             Rate[rateList'[o.from]][o.from][o.to])
                      /\ TaggedStrings => o.from # o.to
    OBVIOUS
  <2>1. PICK r \in requests : exchangeAnswered(r) /\ Converts(r) /\ r.press = n
    BY ExchangeStep
  <2>2. /\ order[n].from = r.base /\ order[n].to = bottom /\ order[n].value = value
        /\ ~SameString(order[n].from, order[n].to)
    BY <2>1 DEF ConfirmInv, exchangeAnswered, didReceivedRateListFor
  <2>3. amount' = Converted(r)
    BY <2>1, Zenon DEF exchangeAnswered, didReceivedRateListFor, convertCurrency
  <2>4. rateList'[r.base] = inFlight[r]
    BY <2>1
       DEF exchangeAnswered, didReceivedRateListFor, Service!SuccessBlock,
           Service!Store, RateInv, MoneyInv, RequestsInv
  <2> QED
    BY <2>2, <2>3, <2>4 DEF Converted, Bank!Move, SameString
<1>2. Spec => []RateInv
  BY RateType
<1> QED
  BY <1>1, <1>2, OrdersCorrect, PTL DEF Spec, ExecutedAsConfirmed

\* An exchanged amount is not exchanged again (ViewController.m:97).
THEOREM SpentOnceCorrect == Spec => SpentOnce
<1>1. MoneyInv /\ FieldInv /\ ConfirmInv /\ [Next]_vars
        => \A n \in open : Exchanged(n) => ~spent
  <2> SUFFICES ASSUME MoneyInv, ConfirmInv, [Next]_vars, NEW n \in open, Exchanged(n)
               PROVE  ~spent
    OBVIOUS
  <2>1. PICK r \in requests : Converts(r)
    BY ExchangeStep
  <2>2. value # 0
    BY <2>1 DEF Converts
  <2> QED BY <2>2 DEF ConfirmInv
<1> QED
  BY <1>1, OrdersCorrect, PTL DEF Spec, SpentOnce

-----------------------------------------------------------------------------
(***************************************************************************)
(* The types of the whole: what is proved of the rate list service alone   *)
(* holds of it inside the application too, which ends and restarts it.     *)
(***************************************************************************)
Alone == INSTANCE RateListService_proofs

\* The service's operations are the same seen from its theorems.
LEMMA SameService ==
  /\ Service!getRateListForCurrencies => Alone!getRateListForCurrencies
  /\ \A c : Service!getRateListForCurrency(c) => Alone!getRateListForCurrency(c)
  /\ \A r : Service!SuccessBlock(r) => Alone!SuccessBlock(r)
  /\ \A r : Service!FailureBlock(r) => Alone!FailureBlock(r)
<1>1. Service!getRateListForCurrencies => Alone!getRateListForCurrencies
  BY DEF Service!getRateListForCurrencies, Service!NewGroup, Service!Send,
         Service!requests, Service!RoundRequests, Service!networkOperationsStarted,
         Service!historyVars,
         Alone!getRateListForCurrencies, Alone!NewGroup, Alone!Send,
         Alone!requests, Alone!RoundRequests, Alone!networkOperationsStarted,
         Alone!historyVars, Service!Cardinality, Alone!Cardinality
<1>2. ASSUME NEW c, Service!getRateListForCurrency(c)
      PROVE  Alone!getRateListForCurrency(c)
  BY <1>2
     DEF Service!getRateListForCurrency, Service!Enter, Service!Send,
         Service!requests, Service!networkOperationsStarted, Service!historyVars,
         Alone!getRateListForCurrency, Alone!Enter, Alone!Send,
         Alone!requests, Alone!networkOperationsStarted, Alone!historyVars
<1>3. ASSUME NEW r, Service!SuccessBlock(r) PROVE Alone!SuccessBlock(r)
  BY <1>3
     DEF Service!SuccessBlock, Service!Store, Service!Leave, Service!Complete,
         Service!requests, Service!Group, Service!networkOperationFinished,
         Alone!SuccessBlock, Alone!Store, Alone!Leave, Alone!Complete,
         Alone!requests, Alone!Group, Alone!networkOperationFinished
<1>4. ASSUME NEW r, Service!FailureBlock(r) PROVE Alone!FailureBlock(r)
  BY <1>4
     DEF Service!FailureBlock, Service!Complete, Service!requests, Service!groupVars,
         Service!networkOperationFinished,
         Alone!FailureBlock, Alone!Complete, Alone!requests, Alone!groupVars,
         Alone!networkOperationFinished
<1> QED
  BY <1>1, <1>2, <1>3, <1>4

\* So they keep the service's types.
LEMMA ServiceTypes ==
  ASSUME Alone!TypeInv,
         \/ Service!getRateListForCurrencies
         \/ \E c \in Currency : Service!getRateListForCurrency(c)
         \/ \E r \in requests : Service!Serve(r) \/ Service!SuccessBlock(r)
                                \/ Service!FailureBlock(r)
         \/ \E g \in queued : Service!NotifyBlock(g)
         \/ Service!Publish
         \/ UNCHANGED serviceVars
  PROVE  Alone!TypeInv'
<1>0. /\ PointerStep \in {4, 8} /\ Alone!IsFiniteSet(Currency) /\ Currency # {}
      /\ MaxGroup \in Nat /\ MaxPress \in Nat /\ MaxVersion \in Nat \ {0}
  BY ConverterAssumption DEF IsFiniteSet, Alone!IsFiniteSet
<1>1. Alone!requests = requests
  BY DEF Alone!requests, requests
<1>2. CASE Service!getRateListForCurrencies
  BY <1>0, <1>2, SameService, Alone!RoundTypeInv
<1>3. ASSUME NEW c \in Currency, Service!getRateListForCurrency(c)
      PROVE  Alone!TypeInv'
  <2>1. Alone!getRateListForCurrency(c)
    BY <1>3, SameService
  <2> QED BY <1>0, <2>1, Alone!PressTypeInv
<1>4. ASSUME NEW r \in requests, Service!SuccessBlock(r) PROVE Alone!TypeInv'
  <2>1. Alone!SuccessBlock(r) /\ r \in Alone!requests
    BY <1>1, <1>4, SameService
  <2> QED BY <1>0, <2>1, Alone!SuccessTypeInv
<1>5. ASSUME NEW r \in requests, Service!FailureBlock(r) PROVE Alone!TypeInv'
  <2>1. Alone!FailureBlock(r) /\ r \in Alone!requests
    BY <1>1, <1>5, SameService
  <2> QED BY <1>0, <2>1, Alone!FailureTypeInv
<1>6. ASSUME \/ \E r \in requests : Service!Serve(r)
             \/ \E g \in queued : Service!NotifyBlock(g)
             \/ Service!Publish
             \/ UNCHANGED serviceVars
      PROVE  Alone!TypeInv'
  <2>1. \/ \E r \in Alone!requests : Alone!Serve(r)
        \/ \E g \in queued : Alone!NotifyBlock(g)
        \/ Alone!Publish
        \/ UNCHANGED Alone!vars
    BY <1>1, <1>6
       DEF Service!Serve, Service!NotifyBlock, Service!Publish, serviceVars,
           Service!requests, Service!indicatorVars, Service!groupVars,
           Service!historyVars,
           Alone!Serve, Alone!NotifyBlock, Alone!Publish, Alone!vars,
           Alone!requests, Alone!indicatorVars, Alone!groupVars, Alone!historyVars
  <2> QED BY <1>0, <2>1, Alone!OtherTypeInv
<1> QED
  BY <1>2, <1>3, <1>4, <1>5, <1>6


\* The end of the process takes the service back to where it started, but for
\* the numbers given out, the stored lists and the server's version.
LEMMA EndedTypes ==
  ASSUME Alone!TypeInv, ProcessEnds, rateList' \in [Currency -> 0..MaxVersion]
  PROVE  Alone!TypeInv'
<1>1. requests' = {} /\ inFlight' \in [requests' -> 0..MaxVersion]
  BY DEF ProcessEnds, requests
<1>2. Alone!requests' = requests'
  BY DEF Alone!requests, requests
<1>3. Alone!IsFiniteSet(requests') /\ Alone!Cardinality(requests') = 0
  BY <1>1, FS_EmptySet DEF IsFiniteSet, Alone!IsFiniteSet, Cardinality, Alone!Cardinality
<1>4. /\ loadingCount' = 0 /\ indicatorVisible' = FALSE
      /\ group' = 0 /\ entered' = 0 /\ armed' = FALSE /\ queued' = {}
      /\ crashed' = FALSE /\ logged' = {} /\ overtaken' = {}
      /\ presses' = presses /\ published' = published
  BY DEF ProcessEnds
<1>5. lost' \in [1..MaxGroup -> Nat] /\ stray' \in [1..MaxGroup -> Nat]
      /\ received' \in [1..MaxGroup -> SUBSET Currency]
  BY DEF ProcessEnds
<1>6. presses \in 0..MaxPress /\ published \in 1..MaxVersion
  BY DEF Alone!TypeInv, Alone!TypeOK, Alone!Version
<1>7. Alone!TypeOK'
  <2>1. 0 \in 0..MaxGroup /\ 0 \in Nat
    BY ConverterAssumption
  <2>2. /\ Alone!requests' \subseteq Alone!Request /\ Alone!IsFiniteSet(Alone!requests')
        /\ inFlight' \in [Alone!requests' -> 0..MaxVersion]
    BY <1>1, <1>2, <1>3
  <2>3. /\ loadingCount' \in Nat /\ indicatorVisible' \in BOOLEAN
        /\ group' \in 0..MaxGroup /\ entered' \in Nat /\ armed' \in BOOLEAN
        /\ queued' \subseteq Alone!Group /\ crashed' \in BOOLEAN
        /\ logged' \subseteq [group : Alone!Group, missing : SUBSET Currency]
        /\ overtaken' \subseteq Alone!requests'
    BY <1>4, <2>1
  <2> QED
    BY <1>4, <1>5, <1>6, <2>2, <2>3 DEF Alone!TypeOK, Alone!Group, Alone!Version
<1>8. Alone!Issued' /\ Alone!IndicatorMatchesLoad'
  BY <1>1, <1>2, <1>3, <1>4, ConverterAssumption
     DEF Alone!Issued, Alone!IndicatorMatchesLoad
<1> QED
  BY <1>7, <1>8 DEF Alone!TypeInv

\* What is left of the types: the service's, the launches, what is pending, the
\* alert and whose the open orders are.
RestInv ==
  /\ Alone!TypeInv
  /\ launches \in 0..MaxLaunch
  /\ pending \subseteq Currency
  /\ alert \in Alerts /\ enabled \in BOOLEAN
  /\ open = {r.press : r \in requests} \ {0}

\* The initial state satisfies it.
LEMMA InitRest == Init => RestInv
<1> SUFFICES ASSUME Init PROVE RestInv
  OBVIOUS
<1>1. Alone!Init
  BY DEF Init, Service!Init, Service!IndicatorInit, Service!Group, Alone!Init,
         Alone!IndicatorInit, Alone!Group
<1>2. Alone!TypeInv
  <2>1. /\ PointerStep \in {4, 8} /\ Alone!IsFiniteSet(Currency) /\ Currency # {}
        /\ MaxGroup \in Nat /\ MaxPress \in Nat /\ MaxVersion \in Nat \ {0}
    BY ConverterAssumption DEF IsFiniteSet, Alone!IsFiniteSet
  <2> QED BY <1>1, <2>1, Alone!InitTypeInv
<1>3. launches \in 0..MaxLaunch
  BY ConverterAssumption DEF Init
<1>4. requests = {} /\ open = {}
  BY DEF Init, Service!Init, requests, open
<1> QED
  BY <1>2, <1>3, <1>4 DEF Init, RestInv, Alerts

\* Every step keeps the service's types: it is one of its operations, or leaves
\* it alone, or ends the process.
LEMMA StepService ==
  ASSUME MoneyInv, RestInv, [Next]_vars
  PROVE  Alone!TypeInv'
<1>1. CASE ProcessEnds
  <2>1. rateList \in [Currency -> 0..MaxVersion]
    BY DEF RestInv, Alone!TypeInv, Alone!TypeOK
  <2>2. rateList' \in [Currency -> 0..MaxVersion]
    <3>1. CASE kill
      BY <2>1, <3>1 DEF kill
    <3>2. ASSUME NEW r \in requests, killBetweenCommits(r)
          PROVE  rateList' \in [Currency -> 0..MaxVersion]
      BY <2>1, <3>2 DEF killBetweenCommits, MoneyInv, RequestsInv
    <3>3. CASE UNCHANGED rateList
      BY <2>1, <3>3
    <3>4. phase' = "off"
      BY <1>1 DEF ProcessEnds
    <3>5. ASSUME ~kill, ~ \E r \in requests : killBetweenCommits(r)
          PROVE  UNCHANGED rateList
      BY <3>4, <3>5
         DEF Next, requests, Launch, viewDidLoad, updateTimer,
             textFieldValueDidChangedTo, scrollTop, scrollBottom,
             exchangeButtonPressed, dismissAlert, deliverChanges, roundAnswered,
             exchangeAnswered, requestFailed, roundReported, server, Touchable,
             Running, processVars, serviceVars, vars
    <3> QED BY <3>1, <3>2, <3>3, <3>5
  <2> QED BY <1>1, <2>2, EndedTypes DEF RestInv
<1>2. CASE ~ProcessEnds
  <2>1. \/ Service!getRateListForCurrencies
        \/ \E c \in Currency : Service!getRateListForCurrency(c)
        \/ \E r \in requests : Service!Serve(r) \/ Service!SuccessBlock(r)
                               \/ Service!FailureBlock(r)
        \/ \E g \in queued : Service!NotifyBlock(g)
        \/ Service!Publish
        \/ UNCHANGED serviceVars
    BY <1>2
       DEF Next, requests, Launch, viewDidLoad, didReceivedCurrenciesFromStorage,
           updateTimer, textFieldValueDidChangedTo, scrollTop, scrollBottom,
           exchangeButtonPressed, dismissAlert, deliverChanges, roundAnswered,
           exchangeAnswered, requestFailed, roundReported, server, kill,
           killBetweenCommits, vars, MoneyInv, ScreenInv
  <2> QED BY <2>1, ServiceTypes DEF RestInv
<1> QED BY <1>1, <1>2

\* Every step keeps the open orders those of the presses in flight.
LEMMA StepOpen ==
  ASSUME MoneyInv, RestInv, [Next]_vars
  PROVE  open' = {r.press : r \in requests'} \ {0}
<1> DEFINE P == {r.press : r \in requests} \ {0}
<1>0. open = P
  BY DEF RestInv
<1>1. CASE viewDidLoad \/ updateTimer
  <2>1. requests' = requests \cup Service!RoundRequests(group + 1) /\ open' = open
    BY <1>1
       DEF viewDidLoad, didReceivedCurrenciesFromStorage, updateTimer, orderVars,
           Service!getRateListForCurrencies, Service!NewGroup, Service!Send,
           Service!requests, requests, open
  <2>2. \A r \in Service!RoundRequests(group + 1) : r.press = 0
    BY DEF Service!RoundRequests
  <2> QED BY <1>0, <2>1, <2>2
<1>2. CASE exchangeButtonPressed
  <2> DEFINE new == [press |-> presses + 1, base |-> top, group |-> group]
  <2>1. requests' = requests \cup {new} /\ open' = open \cup {presses + 1}
    BY <1>2 DEF exchangeButtonPressed, Service!getRateListForCurrency, Service!Enter,
                Service!Send, Service!requests, requests, open
  <2>2. presses + 1 # 0 /\ new.press = presses + 1
    BY DEF MoneyInv, RequestsInv
  <2> HIDE DEF new
  <2>3. {r.press : r \in requests'} = {r.press : r \in requests} \cup {new.press}
    BY <2>1
  <2> QED BY <1>0, <2>1, <2>2, <2>3
<1>3. ASSUME NEW r \in requests, roundAnswered(r) \/ exchangeAnswered(r) \/ requestFailed(r)
      PROVE  open' = {q.press : q \in requests'} \ {0}
  <2>1. requests' = requests \ {r}
    BY <1>3
       DEF roundAnswered, exchangeAnswered, requestFailed, Service!SuccessBlock,
           Service!FailureBlock, Service!Complete, Service!requests, requests
  <2>2. open' = open \ {r.press}
    <3>1. CASE roundAnswered(r)
      BY <1>0, <3>1 DEF roundAnswered, open, orderVars
    <3>2. CASE exchangeAnswered(r)
      BY <3>2 DEF exchangeAnswered, Settle, open
    <3>3. CASE requestFailed(r)
      BY <3>3 DEF requestFailed, open
    <3> QED BY <1>3, <3>1, <3>2, <3>3
  <2>3. \A q \in requests : r.press # 0 /\ q.press = r.press => q = r
    BY DEF MoneyInv, RequestsInv
  <2> QED BY <1>0, <2>1, <2>2, <2>3
<1>4. ASSUME kill \/ \E r \in requests : killBetweenCommits(r)
      PROVE  open' = {q.press : q \in requests'} \ {0}
  BY <1>4 DEF kill, killBetweenCommits, ProcessEnds, requests, open
<1>5. ASSUME \/ Launch
             \/ \E v \in Amount : textFieldValueDidChangedTo(v)
             \/ \E c \in Currency : scrollTop(c) \/ scrollBottom(c)
             \/ dismissAlert \/ deliverChanges \/ server
             \/ \E g \in queued : roundReported(g)
             \/ UNCHANGED vars
      PROVE  open' = {q.press : q \in requests'} \ {0}
  <2>1. open' = open
    BY <1>5
       DEF Launch, textFieldValueDidChangedTo, Touch, scrollTop, scrollBottom,
           dismissAlert, deliverChanges, server, roundReported, vars, orderVars, open
  <2>2. requests' = requests
    BY <1>5
       DEF Launch, textFieldValueDidChangedTo, scrollTop, scrollBottom, dismissAlert,
           deliverChanges, server, roundReported, Service!NotifyBlock, Service!Publish,
           Service!Serve, Service!requests, vars, serviceVars, requests
  <2> QED BY <1>0, <2>1, <2>2
<1> QED
  BY <1>1, <1>2, <1>3, <1>4, <1>5 DEF Next, requests

\* Every step keeps the rest of the types.
LEMMA StepRest == MoneyInv /\ RestInv /\ [Next]_vars => RestInv'
<1> SUFFICES ASSUME MoneyInv, RestInv, [Next]_vars PROVE RestInv'
  OBVIOUS
<1>1. launches' \in 0..MaxLaunch
  <2>1. CASE Launch
    BY <2>1, ConverterAssumption DEF Launch, RestInv
  <2>2. CASE ~Launch
    BY <2>2
       DEF Next, requests, viewDidLoad, updateTimer, textFieldValueDidChangedTo,
           scrollTop, scrollBottom, exchangeButtonPressed, dismissAlert,
           deliverChanges, roundAnswered, exchangeAnswered, requestFailed,
           killBetweenCommits, roundReported, server, kill, ProcessEnds, vars,
           processVars, RestInv
  <2> QED BY <2>1, <2>2
<1>2. pending' \subseteq Currency
  <2>1. ASSUME NEW r \in requests, roundAnswered(r) \/ exchangeAnswered(r)
        PROVE  pending' \subseteq Currency
    <3>1. pending' = PendingAfterWrite(r) \/ pending' = {r.base, bottom}
      BY <2>1, Zenon DEF roundAnswered, exchangeAnswered, didReceivedRateListFor,
                         convertCurrency
    <3> QED BY <3>1 DEF PendingAfterWrite, MoneyInv, RequestsInv, ScreenInv, RestInv
  <2>2. ASSUME ~ \E r \in requests : roundAnswered(r) \/ exchangeAnswered(r)
        PROVE  pending' = pending \/ pending' = {}
    BY <2>2
       DEF Next, requests, Launch, viewDidLoad, updateTimer,
           textFieldValueDidChangedTo, scrollTop, scrollBottom,
           exchangeButtonPressed, dismissAlert, deliverChanges, requestFailed,
           killBetweenCommits, roundReported, server, kill, ProcessEnds, vars,
           storageVars
  <2> QED BY <2>1, <2>2 DEF RestInv
<1>3. alert' \in Alerts
  <2>1. "none" \in Alerts /\ Present("RequestFailed") \in Alerts
        /\ \A r : Present(Refusal(r)) \in Alerts
    BY DEF Alerts, Present, Refusal, RestInv
  <2>2. ASSUME NEW r \in requests, exchangeAnswered(r) PROVE alert' \in Alerts
    <3>1. alert' = alert \/ alert' = Present(Refusal(r))
      BY <2>2, Zenon DEF exchangeAnswered, didReceivedRateListFor, convertCurrency
    <3> QED BY <2>1, <3>1 DEF RestInv
  <2>3. ASSUME ~ \E r \in requests : exchangeAnswered(r)
        PROVE  alert' \in {alert, "none", Present("RequestFailed")}
    BY <2>3
       DEF Next, requests, Launch, viewDidLoad, updateTimer,
           textFieldValueDidChangedTo, scrollTop, scrollBottom,
           exchangeButtonPressed, dismissAlert, deliverChanges, roundAnswered,
           requestFailed, killBetweenCommits, roundReported, server, kill,
           ProcessEnds, vars, screenVars
  <2> QED BY <2>1, <2>2, <2>3 DEF RestInv
<1>4. enabled' \in BOOLEAN
  <2>1. \/ UNCHANGED enabled
        \/ enabled' = FALSE
        \/ \E c \in Currency : enabled' = ~SameString(c, bottom)
                               \/ enabled' = ~SameString(top, c)
    BY Zenon
       DEF Next, requests, Launch, viewDidLoad, updateTimer,
           textFieldValueDidChangedTo, scrollTop, scrollBottom,
           exchangeButtonPressed, dismissAlert, deliverChanges, roundAnswered,
           exchangeAnswered, requestFailed, killBetweenCommits, roundReported,
           server, kill, ProcessEnds, vars, screenVars
  <2> QED BY <2>1, ConverterAssumption DEF SameString, RestInv
<1> QED
  BY <1>1, <1>2, <1>3, <1>4, StepService, StepOpen DEF RestInv

\* The types of the application's variables, those of the service under it
\* included (all of ViewController.m, StorageService.m, RateListService.m).
THEOREM TypesHold == Spec => []TypeOK
<1>1. MoneyInv /\ FieldInv /\ ConfirmInv /\ LabelInv /\ RestInv => TypeOK
  <2> SUFFICES ASSUME MoneyInv, FieldInv, ConfirmInv, LabelInv, RestInv PROVE TypeOK
    OBVIOUS
  <2>1. Service!TypeOK
    BY DEF RestInv, Alone!TypeInv, Alone!TypeOK, Alone!requests, Alone!Request,
           Alone!Group, Alone!Version, Alone!IsFiniteSet, Service!TypeOK,
           Service!requests, Service!Request, Service!Group, Service!Version,
           Service!IsFiniteSet
  <2> QED
    BY <2>1 DEF TypeOK, MoneyInv, ScreenInv, FieldInv, ConfirmInv, LabelInv, RestInv,
                requests
<1> QED
  BY <1>1, InitRest, StepRest, MoneyCorrect, OrdersCorrect, LabelsHold, PTL DEF Spec

=============================================================================
