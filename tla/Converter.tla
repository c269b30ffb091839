------------------------------ MODULE Converter ------------------------------
(***************************************************************************)
(* The whole application: the launch sequence, the screen's selections and *)
(* amount, the Exchange button, the database with its change               *)
(* notifications, and RateListService underneath.                          *)
(*                                                                         *)
(* Every handler runs to its end on the main thread, so each is one step;  *)
(* the process may be killed between any two, and also inside the success  *)
(* block, which commits twice.  What survives a kill is the database:      *)
(* seeded, amount and rateList.                                            *)
(*                                                                         *)
(* Realm is used through its contract: a commit changes the rows at once,  *)
(* and the notification block hears of the modified rows either from the   *)
(* run loop or, if that has not happened yet, from inside the next         *)
(* beginWriteTransaction.                                                  *)
(***************************************************************************)
EXTENDS Integers, FiniteSets

CONSTANTS
  PointerStep, Currency, MaxGroup, MaxPress, MaxVersion,  \* see RateListService
  First,          (* the currency at index 0                               *)
  SeedAmount,     (* what firstEnterConfigurationIfNeeded gives each row   *)
  MaxAmount,      (* bound: the largest amount the user types              *)
  MaxLaunch,      (* bound: launches of the process                        *)
  Rate,           (* Rate[v][c][d]: what one c buys of d in version v,     *)
                  (* 0 where the list of c has no entry for d              *)
  TaggedStrings   (* short strings are tagged pointers (64-bit), so equal  *)
                  (* strings are pointer-equal; on armv7 they never are    *)

ASSUME ConverterAssumption ==
  /\ PointerStep \in {4, 8} /\ IsFiniteSet(Currency)
  /\ First \in Currency
  /\ SeedAmount \in Nat /\ MaxAmount \in Nat
  /\ MaxGroup \in Nat /\ MaxPress \in Nat /\ MaxLaunch \in Nat
  /\ MaxVersion \in Nat \ {0}
  /\ Rate \in [1..MaxVersion -> [Currency -> [Currency -> Nat]]]
  /\ \A v \in 1..MaxVersion, c \in Currency : Rate[v][c][c] = 0
  /\ TaggedStrings \in BOOLEAN

\* RateListService's variables.
VARIABLES loadingCount, indicatorVisible, group, entered, armed, queued, inFlight,
          presses, rateList, published, crashed,
          lost, stray, received, logged, overtaken

VARIABLES
  phase,        (* "off", "launched" (no screen yet) or "running"          *)
  launches,     (* launches so far                                         *)
  seeded,       (* the Currency table has its rows                         *)
  amount,       (* the amount column                                       *)
  pending,      (* rows changed since the notification block last ran      *)
  top, bottom,  (* selectedTopCurrency, selectedBottomCurrency             *)
  value,        (* valueForExchange                                        *)
  enabled,      (* exchangeButton.enabled                                  *)
  text,         (* the amount each top cell's field shows, 0 when blank    *)
  label,        (* the balance each top cell shows                         *)
  alert,        (* the alert on screen                                     *)
  \* History variables, read by properties only.
  order,        (* what the screen had when each unanswered exchange       *)
                (* request was pressed                                     *)
  spent         (* the last amount entered has been exchanged              *)

serviceVars == <<loadingCount, indicatorVisible, group, entered, armed, queued,
                 inFlight, presses, rateList, published, crashed,
                 lost, stray, received, logged, overtaken>>
processVars == <<phase, launches>>
storageVars == <<seeded, amount, pending>>
screenVars  == <<top, bottom, value, enabled, text, label, alert>>
orderVars   == <<order, spent>>
vars == <<serviceVars, processVars, storageVars, screenVars, orderVars>>

Service == INSTANCE RateListService

Amount == 0..MaxAmount

\* What a pressed order remembers: the pair and the amount in force, what the
\* field showed, and whether the user or another answer changed them since.
Order == [from : Currency, to : Currency, value : Amount, shown : Amount,
          touched : BOOLEAN]

Alerts == {"none", "RequestFailed", "NotEnoughMoney", "CannotExchange0"}

open == DOMAIN order

Init ==
  /\ Service!Init
  /\ phase = "off" /\ launches = 0
  /\ seeded = FALSE
  /\ amount = [c \in Currency |-> 0]
  /\ pending = {}
  /\ top = First /\ bottom = First /\ value = 0 /\ enabled = FALSE
  /\ text = [c \in Currency |-> 0]
  /\ label = amount
  /\ alert = "none"
  /\ order = [n \in {} |-> 0] /\ spent = FALSE

Running == phase = "running" /\ ~crashed

\* An alert is modal: the screen under it takes no touches.
Touchable == Running /\ alert = "none"

\* presentViewController does nothing while another alert is up.
Present(a) == IF alert = "none" THEN a ELSE alert

\* isCurrenciesEqual and isEqual compare strings with ==.
SameString(c, d) == TaggedStrings /\ c = d

\* The orders of S no longer describe what the screen has.
Touch(S) == [n \in open |-> [order[n] EXCEPT !.touched = @ \/ n \in S]]

Settle(n) == [k \in open \ {n} |-> Touch(open)[k]]

-----------------------------------------------------------------------------
\* Mutant: the rows are added without looking whether there are any.
LaunchReseeds ==
  /\ phase = "off"
  /\ launches < MaxLaunch
  /\ phase' = "launched"
  /\ launches' = launches + 1
  /\ seeded' = TRUE
  /\ amount' = [c \in Currency |-> SeedAmount]
  /\ UNCHANGED <<serviceVars, pending, screenVars, orderVars>>

\* application:didFinishLaunchingWithOptions: and the seeding it does.
Launch ==
  /\ phase = "off"
  /\ launches < MaxLaunch
  /\ phase' = "launched"
  /\ launches' = launches + 1
  /\ seeded' = TRUE
  /\ amount' = IF seeded THEN amount ELSE [c \in Currency |-> SeedAmount]
  /\ UNCHANGED <<serviceVars, pending, screenVars, orderVars>>

\* Mutant: the first round is left to the timer.
didReceivedCurrenciesWithoutRound ==
  /\ top' = First /\ bottom' = First
  /\ text' = [c \in Currency |-> 0]
  /\ label' = amount
  /\ UNCHANGED serviceVars

\* didReceivedCurrenciesFromStorage: page 0 is selected on both sides, the cells
\* are loaded, the first round goes out.
didReceivedCurrenciesFromStorage ==
  /\ Service!getRateListForCurrencies
  /\ top' = First /\ bottom' = First
  /\ text' = [c \in Currency |-> 0]
  /\ label' = amount

\* The screen comes up; its timer runs from here on.
viewDidLoad ==
  /\ phase = "launched"
  /\ phase' = "running"
  /\ value' = 0 /\ enabled' = FALSE
  /\ didReceivedCurrenciesFromStorage
  /\ UNCHANGED <<launches, storageVars, alert, orderVars>>

updateTimer ==
  /\ Running
  /\ Service!getRateListForCurrencies
  /\ UNCHANGED <<processVars, storageVars, screenVars, orderVars>>

\* The user edits the visible top cell.
textFieldValueDidChangedTo(v) ==
  /\ Touchable
  /\ text' = [text EXCEPT ![top] = v]
  /\ value' = v
  /\ order' = Touch(open) /\ spent' = FALSE
  /\ UNCHANGED <<serviceVars, processVars, storageVars, top, bottom, enabled,
                 label, alert>>

\* The top view comes to rest on c, which may be where it was: the cell of
\* another currency is a kept one or a fresh one. It may have been let go of
\* before an alert came up.
scrollTop(c) ==
  /\ Running
  /\ top' = c
  /\ enabled' = ~SameString(c, bottom)
  /\ \/ UNCHANGED <<text, label>>
     \/ /\ c # top
        /\ text' = [text EXCEPT ![c] = 0]
        /\ label' = [label EXCEPT ![c] = amount[c]]
  /\ UNCHANGED <<serviceVars, processVars, storageVars, bottom, value, alert, orderVars>>

\* Mutant: any scroll of the bottom view enables the button.
scrollBottomEnables(c) ==
  /\ Running
  /\ bottom' = c
  /\ enabled' = TRUE
  /\ order' = IF c = bottom THEN order ELSE Touch(open)
  /\ UNCHANGED <<serviceVars, processVars, storageVars, top, value, text, label,
                 alert, spent>>

scrollBottom(c) ==
  /\ Running
  /\ bottom' = c
  /\ enabled' = ~SameString(top, c)
  /\ order' = IF c = bottom THEN order ELSE Touch(open)
  /\ UNCHANGED <<serviceVars, processVars, storageVars, top, value, text, label,
                 alert, spent>>

exchangeButtonPressed ==
  /\ Touchable
  /\ enabled
  /\ Service!getRateListForCurrency(top)
  /\ order' = [n \in open \cup {presses'} |->
                 IF n \in open THEN order[n]
                 ELSE [from |-> top, to |-> bottom, value |-> value,
                       shown |-> text[top], touched |-> FALSE]]
  /\ UNCHANGED <<processVars, storageVars, screenVars, spent>>

dismissAlert ==
  /\ Running
  /\ alert # "none"
  /\ alert' = "none"
  /\ UNCHANGED <<serviceVars, processVars, storageVars, top, bottom, value, enabled,
                 text, label, orderVars>>

-----------------------------------------------------------------------------
\* Mutant: the balance is put into the field as well.
ReloadFillsField(S) ==
  /\ text' = [c \in Currency |-> IF c \in S THEN amount[c] ELSE text[c]]
  /\ label' = [c \in Currency |-> IF c \in S THEN amount[c] ELSE label[c]]

\* Mutant: the balance is not put into its label.
ReloadFieldOnly(S) ==
  /\ text' = [c \in Currency |-> IF c \in S THEN 0 ELSE text[c]]
  /\ label' = label

\* Mutant: only the selected cell is loaded again.
ReloadTopOnly(S) ==
  /\ text' = [c \in Currency |-> IF c \in S \cap {top} THEN 0 ELSE text[c]]
  /\ label' = [c \in Currency |-> IF c \in S \cap {top} THEN amount[c] ELSE label[c]]

\* didUpdateCurrencies:atIndexes: for the rows of S: their cells are dequeued
\* again, which blanks the field and shows the row's amount.
Reload(S) ==
  /\ text' = [c \in Currency |-> IF c \in S THEN 0 ELSE text[c]]
  /\ label' = [c \in Currency |-> IF c \in S THEN amount[c] ELSE label[c]]

\* The run loop runs the notification block.
deliverChanges ==
  /\ Running
  /\ pending # {}
  /\ Reload(pending)
  /\ pending' = {}
  /\ UNCHANGED <<serviceVars, processVars, seeded, amount, top, bottom, value,
                 enabled, alert, orderVars>>

\* The answer of r differs from the stored list and is written.
Differs(r) == ~(rateList[r.base] = inFlight[r] /\ SameString(r.base, r.base))

\* Mutant: beginWriteTransaction forgets what is pending.
ReportedByWriteNothing(r) == {}

\* The rows a beginWriteTransaction for r's rate list reports, and the rows
\* that remain to be reported after its commit.
ReportedByWrite(r) == IF Differs(r) THEN pending ELSE {}
PendingAfterWrite(r) == IF Differs(r) THEN {r.base} ELSE pending

\* The success block of a request of a round.
roundAnswered(r) ==
  /\ Running
  /\ r.press = 0
  /\ Service!SuccessBlock(r)
  /\ Reload(ReportedByWrite(r))
  /\ pending' = PendingAfterWrite(r)
  /\ UNCHANGED <<processVars, seeded, amount, top, bottom, value, enabled, alert,
                 orderVars>>

\* Mutant: the balance of the wrong side is looked at.
OverdrawsBottom(r) == amount[bottom] - value < 0

\* Mutant: the rate of the opposite direction.
ConvertedBackwards(r) ==
  LET rate == Rate[inFlight[r]][bottom][r.base]
      debited == [amount EXCEPT ![r.base] = @ - value]
  IN  [debited EXCEPT ![bottom] = @ + value * rate]

\* The handler works with the amount and the bottom currency the screen has NOW,
\* not with those it had when the button was pressed.
Overdraws(r) == amount[r.base] - value < 0

Converts(r) == ~Overdraws(r) /\ value # 0

Converted(r) ==
  LET rate == Rate[inFlight[r]][r.base][bottom]
      debited == [amount EXCEPT ![r.base] = @ - value]
  IN  [debited EXCEPT ![bottom] = @ + value * rate]

\* The alert of a refusal.
Refusal(r) == IF Overdraws(r) THEN "NotEnoughMoney" ELSE "CannotExchange0"

\* convertCurrency:amount:to:amount:, with the notifications of its own write
\* and of the write of r's list before it.
convertCurrency(r) ==
  \/ /\ Converts(r)
     /\ amount' = Converted(r)
     /\ Reload(ReportedByWrite(r) \cup PendingAfterWrite(r))
     /\ pending' = {r.base, bottom}
     /\ spent' = TRUE
     /\ UNCHANGED alert
  \/ /\ ~Converts(r)
     /\ alert' = Present(Refusal(r))
     /\ Reload(ReportedByWrite(r))
     /\ pending' = PendingAfterWrite(r)
     /\ UNCHANGED <<amount, spent>>

\* Mutant: the amount stays in force after the exchange.
didReceivedRateListForKeepsValue(r) == convertCurrency(r) /\ value' = value

\* didReceivedRateListFor:andPerformExchange:, when an exchange is needed.
didReceivedRateListFor(r) == convertCurrency(r) /\ value' = 0

\* The success block of an exchange request.
exchangeAnswered(r) ==
  /\ Running
  /\ r.press # 0
  /\ Service!SuccessBlock(r)
  /\ didReceivedRateListFor(r)
  /\ order' = Settle(r.press)
  /\ UNCHANGED <<processVars, seeded, top, bottom, enabled>>

\* Mutant: a failure waits until no alert is up.
requestFailedAfterAlert(r) ==
  /\ Touchable
  /\ Service!FailureBlock(r)
  /\ alert' = "RequestFailed"
  /\ order' = [n \in open \ {r.press} |-> order[n]]
  /\ UNCHANGED <<processVars, storageVars, top, bottom, value, enabled, text, label,
                 spent>>

\* The failure block of a request, and didFailedWithError:.
requestFailed(r) ==
  /\ Running
  /\ Service!FailureBlock(r)
  /\ alert' = Present("RequestFailed")
  /\ order' = [n \in open \ {r.press} |-> order[n]]
  /\ UNCHANGED <<processVars, storageVars, top, bottom, value, enabled, text, label,
                 spent>>

roundReported(g) ==
  /\ Running
  /\ Service!NotifyBlock(g)
  /\ UNCHANGED <<processVars, storageVars, screenVars, orderVars>>

server ==
  /\ Running
  /\ Service!Publish \/ \E r \in DOMAIN inFlight : Service!Serve(r)
  /\ UNCHANGED <<processVars, storageVars, screenVars, orderVars>>

-----------------------------------------------------------------------------
\* The process ends: everything but the database, and the server, is lost.
ProcessEnds ==
  /\ phase' = "off"
  /\ loadingCount' = 0 /\ indicatorVisible' = FALSE
  /\ group' = 0 /\ entered' = 0 /\ armed' = FALSE /\ queued' = {}
  /\ inFlight' = [r \in {} |-> 0]
  /\ crashed' = FALSE
  /\ lost' = [g \in 1..MaxGroup |-> 0] /\ stray' = [g \in 1..MaxGroup |-> 0]
  /\ received' = [g \in 1..MaxGroup |-> {}]
  /\ logged' = {} /\ overtaken' = {}
  /\ pending' = {}
  /\ top' = First /\ bottom' = First /\ value' = 0 /\ enabled' = FALSE
  /\ text' = [c \in Currency |-> 0]
  /\ label' = [c \in Currency |-> 0]
  /\ alert' = "none"
  /\ order' = [n \in {} |-> 0] /\ spent' = FALSE
  /\ UNCHANGED <<launches, seeded, amount, presses, published>>

\* Killed by the system or the user between two handlers, or aborted.
kill ==
  /\ phase # "off"
  /\ ProcessEnds
  /\ UNCHANGED rateList

\* Killed inside the success block of an exchange, after the first of its two
\* commits.
killBetweenCommits(r) ==
  /\ Running
  /\ r.press # 0
  /\ inFlight[r] # 0
  /\ Differs(r)
  /\ rateList' = [rateList EXCEPT ![r.base] = inFlight[r]]
  /\ ProcessEnds

Next ==
  \/ Launch
  \/ viewDidLoad
  \/ updateTimer
  \/ \E v \in Amount : textFieldValueDidChangedTo(v)
  \/ \E c \in Currency : scrollTop(c) \/ scrollBottom(c)
  \/ exchangeButtonPressed
  \/ dismissAlert
  \/ deliverChanges
  \/ \E r \in DOMAIN inFlight :
       roundAnswered(r) \/ exchangeAnswered(r) \/ requestFailed(r) \/ killBetweenCommits(r)
  \/ \E g \in queued : roundReported(g)
  \/ server
  \/ kill

Spec == Init /\ [][Next]_vars

-----------------------------------------------------------------------------
\* The types of the variables; the open orders are those of the presses in flight.
TypeOK ==
  /\ Service!TypeOK
  /\ phase \in {"off", "launched", "running"} /\ launches \in 0..MaxLaunch
  /\ seeded \in BOOLEAN /\ enabled \in BOOLEAN
  /\ amount \in [Currency -> Int] /\ label \in [Currency -> Int]
  /\ pending \subseteq Currency
  /\ top \in Currency /\ bottom \in Currency
  /\ value \in Amount /\ text \in [Currency -> Amount]
  /\ alert \in Alerts
  /\ order \in [open -> Order] /\ spent \in BOOLEAN
  /\ open = {r.press : r \in DOMAIN inFlight} \ {0}

\* The main thread runs what is submitted to it, the run loop delivers pending
\* notifications, every request ends in one of its two blocks at the latest
\* when its time-out fires, and an aborted process is gone.
Ends(r) == roundAnswered(r) \/ exchangeAnswered(r) \/ requestFailed(r)

Fairness ==
  /\ \A r \in Service!Request : WF_vars(r \in DOMAIN inFlight /\ Ends(r))
  /\ WF_vars(deliverChanges)
  /\ WF_vars(crashed /\ kill)

FairSpec == Spec /\ Fairness

\* The money part of the application implements the wallet: rows seeded once
\* whatever is killed and relaunched, one exchange at most for a confirmed
\* order, debit and credit together or not at all
\* (StorageService.m:51-97, ViewController.m:88-99).
Bank == INSTANCE Wallet WITH
  opened <- seeded, balance <- amount, confirmed <- presses,
  Rates <- {Rate[v][c][d] : v \in 1..MaxVersion, c \in Currency, d \in Currency}

WalletSpec == Bank!Spec

\* The steps that settle an order by an exchange.
Exchanged(n) == n \in open /\ n \notin open' /\ amount' # amount

\* An order that nothing touched while it was in flight moves the amount that
\* was in force when the button was pressed, between the two currencies of the
\* screen, at the rate of the list that is then stored; on 64-bit the two
\* differ, although the handler reads the amount and the bottom currency from
\* the screen when the answer comes (ViewController.m:88-99, 180).
ExecutedAsConfirmed ==
  [][\A n \in open : Exchanged(n) /\ ~order[n].touched =>
       LET o == order[n] IN
       /\ amount' = Bank!Move(amount, o.from, o.to, o.value,
                              Rate[rateList'[o.from]][o.from][o.to])
       /\ TaggedStrings => o.from # o.to]_vars

\* An amount is exchanged once: after an exchange the next one needs the user
\* to enter an amount again, even when the button was pressed twice and both
\* answers are on their way (ViewController.m:97).
SpentOnce == [][\A n \in open : Exchanged(n) => ~spent]_vars

\* While the screen is up every balance on it is the stored one, or its row is
\* still to be reported (StorageService.m:32-43, ViewController.m:128-142).
LabelsFreshUnlessPending ==
  phase = "running" => \A c \in Currency : c \in pending \/ label[c] = amount[c]

\* The dispatch group exists whenever the button can be pressed: entering a nil
\* group would abort (RateListService.m:16, 52, ViewController.m:33, 49-50).
ButtonNeedsGroup == enabled => group # 0

\* A balance on the screen catches up with the stored one.
LabelsCatchUp ==
  \A c \in Currency :
    Running /\ label[c] # amount[c] ~> label[c] = amount[c] \/ ~Running

\* Every press is settled: an exchange, a refusal, an error, or the end of the
\* process.
OrdersSettle == \A n \in 1..MaxPress : n \in open ~> n \notin open

\* What StorageService.m:62 says of an amount of 0: a field that shows nothing
\* (its placeholder is 0.00) is not exchanged.
BlankFieldNeverExchanges ==
  [][\A n \in open : Exchanged(n) /\ ~order[n].touched => order[n].shown # 0]_vars

\* What the button's guard and the dash in the bottom cell say: a currency is
\* not exchanged for itself (ViewController.m:180, DataManager.m:64-67).
NeverExchangedForItself ==
  [][\A n \in open : Exchanged(n) => order[n].from # bottom]_vars

=============================================================================
