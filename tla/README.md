# CurrencyConverter: specification, model checking and proofs

The program is an iOS application with one screen. Two paged views select a
currency each (top: what is given, bottom: what is wanted), the user types an
amount into the top cell and presses Exchange. The application then fetches the
current rate list of the top currency from a server, stores it, and converts
the amount between the two rows of its database. A timer refreshes the rate
lists of all currencies every 30 s.

The application is some 690 lines of Objective-C under
`src/ConverterDemo/ConverterDemo/`. The rest of the repository is vendored: the
database Realm, of which the notification machinery decides what the screen is
told and when, AFNetworking, which answers its requests, and MBProgressHUD,
which it never uses. The application and these two machineries are modelled.
There are no tests and the repository's README is empty, so the code, and the
comments of the vendored headers, are the reference.

## 1. The system

| Component | State it keeps | Operations | Interacts with |
|---|---|---|---|
| AppDelegate | none | launch | seeds the database (`StorageService`) |
| ViewController | page controls, button, alert | viewDidLoad, timer, button, scroll, all delegate methods | every other component |
| DataManager | `selectedTopCurrency`, `selectedBottomCurrency`, `valueForExchange` | select, value changed, fill a cell | reads `Currency` rows |
| ExchangeCell | the text of its field, its balance label | edit, prepareForReuse | reports edits to DataManager |
| RateListService | the GLOBAL `group`, requests in flight | round, single request, success, failure, notify | server, database, ViewController |
| NetworkActivityIndicatorManager | the global `loadingCount`, the spinner | started, finished | called by RateListService |
| StorageService | notification token | seed, convert, observe | Realm, ViewController |
| Currency, RateList | rows: index, amount, list; base, rates | isEqual | Realm |
| Realm: change sets | index sets, a builder per collection, the map of moved rows | what a log does to them, merge, calculate, search through links | fed by the logs, read by the callbacks |
| Realm: notifiers | callbacks with accumulated and packaged changes | add, remove, package, call, run, hand over | the thread of the instance, the worker |
| Realm: coordinator | notifiers new and old, the version to skip to, the instances | register, commit, advance, promote, refresh, the worker's passes | all instances of a file |
| AFNetworking session manager | the delegate of each task, the queues | make a task, data, completion, serialize, answer | NSURLSession, RateListService |

All the application's own code runs on the main thread. What makes it hard is
not preemption but the order of callbacks: answers, time-outs, ticks, database
notifications, touches and the end of the process come in any order, and every
handler reads what is current when it runs, not what was current when it was
asked for. `group` is the extreme case: a completion block leaves whatever group
the global holds by then. Below it, Realm and AFNetworking are concurrent: a
worker thread, the threads of the instances, three queues, with locks let go of
in the middle of what they do.

What makes each component correct:

- **Indicator**: turns while, and only while, requests are in flight.
- **RateListService**: enters and leaves balance, a round is reported when (and
  only when) its lists are in, stored lists do not go back in time.
- **Storage and screen**: money moves only for an order the user confirmed, once,
  as confirmed, within the balance; debit and credit together; rows seeded once.
- **Screen and Realm**: the balances shown are the stored ones, or about to be.
- **Change sets**: applying what is told to the collection of the last delivery
  gives the present one, with everything that was set marked and moves told as
  moves; a compressed set behaves as a set.
- **Notifiers**: a callback, once called, is told of every version since, and of
  each once, whoever is added, removed or called meanwhile.
- **Coordinator**: the same across threads, at the right version of the rows;
  nobody who waits for the worker waits for ever.
- **Session manager**: one answer per task, the whole body or a failure.

## 2. Modules

| Module | Models | Kind |
|---|---|---|
| `NetworkActivityIndicatorManager` | the counter and the spinner | operations called inside other steps |
| `RateListService` | rounds, requests, group, notify block, server | state machine (EXTENDS the former) |
| `Wallet` | what the application promises about money | abstract specification |
| `Converter` | launch, screen, database, end of the process, with `RateListService` as an instance | state machine of the whole application |
| `IndexSetOps` | what the methods of an index set mean for sets | operators |
| `IndexSetSpec` | an index set, as its header describes it | abstract specification |
| `ChunkedRangeVector` | the vector an index set is kept in: chunks of ranges with cached values, its iterators, `verify()` | state and operators |
| `IndexSet` | the methods of an index set on that vector | state machine that calls them in any order |
| `CollectionChangeBuilder` | the changes of a collection and their merging | operators |
| `ListChanges`, `TableChanges` | logs of a list of links, of a table, read and merged | state machines |
| `ChangeCalculation` | the difference of two results of a query | state machine over all pairs of results |
| `DeepChangeChecker` | the search for modified objects through links | state machine over all links and modifications |
| `ChangeNotifications` | what a notification block is promised | abstract specification |
| `CollectionNotifier` | the callbacks of one notifier | state machine |
| `RealmCoordinator` | instances, notifiers and the worker thread of one file | state machine |
| `Requests` | what is promised of a request | abstract specification |
| `AFURLSessionManager` | data tasks, delegates and queues | state machine |
| `*_proofs` (eight) | theorems about the module of that name; `CollectionNotifier_proofs` also about `DeepChangeChecker`; `Changes_proofs` about `ListChanges`, `ChangeCalculation` and `TableChanges` | proofs |
| `MC*` (four) | constants, symmetry, bounds and the composition of the parts of Realm | for TLC |

How they compose: `Converter` instantiates `RateListService` and adds to each of
its steps what the screen and the database do in it. It relies on two contracts
stated for it: that a commit's modifications are reported later or in the next
write (what `RealmCoordinator` and the change modules are about), and that each
request is answered once (`Requests`, implemented by `AFURLSessionManager`).
`RealmCoordinator` treats the changes between two versions as the set of these
versions; the change modules say what such a set stands for, and
`CollectionNotifier` what happens to it inside one notifier.

### State and actions: the application

**NetworkActivityIndicatorManager.** `loadingCount` is declared
`NSUInteger *`, a pointer, so `++` adds `sizeof(NSUInteger)`; the constant
`PointerStep` is that size. `networkOperationsStarted(n)` is n calls in a row,
because the for loop of a round makes them inside one handler.

**RateListService.** A request is a record of the press it belongs to (0 for a
round), its currency and the group it entered. `inFlight` maps each request to
the version of the body it has received, 0 while it waits: `Serve` is the
server's answer, `SuccessBlock` the block run for it on the main queue. Rates are
abstracted to version numbers; the server answers with the newest one. Groups
are numbered by round. Only the current group can be entered or left (the global
names no other), so one count, `entered`, is kept. `Leave` is libdispatch's
leave: at 0 it aborts (`crashed`), from 1 to 0 it submits the notify block
(`queued`). `FailureBlock` is enabled in every state of the request: time-out,
connection error and an unreadable body all end there, and it does not leave.
`lost`, `stray`, `received`, `logged` and `overtaken` are history variables that
properties read and no guard does.

**Converter.** One action per handler, with everything the handler calls:
`Launch` (didFinishLaunching and seeding), `viewDidLoad` (with getCurrencies,
didReceivedCurrenciesFromStorage and the first round), `updateTimer`,
`textFieldValueDidChangedTo`, `scrollTop` and `scrollBottom` (the two branches
of scrollViewDidEndDecelerating), `exchangeButtonPressed`, `dismissAlert`,
`deliverChanges` (the Realm notification from the run loop), `roundAnswered` and
`exchangeAnswered` (the success block, with its write, the delegate, the
conversion and its write, the leave), `requestFailed`, `roundReported`,
`server`, `kill`, and `killBetweenCommits` (the process ends between the two
commits of an answer). The database (`seeded`, `amount`, `rateList`) survives
`ProcessEnds`; everything else is as at a fresh start.

- Text fields hold the amount they show, 0 being blank. An edit sets the amount
  of the visible cell and `valueForExchange`. A dequeued cell is blank and shows
  the row's balance; a cell that scrolls into view is either kept or dequeued.
- `pending` are the rows a commit has modified and the notification block has
  not been told of. `beginWriteTransaction` delivers them first, with the
  balances of before the write; otherwise the run loop does.
- An alert is modal: while one is up the screen takes no touches, and a second
  alert is dropped. A view that is already decelerating still comes to rest
  behind it; whether one was is not kept, so `scrollTop` and `scrollBottom` may
  happen under any alert.
- `TaggedStrings` says whether equal short strings are the same pointer, as on
  64-bit, or not, as on armv7: `isCurrenciesEqual` and `RateList isEqual:`
  compare strings with `==`.
- `order` and `spent` are history variables: what the screen had at each press,
  whether anything changed it since, and whether the last amount was exchanged.

**Wallet.** Balances opened once, orders confirmed, exchanged or cancelled.
`Converter` maps `opened` to `seeded`, `balance` to `amount`, `confirmed` to
`presses`, and `open` to the presses not yet answered (`DOMAIN order`).

### State and actions: Realm's notifications

**ChunkedRangeVector, IndexSet.** `m_data` is the vector of chunks with their cached begin, end and
count; iterators are pairs of positions. Every public method is an operator that
does what the code does, including the splitting of full chunks, the joining of
ranges across them and the builder that copies a set. The state machine calls
each method on every set it can reach. A loop of the code is a function of
the number of rounds: `skip[k]`, `removed[k]`, `merged[k]` are what k rounds leave,
and a round past the loop's end changes nothing. `IndexSetSpec` says what the
header says, on a plain set, and `IndexSet` implements it.

**CollectionChangeBuilder, ListChanges, TableChanges.** A builder is a record of
three sets, the moves in the order the code keeps them, and the map of moved
rows. The code's index sets are sets here, with the operators of `IndexSetOps`,
which is what `IndexSet` justifies. `ListChanges` calls the builder as
`TransactLogObserver` does for a list (insert, erase, swap, move, set, clear)
and merges at the end of each transaction; the list itself is kept beside it,
each entry with the index it had at the last delivery and whether it was set
since. What the code does with a loop over a vector (the moves, the erased
entries, the links of a row) is a recursive function here, one call per turn of
the loop. `TableChanges` does the
same for the rows of a table: insertions at the end, moves of the last row into
an erased place, swaps, merged rows, a cleared table, over several logs, as
`IncrementalChangeInfo` merges them for notifiers of different versions.
`need_move_info` is `moves_needed`, chosen at the start. Beside the changes each row
keeps the index it had in the oldest version and at the start of the log, and
whether it was changed since.

**ChangeCalculation.** Starts with every pair of results and every set of moved
candidates. `SameRows` are the ways to take equal rows of both lists for the
same, `NewRows` what the code then has in `new_rows`. A sorted query is matched
block by block, each recursive call of `find_longest_matches` being a step
(`todo` holds the ranges still to do); a query in table order is walked once
(`Walked` is a recursive function over the rows, the turns of the loop). Where
`std::sort` or equal lengths leave the code a choice, the model has all of them.

What the caller knows of a query in table order is part of the start
(`FoundInOrder`): `ResultsNotifier::calculate_changes` takes the rows found
before to where they are now, and names as candidates the rows of the table that
something was put into. A row that is none of them is where it was, and the rows
in front of it are in front of it still, unless a swap or a merge of rows has
taken one behind it (`Swaps`): `move_last_over`, the other way to move a row,
fills a gap.

**DeepChangeChecker.** Starts with all links between rows (`Targets` and
`MaxLinks` bound them) and every set of modified rows, and asks about the rows
in every order, since what was found not modified is remembered between
questions. A search carries the answer so far, the rows remembered and the path;
`Checked[n]` is `check_row` with n levels left, defined from the one with n - 1.
Each uninitialized depth flag of the path may have either value at first.

**CollectionNotifier.** `m_callbacks` with the token, the packaged and the
accumulated changes of each. `deliveries` is the stack of deliveries under way,
since a callback may run the run loop. Adding is the instance's thread, removing
any thread's, `run` and `prepare_handover` the worker's. Before the results are
moved on, `before_advance` loops over the callbacks too; what it calls is empty for
a block of results, but its loop leaves `m_callback_index` at npos, so a nested
delivery may begin with the index reset (`package_for_delivery`). `told`, `first`
and `exempt` of a callback are history.

**RealmCoordinator.** An instance is in a `stage`: idle, waiting for the
notifiers before it writes or refreshes, or calling its callbacks; `writer` has
the write lock. The worker goes through `step`s, one for each
piece of `run_async_notifiers` that it does under the mutex or between two
locks. Each notifier has a `place`: not registered, new, known to the worker,
or dead. `seen` and `told` are history, and are what `ChangeNotifications` is
about. `dropped` remembers that a run loop's signal fell into a write
transaction.

### State and actions: AFNetworking

**AFURLSessionManager.** A task is made (`dataTaskWithHTTPMethod`), given its
delegate and resumed (`addDelegateForDataTask`), two steps of the main thread
between which the operation queue may do things. `dataArrives` and `taskEnds`
are the session's; what it has to tell is `operationQueue`, worked off one at a
time. A body goes to the concurrent queue (`processing`, a set), from there, or
at once for an error, to `mainQueue`, where `completionHandler` answers. The
handler of `init`, which gives delegates to the session's tasks, comes at any
time.

## 3. Runs

| Run | Bounds | Shows |
|---|---|---|
| `rates` | 2 currencies, 2 rounds, 1 press, 2 versions | `TypeOK`, `IndicatorMatchesLoad`, `GroupBalance`, `CrashNeedsStraggler`, `ReportedUnlessStrayed`, `RatesRegressOnlyWhenOvertaken`; `EveryRoundReported`, `StragglerAborts`, `IndicatorGoesOff` |
| `orders` | 2 currencies, 1 round, 2 presses, 1 version, 64-bit | `WalletSpec`, `ExecutedAsConfirmed`, `SpentOnce` |
| `relaunch` | 2 launches, 1 round, 1 press, 2 versions, armv7 | `TypeOK`, `LabelsFreshUnlessPending`, `ButtonNeedsGroup`, `WalletSpec` over kills and relaunches |
| `liveness` | 2 rounds, 1 press, 1 version; `NoAmountAfterTick` | `OrdersSettle`, `LabelsCatchUp` |
| `changes` | the parts of Realm one by one, see below | `Verified`, `ImplementsIndexSet`; `DeliveryTold`, `MovesKept`, `ModificationsTold`, `NoStaleMoves`; `MergeTold`; `ChangesApply`; `LinkedModificationFound`, `NoFalseAlarm`; `TokensInOrder`, `CallbacksSeen`, `AllDelivered`, `ToldSinceFirst` |
| `coordinator` | 2 instances with a notifier each, one writes, the other also refreshes and may release its notifier; 2 commits | `TypeOK`, `NeverBack`, `ToldOnce`, `EventuallyTold` |
| `tasks` | 2 tasks, bodies of 2 pieces | `AnsweredOnce`, `EachAnswered`, `DelegatesReleased` |
| `rates_report`, `blank_field`, `same_currency`, `callback_added`, `lost_changes` | small | the first five findings of section 6 |

**Why the bounds are enough for what they are for.** Every hazard of the service
needs two rounds (one to be outlived, one to be disturbed) and at most one
press; two versions distinguish newer from older. On the screen, two presses
are what it takes for one answer to spend what the other has; one unit of money
in each row makes an overdraft one step away; an amount of 1 and an amount of 0
are the two the handler tells apart. The table of rates is not symmetric, so
that a swapped pair or a stale version gives another amount. The theorems of
section 5 lift the safety results to any number of currencies, rounds, presses,
versions and launches.

The run `liveness` cuts, with an action constraint, the behaviours in which an
amount is typed after the timer ticked or the timer ticks after an amount was
typed. Both are the user's and the timer's to do or not, and fairness demands
neither, so no behaviour that is kept is made to stop; what is left has alerts
(pressing without an amount), an answer that outlives its round, and the abort.

The run `changes` has one part of Realm in each behaviour, chosen in the initial
state (`subject` of `MCRealmChanges`), since they share nothing. `CollectionNotifier`,
`ListChanges`, `TableChanges`, `ChangeCalculation` and `DeepChangeChecker` are
extended, and so is `ChunkedRangeVector`, so that the properties the run checks are
the ones the theorems are about; `IndexSet`, whose methods have the names of
`IndexSetOps`, is an instance:

- index set: chunks of 2 ranges, where the code has 4 or 256, so that splitting
  and joining chunks happens among the 9 indices; sets given to methods have
  indices up to 5; `count` and `add_shifted_by` within one chunk (`OneChunk`),
  for the reason in section 6;
- lists: up to 4 entries and 5 operations, over any number of transactions;
- tables: up to 3 rows, 5 operations and 3 logs, `SIZE_MAX` being 5, more than
  any table has rows, in 32 bits' stead; cleared in the first two logs at most
  (`ClearedLogs`), so that a clear is merged into earlier changes by the last
  merge only; without moves, one log, for the reason in section 6;
- results: up to 4 rows found in a table of 3 (sorted, with duplicates), up to 3
  in a table of 5 (table order), besides the deleted ones; rows are not swapped,
  for the reason in section 6;
- links: 4 rows with one column of lists of up to 2 rows, in any order, among a
  chain of all rows, the ways past its rows and a cycle (`Chained`), and a path
  of 3, so that the search is cut on some of them and then resumed elsewhere;
- callbacks: 3 at a time, 3 tokens, 3 versions and deliveries nested twice.

The run `coordinator` needs two commits for the worker to have one behind it
and one to come, a second instance that is moved on by another's commit, and a
notifier that goes away in between. Deadlock is not checked in any run: the
bounds stop the timer, the presses and the commits, and a system with nothing
in flight may rest. That nothing stops halfway is what the liveness properties
say.

Each property of a passing run has a mutant of the code, kept next to the
definition it changes (`EnterNothing` next to `Enter`, `LaunchReseeds` next to
`Launch`, `HandOverToLast` next to `prepare_handover`, ...), that the run
refutes.

## 4. Fairness

- Every request ends in one of its blocks: `timeoutInterval` is 10 s and
  AFNetworking calls one completion per task (weak fairness on
  `SuccessBlock \/ FailureBlock` of each request). The server is not obliged to
  answer or to publish. That AFNetworking does is `EachAnswered`.
- The main queue and the run loop run what is submitted: the notify block, the
  Realm notification.
- An aborted process is gone (`crashed /\ kill`).
- Nothing is assumed of the user, of the timer, or of kills. Alerts need not be
  dismissed.
- `RealmCoordinator`: the worker thread runs; the thread of an instance goes on
  with what Realm's code and its run loop do by themselves (`Goes`), and who
  began a write transaction commits or cancels it (`Ends`). Nobody need
  register, write or refresh.
- `AFURLSessionManager`: the main, the operation and the concurrent queue run
  what they hold, and a task is over at the latest at its time-out. No piece of
  a body need arrive, and `init`'s handler need not come.

All fairness is weak: a thread or a queue that has something to do keeps having
it until it is done.

## 5. Proofs

Assumed: the named assumptions on the constants (a finite, non-empty set of
currencies; bounds that are numbers; chunks of an even number of ranges, 4 or 256
in the code's builds; pointers of 4 or 8 bytes; rates that are
natural numbers, with none of a currency for itself; owners that are instances).
Amounts are integers.

**RateListService_proofs.** `TypeInv` is the type invariant with two facts that
make it inductive: requests in flight belong to rounds and presses that have
started (`Issued`), so a new round's requests are new and the counter grows by
as many as the set does; hence `IndicatorMatchesLoad` is part of the invariant
and not a consequence. `CountInv` adds the balance of the current group's count,
with stray leaves and failures booked where they occur; `GroupBalance` and
`CrashNeedsStraggler` follow: a leave by a request of the current group finds a
count of at least one unless strays have taken it. `ReportedUnlessStrayed` needs
to know in which states a round's request can still be missing: received,
in flight or lost. `RatesRegressOnlyWhenOvertaken` needs that the stored list is
never newer than what an un-overtaken request will bring.

**Converter_proofs.** `MoneyInv` relates requests and orders: an exchange request
in flight has an open order and is the only one of its press, versions are
versions, rows exist before the screen. With it every step is a step of the
wallet or leaves the wallet alone (`StepIsWalletStep`), hence `ImplementsWallet`;
`NoOverdraftEver` is proved alongside. `LabelsHold` follows the report of each
write through `Reload`. `ConfirmInv` says that an untouched order still describes
the amount and bottom currency of the screen, that its pair differs, and that a
spent amount is 0; the enabled button is what makes it true of a new order.
`ConfirmedCorrect` and `SpentOnceCorrect` then read off the one step that moves
money (`ExchangeStep`). The type invariant (`TypesHold`) takes the service's
lemmas over as they are: `Alone` instantiates its proofs, `StepService` shows
that a step of the application does to the service a step of its own or ends the
process (`EndedTypes`), and `RestInv` types what is left.

**CollectionNotifier_proofs.** The four properties are proved from one
invariant. `TokensInOrder` and `CallbacksSeen` are inductive. For the other two,
`Passed` says of the loop that is under way that the callbacks up to the index
have nothing packaged left; `Found` and `AllKept` what the worker has found and
what each callback has been given, relative to the version handed over, with the
three exceptions `exempt` names. The module also holds the theorems about the
other part of `collection_notifier.cpp`, the search through links; they come
last here.

**RealmCoordinator_proofs.** `TypesHold` for any instances and notifiers, from
`Values` and `Flags`. The other two theorems assume `SingleWriter`: at most one
instance writes and the notifiers it owns stay, which is how this application
uses Realm, and without which both are false (section 6). `WorkerNeverGoesBack`
rests on `Forward`: everything the worker may move to is ahead of where it is,
and the version to skip to is at most the latest (`SkipToLatest`).
`EachToldOnce` is the refinement of `ChangeNotifications`; its invariant
`InStep` says, at every step, which changes of a notifier are accumulated, which
are packaged and which are on their way, so that with those it was told of they
are exactly the versions up to the one the worker is at: one part for the
instances, one for the worker, one for the callbacks.

**AFURLSessionManager_proofs.** `TasksAnsweredOnce` is the refinement of
`Requests` for any tasks, sizes of bodies, and either value of `ListsLater`.
The invariant: a task is in one stage at a time, from untold through the queues
to answered (`Stages`); what has arrived and what is still on the queue make the
body's pieces in order (`Pieces`); what is on its way to the answer is the whole
body or a failure (`Answers`).

**CollectionChangeBuilder_proofs.** The library's induction theorems take a
predicate, which the provers here cannot instantiate. `Least` (a set of numbers
that is not empty has a least element, from the well-foundedness of `<`),
`Induction` (numbers a *set* contains) and `Recursion` (a function that is given
by its first value and by a step exists) do the same with sets, and the
operators of `IndexSetOps` and of the builder are reasoned about through them,
for sets and sequences of any size:

- `Below` counts; `Unshift` and the shift are inverse on what is not in the set
  and keep the order (`ShiftUnshift`, `UnshiftShift`, `ShiftOrder`); what
  `insert_at` and `erase_at` leave is told index by index (`InsertAtSet`,
  `EraseAtSet`).
- A builder is understood as a map of *origins*: for each index of the new
  collection, the index in the old one, or none. `Kept` says that deletions and
  insertions tell of such a map: what is not inserted comes, in the same order,
  from what is not deleted. `MovesTold` says that the moves are exactly the rows
  that are inserted and have an origin. `Told` joins both, for the builders of
  lists, whose map of moved rows is empty.
- Each operation of a builder takes a `Told` to a `Told`, with the origins
  changed the way the operation changes the list; `clean_up_stale_moves` leaves
  the origins as they are and no stale move (`CleanUpTold`); the merge of two
  builders tells the composition of their origins and the modifications of both
  (`MergedChangesTold`).

**IndexSet_proofs.** `Verified` is what the code's own `verify()` asserts in debug
builds, where it happens to be called. The invariant behind `AlwaysVerified` is
that `m_data` is one of the `IndexSets`: a vector of chunks each of which holds
between one and `MaxSize` ranges and caches their begin, end and number of indices
right (`Right`), with the ranges not empty, in order and apart over all chunks. It
is the property itself and the limit on the size of a chunk, without which a split
is not known to leave two chunks that are right (`VerifyFacts` gives the property).

- The steps that change one range are proved first: `adjust` and `set` where the
  neighbours leave room, `insert` with the split of a full chunk
  (`ensure_space`), `erase` with the chunk that becomes empty, the shift of
  everything behind an iterator. Each says which iterator of the new vector stands
  where which one of the old stood (`Follows`), so that order carries over, and
  that the cached numbers change as the sums of sizes do.
- The searches are proved to return what their callers rely on: `find` the first
  range that ends behind the index, from a hint as from the start (`do_add` and
  `do_remove` need that nothing in front of it can touch the index); the skips of
  `add_shifted` and `erase_or_unshift` a place at which the shifted index is in
  order.
- The loops are functions of the number of rounds, which exist by `Rounds` and
  keep what each round keeps by `Within`, by induction over the set of rounds
  after which it holds.
- `insert_at`, `shift_for_insert_at` and `erase_at` of a set and
  `add_shifted_by` build the vector anew. What has been built is in order as long
  as the next index is not in front of the last (`Builders`, `EndsAt`); the merges
  keep a bound under everything still to come (`Merging`, `LowEnough`),
  `add_shifted_by` one for each of its two sources (`Shifting`).
- The premise `OneChunk` is used in one place: a range that `copy` pushes into a
  new last chunk is counted as one index (section 6, no. 8), so that nothing of
  the kind may happen (`Few`). Every other method is proved without it.

**Changes_proofs: lists.** The properties speak of the list when a log has ended;
in the middle of one, `acc` tells of a list that no variable holds any more. The
inductive invariant (`ListInv`) therefore says that there *is* such a list, its
length and its origins `mid`: `acc` tells how it came from the delivered one,
`cur` how the present list comes from it, and the two compose to what the
entries carry, index and mark. The operations are steps of `cur` with `mid`
fixed; the end of a log merges, and `MergedChangesTold` moves `mid` to the
present list. `EveryDeliveryTold`, `EveryMoveKept`, `EveryModificationTold` and
`NeverStaleMoves` read it off where `cur` is empty, for lists of any length and
any number of operations and logs.

**Changes_proofs: the difference of two results.** That what remains of
both lists is the same is proved from a pairing: `RemainingSame` says that two
sets of indices paired in order, each pair at the same row, leave the same list.
`NewRowsKept` is what `calculate` has when it starts to look for moves: each row
kept has a place of its own in the old list, whichever equal rows are taken.

- Of a sorted query the pairs are the rows of the matched blocks. `Matching`
  holds while ranges are left to do: the matches and the ranges never overlap and
  are in the same order in both lists (`BoxesApart`), and a match is of the same
  rows. `RangeDivided` is the step of `find_longest_matches`: since its two parts
  lie within the range, it does not matter that the code leaves one of them out,
  or takes an empty one, by comparing `m.i + m.size` with the other list's end.
- Of a query in table order the pairs are the rows the walk lets stay. `WalkInv`
  says that a row that stayed is, in the old list, in front of all that stay
  later and of all still to come. A row stays for one of three reasons. It is the
  expected one (`ExpectedNow`); it cannot have moved (`NotMoved`, from
  `FoundInOrder`: this is where `~Swaps` is needed); or it is where the counts of
  rows inserted and removed put it (`PutThere`): then as many rows stayed before
  it as it has rows in front of it in the old list, so that those are the same
  ones.

`CalcInv` joins these with what the lists are. `QueryChangesApply` has `~Swaps` as
its premise, without which `ChangesApply` is false (section 6);
`SortedChangesApply` and `BlocksMatchedInOrder` have none. That what is told is
right is proved; that the blocks are the longest and the changes few is not claimed.

**Changes_proofs: tables.** The rows of a table do not shift: one that is not told
as inserted is at its old index. `InPlace` says so of deletions and insertions
alone, and is what makes `move_over` and `swap` simple: whether a row is told as
inserted already decides where it was. `InLog` adds the origins, and
`LogMapping` the map of moved rows, which is exactly the origins of the inserted
rows. Each operation keeps `LogTells`, with the rows moved as the operation moves
them, and `parse_complete` turns it into `Told` (`CompletedTold`). Two things are
told that never were: a cleared table is told as one of `SIZE_MAX` rows, so the
old size is known from below only, and a log merged to such a one is first
extended by rows nobody has (`ToldExtended`). Of the logs read, no variable holds
the tables between them; `Chain` says that there are such tables, with their
sizes, origins and changed rows, and `LogsMerged` follows `advance_to_final`
along it from the last log to the first. The invariant `TableIInv` is then: the
changes of the log being read follow the rows (`Follows`), and the chain leads
to its start (`Recorded`). Without moves, only the modifications are claimed, of
one log. `TablesMergeTold` reads `MergeTold` off where no log is open. TLC
cannot evaluate this invariant, nor `ListInv`, which speak of tables and lists no
variable holds; it checks what follows from them. The only assumption is
`TableBounds`: the bounds are numbers, `SIZE_MAX` is more than the number of rows,
and the table is cleared in the first two logs at most. `MergeTold`, and with it the
theorem, claims nothing where a clear is merged into earlier changes
(`ClearMerged`): there the code fails (section 6, no. 6). What the model has as a
merge with `SIZE_MAX` deletions and claims something of is a merge of later
changes into a cleared log, which visits none of them.

**Search through links** (in `CollectionNotifier_proofs`). By induction over the
levels left in a search (`CheckedSound`), and inside a level over the columns of
a row and the links of a list. A search that answers yes has met a modified row within its levels
(`Answers`). One that answers no has seen all of them, and moreover either the
row is clean at *any* level or every row of the path but the first is flagged
(`Trusted`): this is what makes it sound to remember a row whose flag is not set,
and to go on from a remembered row with fewer levels left than it was remembered
with. That a row is never met twice on a path needs the path to be a chain of
links (`Chain`) and the absence of cycles. `NeverFalseAlarm` needs neither the
latter nor one column. `LinkedModificationFound` is stated for one column of
links without cycles, because the code does not do it otherwise (section 6).

Only model-checked: liveness (`EveryRoundReported`, `StragglerAborts`,
`IndicatorGoesOff`, `OrdersSettle`, `LabelsCatchUp`, `EventuallyTold`,
`EachAnswered`, `DelegatesReleased`), since fairness and ENABLED are beyond the
proof system; and `ImplementsIndexSet`. `AlwaysVerified` is the invariant it would
rest on; on top of it, it takes for each method which indices are in the set
afterwards, and for the shifts and counts the number of indices in front of one as
a sum over chunks, ranges and their rests, none of which is proved here.

## 6. Findings

Each with a run:

1. *A round is reported with a list missing* (`rates_report`). The answer of a
   request that outlived its round leaves the next round's group. "All rate
   lists received" (`ViewController.m:80`) is then logged early, and the last
   answer of that round aborts the program (`StragglerAborts`), unless one of
   its requests fails.
2. *An amount is exchanged from a blank field* (`blank_field`). Type 1 in the EUR
   cell, scroll the top view to USD, whose field is blank, press Exchange: 1 USD
   is debited. The amount belongs to the screen and not to the cell.
3. *Money disappears* (`same_currency`). Press Exchange for EUR to USD and scroll
   the bottom view to EUR before the answer comes: the rate of EUR in its own
   list is missing, `floatValue` of nil is 0, and the amount is debited without
   a credit. The guard on the button (`ViewController.m:180`) is only looked at
   when the button is pressed.
4. *A block added in a block misses a version* (`callback_added`). It gets its
   first call in the delivery under way, for the version packaged before it was
   added; what the worker handed over in between was given to the others only.
5. *A commit nobody is told of* (`lost_changes`). Two instances write; one's
   `advance_to_ready` packages what its own commit changed and then returns
   without delivering it, because it is at that version already; the next
   package takes its place.

Neither 4 nor 5 can happen to this application, which adds one block, outside
of a block, and writes on one thread.

Without a run of their own, met while modelling; each bound or premise named here
keeps the passing runs away from it:

6. A cleared table is recorded as `SIZE_MAX` deletions
   (`transact_log_handler.cpp:537`). If new notifiers of different versions are
   waiting and that log is merged into changes of before it, `add_shifted_by`
   visits the deletions one by one (`index_set.cpp:396-411`). With 64 bits this
   does not end, with `m_notifier_mutex` held (`realm_coordinator.cpp:551-614`).
   With 32 bits it ends, but if rows were deleted before, the shifted index reaches
   `SIZE_MAX`, the range that takes it ends at 0, and no deletion is left: a query
   takes the rows of the cleared table for kept (`results_notifier.cpp:123`),
   although "all of the notifiers see the complete set of changes"
   (`realm_coordinator.cpp:509-511`). `advance_to_final` has the 32 bits' outcome
   (`Wrapped`), and TLC finds `SeesAllChanges` violated when `TableSpec` is checked
   with `ClearedLogs = 2`: a table of one row, the row deleted in the first log,
   the empty table cleared in the second. `MergeTold` has `~ClearMerged` as its
   premise. The application never clears a table, and has one notifier.
7. `IndexSet::count` (`index_set.cpp:299-301`): a count that starts in the
   middle of one chunk and ends inside the first range of the next returns
   before it has added the part of that range (`OneChunk`).
8. The builder that copies a set into chunks gives a new last chunk the count 1
   whatever the length of its range (`index_set.cpp:244`), which the debug build
   asserts is not so (`index_set.cpp:190`); later counts and shifts skip indices
   (`OneChunk`).
9. Without move information, changes of several logs of a table cannot be
   merged: a row that one log modifies and a later one moves into the place of
   an erased one is not told as modified (`MergedModifications` fails). The code
   asks for moves in the table of a query (`results_notifier.cpp:78`), not in
   those it links to; a table without `moves_needed` reads one log.
10. The search through links ends at the first column that holds a single link,
    whatever the row there answers (`collection_notifier.cpp:108`): a row whose
    first link leads to an unmodified object is remembered as not modified even
    if its second leads to a modified one. A second column of lists has another
    trouble: its entry on the path clears the flag that a search of the first
    column was cut. And where links make a cycle, a row met again in its own
    search has all its columns skipped and is remembered before that search has
    ended (`collection_notifier.cpp:144`). Without the premises of one column and
    of `NoCycle`, `LinkedModificationFound` fails.
11. With two instances that write, or when the collection whose commit asked
    the worker to skip is released, the worker can be made to go to a version
    behind its own: `NeverBack` fails (`group_shared.hpp:1030` asserts it).
12. A run loop signal that falls into a write transaction is dropped
    (`shared_realm.cpp:578`). If that transaction is then cancelled, what was
    ready is told with the next commit only: the exception in `EventuallyTold`.
13. The handler of AFNetworking's `init` replaces the delegate of any task the
    session lists (`AFURLSessionManager.m:543`). If the session may list a task
    made after it was asked (`ListsLater`), that task's blocks are never called.
    Which of the two NSURLSession does cannot be seen here; the run assumes it
    does not.
14. Where rows of the table were swapped, the walk over a query in table order
    can tell wrong changes: found before are the rows 4, 3, 2, now 2, 3, 4, the
    table has swapped 0 with 4 and 1 with 3, and 3 and 4 are candidates; told are
    the deletion of the first and the insertion of the third, which leaves 3, 2,
    4. The debug build asserts that this does not happen
    (`collection_change_builder.cpp:859`). TLC finds it, as a violation of
    `AppliedGivesNext`, when `CalcSpec` is checked with `Swaps = TRUE`. Only
    `swap_rows` and `merge_rows` (`transact_log_handler.cpp:504-528`) can take a
    row to a higher index. Nothing in the repository's sources asks for the first;
    the second follows `set_string_unique` when another row has the primary key
    already, and Realm looks for that row before it makes one
    (`RLMObjectStore.mm:231`). So the run has `Swaps = FALSE`.

## 7. Not modelled

- What the bottom cells preview (`DataManager.m:57-76`); they are read by nobody
  but the user.
- Floating point: amounts are integers, rates natural numbers. A commit that
  fails because the disk is full.
- The `RateList` rows that are replaced; they stay in the database unused.
- A drag that ends without deceleration (no callback, so the page seen and the
  page selected differ), layout, the keyboard, MBProgressHUD, assets.
- Realm: the storage engine (files, B+ trees, queries, transaction logs as
  bytes, encryption), the schema and its migrations, sync, the Objective-C
  layer. They are most of the repository's lines, as headers of a library whose
  implementation is not in it; none decides what the application is told or
  when. Of the notification machinery: suppressing one callback for a write
  (`collection_notifier.cpp:395`), which the application does not ask for;
  pinning versions of handed-over objects (`realm_coordinator.cpp:359`); erasing
  a row with the order of the others kept (`transact_log_handler.cpp:478-482`),
  which tables of objects never do;
  sections, primitive lists and object notifiers, which the application does not
  have.
- AFNetworking: uploads, downloads, progress, redirects, authentication,
  background sessions, reachability, and how a body is parsed (it is read, or
  is not).

## 8. What could come next

1. The bottom preview against what would be converted, and the field that keeps
   its text after a refusal.
2. A coordinator whose notifiers run on changes of `CollectionChangeBuilder`
   instead of sets of versions.
