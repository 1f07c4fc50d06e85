# TLA+ models of trade_simulator

A verification development for the Python simulator in `src/` (package `ibsim`,
below `src/src/ibsim/`). The modules model the program's own logic: orders,
accounts, sessions, clock, market data and backtests. TLC checks them on small
instances; TLAPS proves the most important results for every value of the
constants. `PROJECT.json` maps each definition to the lines it stands for and
lists runs, mutants, findings, hazards and theorems.

    tlc -workers 2 -config MCOrders.cfg MCOrders       # a run: cfg and MC module
    tlapm OrdersProofs.tla                             # a proof module

## 1. Inventory

| Component | State it keeps | Operations | Talks to |
|---|---|---|---|
| Order service `orders.py` | orders, executions, pending replies, next ids | submit, confirm, cancel, replace, what-if, fill attempt | risk, market data, accounts, events, clock (direct calls) |
| Risk engine `risk.py` | none | `check_order`, `mark_price`, `estimate_commission` | called with a quote and a snapshot |
| Accounts `accounts.py` | positions, snapshots | `apply_execution`, `mark_to_market`, what-if, readers | orders write, web and TWS read and mark |
| Events `events.py` | an append-only SQLite table | `append`, `list_events` (oldest first, limited) | everyone appends; `confirm_reply` reads |
| Clock `clock.py` | mode, speed, anchors | `now`, pause, resume, step | all time stamps, session expiry |
| Sessions `sessions.py` | flags and expiry of the brokerage session | status, tickle, gate, logout | clock; every trading route passes the gate |
| Market data `marketdata.py` | caches of the network providers, last error | quote, history, depth down a chain | network; orders, adapters, datasets ask |
| Backtest `strategy.py`, metrics `risk.py` | none | dual moving average, drawdown, losses, Kelly | web routes |
| Web adapter `adapters/webapi/app.py` | subscriptions of a WebSocket | REST handlers on a thread pool, one async stream | all services |
| TWS adapter `adapters/tws/semantic.py` | none | callbacks for the same services | all services |
| Dataset collector `datasets.py`, command line `__main__.py` | a directory of CSV files and a manifest | gather bars, write | market data; the replay provider of a later server reads |
| Wiring `service.py`, seeds `seed.py`, models `models.py` | seeded contracts and accounts | construct | all services |

Hard behaviour, and what makes each component correct:

* **Order service.** FastAPI runs the handlers on a thread pool and the service
  has no lock. A call waits for the network at every `market_data.quote`, in the
  middle of `submit_orders` and of `_try_fill`, after orders have been stored and
  before they are filled; any quote may raise. Correct: counters are what the
  executions add up to, cash and positions move only with booked trades, a reply is
  answered once and in time, stops need one, the all-in block holds when an order
  enters the book, closed orders stay closed, immediate-or-cancel orders do not rest.
* **Accounts.** Average cost and profit through adds, partial closes, flips and
  executions of quantity zero; snapshots recomputed from positions. Correct: profit
  reconciles with the cash the trades moved, the snapshot is never behind.
* **Sessions and clock.** An expiry on a clock that is paused, stepped, sped up and
  set back; checks that compare first and assign later. Correct: granted exactly
  while alive, lost only by expiry or logout, a tickle brings all of it back,
  time does not jump when the mode changes.
* **Market data.** Fallback on any exception; caches written by several threads
  after requests of different length. Correct: what a cache gives is fresh, a provider
  is passed over only after it failed, the last one always answers.
* **WebSocket stream.** One coroutine per client receives, waits a quarter of a second
  and publishes once a second of simulated time, on a clock that may stand, jump and
  go back; exceptions other than a disconnect end it. Correct: what a client wants keeps
  coming, what it takes back stops, the task ends with the client and not before.
* **Process.** Events may be kept in a file, everything else is lost in a crash and the
  order numbers begin again; web and TWS call the same service. Correct: the log still
  tells what became of each order, and TWS cannot get around a confirmation.
* **Datasets.** Collector and server share a directory without a protocol; either may
  die within a file. Correct: a finished gather is replayed as it was, and what
  unfinished or earlier ones left never mixes into a tape.
* **Backtest.** Index arithmetic. Correct: no look-ahead, returns and trades agree with
  the held runs, late rows replace earlier ones, the one-pass drawdown is the worst fall.

## 2. Modules

| Module | Models | Composition |
|---|---|---|
| `TradeRules` | `check_order`, fill price and size, stop trigger, commission, cash delta as operators | used by `Orders` and `AccountBooks` |
| `Orders` | `OrderService` with the books and the event store it writes, any number of threads | composes orders, risk, accounts (cash, position, value) and events |
| `OrderProperties` | properties of `Orders`, and the instances of the two abstract specifications | |
| `OrderLifecycle` | abstract: what is promised of each order | implemented by `Orders` with one caller |
| `TradeLedger` | abstract: cash and positions move only with booked trades | implemented by `Orders` |
| `OrderProcess` | web and TWS callers of one order service, crashes and restarts on the kept event file | composes `Orders` with the front ends |
| `WebStream` | the WebSocket coroutine, its client and the clock as the stream sees it | |
| `Datasets` | dataset collector, files and manifest, replay provider of a server | two processes over one directory |
| `AccountBooks`, `AccountProperties` | `AccountService` in exact fractions | `Fractions` |
| `SimClock`, `Sessions` | `SimClock`; `SessionManager` on that clock, any number of threads | `Sessions` extends `SimClock` |
| `MarketData` | the provider chain and the caches of the network providers, any number of threads | |
| `RiskMetrics`, `Backtest` | `max_drawdown`, `risk_metrics`; the dual moving average backtest over a growing dataset | `Fractions` |
| `OrdersProofs` | theorems about `Orders` and `OrderProcess`: first types, fills, ledger, replies, guardrail; then those that count: sums over executions, confirmations, the log | |
| `AccountProofs`, `SessionsProofs`, `MarketDataProofs`, `WebStreamProofs`, `DatasetsProofs`, `BacktestProofs` | theorems about the module of that name | |
| `CommonTheorems` | lemmas for several of them: induction, sums and products over finite sets, folds over sequences, joined sequences, fractions in lowest terms | used by `OrdersProofs`, `AccountProofs`, `DatasetsProofs`, `BacktestProofs` |
| `MC...` | the instances that TLC checks | one per subject |

How state and steps correspond to the code:

* **Orders.** `orders`, `executions`, `pending`, `log` are the attributes of the same
  name and the rows of the event table; `cash`, `position`, `marketValue` the fields of
  snapshot and positions that a later step depends on. Order id 1_000_000+i is
  `orders[i]`; reply ids are numbered in place of UUIDs. **A step is the code between
  two quotes**: that is where a call waits and others get in. `calls[t]` keeps what a
  waiting call has in its local variables, in particular the ticket that `_try_fill`
  read before its quote. `SubmitOrders`, `ConfirmReply`, `DeclineReply`,
  `ExpireReply`, `CancelOrder` and `ReplaceOrder` start a call; `RejectTicket`,
  `AskConfirmation`, `AcceptTicket`, `NoFill`, `Fill` and `QuoteFails` are what it does
  with the quote. With one thread this is the library used sequentially.
* `mark_to_market` of an account is one step with its quotes. What-if calls, and the
  events for commissions, positions and accounts that follow every `order_filled`
  one, are left out: nothing reads them. The commission is in every execution.
* Money is in whole units, `Dollar` of them to a dollar; the comparisons of
  `check_order` are multiplied out instead of divided.
* **AccountBooks** keeps average cost and profit as exact fractions where the code uses
  floating point, so equalities are exact; rounding of floats is not modelled.
* **Sessions.** `_refresh_expiry` reads and compares in one step and assigns in
  another; `tickle` reads the clock, then writes, then refreshes.
* **OrderProcess.** `WebCall`, `TwsCall` and `Service` are the steps of `Orders` by who
  makes them; `unheard` are the replies asked over TWS, whose ids the adapter keeps to
  itself. `Restart` is a crash at any step followed by a new `SimulatorService`: the log and
  the count of reply ids (UUIDs do not repeat) stay.
* **WebStream.** A step is the code from one await to the next: `Receive` (or a
  time-out, a disconnect, an exception), the look at the time (`NotYet`, `Publish`), a
  `Send` for each topic. `wanted` is the subscriptions and the three stream flags.
  Only the distance `gap` of the clock from `last_publish` is kept, so runs may be
  infinite; every mode of the clock is a choice of how `gap` moves.
* **Datasets.** A step of the collector is one write: a file opened (and so emptied), a row,
  the manifest emptied, the manifest filled. `CollectorCrashes` leaves what was written
  and perhaps half a row. A server reads manifest and files in one step, between two
  writes; one that overlaps with writes in the middle of a read is not covered. A bar is its
  place in the series and the number of its gather.
* **MarketData.** A request takes the steps "try", "wait", "arrived" at each provider.
  Quotes, bars and depth go down the chain in the same way, so one kind of request
  stands for all; a payload is reduced to whether it can be used and when it
  was true. Every provider failure, an unknown contract included, leads to the next.
* **Backtest.** Logarithms are added up in the code and exponentiated at the end; the
  model multiplies the factors. exp(-cost) is the constant `Keep`. A close of 0
  stands for every row that is skipped.

Operators named `...Mutant` precede the definition of the same name: a plausible bug
in that code. They are used by nothing; `PROJECT.json` "mutants" names the property
that TLC finds violated when the mutant takes the definition's place.

## 3. Runs

Times are for two workers.

| Run | Instance | Shows |
|---|---|---|
| `orders` | 1 caller, 1 stock, 4 tickets (limit DAY, stop GTC, limit IOC, market for most of the account), 3 batches, 2 quotes or none, 4 events before the last call, time to 2; 898k states, 90 s | counters, confirmations, all-in block, IOC, `TradeLedger` and `OrderLifecycle` |
| `order_process` | a web and a TWS caller, 3 tickets, a batch of two, 3 events before the last call, any number of restarts; 132k states, 100 s | stops need confirmation, the books balance, the log tells the book, every call returns, whatever interleaves or dies |
| `accounts` | 1 account, a stock and a future of multiplier 50, quantities 0 to 2, prices 2 and 5, 3 trades; 84k states | profit reconciles, snapshot current, average cost, preview |
| `sessions` | 1 thread, time-out 2, speeds stopped and double, real time to 4; 284k states | expiry, tickle and clock switches |
| `market_data` | 2 threads, Yahoo, Stooq, synthetic, kept 1 unit, time to 2; 1.4M states, 40 s | freshness, fallback only after failure, the safety net |
| `backtest` | windows 1 and 2 with short selling, closes 0, 1, 2, 4, five rows, one late; 25k states | the backtest and the metrics against their definitions |
| `stream` | a contract with and one without quotes, order and P&L topics, 8 messages, 2 on their way, a second of 2 units, put back by 1; 68k states, 40 s | what is wanted is served, what is taken back stops, the task ends with its client and for a reason |
| `datasets` | 2 contracts, 2 bar sizes, all contracts or one twice and an unknown one, 2 bars, 2 gathers, history limit 3; 473k states, 35 s | manifest and files agree, a finished gather is what is replayed, tapes do not mix |
| `list_limit`, `guardrail_replace`, `account_realized`, `session_race` | as above | the disagreements of section 5 |

Bounds and why they are enough. `MaxLog` stops new calls, never a call on its way,
so everything a call may do completes; four events allow question, answer,
submission, partial fill, replacement or cancellation and a second fill. The stop ticket
is smaller than the limit ticket, so that a replacement can ask for less than is
filled; the market order asks at one quote and is refused at the other, so that a
confirmation can come after the price has moved. The two quotes differ so that each ticket is marketable in one and not in the
other, and their sizes make fills partial. `ConfirmTTL` 1 with time to 2 has
replies on both sides of the expiry. `ListLimit` is 1000 in the code: the
passing runs keep that value, `list_limit` scales it to 1 so that the second question is
beyond it. Three trades are what a flip through zero and back needs. The session's
`Timeout` 2 against deltas 3 and speed 2 reaches each side of the expiry by every
move of the clock. Time to 2 with cache time 1 has entries that are fresh, just fresh
and too old, and responses that take longer than the entry is kept. With two messages on their
way a subscription is taken back while the coroutine publishes and behind another
message; a second of two units has looks at the time that come too early. Two gathers
are an earlier one, finished or not, and a later one over its files; a history
limit of 3 is not reached by two bars and is by a contract listed twice. Three events before
the last call let an order be submitted, filled in part and its number be used
again after a restart. Five rows are one
more than the shortest dataset that is backtested with windows 1 and 2.
The accounts and backtest runs end when their histories are full, hence
`CHECK_DEADLOCK FALSE` there.
`market_data` uses the symmetry of the threads; it checks no liveness.

Fairness. `CallsReturn` assumes weak fairness of each thread inside a call and nothing
of clients, market or clock: a handler thread runs when it can, and a quote returns or
raises because every network provider passes a timeout (`marketdata.py` 182, 338). The
calls that start, the moves of the market and the time may stop at any moment.
`WebStream` assumes weak fairness of the coroutine (the event loop serves every task, the
receive times out, quotes return or raise) and of time passing while the clock runs;
nothing of the client, of who drives the clock, or of an end to its messages.
`WantedIsServed` is about clocks that in the end run and are not turned back for ever.

## 4. Proofs

Every theorem is proved for any value of the constants that satisfies the
assumptions of its module, so for any number of threads, accounts, contracts, tickets,
quotes, messages and files, and for histories of any length.

**Orders** (`OrdersProofs`; `OrdersAssumption`, `DollarAssumption`).
`Spec` is one process, `ProcessSpec` a process with both front ends and restarts.

| Theorem | Says |
|---|---|
| `TypeCorrect`, `ProcessTypeCorrect` | `Spec => []TypeOK`, `ProcessSpec => []TypeOK` |
| `FillPriceWithinLimit`, `FillQuantityBounds` | a fill never crosses its limit; it is at most what is left and not empty while something is |
| `LedgerIsKept` | `Spec => LedgerKept`: `Orders` implements `TradeLedger` in every interleaving |
| `RepliesAreAnsweredOnce` | `Spec => []RepliesAnsweredOnce` |
| `SubmissionsAreGuarded` | `Spec => GuardrailOnSubmit` |
| `IOCOrdersNeverRest` | `Spec => IOCNeverRests` |
| `BooksAlwaysBalance`, `BooksBalanceInEveryProcess` | `[]BooksBalance` of `Spec` and of `ProcessSpec` |
| `StopsAreConfirmed`, `StopsAreConfirmedInEveryProcess` | `[]StopsNeedConfirmation` of both |
| `NoStaleConfirmations` | `Spec /\ []FewQuestions => []NoStaleConfirmation` |
| `CountersAddUp` | filled quantity and value of an order are what its executions add up to, any threads |
| `OrderArithmeticHolds` | `Spec => []OrderArithmetic`, one thread |
| `LifecycleIsKept` | `Spec => LifecycleKept`: `Orders` implements `OrderLifecycle`, one thread |
| `LogAlwaysTellsTheBook` | `ProcessSpec => []LogTellsTheBook` |

`TypeOK` is inductive because it says of every call what its step needs (`CallFits`: a
checking call has a ticket, a filling one names a booked order); each action has a
lemma, `NextType` puts them together. `LedgerIsKept` rests on it: `FillBooksTrade`
shows that `Fill` books one trade by its amounts, every other step leaves the ledger
alone. `RepliesAnsweredOnce` is not inductive: that a reply has no second answer needs
that an answered reply was handed out and is no longer pending. `RepliesInv` adds
this (`AnswersFit`) and numbers answers by their place (`AnswersUnique`).
`SubmissionsAreGuarded`: only `AcceptTicket` makes the book longer, and it has compared the
ticket with the net liquidation it leaves unchanged. `IOCOrdersNeverRest`: a thread in
a fill attempt with a quote moves only by `NoFill` and `Fill`.

The theorems that count rest on `CommonTheorems`. tlapm cannot instantiate the library's
induction theorems, which take an operator; `CommonTheorems` derives induction over sets of
numbers and over finite sets from the well-foundedness of the naturals (`NatLessThanWellFounded`,
`WFMin`: a least counterexample), and from it what `SumOver` does when an element is added
(`SumAdd`) or a value changes (`SumChange`). `BooksSums` writes the balance with these
sums. `StopsNeedConfirmation` is not inductive: between a confirmation and the
submission it allows, a call is on its way. `StopsInv` says that submissions and confirmed
calls on their way, added over the threads, are at most the confirmations in the
log; a restart drops calls, never confirmations. `NoStaleConfirmation` holds
only while the log has no more questions than the expiry check reads (`FewQuestions`);
the run `list_limit` is what happens beyond. `OrderArithmetic` and `LifecycleKept` are claimed of one caller,
hence the hypothesis `\A s, t \in Threads : s = t`: with more, a fill that waited overwrites what
another thread has done, and `CountersAddUp` is the part that survives. The
invariant of `LogTellsTheBook` follows the latest submission of each order number, because
a restart uses numbers again.

**Accounts** (`AccountProofs`; `AccountBooksAssumption`, which says that contracts are finitely
many): every property that the run `accounts` checks.

| Theorem | Says |
|---|---|
| `AccountTypeCorrect` | `Spec => []TypeOK` |
| `SnapshotStaysCurrent` | `Spec => []SnapshotIsCurrent` |
| `ProfitAlwaysReconciles` | `Spec => []PnLReconciles` |
| `AverageIsBetweenPrices` | `Spec => []AvgCostWithinPrices` |
| `PurchasesAreAsPreviewed` | `Spec => PreviewOfOpeningBuy` |

Equalities of fractions are equalities of lowest terms. The lemmas of `CommonTheorems` about
`GreatestDivisor` show that it divides and that lowest terms exist; `Worth` compares fractions as integers over a
common denominator, so that each case of `apply_execution` (open, add, reduce, close, flip, nothing
executed) becomes linear arithmetic. `BooksFit` ties the kept values to position and price and the snapshot to
the positions; `AllReconciled` and `AllBracketed` are one statement for each account and contract
about the trades so far, and a step adds one trade to it.

**Sessions and clock** (`SessionsProofs`).

| Theorem | Says |
|---|---|
| `SessionTypeCorrect` | `Spec => []TypeOK`, any threads |
| `TimeIsAlwaysContinuous` | `Spec => TimeIsContinuous`, any threads |
| `NothingGrantedAfterLogout` | nothing is granted between a logout and a tickle, any threads |
| `OnlyLiveSessionsGranted` | `Spec => GrantedOnlyWhileAlive`, one thread |
| `SessionLostForAReason` | `Spec => LostOnlyByExpiryOrLogout`, one thread |
| `TickleAlwaysReestablishes` | `Spec => TickleReestablishes`, one thread |

The last three need one thread: `session_race` refutes the second with two. `SoloInv`
says what the one call has compared and not yet assigned. `NothingGrantedAfterLogout` is what remains
of it between threads: a logout takes the flag that every grant needs, and no assignment of a check
gives it back.

**Market data** (`MarketDataProofs`): every property of the run `market_data`.

| Theorem | Says |
|---|---|
| `MarketDataTypeCorrect` | `Spec => []TypeOK` |
| `CachedDataIsFresh` | `Spec => DataIsFresh` |
| `FallbackIsExcused` | `Spec => FallbackOnlyAfterOutage` |
| `SafetyNetAnswers` | `Spec => ServedContractsAnswered`, when the last of the chain is not external |

The hypothesis of the last is what `service.py` 70-95 builds: each chain ends with a local provider.
The invariant says of a request at provider `i` that each one before it that serves the contract has an outage recent
enough, also while a slower request of another thread fills the cache.

**WebSocket stream** (`WebStreamProofs`; `WebStreamAssumption`): `StreamTypeCorrect`
(`Spec => []TypeOK`) and `StreamEndsForAReason` (`Spec => []EndsForAReason`).
`EndsForAReason` is not inductive: the message that ends a stream came long before. `IInv`
follows it: on its way (`MessagesAreNoted`), and as a subscription it has
become (`SubscriptionsAreNoted`); `ReceiveKeeps` shows that receiving hands the trace over.

**Datasets** (`DatasetsProofs`; `DatasetsAssumption`, `NoFileAssumption`): every property of the
run `datasets`, for any number of gathers, crashes and servers.

| Theorem | Says |
|---|---|
| `TypeCorrect` | `Spec => []TypeOK` |
| `ManifestsTellTheFiles` | `Spec => []ManifestTellsTheFiles` |
| `ReplaysAreTheGather` | `Spec => []ReplayIsTheGather` |
| `TapesStayUnmixed` | `Spec => []TapesAreUnmixed` |

None of them is inductive. What the manifest says is about a gather half done: the files listed so
far hold what their last entry says, except the one that is open, whose rows and the rows left
are one series. A manifest is of the gather that wrote it and says nothing once the next one has
begun, whether that one ends or dies. `FInv` says of the whole directory what a server may find in
it: finitely many files, each with rows of one gather and of its own contract and bar size. `SInv` carries
to the tapes of a server what it found when it started, and that of the latest finished
gather. A tape is a fold that puts each bar behind the earlier ones of all files the manifest lists:
`FlattenJoins` (`CommonTheorems`) says which bars those are and `Laid` what the fold has made of the first
k of them: the bars of a series stay in order, and a contract that is listed several times has each
bar as often. `NoFileAssumption` only says that the value for a missing file is no file.

**Backtest** (`BacktestProofs`; `BacktestAssumption`): every property of the run `backtest`, for
datasets of any length, any windows and costs.

| Theorem | Says |
|---|---|
| `CleaningKeepsTheLatest` | `Spec => []CleanIsLatest` |
| `NothingIsTradedAhead` | `Spec => []NoLookahead` |
| `OnePassFindsTheWorstFall` | `MaxDrawdown` of a curve of positive values is its `WorstFall` |
| `TheDrawdownIsTheWorstFall` | `Spec => []DrawdownIsWorstFall` |
| `TheTradesReconcile` | `Spec => []TradesReconcile` |
| `TheLossesAddUp` | `Spec => []LossesAddUp` |

Here the state is only the rows; the theorems are about loops. The model's loops are folds over
sequences, which the library defines by recursive functions over sets of indices: `FoldExists`
and `FoldArguments` give the value of a fold one element further from the one before, so that
an invariant of a loop can be carried along.

* `Collects` is the one of the insertion by date: the rows taken so far are the usable ones, in order, and
  the one that ends its date is the latest of it. `Keeps` is that of the pass that keeps the last row of each date.
* `NoLookahead` follows from `SameUpTo`: courses that agree on the first n bars give the same windows, signals,
  positions, costs and factors on them, and so the same equity.
* `PassTold` is that of `max_drawdown`: after k values the peak is the highest of them, and the worst fall so
  far is at least that between any two of them and is that of some two. Prices and the equity compounded
  from their returns have the same falls (`ReturnsCompound`, `FallsScale`).
* `Reconciled` is that of the equity: after k bars it is the product over the held runs as they look by
  then, less the costs of the changes so far. At most one run is open; the next bar prolongs it, ends
  it or begins another (`RunGoesOn`, `RunsEnd`, `RunBegins`), and prolonging multiplies its
  gain by the factor of the bar (`PowersChain`).
* `Arranged` is that of the sort: a rising sequence and a bijection to the losses taken so far. Half of the losses
  on each side of the median then follows by counting, the mean between the extremes and
  the losses below the sum of all by adding up (`MeanIsBetween`, `LossesMakeLess`).

The equations are equations of values because lowest terms are unique (`FractionsAreUnique`,
`LowestTermsAreEqual`).

Only model-checked: liveness (`CallsReturn`, `WantedIsServed`, `ClientIsHeard`), as fairness and
ENABLED are out of the prover's reach. Every other property of a passing run is proved, those of
one caller or one thread under that hypothesis.

## 5. Where code and documents disagree

| Run | Disagreement |
|---|---|
| `list_limit` | `orders.py:122` looks for a reply's age among the oldest 1000 events of the type; beyond them "Order confirmation expired." (127) never comes |
| `guardrail_replace` | `orders.py:249` gives an order a ticket that "All-in sizing is blocked by simulator risk guardrails." (`risk.py:37`) refuses at submission |
| `account_realized` | `accounts.py:107` drops the realized profit of closed positions from the account: "PnL updates cascade to positions/account summary" (`research/deep-research-report (1).md:156`) |
| `session_race` | `sessions.py:32` compares, then clears: a tickle by another thread in between is undone, against "call /tickle to re-establish it" (44) |

Noted while modelling, without a run: the two valuations of `accounts.py` 76 and 100
(with and without the multiplier); a composite provider turns the `KeyError` of an
unknown contract into a data error, so its route answers 500 in place of 404; the
WebSocket loop stays silent for as long as the clock was turned back (`app.py:255`); the
TWS cancel callback reports nothing filled (`semantic.py:101`), and an order that needs a
confirmation leaves a pending reply nobody can answer (`semantic.py:80`);
`orders.py:214` cancels the rest of a partly filled IOC order with the fill as its last event, where
"Every externally visible action should emit a durable event"
(`research/deep-research-report.md:142`): `LogTellsTheBook` names this exception; order
ids begin again with each process (`orders.py:55`); the manifest has paths relative to where
the collector ran, so that a server elsewhere does not find them (`datasets.py:83`), and a
manifest cut short stops a replay server from starting (`marketdata.py:72`); Yahoo's
history keeps the first 1000 bars, the others the last (`marketdata.py:302`). With two threads
`LifecycleKept` fails, because a fill that waited for its quote overwrites a
cancellation; it is claimed for one caller.

## 6. Not modelled

Parsing and formatting of requests, payloads, fields and files; spreads, depth ladders and
the synthetic price path (data, no control); `fractional_kelly` and `expected_value` (one
expression); routes that only read, error codes, TWS requests that only read; seeds
(constants of the models) and argument parsing; floating-point rounding; threads that
switch between two quotes (the lost update in `apply_execution`, of which the code
gives no promise to check); a server that reads a dataset file while it is written.

## 7. Plan

Done, in this order: `TradeRules`, `Orders` with the two abstract specifications, the
accounts, sessions and clock, the first proofs, market data, backtest, the WebSocket
stream, datasets, the order service as a process with two front ends and restarts,
and the proofs of every safety property of the passing runs.

Next, by importance:

1. Threads inside `apply_execution` and `_try_fill`: split where the code reads and writes,
   with what still holds there.
2. The age of a reply across a clock that is turned back: `Orders` on `SimClock`.
3. A server that reads a dataset while the collector writes it.
