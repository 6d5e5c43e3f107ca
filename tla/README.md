# A verification project for the dual-sleeve trading system

TLA+ models of the parts of this repository that turn prices into candidates and candidates into
sized orders, that place, persist, audit and repair those orders, that watch losses and borrowing, and that
evaluate the strategy on past bars; model-checking runs over small instances; and TLAPS proofs, for every value of
the constants, of every safety and action property the runs check.

Paths are relative to the repository; `…/` stands for `src/dual_sleeve_trader/`.

## 1. The system

### Components, their state and their operations

| Component | State | Operations | Module |
|---|---|---|---|
| Order router (`…/execution/order_router.py`, `persistent_router.py`, `order_ids.py`) | mode; the record under way | `route`: gates, client order id, POST, row | `OrderFlow` |
| Order store (`…/storage/sqlite_store.py`) | table `orders` | `upsert_order`, `get_order`, `list_open_orders` | `OrderFlow` |
| SAFE_MODE controller (`…/execution/safe_mode.py`) | one flag, in memory | `enter`, `exit`, `allows_new_entries` | all order modules |
| Order reconciler, its runners, daemon (`…/execution/reconciliation*.py`, `periodic_reconciliation.py`, `…/ops/daemon.py`) | rows read, report | read rows, read exchange, compare, stop or iterate | `OrderFlow`, `PositionSync` |
| Repair engine (`…/execution/repair.py`) | the record read | read row, query exchange, write row | `OrderFlow` |
| Position reconciler and store (`…/execution/position_reconciliation.py`, `…/storage/position_store.py`) | table `positions` | refresh, list, compare | `PositionSync` |
| Sleeve B signals and candidate builder (`…/strategies/sleeve_b.py`, `sleeve_b_candidate_builder.py`, `scripts/run_sleeve_b_auto_scan.py`) | the three series a scan has fetched | `regime`, `donchian_signal`, `build_sleeve_b_candidate` | `SleeveBSignals`, `CandidateScan` |
| Sleeve B allocator and symbol filters (`…/execution/sleeve_b_allocator.py`, `…/exchange/filters.py`) | none | `allocate`, `floor_to_step`, `normalize_order_intent` | `SleeveBAllocator` |
| Sleeve B loop (`…/execution/sleeve_b_testnet_loop.py`) | snapshots and counts of a run | `run_once` | `SleeveBLoop` |
| Sleeve B replay (`…/strategies/sleeve_b_replay.py`) | position in the bars, open trade, trades | `run_sleeve_b_replay`, `_summarize` | `TradeReplay` |
| Read/write smoke run (`…/ops/testnet_read_write_smoke.py`) | what each call returned | the documented sequence | `ReadWriteSmoke` |
| In-memory adapter (`…/exchange/binance_testnet.py`) and order state machine (`…/execution/order_state_machine.py`) | orders held; the records both share | submit, cancel, query, list; `transition`, `apply_fill`, `should_cancel_entry_remainder` | `PaperDesk` |
| Sleeve ledger and circuit breakers (`…/portfolio/ledger.py`, `…/risk/circuit_breakers.py`) | figures of each sleeve | `update_sleeve`, `snapshot`, `evaluate` | `SleeveLedger` |
| Borrow stress (`…/risk/borrow_stress.py`) | none | `borrow_stress_score`, `squeeze_risk_level` | `BorrowStress` |
| Configuration and adapter factory (`…/config/runtime.py`, `…/exchange/factory.py`) | none | `RuntimeConfig`, `build_exchange_adapter` | `Configuration` |
| REST adapter (`…/exchange/binance_rest.py`) | none the properties see | submit, query, cancel, list, klines | actions of the above |
| Sleeve A scanner, the other risk guards, read-only smoke run, alerts, scripts | | | see section 7 |

### How they interact

Everything meets at two places: the **exchange**, through HTTP calls that may be refused, may time
out after they took effect, and are answered with the state of that moment; and the **SQLite
file**, written by the persistent router and the repair engine, read by the reconciler. The SAFE_MODE
flag is a third meeting place only for components built around one `SafeModeController` in one
process; `build_daemon_runner` makes one of its own.

### What is hard

* A call to the exchange and the row that records it are two steps; a crash, a lost answer or a
  locked database falls between them.
* The reconciler reads rows, then the exchange; the repair engine reads a row, queries, and
  writes; the loop reads account and positions once and then decides for many candidates. Each
  uses what it read after others may have moved on.
* SAFE_MODE is in memory; rows and orders are not.
* A refresh of positions commits row by row.
* A scan's three calls see three moments, and the last bar of each answer is still forming.
* A size is computed at one price and sent at another, and floored in between.
* The in-memory adapter holds the caller's own records: a change of one is a change of the other,
  while the table keeps what was written. `apply_fill` writes before it may raise.
* Rules written twice, for longs and for shorts, and cascades of thresholds, agree only if every boundary does.
* In the replay several exits compete for one bar.

`PROJECT.json` lists each hazard at its line with the properties that watch it.

## 2. The modules

| Module | What it is |
|---|---|
| `OrderStatus` | statuses, status sets and the translation of the exchange's words |
| `OrderFlow` | trader, daemon, repair engine, exchange, crashes and restarts, in one or several processes |
| `OrderMirror` | abstract specification: the store is a lagging mirror of the exchange's order book |
| `OrderFlowProofs`, `OrderMirrorProofs` | proofs about `OrderFlow`, and that it implements `OrderMirror` |
| `SleeveBSignals` | averages, true range, regime, breakout, timing and the candidate, as operators |
| `CandidateScan` | a scan's three calls against a market that moves between them |
| `SleeveBAllocator` | gates, size, filters and limit price of an entry, as operators |
| `SleeveBLoop` | runs of the trading loop, with that allocator, against resting, filling and vanishing entries |
| `PositionSync` | the position half of a daemon iteration |
| `TradeReplay` | the walk over the bars, one trade at a time, and the summary |
| `ReadWriteSmoke` | one smoke run, under any configuration, whose calls may all raise |
| `Configuration` | which configuration leads to which adapter |
| `PaperDesk` | a process on the in-memory adapter: records, orders held, table, repair, audit, restart |
| `SleeveLedger` | the figures of two sleeves, snapshots of them, and the circuit breakers on a snapshot |
| `BorrowStress` | squeeze risk while readings come in one at a time |
| `SleeveBLoopProofs`, `PositionSyncProofs`, `ReadWriteSmokeProofs`, `TradeReplayProofs`, `CandidateScanProofs` | proofs about the module of that name and the operators it is built from |
| `DeskProofs` | proofs about `PaperDesk`, `SleeveLedger` and `BorrowStress` |
| `MC…` | values for TLC |

### OrderFlow

Each component is suspended at every call that leaves its process, and each such call is an action.

| Code | Actions |
|---|---|
| `OrderRouter.route` | `Route`, then `SubmitAccepted`, `SubmitTimesOut` or `SubmitRefused` |
| `PersistentOrderRouter.route` | `PersistRouted` (the row, or SQLite raising) |
| `reconcile_open_orders` | `ListOpenRows`, `FetchAndCompare`, `ReconcileFails` |
| `DaemonRunner.run` | those, then `ReconcilePositions(outcome)` and back to the start or to a stop |
| `repair_by_client_order_id` | `RepairUnknownRow`, `RepairReadRow`, `RepairQueryAnswered`, `RepairUnresolved`, `RepairWriteRow` |
| `SafeModeController` | `EnterSafeMode` inside the above, `ExitSafeMode` |
| the exchange, the clock, the operating system | `ExchangeAccepts`, `ExchangeProgress`, `Tick`, `Restart` |

Choices a reader should know:

* `OneProcess = TRUE` is a single-threaded Python process in which the components share one
  controller and never interleave inside a call, the way `ReconciliationRunner`, `PeriodicReconciliationLoop`
  and the smoke run are used. `FALSE` is the deployment of `docs/local_daemon.md`: separate processes
  over one database and one exchange, each with its own controller.
* `ListsOpenOrders = TRUE` is what the protocol `ExchangeAdapter` (`…/exchange/interfaces.py`) promises;
  `FALSE` is the REST adapter, which returns `[]` whatever it fetched (section 5).
* A record is its client order id, intent, status, fill and exchange id. Prices are left out, so a
  repair may rewrite a row without changing it (in the code, for its average price).
* The answer to a submission carries the order's id and executed quantity, as the `RESULT` form the adapter asks for does
  (`binance_rest.py:65`). `_apply_exchange_order_payload` would take an answer without either and leave the field as it was.
* The exchange may use status words `_BINANCE_STATUS_MAP` does not list; `OTHER` stands for them.
* A request in flight when its process dies is taken to have landed before the death or never.
* `exit` of the controller has no caller under `src/`; the operator may call it between calls.

### SleeveBSignals and CandidateScan

Prices are whole numbers. An average is kept as a numerator over its known denominator and both sides of a
comparison are multiplied by it, so nothing is rounded: `EmaSum / EmaScale` is what `ema` returns, and a
candidate's prices are whole numbers in the fraction `1 / PriceScale` of a price. `Power` is the power of the denominators,
written as a recursive function because the provers know nothing of `^`.

`CandidateScan` is the market and the scan. `Trade` changes the price and the forming bar of all three series;
`HourEnds` starts the next bar of the series that end with the hour. The scan is suspended at each of its three calls
(`FetchDaily`, `FetchFour`, `FetchHourAndBuild`), each of which may raise, and keeps what it has read. Bars too old
for any call's limit are dropped. The call for one-hour bars may also return none, and the entry price then is the last
four-hour close; the offset is in basis points. `Decimal`'s rounding at its 28 digits is left out. Bars are recorded as the exchange builds them, so a bar's low, open, close and high are
ordered; nothing else is assumed of them.

### SleeveBAllocator and SleeveBLoop

Money and prices are in cents, quantities in contracts, fractions in percent; the comparisons of `allocate` are
multiplied out. The loop proposes any order of candidates, one per symbol, from a set of setups
(`Candidates`); `decided` are the symbols it is done with. A candidate the loop takes is sized by
`Quantity` and priced by `NormalizedPrice`, from the `account` and the positions `seen` at the start of the run, as in the
code. An order that passes the allocator at its entry price and fails the minimum notional at its limit price raises
(`FiltersReject`) and takes the run with it. An entry rests until it fills, in parts or whole, or goes away, and what it
holds is in the symbol's position. A run reads a position with the mark price of that moment, any of `MarkPrices`; its
notional is the exchange's, or amount times mark price where the answer has none (`NotionalTaken`, `AnswerFields`). The
balance it reads is any of `Balances`, since profits, losses and other positions move it. Several entries may be placed by
one snapshot (`MaxNewOrders`). After a submission without an answer the run is over but `firstOfRun` stays until
the next one starts, so that `RunIsBounded` counts the entry that may have been placed. An entry that would fill against an
open position of the other side is left resting.

### PositionSync

The daemon alone writes table `positions`. Orders are reconciled in between with any outcome. One
`UpsertPosition` is one commit. The exchange's answer holds every open position and any of the flat ones (`Answers`): the code takes
whatever is listed, and the v3 endpoint it asks promises no flat ones.

### TradeReplay

Prices are distances from the entry in the trade's favour, which makes longs and shorts the same,
fractions are tenths, results are distances times tenths. A bar is any triple of worst, last and
best price; a signal may come at any bar. The quantity, the budget of one R capped by leverage,
is constant during a trade and scales its result: a trade that loses no more than ten times the
stop distance loses no more than one R. Where the leverage cap binds, the stop costs less than the budget, and "one R" in
`ReasonFitsResult` is the distance to the stop. That the walk reaches the last bar and how the summary counts a trade without a bar are not stated.

### ReadWriteSmoke

`Start` is `_validate_runtime` and the acknowledgement. Then one action per exchange call of the run and one for its
failure. The market, the order and the position may move between any two calls. A run needs the REST adapter, whose list of
open orders is always empty, so its order audit is consistent unless a call raises (`AuditOrders`); what `ok` is worth rests on the second query.
Prices are integers and the margin is in tenths, so the guard's comparison and the router's flooring are exact.

### PaperDesk, SleeveLedger and BorrowStress

| Code | Actions of `PaperDesk` |
|---|---|
| `PersistentOrderRouter.route` over `BinanceUsdmTestnetAdapter` | `Route` (SQLite may raise behind it) |
| `OrderStateMachine.transition`, `apply_fill` | `Transition`, `ApplyFill` |
| `should_cancel_entry_remainder` and `cancel_order` | `CancelRemainder`, `Cancel` |
| `repair_by_client_order_id`, `reconcile_open_orders` | `Repair`, `Audit` |
| `SafeModeController.exit`, the process ending | `ExitSafeMode`, `Restart` |

The adapter's dictionary holds the very objects the router returned, so the model has one set of `records` and the set of
ids `held`; a row is a copy of a record at some time. Nothing waits for anything, hence every call is one
step. `Transition` offers every status the table allows, FILLED with its untouched quantity too. `Restart` loses records and adapter and keeps the rows. The process is one whose `Configuration` leads to the
in-memory adapter: the default, and a testnet process whose credentials are incomplete.

`SleeveLedger` replaces the figures of one sleeve at a time; a snapshot may be taken between any two updates.
`BorrowStress` replaces one reading at a time.

`MCDesk` checks the three side by side. They share no state and no code connects them, so a behaviour exercises one of
them and the state spaces add up.

## 3. The runs

`properties` of every run are listed in `PROJECT.json`, with a mutation of a mapped definition for each
property of a passing run that makes it fail.

| Run | What it shows | Bounds |
|---|---|---|
| `one_process` | No order reaches the exchange without the licence route() asked for; a consistent audit is exact | two exchange orders, an entry and a stop, all status words, restarts of any process |
| `multi_process` | Rows never run ahead of the exchange; a consistent audit leaves no open order without a row; `OrderFlow` implements `OrderMirror` | two exchange orders, one entry, two seconds, four status words (new, partial, filled, unlisted), trader and repair engine may die |
| `liveness` | An open order without a row ends in SAFE_MODE, or closes, or gets its row | one exchange order, trader and repair may die |
| `candidates` | A candidate is tradable whatever moved between the calls; long and short rules are mirror images; stop and regime follow the forming bar one way | periods two and three, five prices, an offset of 5 basis points, four hours, three price changes, a history just long enough |
| `two_orders` | The loop's limits, rows, one entry per position, how far open positions may exceed `max_concurrent_positions`, the portfolio cap as the run sees it, and the margin and risk an order was sized by, over runs that place two orders by one snapshot | three symbols, three setups, two positions, three entries, two orders per run, mark prices 90 and 130, part fills of four contracts |
| `positions` | A comparison of positions is exact; a refresh leaves wrong rows of flat positions only; a lasting difference ends in SAFE_MODE | two keys, two moves, one restart, tolerance 1, short, flat and long amounts, every combination of refreshing and stopping |
| `replay` | Bounds of a trade's result, order of its targets, its reason, succession of trades, drawdown | three or four bars, time stop of two bars, prices on, between and beyond all levels |
| `smoke` | When a smoke run leaves its order open; where it rests; what `ok` means | one run, four configurations of which one is accepted, mark prices 0, 10 and 14 and limit prices on both sides of the guard, one of which only flooring brings to its edge and one of which fills when the mark price moves |
| `desk` | Status and quantity of an order agree; whose remainder is canceled; what a consistent audit of the in-memory adapter means; stops follow losses; squeeze risk follows bad news | two ids, two lots, three configurations, seven figures per sleeve, two to five readings per field |
| `rest_adapter`, `two_controllers`, `resting_entry` | disagreements between documents and code (section 5) | the smallest that show them |

Why the bounds are enough to be interesting:

* Two exchange orders are the least with which a client order id can be shared, an order can
  be orphaned beside a recorded one, and a closed order be followed by an open one. Quantity 2 is
  the least with a partial fill.
* Two seconds of clock give two client order ids for one intent; one second makes them equal.
* Three symbols, three entries and two orders per run let a run decide its second order by a snapshot its first has
  made old, and another run follow. One setup is bound by risk or by what the portfolio has left, which may be less than the
  minimum notional at the limit price, one by a position's margin, and one has no stop distance. The marks lie below and above
  the entry price, so a position read later may count for less or more than it was sized for.
* Periods of two and three are the least for which the averages cross and the channel has more than one bar; five
  prices leave room above and below the start for a breakout, an overextension, a reversal and a small move. Four hours
  with two hours in a four-hour bar and two of those in a day end every kind of bar. The run has one-hour timing on, so a scan that gets no
  one-hour bars makes no candidate; with it off, such a scan may make one, and `CandidatesAreTradable` holds for both.
* With two lots one lot is exactly the minimum fill ratio of one half. Figures and readings lie on both sides of every
  threshold.
* With two keys one row of a refresh can be written and the other not.
* With four bars a trade is entered, held to its time stop and followed by another; a single
  bar can reach none, some or all targets and the stop.

Deadlock is checked in every run but two. The replay ends. In the run of `PositionSync` the daemon may end for good
(an exception of the refresh, or `stop_on_mismatch`) with the moves and restarts of the bounds used up.

The exchange-id, symbol, key and id symmetries are used in safety runs and in the refinement only, never with a
liveness property.

## 4. Fairness

* `FairSpec` of `OrderFlow` assumes weak fairness of the daemon's actions: it is a process of its own, its
  reads return or raise (the HTTP client has a timeout of ten seconds, `binance_rest.py:47`), every
  exception of a reconciliation is caught, and its loop sleeps and iterates. Nothing is assumed of the trader,
  the repair engine or the exchange. The run has `StopOnMismatch = FALSE`, the daemon started with
  `--continue-on-mismatch` (`scripts/run_daemon.py:16`; by default it stops, `docs/local_daemon.md:28`), without
  `max_iterations`, and does not let it die; no document promises that it is restarted.
* `FairSpec` of `PositionSync` assumes the same of a daemon whose process may also be killed and started again, with other
  options, `MaxRestarts` times; after the last start it goes on. An exception of its refresh is caught nowhere
  (`daemon.py:54`), so `DifferenceRaisesSafeMode` lets a refreshing daemon, and only that one, end without SAFE_MODE.

## 5. Findings

Each is a run that must find its property violated; the lines of the document and of the code are in `PROJECT.json`.

* `rest_adapter`: `fetch_open_orders` of the REST adapter returns `[]`, so an order the exchange holds without a
  row is never noticed, against README.md:46.
* `two_controllers`: the daemon's SAFE_MODE does not reach the process that submits entries.
* `resting_entry`: a resting entry is not seen by the one-position-per-symbol gate of the next run.

Disagreements and surprises read in the code that have no run of their own:

* Two intents of one sleeve, setup prefix and action in one second share a client order id (`order_ids.py:14`; without a setup id
  the prefix is `manual00` for all). The second order's ids and fills land in the first one's row, whose
  intent stays.
* A refresh leaves the row of a position that was closed and is no longer listed (`position_reconciliation.py:85`), against
  docs/local_daemon.md:57, and the comparison behind it reports the row missing on the exchange. `OnlyFlatRowsStay` says that no other
  row is left wrong.
* A run with `max_new_orders_per_run = 2` (docs/sleeve_b_auto_testnet_loop.md:17) decides both orders by the positions read at its start
  and may end one above `max_concurrent_positions`, against line 36 of that document. `OvershootBounded` says that this is all; with the
  default of one order per run it does not happen (`OvershootIsBounded`).
* A limit price may lie beyond the stop when the stop is nearer than the offset, and nothing asks for a least stop
  distance; the size is then bounded by margin alone. The leverage the sizes assume is never set at the exchange.
* `run_once` builds its router with `EXCHANGE_TESTNET` whatever the configured mode (`sleeve_b_testnet_loop.py:85`).
* docs/sleeve_b_replay.md:26 moves the stop to breakeven at TP1; a time stop or the end of the data on that very bar books the bar's close,
  which may lie below the entry (`sleeve_b_replay.py:193`). `ResultWithinPlan` bounds the loss all the same.
* The replay uses a daily bar from its opening timestamp on (`sleeve_b_replay.py:227`): its close is then known hours before the day ends.
* docs/testnet_read_write_smoke.md:66 wants the smoke price away from the mark price; the router floors it to the tick after the
  guard, which moves a SELL price towards the mark (`filters.py:24`). `RestsAtTheMarkSeen` states what remains true.
* `min_fill_ratio` never decides whether a remainder is canceled (`order_state_machine.py:79`); `RemainderGoes` says what does.
* A canceled order leaves the in-memory adapter while its row stays open: the repair engine finds no order and enters SAFE_MODE
  instead of closing the row. A row in status UNKNOWN is never a mismatch (`AuditTellsLive` exempts it).
* With a stress score below three and trusted data, the squeeze level falls from MEDIUM to LOW when funding deepens past -0.1 %
  (`borrow_stress.py:86`); a planned notional of zero counts as uncovered. `Worsens` names both exceptions.

## 6. Proofs

Every invariant and every action property of the passing runs, and the refinement, is a theorem for all values of the
constants. Each theorem has the assumptions its modules make of their constants (`FlowAssumption`, `LoopAssumption` and so on), which
say which sets they are from and how they are ordered: periods, limits and prices are positive, the fast period is below the slow one. What
a theorem needs beyond them is its hypothesis.

### Theorems

| Module, theorem | Property | Hypothesis | What carries the proof |
|---|---|---|---|
| `OrderFlowProofs` `TypeCorrect` | `TypeOK` | | `Typed`: `TypeOK` and `Suspended` (a component waiting at a call holds the record the call is about; without it `Route … PersistRouted` is not typed) |
| `NeverAhead` | `LocalNeverAhead` | | `BooksBehind`: rows, and the records under way, lag behind their orders. The repair engine's record must be included from the moment it is read, not only when it is written |
| `OrdersAreLicensed` | `EveryOrderIsLicensed` | | `OneCallAtATime` (in one process at most one component is inside a call) and `Licensed` (the submitting trader's gates still hold). It holds for either process layout, because the licence is about the controller the router was built with; that a daemon of another process cannot withdraw it is `two_controllers` |
| `AuditIsComplete` | `AuditComplete` | `ListsOpenOrders` | `RowsReadHaveRows`: rows are never deleted, so what the daemon read still has its row when the exchange answers |
| `AuditIsExact` | `AuditExact` | `ListsOpenOrders`, `OneProcess` | `RowsReadStand`: with one call at a time the open rows are still those read |
| `OrderMirrorProofs` `MirrorImplemented` | `ImplementsOrderMirror` | | the above and `WritesAreFresh`: while a client order id belongs to one order, a record about to be written is no older than its row |
| `SleeveBLoopProofs` `LoopTypeCorrect`, `RunsAreBounded`, `RunsAreRecorded`, `OrdersKeepToPlan` | `TypeOK`, `RunIsBounded`, `RunIsRecorded`, `OrderWithinPlan` | | `Booked`: counts agree with the entries placed and only the entry last placed may be without its row; the bounds of `Quantity` after each of its roundings |
| `PositionsDoNotPyramid` | `NoPyramiding` | `~StartsWhileResting` | `OneEach`: live entries are of different symbols, and what is live was seen or is the run's own |
| `PortfolioCapHolds` | `PortfolioCapKept` | `~StartsWhileResting`, `{} \notin AnswerFields` | `Capped`: an open position is no larger than when it was read or is of an entry of this run; the room the allocator computes bounds each new order |
| `OvershootIsBounded` | `OvershootBounded`; with `MaxNewOrders <= 1`, `PositionsBounded` | `~StartsWhileResting` | positions are those seen and those of the run's entries; the gate bounds the first, the limit of a run the second (`Roomy`) |
| `PositionSyncProofs` `SyncTypeCorrect`, `PositionAuditsAreExact` | `TypeOK`, `PositionAuditExact` | | `LocalIsRows`: nothing is written between the reading of rows and the answer |
| `OnlyRowsOfFlatStay` | `OnlyFlatRowsStay` | | `RefreshGoesThrough`: the row of an open position is what the exchange said or is still to be written |
| `ReadWriteSmokeProofs` `SmokeTypeCorrect`, `OrdersAreCanceled`, `OkIsTold` | `TypeOK`, `NoOrderForgotten`, `OkMeansCanceled` | | `IInv`: the order passed the guard, a run past its submission goes through the cancel call, and CANCELED is final |
| `RestsAsGuarded` | `RestsAtTheMarkSeen` | `TickIsFine` | the same, and what flooring may take from a price |
| `DeskProofs` `DeskTypeCorrect`, `FillsAgree`, `RemaindersGo`, `AuditsTellLive` | `TypeOK`, `FillsAgreeUnlessDisputed`, `RemainderGoes`, `AuditTellsLive` | | the properties themselves are inductive together |
| `StopsNeverEase` | `StopsFollowLosses` | | `DecisionIsSnapshots`: a decision is that of the snapshot it was made on; the breakers are monotone in the losses |
| `StressIsMonotone` | `StressNeverEases` | | score and level are monotone in every reading, over any numbers |
| `TradeReplayProofs` `ReplayTypeCorrect`, `ResultsKeepToPlan`, `LadderIsTakenInOrder`, `ReasonsFitResults`, `OneTradeAtATime` | `TypeOK`, `ResultWithinPlan`, `LadderTakenInOrder`, `ReasonFitsResult`, `TradesDoNotOverlap` | | `WalkInv`: an open trade has taken the first n targets and booked what they bring, a finished one ended for a reason that fits, and trades follow one another up to the bar the walk is at |
| `DrawdownIsTheWorstFall` | `DrawdownIsWorstFall` | | peak and drawdown after n trades are the greatest equity and the deepest fall among the first n |
| `CandidateScanProofs` `ScanTypeCorrect`, `SidesAreMirrored` | `TypeOK`, `SidesMirror` | | `ScanInv`: the candidate is what the build made of the series seen, until it is delivered; reflected prices have the reflected average and the same true ranges |
| `CandidatesAreTradable` | `CandidateIsTradable` | `OffsetBps > 0` | the same; a breakout forces a true range of the last bar |
| `StopsNeverTighten`, `RegimesFollowPrice` | `StopNeverTightens`, `RegimeFollowsPrice` | | a price the forming bar takes up never narrows its true range; the last close enters the fast average with a larger share than the slow one, and itself with the largest |

Why the hypotheses are the ones the code calls for:

* `ListsOpenOrders`, `OneProcess`: an adapter as `…/exchange/interfaces.py` promises it, and the process layout in which the
  components share one controller. Without the first, `rest_adapter` is the counterexample.
* `~StartsWhileResting`: entries of earlier runs have filled or gone when a run starts; `resting_entry` shows what happens otherwise.
* `MaxNewOrders <= 1` is the default. With two, both may fill where one place was left.
* `{} \notin AnswerFields`: a position's answer carries its notional or its mark price; one with neither counts for nothing in
  `_sum_initial_margin`.
* `TickIsFine`: a tick is not wider than the guard's margin. With a coarser one the floor of a SELL price may be at the mark price.
* `OffsetBps > 0`: with no entry offset the limit may be the last price itself. The builder's default is positive.

### How the arguments go

`NeverAhead` rests on `BookGrows`, an action lemma: no step takes an order out of the exchange, changes its client id, takes
back a fill or reopens it. From it, `LagsStable` says that a record that lags goes on lagging whatever happens at the
exchange, and each step then only has to account for the record it writes. `MirrorImplemented` is a step
simulation: every action of `OrderFlow` is shown to be a `Place`, an `Advance`, a `Record` or a stutter of `OrderMirror` under
the mapping (`AcceptedIsPlaced`, `ProgressAdvances`, `WriteIsRecorded`, `NoMirrorStep`). TLC checked each invariant before it was proved.

Sums, averages, powers and the replay's equity are recursive functions. What holds of them for every length is proved by least
counterexample: the set of indices at which a fact fails has, if it is not empty, a least member (`WFMin` over the well-founded `<` on `Nat`,
or over strict inclusion for sums over sets), whose predecessor the fact holds of (`Upwards`). The same argument gives that a function with the
recursion's equations exists (`FollowerExists`), without which `CHOOSE` says nothing (`PowerIsAFunction`, `EmaIsASum`, `AtrIsASum`).
`RegimesFollowPrice` and `SidesAreMirrored` then compare two series through the differences `LastOverFast` and `FastOverSlow`,
whose signs are the regime.

### Only model-checked

The liveness properties `MismatchRaisesSafeMode` and `DifferenceRaisesSafeMode`: fairness and ENABLED are outside what TLAPS proves here. The
disagreements of section 5 are counterexamples, which TLC finds.

## 7. Not modelled, and why

* The Sleeve A scanner: two stateless filters whose result nothing under `src/` acts on.
* Manual override, data freshness, position sizing and capacity: one condition or formula each, without a caller
  under `src/`.
* Signing, parsing, the exchange's symbol information, printing, reading the environment and command lines.
* The read-only smoke run, alerts and scripts: one pass of reads and prints. What `scripts/run_sleeve_b_auto_scan.py` fetches and in
  which order is in `CandidateScan`.
* Reason texts and setup ids of signals and decisions; amounts rounded for a report.

## 8. Plan

Done: the order flow with its proofs, signals and scan, allocator and loop, the position half of the daemon, the replay, the smoke
run with its configuration, the in-memory adapter with the state machine, the ledger with its breakers, borrow stress; and the
safety and action properties of all of them as theorems.

Next:

1. Weaker hypotheses: how far above the portfolio cap runs may end that start on resting entries.
2. The safety part of the two liveness properties: that a daemon which has compared with a mismatch and goes on is in SAFE_MODE.
3. An abstract specification of the loop, a ledger of margins with a cap, and `SleeveBLoop` as its implementation.
