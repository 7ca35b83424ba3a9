# Verification of daytradebot

`daytradebot` is a Rust workspace that trades US stocks intraday. Up to eleven
containers run `trader paper --broker ibkr`, one per strategy and symbol. They
share one account at Interactive Brokers (IBKR) and one Postgres database, and
three symbols (IWM, IWV, AVUV) are traded by two containers each. The modules
here model what that loop does to orders, fills, trades and risk state while
the broker, the database, the clock and the other containers do as they please,
and what the simulated broker and the backtest, from which every strategy is
judged, do to orders, cash and risk state candle by candle. Around that core are
the parts that share no state with the loop: the limits of the account, the risk
manager, the nine strategies, the calls of the broker adapter and its poll, the
manual flatten, walk-forward and gate B.

`PROJECT.json` maps every definition to the lines it models, and lists the runs,
the hazards of the code and the theorems.

```
cd tla
tlc -workers 2 -config live_restarts.cfg MCLiveOrders   # a run
tlapm LiveOrdersProofs.tla                              # the proofs: every *Proofs.tla,
tlapm LiveOrdersFills.tla                               # LiveOrdersFills
tlapm SetLemmas.tla                                     # and SetLemmas
```

## 1. The system

| Component | Source (under `src/`) | State | Operations | Interactions | What is hard |
|---|---|---|---|---|---|
| Live loop: order lifecycle | `crates/trader-cli/src/commands/paper.rs` | `LiveFillState` (tracked order, fill tracker, waited bars, degraded), `RiskState`, `flattened_on` | recover, drain fills, finalize trade, flatten, close at market, expire, watchdog, reconcile, analyze and enter | broker calls, repositories, fill channel | each step awaits; fills arrive between any two of them; crash and recovery |
| Live loop: bars | the same file, `fetch_live_batch`, `run_live` | cursor of the last bar, settle looks, failure counter | fetch, settle, catch up, time exit, circuit breaker | market data, broker | incomplete bars, late feed, counted failures |
| Account limits (C2) | the same file, `portfolio_limit_hit`, `exposure_limit_hit` | none | read positions and equity, then refuse | broker, `trades` | check in one process, act after another acted |
| IBKR adapter | `crates/trader-adapters/src/ibkr` | connection, order ids, set of executions already published | place, cancel, query, executions poll | TWS API, fill channel | timeouts, lost or late answers, per-client view of orders |
| Fill tracker | `crates/trader-core/src/execution/trade_tracker.rs` | direction, entry and exit quantities and costs | `on_fill`, exit classification | live loop | order and owner of fills, over-exit |
| Time exit | `crates/trader-core/src/execution/time_exit.rs` | direction, R, validated, bars | arm, `on_bar`, reset | live loop, backtest | one bar counted once |
| Execution engine | `crates/trader-core/src/execution/mod.rs` | none | `process_signal` | broker, repositories | a step fails after the send |
| Repositories | `crates/trader-infra/src/repositories` | rows of orders, fills, trades, signals | save, list, update status | Postgres | every call may fail; no transaction spans two of them |
| Risk manager | `crates/trader-core/src/risk` | none (pure) | validate, size, cap | execution engine | limits at their boundary |
| Simulated broker | `crates/trader-adapters/src/simulated` | orders, pending entries, positions, cash | place, cancel, price and candle events | backtest, dry run | order of triggers in a bar |
| Backtest engine | `crates/trader-backtest/src/engine.rs` | equity, open trade, pending entry | bar loop, flatten | simulated broker | same rules as the live loop (ADR-018) |
| Session clock | `crates/trader-core/src/session.rs` | none | windows of New York time | all | boundaries |
| Strategies, context, indicators | `crates/trader-core/src` | none (pure) | a signal or none from a window of candles | loop | geometry of brackets, a window shorter than the series |
| Walk-forward, metrics | `crates/trader-backtest/src`, `commands/walkforward.rs` | windows and trades of a run | split, run, holdout, figures, the row it keeps | backtest engine, `backtest_runs` | which trades belong to which block |
| Gate B | `commands/analyze.rs`, `strategy_source.rs`, `backtest_run_repository.rs` | rows of `backtest_runs` | resolve, gates of ADR-019/020, save, `latest_for`, evaluate | walk-forward, live trades | a sensitivity run taken for the baseline |
| Manual flatten | `commands/flatten.rs` | none | close at market with retries, cancel the exit side | broker | a close that may have been sent |
| Web panel, research, deployment | `crates/trader-web`, `trader-research`, `deploy` | none of the loop | read, restart containers | database | - |

What makes the parts correct:

* an open position has a sell at the broker, or the process knows and is about
  to put one there; no position crosses the closing bell;
* a process never has two brackets working, and a symbol never holds two;
* every execution ends, once, in one trade of the order it belongs to;
* a fill the tracker knows is in the database, so a restart finds it again;
* the risk state covers the trades of the day, over restarts;
* no entry while the database does not answer;
* each bar is used once, complete, and the clocks that count bars are right;
* a loop that can do no work ends, it does not stay silent;
* the account does not exceed its limits by more than a race allows, and a size
  keeps every cap;
* a bracket at the exchange has both its exits, and what is taken for rejected
  is dead;
* live and backtest give the same signal, and production is compared with no
  experiment;
* what is called out of sample is what the engine would do on those candles.

## 2. The modules

### LiveOrders

The order side of `run_live` for one symbol and one trading day, with the
account and the database. One action per `await` that reads or writes shared
state, so everything else may happen in between.

| Variables | What they are in the code |
|---|---|
| `owner bracket held mkt stop pos execs phase` | the account at IBKR: brackets by client id, working closes, stops put back, position, executions, the session |
| `dbOrder dbFill dbTrades dbSignals` | rows of `orders`, `fills`, `trades`, `signals` |
| `open_order waited direction lots degraded` | `LiveFillState` with its `FillTracker` |
| `pend` | the closed trade `finalize_live_trade` is saving |
| `counted daily_trades` | `RiskState` |
| `late` | history: the orders under which an execution was saved after a later one |
| `flattened alerted unprotected` | `flattened_on`, the untracked alert, `unprotected_streak` |
| `pc rq att why placing sig` | where the tick stands and its locals |
| `seen chan` | the executions poll: what it published, and the mpsc channel |

| Actions | Code |
|---|---|
| `Boot` | start-up: `rebuild_risk_state`, `recover_open_order` |
| `DropFill`, `LoseFill`, `SkipFill`, `RecordFill`, `DrainDone` | `drain_fills`, one fill at a time: not tracked, not saved, already saved, saved and tracked |
| `SaveTrade`, `CloseOrder` | `finalize_live_trade` |
| `SkipFlatten`, `FlattenEntry`, `FlattenPosition` | `flatten_session` |
| `SendClose`, `RecheckClose`, `CancelLegs` | `close_position_at_market`, its attempts and the query between them |
| `Probe`, `NextBar`, `Expire`, `MarkExpired` | the bar that arrived, the validity of the entry |
| `CheckPosition`, `Watch`, `Restop` | `watch_protection` and the stop it puts back |
| `FindPosition`, `FindOrders` | `find_exposure`: the position, then the open orders |
| `Analyze`, `ProcessSignal`, `PlaceOrder`, `SaveSignal`, `SaveOrder` | `analyze_and_execute` with `process_signal` |
| `Poll`, `PollBreaks` | the executions poll every 15 s |
| `FillEntry`, `FillLeg`, `FillMarket`, `FillStop`, `RejectEntry`, `RejectLegs` | the market and the broker |
| `OpenFlattenWindow`, `Bell` | the clock |
| `Crash` | the container stops at any point |

### BarLoop

The bar side of the same loop: the feed writes bars and completes them late or
never, `fetch_live_batch` waits for the last bar to settle, `run_live` moves its
cursor, counts the validity of the entry and the time exit in bars, and counts
failures for the circuit breaker.

### SimulatedBroker, Backtest, Costs, Ledger

`Costs` is the arithmetic of an execution: the commission table with its floor
and cap, slippage against the trader, the cash of each leg, the P&L of a trade.
`SimulatedBroker` is the broker as one action per call, `Backtest` the loop that
makes the calls on each candle, and `Ledger` what the cash of the broker
promises: one trade at a time and a balance that moves only when it closes, by
its net P&L. `Backtest` implements `Ledger` (`LedgerKept`): with the open leg
taken back, cash is what the trades say they earned.

| Variables | What they are in the code |
|---|---|
| `orders pending position cash equity closed` | `SimulatedState`: orders, `pending_entries`, `positions` with their `pending_exits`, cash, equity, `closed_trades` |
| `bar candle pc` | the index of the loop, the candle there, where its body stands |
| `risk timeExit trades` | `RiskState`, `TimeExitTracker`, the closed trades the engine took |

| Actions | Code |
|---|---|
| `Market` | the rollover of the day and `set_market_candle`: entry, then exit, on one candle |
| `TimeDisarmed`, `TimeCounted`, `TimeCloses` | `evaluate_time_exit` |
| `FlattenSkipped`, `FlattenEntry`, `FlattenPosition` | `flatten_session` on the last bar of the session |
| `Sync` | `sync_closed_trades`, `update_state` |
| `Enter`, `NoEntry` | the signal: `process_signal`, `validate`, `place_order` |
| `CancelLast` | `cancel_pending_entry` after the signal |
| `NextCandle` | the next iteration |

With `Replay` the loop is `process_candle` of `trader paper --mode replay`: no
rollover and no flatten.

### AccountLimits, RiskManager

`RiskManager` is `validate` as a function: the checks with the reason each refuses
for, in the order of the code, then the size from the budget of risk and the
lowest of three caps. `AccountLimits` is the entry of several processes on one account:
`ReadSummary`, `ReadPositions`, `ReadTrades` and `SendEntry` are the four awaits
of `analyze_and_execute`, and any other process may step between them. `peak` is
a history variable: the most processes that were past their look at once.

### The strategies: Candles and one module each, StrategyTape

`OpeningReversal`, `BalanceAreaBreakout`, `ValueAreaReentry`,
`BreakoutFirstPullback`, `RangeExtremeFade`, `TrendlineBreakTest`,
`FailureTestLong`, `PullbackTrend` and `LowTwoShort` each give `Analyze(candles,
p)`: a bracket in a set, or the empty set. `Candles` holds what they share
(indicators, sessions, swings, context). `StrategyTape` feeds one of them bar by
bar, with any bar of `Shapes` after a history that brings it near a setup.

### PlaceOrder, ExecutionsPoll, ManualFlatten

`PlaceOrder` is one call of `place_order` against the gateway: handshake, legs,
confirmation, a timeout anywhere. `ExecutionsPoll` is the way of an execution to
the books: `seen`, the batch, the bounded channel and the `FillTracker` with
quantities, prices and commissions. `ManualFlatten` is the operator's `flatten`
and `cancel-orders`.

### Metrics, WalkForward, GateB

`Metrics` computes the figures of a list of trades, `WalkForward` the anchored
split with one run of the engine per window and the holdout, and
`GateB` the rows the commands keep, the gates before them and the baseline
`analyze` picks.

`MCLiveOrders`, `MCBarLoop` and `MCBacktest` add what only the model checker
needs. `MCDesk` puts these parts in one state space: a behaviour chooses a part
and steps only in it.

### How the modules abstract

* Setups are long; the code is symmetric in the side. A bracket is `Qty` lots,
  one lot per execution.
* The newest row of `orders` is the one with the highest number.
* A transmitted order is in the next list of open orders. A market order trades
  before it can be cancelled. Cancelling a parent cancels its children; a
  parent that is partly filled leaves its lots bare. Legs trade only after
  the entry is complete.
* `Bell` comes only after every process that is up has flattened and its closes
  traded: the window is five minutes, ten ticks. No entry is being sent at
  15:55, since strategies stop at 15:30 or before. The session after the bell
  is not modelled.
* Writes whose result the loop only logs (trade rows, status of orders) may be
  lost when `"db"` is among the faults.
* The stop of the watchdog is lots per side; a rejected leg takes its
  sibling with it; the alert on a quantity mismatch is left out.
* Left out of LiveOrders: flags of the exit reason, the account limits, the UTC
  rollover of the day, the filter of latency artifacts, half days.
* BarLoop: one lot; fills that come before a tick are drained before its fetch;
  the feed moves between ticks; a position may be inherited at start. `waited`
  stops at `Validity` and `looks` at `MaxSettle + 1`, since the code only
  compares them with these. Alert streaks and the refusal to arm on a zero risk
  are left out.

* Backtest: one symbol, as in the code. Prices and money are integers and
  slippage is a number of price units, since what can be wrong is the side it is
  paid on; the commission keeps its floor and its cap, so the two legs differ. A
  strategy is any bracket of `Setups` or none, and the size any of `Quantities`:
  context, hours, spread, volatility and sizing only take setups away. A position
  and its two exits are one record, since the engine sends only brackets.
  The day of the risk state (UTC in the code) and the session (New York) change
  together, as they do in candles of regular hours. `reset` of the tracker
  leaves the numbers of the last trade behind; they are never read.
  `set_market_price`, which only tests call, is left out.

* AccountLimits: each process has a symbol of its own, an entry fills whole and
  at its price; what `list_today_account` answers is left open. Money is counted
  in its smallest unit and the rounding of `round_dp` is modelled (half to even).
* Strategies: prices are integers, 10000 a dollar; fractions are thousandths. A
  quotient that is only compared is compared as a product. What a strategy says
  beside its prices (strength, reason, details) is left out. A bar opens at the
  last close.
* PlaceOrder: a leg whose send failed did not reach the gateway; a refused
  parent takes its children with it.
* ExecutionsPoll: one process that does not restart; one tracker.
* ManualFlatten: every order is of the client id that asks and of the size of
  the position; a delivered close is in the next list.
* WalkForward: a candle says what the strategy asks for, whether the pending
  entry fills there and whether the open position is left; `Backtest` is the engine
  in full. What the engine takes from the series is kept: it is given a prefix,
  knows the end of a session only from the candle behind it (`LastOfSession`),
  flattens there, and leaves the position of the last candle open. What a trade
  comes to is data, another one when the session closes it. Days change in the
  series as in any candles of regular hours; the `f64` statistics are left out.
* GateB: a configuration is its version; an override is a version of its own.

## 3. The runs

### What each bound is and why it is enough

`MaxOrders`: two brackets is the smallest number at which one can be taken for
another; three reach the daily limit of two. `MaxExecs`: an entry and an exit
for two brackets. `MaxBars`: three bars contain an entry, its expiry and the
next entry. `MaxCrashes`: one restart separates everything before from
everything after; a second one only repeats the recovery. `MaxMarket` bounds
closes that reached the broker while the loop was told they failed. `MaxLag`
lets the feed be two bars ahead, which is the shortest catch-up. `MaxFailures`
is 3 for the code's 10: the counter is compared, never computed with.
`backtest` has six candles, four in the first session: a stop entry that would
live one candle too long needs four. Its seven shapes of candle cross each
level from either side, open beyond it within and past the tolerance, and reach
everything at once; a validity of 2 and a window of 2 are the smallest that tell
one off. The series ends, so deadlock is not checked there.

| Run | Instance | Question | Distinct states |
|---|---|---|---|
| `live_restarts` | 1 process, 3 brackets, 4 executions, 3 bars, 1 restart; sends, cancels and queries fail or are late | Is a long always protected? Do the risk state and the daily limit survive a restart? Is an execution in one trade only? | 3.6 M |
| `live_db` | 1 process, 2 brackets, 3 executions, 2 bars, 1 restart; database, rejections and polls fail | One bracket per client, no stacked position, tracker never ahead of the database, no entry while degraded | 1.3 M |
| `live_fair` | 1 process that never stops, 2 brackets, 4 executions, cancels fail and orders are rejected; fairness | Does every execution reach a trade? Does the flatten finish? | 56 k |
| `bar_loop` | 3 bars, feed late, incomplete or gone; calls fail; fairness | Are bars used complete and once? Are both clocks right? Does the loop catch up or end itself? | 1.8 M |
| `backtest` | 6 candles of 7 shapes in 2 sessions, 3 brackets and one that is refused, validity 2, window 2, at most 3 trades and 2 losses in a row a day | Does cash implement the ledger? Is equity marked right? Is the night flat? Do entries and time exits keep their windows? Are limits of the day? | 510 k |
| `desk` | the parts of MCDesk, each small: below | See the table of its properties | 142 k |
| `misattributed`, `crosses_bell`, `restart_loses_trade`, `twins_stack`, `breaker_blind`, `replay_day` | the smallest instance that shows it | what the code's comments or docs promise and the code does not keep | below |

### The parts of `desk`

| Property | What it says | The bug it tells |
|---|---|---|
| `OvershootBounded` | positions and decisions together stay within `MaxPositions` + those that decided together - 1 | `>` for `>=` in the count |
| `NotionalKeptAlone` | while one decides at a time, an opened position leaves the account under the ceiling | the look before ADR-020, without what the process may add |
| `SizesFit` | a size keeps the budget and every cap, and one share more would not | the notional not capped |
| `HistorySuffices` | the last `LiveMax` candles give the signal of the whole series | the 200 candles of before |
| `EntryAhead` | a stop entry is beyond the last close | no guard against latency |
| `SignalsPassRisk` | no strategy asks for a bracket the risk manager refuses for its shape | a target on the wrong side |
| `Mirrored` | the short strategy is the long one on the series turned over | an extreme that was not turned |
| `BooksBalance` | flat, the trades add up to the cash of the saved fills | commissions carried into the next trade |
| `FillSettles` | every execution is saved, refused, or of a fetch that broke | an event dropped on a full channel |
| `BracketWhole` | an entry that can trade has both exits at the exchange | the second leg transmits too |
| `RejectedIsDead` | a rejected order neither works nor fills | silence taken for rejection |
| `SampleKept` | the out-of-sample trades of many runs are those of one, inside the blocks, but for the one that only the candle behind its block lets the engine close | the end of the slice taken for the end of a session |
| `BaselineIsNoAblation` | gate B compares with a run of the pair and configuration, without overrides, at the costs of production | an override of the sizing not counted as an experiment |
| `ClosesOnce` | two manual closes never wait together; the acknowledged one is not cancelled | a retry that does not ask first |

Bounds: three processes on an account with room for two positions overshoot it
with a third; two equities, one of them missing. Each strategy starts with 16 to
25 bars that reach the edge of its setup and takes up to three more of nine
shapes, with periods of two to eight bars so that the windows are full; with
`LiveMax` 20 the live sees less than the whole series. Three scripts of four
executions scale in, close in parts, turn over and exceed the entry; a channel
of one is full at once. One request of each kind; three tries of a close and
one old leg. Two symbols, two rows, two versions and four costs are the smallest
with a row that is newer and wrong in each column. The parts end, so deadlock is
not checked.

In its walk-forward part series of up to eight candles split into at most three
windows have blocks of one to four candles. With days of three candles a block ends
inside a session, on its last candle and with the series, and trades lie across each
cut. In one kind of candle a pending entry fills and stays and a trigger is asked for; in
the other whatever is open is left and a limit enters at once. `SampleKept` tells the
engine apart from one that takes the end of its slice for the end of a session, the
bug the comment of `is_last_bar_of_session` warns of.

`bar_loop` does not check deadlock: the loop ends itself when the breaker trips
and at the end of the bars. The other runs check it, and between the passing
runs every action is taken.

### Faults

`Faults` names the calls that may fail in a run. A failing send, cancel or close
may still have reached the broker (that is what a timeout leaves open): the
model takes both. They are split over the runs because each pair of kinds
multiplies the states; every property is checked under the faults that could
break it.

### Fairness

LiveOrders: weak fairness of `Boot`, of `Tick` (the next step of the loop,
whichever it is) and of `Poll`, for each process. Docker restarts a container that stops (`restart:` in
`deploy/home/docker-compose.yml`), the loop is one task that runs whenever its
await returns, every await of a broker call has a timeout, and the poll sleeps
15 s and repeats. BarLoop: weak fairness of the tick, for the same reasons.
`desk`: weak fairness of the send into the channel and of the drain, for the same
reasons, and of a fetch whose stream comes to its end. The last is an
assumption about the gateway: the poll asks every 15 s for ever, and not every
answer breaks off.
Nothing forces the market to trade, a call to succeed or the feed to advance;
`BarsConsumed` and `DataBreakerTrips` state what the loop owes in each case.

### What the violations show

Each of these checks one statement of the repository that the code does not
keep. The counterexamples are short and need no unlikely event.

* `misattributed`: a fill is saved under whichever order is tracked when it is
  drained (`paper.rs:1851`), so the exit of a bracket that opened and closed
  between two polls is counted for the next one.
* `crosses_bell`: an entry that fills in the flatten window before its fill is
  drained is taken for a foreign position; the day is marked as flattened.
* `restart_loses_trade`: a stop between saving the closing fill and saving the
  trade loses the trade (`paper.rs:2085`).
* `twins_stack`: the two processes of a symbol both see no exposure and both
  enter; `docs/SECURITY.md:92` says this never happens.
* `breaker_blind`: each good fetch resets the counter the reconciliation feeds,
  so a broker that never answers does not end the loop.
* `replay_day`: the replay never resets its risk state, so entries and losses
  of one day count against all later ones; the backtest and the live loop reset it.

### What holds only within its assumptions

`AlwaysProtected` is checked, and proved, with `Qty = 1`. A bracket of two lots that expires
or is flattened while partly filled, and whose fill is not drained, is left
without its legs and without a tracker: that is the hazard of partial fills
listed in `PROJECT.json`. It and `PositionNotStacked` are about what entries
bought: when a leg and a close of the same position both trade, the account is
short, and a close of that short that is sent twice leaves it long without an
entry and without legs. `BoughtBack` counts the lots closes bought, and both
properties leave them out. Before it was there the proof of `PositionNotStacked`
failed at exactly that step; it is the hazard of the timed-out close in
`PROJECT.json`. `CountedOnce` is about trades whose fills were saved under one
order and, per order, in the order of their execution (`OneOrder`, `Punctual`);
what happens to the others is below. `FillsConserved` needs a database that
answers and no restart: `restart_loses_trade` shows why. `RiskCoversDb` and `RecordedOrdersWithinLimit` need a database that
answers and one process: with two processes on a symbol each rebuilds the trades of both at
start-up but counts only its own afterwards. In BarLoop, a failing
query of the position makes the loop leave a bar and take it again, so the
properties of the clocks are checked without that fault.

### Disagreements without a run

Met while modelling; each is stated where it is, and none has a run of its own.

* `commands/flatten.rs:166` says the close just sent is preserved when the
  orders of the exit side are cancelled. After a send whose answer was lost,
  `tem_ordem_de_saida` finds an order on that side, `close_at_market` returns
  `None`, and every order of the side is cancelled, the close with them; an old
  protective leg alone is taken for the close. `OwnCloseKept` is about the
  acknowledged close only.
* A close that fills before the retry looks is not listed any more, so the close
  is sent again: `OneCloseWaits` says that two never wait together, not that two
  never trade.
* `paper.rs:1809` says that duplicates never count P&L twice. With two restarts
  they can. The fills of a bracket that was entered before the process tracked
  it are dropped; after a restart the poll brings them again and they are saved
  under the order tracked then, behind fills executed later. The replay of the
  next restart is in the order of execution (`fill_repository.rs:77`), cuts the
  trades elsewhere and saves one that shares executions with a trade that is in
  the table: {3, 4} and {1, 2, 3, 4} in the shortest case. `late` marks such
  orders, and `CountedOnce` is about the others.
* `latest_for` does not look at the timeframe, at a flatten of the session, at
  synthetic candles or at a change of the `[risk]` section that is no override.
* The holdout is measured on the initial capital, the windows on
  `capital_efetivo`.
* The comment of the walkforward command (`walkforward.rs:230`) and ADR-019 say
  the out-of-sample is the same deterministic round after the first block. Each
  window is a run over a prefix, and without a next candle
  `is_last_bar_of_session` says no (`engine.rs:361`). When a block ends with a session,
  the position that the whole run closes there stays open in the run of its block
  and is in-sample in the next, so it is in no sample. Nor are trades that
  straddle two blocks, nor what is left over after the last test block. The
  comment of `is_last_bar_of_session` names that price for the end of the series, which
  is the end of every block here; `Seen` is the exception in `SampleKept`.
* `max_drawdown_pct` is the percentage at the deepest fall in dollars, not the
  deepest percentage.
* The poll says "tentando no próximo ciclo" when a stream breaks
  (`broker.rs:334`); the executions of the broken stream stay in `seen` and are
  not sent again (`swallowed`).
* The divergence of `failure_test_long_v1` compares with lows of the whole
  series, so the live, which keeps 600 candles, may answer otherwise than the
  backtest (`SameDivergence` is the exception in `HistorySuffices`).

## 4. The proofs

The two modules about LiveOrders (`LiveOrdersProofs` and `LiveOrdersFills`, which
follows the executions into trades) need only `LiveOrdersAssumption` (the constants have
their types, `NoBot` is not a process, there is room for a bracket and a lot).
They hold for any number of processes, brackets, executions, bars and restarts
and for every set of faults, unless noted.

| Theorem | Argument |
|---|---|
| `TypeCorrect` | `TypeOK` is inductive; one lemma per action |
| `OneBracketSafe` | `BracketInv`: one bracket per client is not inductive alone, since `PlaceOrder` sends without looking. What carries it is `ClearToSend`: from the reconciliation that found nothing until the send, the process has no bracket working. It needs `BrokerType`, the types of the account |
| `TrackerSafe` | `TrackerInv`: the order is dropped only after the tracker has closed (`saveTrade`, `closeOrder`, `markExpired`), and set before the bracket can fill |
| `TrackedFillsSafe` | `TrackedFillsPersisted` is inductive: the row is written before the tracker is told |
| `EntriesSuspendedSafe` | `CheckedInv`: the process is not degraded from the check to the send; with `OnlyPlaceSends`, no other action puts a bracket at the broker |
| `RiskCoversDbSafe` | `RiskInv`: between the save of a trade and its count the row is in `pend`. Assumes `"db"` is not among the faults and one process |
| `OrdersWithinLimitSafe` | `LimitInv`: a signal is saved before its row, so there are never more rows than signals, and a process that is up has counted every signal but the one whose row it owes. Any number of restarts; assumes `"db"` is not among the faults and one process |
| `PositionSafe` | `PositionInv`: only the fill of an entry raises the net position (`pos - BoughtBack`). While an entry works it has bought at least that much itself, and a process about to send one is not long: that is what the look at the position and the look at the orders say together. Assumes one process; `twins_stack` is the case of two |
| `ProtectedSafe` | `ProtectedInv`: while an entry of one lot waits, the account is flat and no process is closing, so the legs a close takes away are those of a position that was sold, or whose close the broker has accepted (`cancelLegs`). Assumes one process, `Qty = 1` and no rejection by the broker |
| `FillsConservedSafe` | `ConservedInv`: a saved fill is in a trade, in a tracker or in the trade being saved; only `SaveTrade` empties the last, and the tracker is emptied into it. For any number of processes; assumes `"db"` is not among the faults and no restart |
| `CountedOnceSafe` | `RowsInv` says which rows of `fills` there can be. `CountedInv` has three parts, about orders that are not `late`. `TapeInv`: the saved fills run evenly with their replay, what closed before is as many of each side. `TrackInv`: a tracker with fills of that order alone holds what the replay of its rows leaves open. `TradesInv`: what is in a trade is not replayed, not even while the trade is being saved, so no later trade has it. Any faults and any number of restarts; assumes one process |

The invariants of the last two were run through TLC before they were proved
(the bounds of `live_restarts`, and brackets of two lots with a failing
database).

`BacktestProofs` needs `CostsAssumption`, `BrokerAssumption` and
`BacktestAssumption`: integers where integers are meant, a validity of at least
one, and a `None` that is no record. Its theorems hold for every series, set of
brackets, sizes and costs.

| Theorem | Argument |
|---|---|
| `BookSafe` | `BookInv`: the types of the broker with the book itself; one lemma per call of the broker |
| `LedgerImplemented` | the same lemmas show that each call is a step of `Ledger` or none. The arithmetic is `LegsGiveNet`: entry flow and exit flow add up to the net P&L, though the commissions of the legs differ |
| `FlatOvernightSafe` | `NightInv`: from the flatten to the next candle nothing of a stop entry is left |
| `EntryWindowSafe` | `Waited`: the count of the pending entry is the candles since the one that sent it |
| `EquitySafe` | `MarkInv`: without a position equity is cash, at every step; from the candle to the count of its trades it is marked at that candle's close |
| `TimeSafe` | `TimeInv`: the clock is the open position's and has seen every candle of it (`CandlesSeen`, which counts the candle of a stop entry's fill and not that of a limit entry), unless the position has no risk; the trades, taken or not, were closed on time. One that fired would have fired a candle earlier if it could |
| `LimitsSafe` | `LimitsInv`: the risk state is of the day of the candle (`RiskOfDay`), except between the last candle of a day and the rollover of the next, when nothing is of the new day yet (`Dated`, `DayBegins`). A candle closes one trade at most (`OneClosed`), so the fold of `Sync` counts one trade or none (`CountsOne`); a trade that wins empties `LossRun`, one that loses adds itself. Assumes `~ Replay`: `replay_day` is the case of the replay, which does not roll over |

`BarLoopProofs` needs `BarLoopAssumption` (every limit is a number, and those that
count down to something are not zero). The two theorems about clocks also
assume `"query" \notin Faults`, as the run does: after a query that failed now and
then the bar is taken again and counts twice. A broker that is gone for good is
allowed. They hold for any number of bars and entries, any lag of the feed and
every set of the other faults.

| Theorem | Argument |
|---|---|
| `EvaluatedOnceSafe` | `GuardInv`: a loop at work is at the bar after its cursor (`AtBar`) and the strategy has seen none beyond it (`SeenInOrder`) |
| `SettledSafe` | `Watched`: what is pending is the bar after the cursor as the last poll saw it, and every poll was counted; behind the guard nothing is pending |
| `EntryLivesSafe` | `Lived`: the bars the validity counted lie behind the one at hand, so the next is one more and the count never runs ahead of the bars |
| `OwnClockSafe` | `ClockInv`: a clock that runs is the tracked position's, unless a fill that closes the tracker waits to be drained (`Closing`), when no bar can be counted before it is, or the position is gone (`Standing`), when the next bar disarms the clock. `Held` says which of the three it is |

The parts of `desk` that are proved rest on little: `AccountAssumption` (finitely many
processes, at least one position), `AmountsAssumption` (amounts are numbers and an
entry costs something) for the sizes, `PlaceAssumption`, `FlattenAssumption`,
`PollAssumption` (executions have a side, a price, a quantity and a commission), and
nothing at all for GateB. `DeskProofs` is about all of them.

| Theorem | Argument |
|---|---|
| `OvershootSafe` | `CountInv`: the bound says nothing of `peak`, so the invariant adds that `peak` covers the processes that decide now. A process that passes its look found fewer than `MaxPositions` holding; every other step only moves processes from deciding to holding or out of both. Sizes play no part |
| `SizesSafe` | of the state only the type of the equity; the rest is arithmetic. What is cut to a whole number is the last multiple not above (`CutIsTheLast`), the cap is the lowest of those that are on (`CapIsTheLowest`), and the median exists because the ranks of a window are a permutation of its places (`RanksAreAll`), so a size that is approved is the last share all of them allow |
| `NotionalSafe` | `AloneInv`: while one decides at a time (`DecidesAlone`), nobody opens between its look and its fill, so the room it found is still there (`OthersLeaveRoom`) and its bracket, sized within what it announced (`BracketWithinRoom`), fits in it. The ceiling is a sum over the processes that hold, which only shrinks when others close (`NotionalShrinks`) |
| `BracketSafe`, `RejectionSafe` | `CallInv`: the chain is held until its last leg, of a chain that is held the gateway says nothing, and a refusal that was said, read or not, is of an order that is dead |
| `CloseSafe` | `FlattenInv`: no close works while one may be sent, which the query before a retry re-establishes, and the acknowledged close is no target. For any number of tries and old orders |
| `BaselineSafe` | `GateInv`: a row with an override of any kind is labelled an experiment when it is written, so the query needs no more than the label, the hash and the costs |
| `BooksSafe` | `BooksInv`: as long as no exit left more than was entered, the saved fills add up to what the trades earned and what the tracker holds (`CashKept`). A fill moves both sides alike (`FillMovesCash`), if it was not saved before: `OnTheWay` and `OnceEach` say that an execution is on its way once. A trade that left exactly what it entered earns what its tracker held, since the average of its exits divides without a rest (`TradeEarnsWorth`) |

`StrategyProofs` is about StrategyTape. `SeriesAssumption` says what a bar is: its
extremes hold its open and its close, and its range, when there is one, is a tick
at least. `ParamsAssumption` says of the parameters what the files of
`config/strategies` and `build_risk_config` say: an entry lies whole ticks beyond its bar,
and the risk manager asks for the reward the strategy asks for (it reads the same
parameter). Two parts of it are due to the model's whole prices, where the code
divides exactly: the multiple of `pullback_trend_v1` and of `low2_m2s_short_v1`, which
do not check their reward, is no less than what is asked after it is rounded down,
and the stop in money of `opening_reversal_v1` does not round to nothing.
Series, window, session and every other parameter are any.

| Theorem | Argument |
|---|---|
| `EntriesAhead`, `SignalsAccepted` | `ProperInv`: the candles are a series of bars (`AfterBar`: what comes next is one), and what the strategy asked for on it is `Proper`, which does not depend on the state before (`SignalsProper`, one lemma per strategy). `Proper` takes four facts together. The entry is beyond the bar (`EntryBeyondBar`), so beyond its close; the stop is behind the entry, for a reason of its own in each strategy (the other end of the bar, the low of the probe, the edge of the value area, which the closes that accepted it bound). A bracket that pays has a target, since a reward of zero is worth no risk (`PaidBracket`). `ProperPasses`: the first check to fail is then none of those about the shape, whatever the day, the hour, the quote and the account |

`WalkForwardProofs` is about Metrics and WalkForward. `WalkAssumption`: a trade comes
to an integer, only the end of a session gives `end_of_day` as a reason, a candle
says one of the three things a strategy may ask for, the windows are a number
and so is the capital. The series, its length, the results, the cut, the candles
of a day or a month and whether sessions are flattened are any.

| Theorem | Argument |
|---|---|
| `FiguresAre` | the figures by loop are the figures by meaning (`FiguresAgree`). Drawdown and streak: the accumulators after n trades are the deepest fall and the longest run of losses of the first n, since a trade more can only end a fall or a run at itself. The groups: whatever is counted of a group is a sum over the whole series, zero outside the group (`GroupWorth`), and a trade more adds to one group what it adds to the whole (`GroupsPartition`) |
| `SampleSafe` | `SampleInv`: after each window the sample is what one run over the series enters and leaves inside the blocks done so far, and each window counted the trades it added (`SampleSoFar`). The windows run the engine again over prefixes, and a run over a prefix is not the long run stopped there: on its last candle it does not see that a session ends. `Ledgers` are the trades of the long run candle by candle, none of which overlap (`LedgerTimes`). The run over the first n candles has those of the ledger at n but the one that the end of a session closed at n itself (`PassIs`, `EngineIs`, `Unbelled`). No trade that `SampleKept` counts is of that kind (`InsideUnbelled`), because `Seen` leaves out what is closed so on the last candle of a block. So what window w adds is what lies in block w: a trade entered there is left there or is open when the run ends, and one that straddles the end belongs to no block (`WindowSplit`) |

Both go over series of any length, and an induction over data takes an operator.
So they reason by the shortest prefix that would contradict the claim, and a
recursive function of the model is first shown to exist (`Iterated`).

`SetLemmas` has what these proofs need of finite sets: the least and the greatest of a
set of naturals, and sums (`SumOver`, the `MapThenSumSet` of the library), of which
an element can be taken off or added at any place (`TotalMinus`, `TotalPlus`), whatever
order the library adds in. The library defines the sum by a recursion and the
induction over finite sets takes an operator, which the provers cannot
instantiate. So each of these facts is shown of a smallest set that would
contradict it (`SmallestPart`), which exists because the parts of a finite set are
well founded.

Only model-checked: `HistorySuffices` and `Mirrored` hold of the bounds of `desk` and not
of all constants. The first needs a window that holds the days a strategy looks
back to, and the second is exact only where the averages divide, since a rounded
one is not the mirror of the other. `TypeOK` of BarLoop and of Backtest is defined for the
reader; what matters of the second is inside `BookInv`.
Liveness (`AllDrained`, `FlattenCompletes`, `BarsConsumed`, `DataBreakerTrips`,
`FillSettles`) is out of the reach of the prover and stays with TLC.

## 5. Not modelled

* The reasons of a live exit (`time_exit_triggered`, `flatten_triggered`): they
  are recorded, and no decision reads them.
* Half days and the session after the bell: ADR-018 records the first gap.
* `f64` statistics of the metrics (t-stat, correlation, Sharpe) and the layout
  of reports: numbers no gate compares, in a domain TLC does not have.
* The check of data quality, the ingest command and the repositories of
  candles, contexts, events and snapshots: records that no decision of the loop
  reads back.
* `set_market_price` and bare orders of the simulated broker, which only tests
  use.
* The conversion of contracts, prices and time zones in the IBKR adapter.
* Logging, start-up, the web panel and the research harness, which change
  nothing the loop reads.

What would extend it further: partly filled entries as a run of their own, the
rules the live loop and the backtest share (ADR-009, ADR-015, ADR-018) as one
abstract specification both implement, and the composition of AccountLimits with the two
processes of a symbol.
