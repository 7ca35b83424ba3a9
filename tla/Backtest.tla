------------------------------ MODULE Backtest ------------------------------
(***************************************************************************)
(* The two loops that drive the simulated broker candle by candle:         *)
(* BacktestEngine::run (crates/trader-backtest/src/engine.rs) and, with    *)
(* Replay, the replay of `trader paper` (process_candle in                 *)
(* crates/trader-cli/src/commands/paper.rs).  One action per call the loop *)
(* makes on a candle; the strategy is any bracket of Setups, or none.      *)
(*                                                                         *)
(* Left out: the context analysis and the filters of the risk manager that *)
(* look at nothing but the signal's context, the account limits (C2).      *)
(***************************************************************************)
EXTENDS SimulatedBroker, FiniteSets, SequencesExt

CONSTANTS
    SessionEnds,   \* the bars after which the date in New York changes
    Flattens,      \* session_flatten_et is set
    Replay,        \* the loop of the replay
    Timed,         \* the strategy closes positions by time
    Window,        \* TimeExitConfig.candles
    MinR,          \* TimeExitConfig.min_r, in hundredths
    MaxTrades,     \* max_trades_per_day
    MaxLosses,     \* max_consecutive_losses
    MaxLossPct,    \* max_daily_loss_pct
    MinReward      \* min_risk_reward

ASSUME BacktestAssumption ==
    /\ SessionEnds \subseteq Bars
    /\ {Flattens, Replay, Timed} \subseteq BOOLEAN
    /\ Window \in Nat \ {0} /\ MinR \in Nat
    /\ {MaxTrades, MaxLosses, MaxLossPct, MinReward} \subseteq Nat

VARIABLES
    pc,
    bar, candle,      \* idx of the loop and the candle there
    risk,             \* RiskState
    timeExit,         \* the TimeExitTracker
    trades            \* the closed trades the engine took

engineVars == <<pc, bar, candle, risk, timeExit, trades>>
vars == <<brokerVars, engineVars>>

NoRisk == [daily_pnl |-> 0, daily_trades |-> 0, consecutive_losses |-> 0]
NotTracking == [tracking |-> FALSE, entry |-> 0, risk |-> 0, direction |-> "long",
                candles |-> 0, validated |-> FALSE]

Init ==
    /\ BrokerInit
    /\ pc = "candle" /\ bar \in Bars /\ \A i \in Bars : bar <= i
    /\ candle \in Candles
    /\ risk = NoRisk /\ timeExit = NotTracking /\ trades = <<>>

Go(step) == pc' = step

\* current_day changes with the first bar of a day.
NewDay == bar - 1 \in SessionEnds
\* The end of the series is not the end of a session.
LastOfSession == Flattens /\ bar \in SessionEnds /\ bar + 1 \in Bars

-----------------------------------------------------------------------------
LossesRemain ==     \* mutant: the losses in a row outlive the day
    IF NewDay THEN [NoRisk EXCEPT !.consecutive_losses = risk.consecutive_losses] ELSE risk
Rollover == IF NewDay /\ ~ Replay THEN NoRisk ELSE risk

Market ==
    /\ pc = "candle"
    /\ risk' = Rollover
    /\ SetMarketCandle(candle, bar)
    /\ Go("time")
    /\ UNCHANGED <<bar, candle, timeExit, trades>>

\* evaluate_time_exit: ensure_tracking, then on_candle_close.
Armed ==
    IF timeExit.tracking \/ position.entry = position.setup.stop THEN timeExit
    ELSE [tracking |-> TRUE, entry |-> position.entry,
          risk |-> AbsOf(position.entry - position.setup.stop),
          direction |-> position.setup.direction, candles |-> 0, validated |-> FALSE]

Floating(t) ==
    IF t.direction = "long" THEN candle.close - t.entry ELSE t.entry - candle.close
Counted(t) ==
    [t EXCEPT !.candles = @ + 1, !.validated = @ \/ Floating(t) * 100 >= MinR * t.risk]
Fires(t) == t.tracking /\ ~ t.validated /\ t.candles >= Window

AfterClose == IF Armed.tracking THEN Counted(Armed) ELSE Armed

TimeDisarmed ==
    /\ pc = "time"
    /\ ~ Timed \/ position = None
    /\ timeExit' = NotTracking
    /\ Go("flatten")
    /\ UNCHANGED <<brokerVars, bar, candle, risk, trades>>

TimeCounted ==
    /\ pc = "time"
    /\ Timed /\ position # None
    /\ ~ Fires(AfterClose)
    /\ timeExit' = AfterClose
    /\ Go("flatten")
    /\ UNCHANGED <<brokerVars, bar, candle, risk, trades>>

TimeCloses ==
    /\ pc = "time"
    /\ Timed /\ position # None
    /\ Fires(AfterClose)
    /\ ClosePositionAtMarket(candle.close, "time", bar)
    /\ timeExit' = NotTracking
    /\ Go("flatten")
    /\ UNCHANGED <<bar, candle, risk, trades>>

\* flatten_session on the last bar of the session: the pending entry is
\* cancelled and the position closed; there is only one of the two.
FlattenSkipped ==
    /\ pc = "flatten"
    /\ Replay \/ ~ LastOfSession \/ (pending = None /\ position = None)
    /\ Go("sync")
    /\ UNCHANGED <<brokerVars, bar, candle, risk, timeExit, trades>>

FlattenEntry ==
    /\ pc = "flatten"
    /\ ~ Replay /\ LastOfSession /\ pending # None
    /\ CancelOrder(pending.order, bar)
    /\ Go(IF position = None THEN "sync" ELSE "flatten")
    /\ UNCHANGED <<bar, candle, risk, timeExit, trades>>

ClockNotReset ==     \* mutant: the tracker goes on with the position that was closed
    /\ pc = "flatten"
    /\ ~ Replay /\ LastOfSession /\ pending = None
    /\ ClosePositionAtMarket(candle.close, "end_of_day", bar)
    /\ Go("sync")
    /\ UNCHANGED <<bar, candle, risk, timeExit, trades>>
FlattenPosition ==
    /\ pc = "flatten"
    /\ ~ Replay /\ LastOfSession /\ pending = None
    /\ ClosePositionAtMarket(candle.close, "end_of_day", bar)
    /\ timeExit' = NotTracking
    /\ Go("sync")
    /\ UNCHANGED <<bar, candle, risk, trades>>

\* sync_closed_trades and update_state; daily_trades is not touched here.
Count(r, t) ==
    [r EXCEPT !.daily_pnl = @ + t.net,
              !.consecutive_losses = IF t.net < 0 THEN @ + 1 ELSE 0]

Sync ==
    /\ pc = "sync"
    /\ risk' = FoldLeft(Count, risk, closed)
    /\ trades' = trades \o closed
    /\ ClearClosedTrades
    /\ Go(IF position = None THEN "signal" ELSE "next")
    /\ UNCHANGED <<bar, candle, timeExit>>

-----------------------------------------------------------------------------
(* The signal of the bar *)

RightSides(s) ==
    IF s.direction = "long" THEN s.stop < s.entry /\ s.entry < s.target
                            ELSE s.target < s.entry /\ s.entry < s.stop
Rewarding(s) == AbsOf(s.target - s.entry) >= MinReward * RiskOf(s)

\* RiskManager::validate, the limits of the day and the geometry.
WithinLimits ==
    /\ risk.daily_pnl * 100 > 0 - equity * MaxLossPct
    /\ risk.daily_trades < MaxTrades
    /\ risk.consecutive_losses < MaxLosses
Validates(s) == WithinLimits /\ RightSides(s) /\ Rewarding(s)

\* process_signal: the guard of ADR-015 is for stop entries.
Accepts(s) == Validates(s) /\ ~ (s.kind = "stop" /\ TooFar(s, candle.close))

Enter ==
    /\ pc = "signal"
    /\ \E s \in Setups, q \in Quantities : Accepts(s) /\ PlaceOrder(s, q, bar)
    /\ risk' = [risk EXCEPT !.daily_trades = @ + 1]
    /\ Go("cancel")
    /\ UNCHANGED <<bar, candle, timeExit, trades>>

\* No setup, a refusal, or the broker refuses a second bracket.
NoEntry ==
    /\ pc = "signal"
    /\ Go("cancel")
    /\ UNCHANGED <<brokerVars, bar, candle, risk, timeExit, trades>>

\* The entry that the last bar of the session just placed does not stay.
CancelNothing ==     \* mutant: the entry of the last bar is left to wait
    /\ pc = "cancel"
    /\ Go("next")
    /\ UNCHANGED <<brokerVars, bar, candle, risk, timeExit, trades>>
CancelLast ==
    /\ pc = "cancel"
    /\ IF ~ Replay /\ LastOfSession /\ pending # None
       THEN CancelOrder(pending.order, bar)
       ELSE UNCHANGED brokerVars
    /\ Go("next")
    /\ UNCHANGED <<bar, candle, risk, timeExit, trades>>

NextCandle ==
    /\ pc = "next"
    /\ bar + 1 \in Bars
    /\ bar' = bar + 1
    /\ candle' \in Candles
    /\ Go("candle")
    /\ UNCHANGED <<brokerVars, risk, timeExit, trades>>

-----------------------------------------------------------------------------
TimeExit == TimeDisarmed \/ TimeCounted \/ TimeCloses
FlattenSession == FlattenSkipped \/ FlattenEntry \/ FlattenPosition
Signal == Enter \/ NoEntry

Next == Market \/ TimeExit \/ FlattenSession \/ Sync \/ Signal \/ CancelLast \/ NextCandle

Spec == Init /\ [][Next]_vars

-----------------------------------------------------------------------------
(* Properties *)

DayOf(b) == Cardinality({e \in SessionEnds : e < b})
Today(S) == {n \in 1 .. Len(S) : DayOf(S[n].until) = DayOf(bar)}

\* The prices an execution may have.
Levels ==
    {c.open : c \in Candles} \cup {c.close : c \in Candles}
      \cup {s.entry : s \in Setups} \cup {s.stop : s \in Setups} \cup {s.target : s \in Setups}
FillPrices ==
    {p + Slippage : p \in Levels} \cup {p - Slippage : p \in Levels}
      \cup {p + Haircut : p \in Levels} \cup {p - Haircut : p \in Levels}

BracketType == [setup : Setups, quantity : Quantities, order : Nat, waiting : 0 .. Validity - 1]
PositionType ==
    [setup : Setups, quantity : Quantities, order : Nat, entry : FillPrices, since : Bars]
OrderType == [status : Statuses, kind : Kinds, sent : Bars, ended : Bars \cup {0}]
TradeType ==
    [order : Nat, kind : Kinds, reason : {"stop", "target", "time", "end_of_day"},
     from : Bars, until : Bars, net : Int]

BrokerTypeOK ==
    /\ orders \in Seq(OrderType)
    /\ pending \in BracketType \cup {None} /\ position \in PositionType \cup {None}
    /\ cash \in Int /\ equity \in Int

TypeOK ==
    /\ BrokerTypeOK
    /\ closed \in Seq(TradeType) /\ trades \in Seq(TradeType)
    /\ pc \in {"candle", "time", "flatten", "sync", "signal", "cancel", "next"}
    /\ bar \in Bars /\ candle \in Candles
    /\ risk \in [daily_pnl : Int, daily_trades : Nat, consecutive_losses : Nat]
    /\ timeExit \in [tracking : BOOLEAN, entry : FillPrices \cup {0}, risk : Nat,
                     direction : Directions, candles : Nat, validated : BOOLEAN]

\* The book of orders and the one pending entry tell the same story: the order
\* of the entry that waits, and no other, is open, and there is no position
\* beside it.  "Rejeita nova posicao no mesmo ativo se ja existir posicao
\* aberta" rests on it.
BookMatchesPending ==
    /\ \A o \in 1 .. Len(orders) :
          orders[o].status = "accepted" <=> pending # None /\ pending.order = o
    /\ pending # None => position = None /\ pending.order \in 1 .. Len(orders)

\* "Registra equity no fechamento de cada candle": the curve the metrics are
\* computed from is cash plus the position at the close of the candle, minus it
\* for a short.
EquityIsMarked ==
    pc = "sync" =>
      equity = IF position = None THEN cash
               ELSE LET worth == candle.close * position.quantity
                    IN  IF position.setup.direction = "long" THEN cash + worth ELSE cash - worth

\* "Sem isto o backtest carrega posicao pela noite": no stop entry, pending or
\* filled, is alive when the next session begins.
FlatOvernight ==
    pc = "candle" /\ NewDay /\ Flattens /\ ~ Replay =>
      pending = None /\ (position # None => position.setup.kind = "limit")

\* A stop entry fills in one of the candles after the one that sent it, as many
\* as its validity, and never in another.
EntryFillsInItsWindow ==
    \A o \in 1 .. Len(orders) :
      orders[o].kind = "stop" /\ orders[o].status \in {"filled", "expired"} =>
        orders[o].sent < orders[o].ended /\ orders[o].ended <= orders[o].sent + Validity

\* The exit by time closes the position it counted, after its window of candles
\* and not one more: one that a limit entry opened at the close is counted from
\* the next candle on.
TimedOutOnTime ==
    \A n \in 1 .. Len(trades) :
      trades[n].reason = "time" =>
        trades[n].until - trades[n].from = IF trades[n].kind = "limit" THEN Window ELSE Window - 1

\* "limites (perda diaria, trades/dia, perdas consecutivas) valem por dia": a
\* signal is judged by the entries and the trades of the day, all of them and
\* none of another day.
LossRun ==
    {n \in Today(trades) : \A m \in Today(trades) : m >= n => trades[m].net < 0}
LimitsAreOfTheDay ==
    pc = "signal" =>
      /\ closed = <<>>
      /\ risk.daily_pnl = MapThenSumSet(LAMBDA n : trades[n].net, Today(trades))
      /\ risk.consecutive_losses = Cardinality(LossRun)
      /\ risk.daily_trades =
           Cardinality({o \in 1 .. Len(orders) : DayOf(orders[o].sent) = DayOf(bar)})

\* The cash account implements the ledger: with the open leg taken back, cash is
\* what the trades say they earned.
Balance ==
    IF position = None THEN cash
    ELSE cash - EntryFlow(position.setup.direction, position.entry, position.quantity)
OpenTrade ==
    IF position = None THEN None
    ELSE [direction |-> position.setup.direction, quantity |-> position.quantity,
          entry |-> position.entry]
Account == INSTANCE Ledger WITH
    Prices <- FillPrices, NoTrade <- None, balance <- Balance, trade <- OpenTrade
LedgerKept == Account!Spec
=============================================================================
