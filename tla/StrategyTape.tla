---------------------------- MODULE StrategyTape ----------------------------
(***************************************************************************)
(* One strategy on a series that grows by one closed bar at a time, as the *)
(* live and the backtest both feed it (dispatch.rs, paper.rs): every bar,  *)
(* it is asked for a signal with the candles there are.                    *)
(*                                                                         *)
(* The series starts with a history that brings the strategy near a setup; *)
(* what the next bars look like is open.  A bar opens where the last one   *)
(* closed.                                                                 *)
(***************************************************************************)
EXTENDS Candles, RiskManager

CONSTANTS
    Strategies,    \* the ids load_strategy knows
    Params,        \* the configuration of each
    History,       \* the candles each starts with
    Slots,         \* the minutes of the session at which bars start
    Shapes,        \* what a bar may look like: close and wicks, from its open
    MoreBars,      \* bound on the bars after the history
    LiveMax,       \* LIVE_MAX_CANDLES
    RiskOf         \* the RiskConfig of each strategy

\* A bar of the market data (bars.rs): its extremes hold its open and its close,
\* and one that moves at all moves by a tick of the exchange at least.
Bar == [day : Int, time : Int, open : Int, high : Int, low : Int, close : Int, volume : Int]
Ordered(c) == c.low <= Smaller(c.open, c.close) /\ Larger(c.open, c.close) <= c.high
Moves(c, tick) == RangeOf(c) = 0 \/ RangeOf(c) >= tick

\* The series and what comes next are bars of the market.
ASSUME SeriesAssumption ==
    /\ Off \notin Int
    /\ Slots \in SUBSET Int /\ IsFiniteSet(Slots) /\ Slots # {}
    /\ Shapes \subseteq [close : Int, up : Nat, down : Nat, volume : Int]
    /\ \A s \in Strategies :
         /\ History[s] \in Seq(Bar) /\ History[s] # <<>>
         /\ \A i \in DOMAIN History[s] :
              Ordered(History[s][i]) /\ Moves(History[s][i], Params[s].tick_size)
         /\ \A shape \in Shapes :
              LET range == Abs(shape.close) + shape.up + shape.down
              IN  range = 0 \/ range >= Params[s].tick_size

\* The configurations of config/strategies.  An entry is a tick beyond its bar and
\* the risk manager asks of a setup what the strategy asks (risk_config.rs, which
\* builds its limit from the same parameter).  The two strategies that leave that
\* question to the risk manager aim as far as it asks, in whole risks, and the
\* stop in money of opening_reversal_v1 is no less than the unit of the prices.
Known == {"opening-reversal-v1", "balance-area-breakout-v1", "value-area-reentry-v1",
          "breakout-first-pullback-v1", "range-extreme-fade-v1", "trendline-break-test-v1",
          "failure-test-long-v1", "pullback-trend-v1", "low2-m2s-short-v1"}
Unasked == {"pullback-trend-v1", "low2-m2s-short-v1"}
ASSUME ParamsAssumption ==
    \A s \in Strategies :
        LET p == Params[s]
            asked == RiskOf[s].min_risk_reward
        IN  /\ s \in Known
            /\ {p.entry_offset_ticks, p.tick_size, p.min_risk_reward, asked} \subseteq Nat \ {0}
            /\ 10 * asked <= p.min_risk_reward
            /\ p.atr_period \in Nat
            /\ s # "value-area-reentry-v1" => p.target_r_multiple \in Nat
            /\ s \in Unasked => /\ {p.stop_offset_ticks, p.max_pullback_candles} \subseteq Nat
                               /\ asked <= 100 * (p.target_r_multiple \div 1000)
            /\ s = "opening-reversal-v1" =>
                 p.monetary_stop_range_pct \in Nat /\ p.monetary_stop_range_pct * p.tick_size >= 1000
            /\ s = "balance-area-breakout-v1" =>
                 p.stop_buffer_atr_mult \in Nat /\ p.balance_lookback_candles \in Nat \ {0}
            /\ s = "value-area-reentry-v1" =>
                 {p.stop_buffer_atr, p.va_buckets, p.acceptance_bars} \subseteq Nat
            /\ s = "breakout-first-pullback-v1" =>
                 /\ {p.level_lookback_candles, p.pivot_lookback_candles} \subseteq Nat \ {0}
                 /\ {p.pullback_min_candles, p.pullback_max_candles} \subseteq Nat
            /\ s = "failure-test-long-v1" => p.stop_jitter_atr_mult \in Nat

Opening  == INSTANCE OpeningReversal
Balance  == INSTANCE BalanceAreaBreakout
Value    == INSTANCE ValueAreaReentry
Breakout == INSTANCE BreakoutFirstPullback
Fade     == INSTANCE RangeExtremeFade
Line     == INSTANCE TrendlineBreakTest
Failure  == INSTANCE FailureTestLong
Pullback == INSTANCE PullbackTrend
LowTwo   == INSTANCE LowTwoShort

\* load_strategy and LoadedStrategy::analyze: the dispatch by id.
SignalFor(s, candles) ==
    CASE s = "opening-reversal-v1"        -> Opening!Analyze(candles, Params[s])
      [] s = "balance-area-breakout-v1"   -> Balance!Analyze(candles, Params[s])
      [] s = "value-area-reentry-v1"      -> Value!Analyze(candles, Params[s])
      [] s = "breakout-first-pullback-v1" -> Breakout!Analyze(candles, Params[s])
      [] s = "range-extreme-fade-v1"      -> Fade!Analyze(candles, Params[s])
      [] s = "trendline-break-test-v1"    -> Line!Analyze(candles, Params[s])
      [] s = "failure-test-long-v1"       -> Failure!Analyze(candles, Params[s])
      [] s = "pullback-trend-v1"          -> Pullback!Analyze(candles, Params[s])
      [] s = "low2-m2s-short-v1"          -> LowTwo!Analyze(candles, Params[s])

VARIABLES
    strategy,    \* the one of this process
    candles,     \* the whole series
    signal       \* what it answered on the last bar

tapeVars == <<strategy, candles, signal>>

TapeInit ==
    /\ strategy \in Strategies
    /\ candles = History[strategy]
    /\ signal = {}

\* The live keeps the last LiveMax candles of what it is served (paper.rs).
Third(cs) ==      \* mutant: the 200 candles of before
    SubSeq(cs, Larger(Len(cs) - LiveMax \div 3, 0) + 1, Len(cs))
Served(cs) == SubSeq(cs, Larger(Len(cs) - LiveMax, 0) + 1, Len(cs))

\* The bar after c: in the next slot, of the next session after the last one.
After(c, shape) ==
    LET left  == {t \in Slots : t > c.time}
        close == c.close + shape.close
    IN  [day    |-> IF left = {} THEN c.day + 1 ELSE c.day,
         time   |-> IF left = {} THEN Min(Slots) ELSE Min(left),
         open   |-> c.close,
         high   |-> Larger(c.close, close) + shape.up,
         low    |-> Smaller(c.close, close) - shape.down,
         close  |-> close,
         volume |-> shape.volume]

\* process_candle of the replay and of the backtest, with candles[..=idx].
BarCloses ==
    /\ Len(candles) < Len(History[strategy]) + MoreBars
    /\ \E shape \in Shapes : candles' = Append(candles, After(LastOf(candles), shape))
    /\ signal' = SignalFor(strategy, candles')
    /\ UNCHANGED strategy

TapeSpec == TapeInit /\ [][BarCloses]_tapeVars

-----------------------------------------------------------------------------
\* A bot that is served the last LiveMax candles answers what the backtest
\* answers with all of them: the window covers the warm-up of every strategy
\* (paper.rs:737).  The one exception is the divergence of failure_test_long_v1,
\* which compares with the lows of the whole series, however old.
SameDivergence ==
    strategy = "failure-test-long-v1" =>
        (Failure!MacdDivergence(candles, Params[strategy])
            <=> Failure!MacdDivergence(Served(candles), Params[strategy]))
HistorySuffices ==
    Len(candles) > Len(History[strategy]) /\ SameDivergence =>
        signal = SignalFor(strategy, Served(candles))

\* A stop entry is beyond the last close, so that the market has to come to it
\* and an order that is sent a bar late is none (the guard against latency of
\* pullback_trend_v1, and what the others hold by the place of their entry).
EntryAhead ==
    \A s \in signal : s.order_type = "stop" => Beyond(s.direction, s.entry, LastOf(candles).close)

\* No strategy asks for a bracket that the risk manager refuses for its shape,
\* which would count as a missing stop and stop the day (paper.rs:676).
SignalsPassRisk ==
    \A s \in signal :
        LET state   == [daily_pnl |-> 0, daily_trades |-> 0, consecutive_losses |-> 0]
            context == [time |-> LastOf(candles).time, is_tradeable |-> TRUE,
                        volatility |-> "normal", atr_14 |-> Off]
        IN  Refusal(Checks(RiskOf[strategy], s, context, Off, state, 100))
              \notin {"StopMissing", "PoorRiskReward"}

\* low2_m2s_short_v1 gives on a series the bracket that pullback_trend_v1 gives
\* on the series turned over, turned over (its setup.rs:1: "espelho do High 2").
Turned(axis, cs) ==
    [i \in DOMAIN cs |-> [cs[i] EXCEPT !.open = axis - @, !.close = axis - @,
                                       !.high = axis - cs[i].low, !.low = axis - cs[i].high]]
Mirrored ==
    strategy = "low2-m2s-short-v1" /\ Len(candles) > Len(History[strategy]) =>
        LET axis == 2 * candles[1].open
            twin == Pullback!Analyze(Turned(axis, candles), Params[strategy])
        IN  signal = {[direction |-> "short", entry |-> axis - t.entry, stop |-> axis - t.stop,
                       target |-> axis - t.target, order_type |-> t.order_type] : t \in twin}
=============================================================================
