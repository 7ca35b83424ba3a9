---------------------------- MODULE PullbackTrend ----------------------------
(***************************************************************************)
(* pullback_trend_v1: the end of a pullback in an uptrend                  *)
(* (crates/trader-core/src/strategies).  Long only.                        *)
(***************************************************************************)
EXTENDS Candles

Defaults == [
    min_candles_of_trend |-> 10, ema_period |-> 20, sma_period |-> 200, atr_period |-> 14,
    max_pullback_candles |-> 5, min_signal_body_ratio |-> 1500, entry_offset_ticks |-> 1,
    stop_offset_ticks |-> 1, target_r_multiple |-> 2000, entry_order_type |-> "stop",
    max_atr_pct |-> 1500, min_risk_reward |-> 2000, tick_size |-> 100]

\* check_context, and the bars that closed above the average of their time.
InTrend(candles, p) ==
    LET context == ContextOf(candles, p)
    IN  context.trend = "up" /\ context.volatility # "high" /\ context.regular
ClosesAboveEma(candles, p) ==
    /\ Len(candles) >= p.min_candles_of_trend
    /\ \A i \in LastBars(candles, p.min_candles_of_trend) :
          LET ema == Ema(SubSeq(candles, 1, i), p.ema_period)
          IN  ema # Off /\ candles[i].close > ema

IsBullishSignalBar(c, p) ==
    /\ c.close > c.open
    /\ 1000 * (c.close - c.low) >= p.min_signal_body_ratio * BodyOf(c)
    /\ 3 * (c.close - c.low) >= 2 * RangeOf(c)

\* find_pullback_start: the highs went down from there to the bar of the signal.
PullbackStart(candles, signal) ==
    Min({i \in 1 .. (signal - 1) : \A k \in i .. (signal - 2) : candles[k].high >= candles[k + 1].high})
IsLowestLow(candles, signal) ==
    \A i \in PullbackStart(candles, signal) .. signal : candles[i].low >= candles[signal].low

\* detect_setup: the newest bar that qualifies.
SignalBars(candles, p) ==
    LET n == Len(candles)
        bars == {i \in Larger(n - p.max_pullback_candles - 2, 1) + 1 .. n :
                    IsBullishSignalBar(candles[i], p) /\ ~ IsLowestLow(candles, i)}
    IN  {i \in bars : \A k \in bars : k <= i}

\* What the risk must earn is left to the risk manager.
PullbackSignal(candles, i, p) ==
    LET entry == candles[i].high + p.entry_offset_ticks * p.tick_size
        stop  == candles[i].low - p.stop_offset_ticks * p.tick_size
    IN  [direction |-> "long", entry |-> entry, stop |-> stop,
         target |-> entry + Part(p.target_r_multiple, entry - stop), order_type |-> p.entry_order_type]

Unguarded(candles, p) ==    \* mutant: without the guard against latency
    IF Len(candles) >= 3 /\ InTrend(candles, p) /\ ClosesAboveEma(candles, p)
    THEN {PullbackSignal(candles, i, p) : i \in SignalBars(candles, p)} ELSE {}
\* The bar of the signal may be old: an entry the last close has passed is none.
Analyze(candles, p) ==
    IF /\ Len(candles) >= 3
       /\ InTrend(candles, p)
       /\ ClosesAboveEma(candles, p)
    THEN {signal \in {PullbackSignal(candles, i, p) : i \in SignalBars(candles, p)} :
             LastOf(candles).close < signal.entry}
    ELSE {}
=============================================================================
