----------------------------- MODULE LowTwoShort -----------------------------
(***************************************************************************)
(* low2_m2s_short_v1: the end of a correction in a downtrend               *)
(* (crates/trader-core/src/strategies).  Short only; its documents call it *)
(* the mirror of pullback_trend_v1, and its code is a text of its own.     *)
(***************************************************************************)
EXTENDS Candles

Defaults == [
    min_candles_of_trend |-> 10, ema_period |-> 20, sma_period |-> 200, atr_period |-> 14,
    max_pullback_candles |-> 5, min_signal_body_ratio |-> 1500, entry_offset_ticks |-> 1,
    stop_offset_ticks |-> 1, target_r_multiple |-> 2000, entry_order_type |-> "stop",
    max_atr_pct |-> 1500, min_risk_reward |-> 2000, tick_size |-> 100]

\* check_context, and the bars that closed below the average of their time.
InTrend(candles, p) ==
    LET context == ContextOf(candles, p)
    IN  context.trend = "down" /\ context.volatility # "high" /\ context.regular
ClosesBelowEma(candles, p) ==
    /\ Len(candles) >= p.min_candles_of_trend
    /\ \A i \in LastBars(candles, p.min_candles_of_trend) :
          LET ema == Ema(SubSeq(candles, 1, i), p.ema_period)
          IN  ema # Off /\ candles[i].close < ema

IsBearishSignalBar(c, p) ==
    /\ c.close < c.open
    /\ 1000 * (c.high - c.close) >= p.min_signal_body_ratio * BodyOf(c)
    /\ 3 * (c.close - c.low) <= RangeOf(c)

\* find_pullback_start: the lows went up from there to the bar of the signal.
PullbackStart(candles, signal) ==
    Min({i \in 1 .. (signal - 1) : \A k \in i .. (signal - 2) : candles[k].low <= candles[k + 1].low})
IsLowestLow(candles, signal) ==      \* mutant: as in the sister
    \A i \in PullbackStart(candles, signal) .. signal : candles[i].low >= candles[signal].low
IsHighestHigh(candles, signal) ==
    \A i \in PullbackStart(candles, signal) .. signal : candles[i].high <= candles[signal].high

\* detect_setup: the newest bar that qualifies.
SignalBars(candles, p) ==
    LET n == Len(candles)
        bars == {i \in Larger(n - p.max_pullback_candles - 2, 1) + 1 .. n :
                    IsBearishSignalBar(candles[i], p) /\ ~ IsHighestHigh(candles, i)}
    IN  {i \in bars : \A k \in bars : k <= i}

PullbackSignal(candles, i, p) ==
    LET entry == candles[i].low - p.entry_offset_ticks * p.tick_size
        stop  == candles[i].high + p.stop_offset_ticks * p.tick_size
    IN  [direction |-> "short", entry |-> entry, stop |-> stop,
         target |-> entry - Part(p.target_r_multiple, stop - entry), order_type |-> p.entry_order_type]

Analyze(candles, p) ==
    IF /\ Len(candles) >= 3
       /\ InTrend(candles, p)
       /\ ClosesBelowEma(candles, p)
    THEN {signal \in {PullbackSignal(candles, i, p) : i \in SignalBars(candles, p)} :
             LastOf(candles).close > signal.entry}
    ELSE {}
=============================================================================
