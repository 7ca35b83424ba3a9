------------------------ MODULE BreakoutFirstPullback ------------------------
(***************************************************************************)
(* breakout_first_pullback_v1: the pullback after a close beyond a         *)
(* resistance that was tested (crates/trader-core/src/strategies).  Long   *)
(* only.  avg_period is no longer than level_lookback_candles, so that the *)
(* means of a breakout exist.                                              *)
(***************************************************************************)
EXTENDS Candles

Defaults == [
    level_lookback_candles |-> 80, level_min_touches |-> 2, level_touch_tolerance_pct |-> 1,
    atr_period |-> 14, breakout_close_atr_mult |-> 250, breakout_range_mult |-> 1200,
    breakout_volume_mult |-> 1100, avg_period |-> 20, pullback_min_candles |-> 2,
    pullback_max_candles |-> 6, max_retrace_pct |-> 618, pivot_lookback_candles |-> 20,
    entry_order_type |-> "stop", entry_offset_ticks |-> 1, min_stop_bar_ranges |-> 1000,
    max_stop_atr_mult |-> 4000, target_r_multiple |-> 2000, min_risk_reward |-> 1500,
    max_atr_pct |-> 1500, tick_size |-> 100, start |-> 585, end |-> 930,
    ema_period |-> 20, sma_period |-> 200]

\* detect_breakout: bar b closes beyond the highest high of its lookback, which
\* was touched often enough and which no close before the lookback had passed,
\* and it is wider and busier than the bars before.
Level(candles, b, p) == Max(Highs(candles, (b - p.level_lookback_candles) .. (b - 1)))
FirstAttempt(candles, b, p) ==
    \A i \in Larger(1, b - 2 * p.level_lookback_candles) .. (b - p.level_lookback_candles - 1) :
        candles[i].close <= Level(candles, b, p)
Expands(candles, b, p) ==
    LET bars   == (b - p.avg_period) .. (b - 1)
        ranges == MapThenSumSet(LAMBDA i : RangeOf(candles[i]), bars)
        volume == MapThenSumSet(LAMBDA i : candles[i].volume, bars)
    IN  /\ ranges # 0 /\ 1000 * p.avg_period * RangeOf(candles[b]) >= p.breakout_range_mult * ranges
        /\ volume # 0 /\ 1000 * p.avg_period * candles[b].volume >= p.breakout_volume_mult * volume
IsBreakout(candles, b, p) ==
    /\ b > p.level_lookback_candles
    /\ LET level == Level(candles, b, p)
       IN  /\ candles[b].close > level + Part(p.breakout_close_atr_mult, Atr(candles, p.atr_period))
           /\ FirstAttempt(candles, b, p)
           /\ Cardinality({i \in (b - p.level_lookback_candles) .. (b - 1) :
                 1000 * candles[i].high >= (1000 - p.level_touch_tolerance_pct) * level})
                 >= p.level_min_touches
           /\ Expands(candles, b, p)

\* The newest breakout of the window is the one that counts, whatever becomes
\* of it.
Breakouts(candles, p) ==
    LET n == Len(candles)
        all == {b \in Larger(1, n - p.pullback_max_candles) .. (n - p.pullback_min_candles) :
                   IsBreakout(candles, b, p)}
    IN  {b \in all : \A c \in all : c <= b}

\* detect_setup: the market retraced, not too far, never closed under the pivot
\* the breakout came from, and turned up on the last bar.
Impulse(candles, b) == Max(Highs(candles, b .. Len(candles))) - candles[b].low
Pivot(candles, b, p) == Max(Lows(candles, Larger(1, b - p.pivot_lookback_candles) .. (b - 1)))
IsPullback(candles, b, p) ==
    LET n    == Len(candles)
        high == Max(Highs(candles, b .. n))
        low  == Min(Lows(candles, (b + 1) .. n))
    IN  /\ Impulse(candles, b) > 0
        /\ low < high
        /\ 1000 * (high - low) <= p.max_retrace_pct * Impulse(candles, b)
        /\ \A i \in (b + 1) .. n : candles[i].close >= Pivot(candles, b, p)
        /\ candles[n].close > candles[n - 1].close

\* evaluate_prices: the target is the move repeated, or less.
Prices(candles, b, p) ==
    LET n      == Len(candles)
        entry  == candles[n].high + p.entry_offset_ticks * p.tick_size
        stop   == Pivot(candles, b, p) - p.tick_size
        risk   == entry - stop
        target == Smaller(Max(Highs(candles, b .. n)) + Impulse(candles, b),
                          entry + Part(p.target_r_multiple, risk))
    IN  IF /\ risk > 0
           /\ n >= p.avg_period =>
                1000 * risk >= p.min_stop_bar_ranges * AverageRange(candles, LastBars(candles, p.avg_period))
           /\ 1000 * risk <= p.max_stop_atr_mult * Atr(candles, p.atr_period)
           /\ target > entry
        THEN SignalOf("long", entry, stop, target, p) ELSE {}

Analyze(candles, p) ==
    IF /\ candles # <<>>
       /\ InWindow(LastOf(candles), p)
       /\ Atr(candles, p.atr_period) # Off
    THEN UNION {Prices(candles, b, p) : b \in {c \in Breakouts(candles, p) : IsPullback(candles, c, p)}}
    ELSE {}
=============================================================================
