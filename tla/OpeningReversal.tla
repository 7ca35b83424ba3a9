--------------------------- MODULE OpeningReversal ---------------------------
(***************************************************************************)
(* opening_reversal_v1: the fade of a test of yesterday's high or low in   *)
(* the first hour (crates/trader-core/src/strategies).  Analyze returns    *)
(* the signal the strategy gives for the last candle, as a set of at most  *)
(* one; which of the refusals it answers otherwise is left out.            *)
(***************************************************************************)
EXTENDS Candles

Defaults == [
    level_zone_pct |-> 3, signal_body_min_pct |-> 300, signal_wick_min_pct |-> 334,
    momentum_body_pct |-> 600, momentum_bars |-> 2, counter_trend_bars |-> 4, counter_window |-> 6,
    atr_period |-> 14, stop_atr_mult |-> 1500, monetary_stop_range_pct |-> 600,
    entry_order_type |-> "stop", entry_offset_ticks |-> 1, target_r_multiple |-> 2000,
    min_risk_reward |-> 1500, max_atr_pct |-> 1500, tick_size |-> 100,
    start |-> 570, end |-> 630, ema_period |-> 20, sma_period |-> 200]

\* yesterday_levels: the last session before today with a candle in the series.
YesterdayLevels(candles) ==
    LET yesterday == DayBars(candles, Max(DaysBefore(candles)))
    IN  [high |-> Max(Highs(candles, yesterday)), low |-> Min(Lows(candles, yesterday))]

\* The candles before the one of the signal that a veto looks at; the veto has
\* no say in a series that is shorter.
Before(candles, bars) == (Len(candles) - bars) .. (Len(candles) - 1)

\* Both vetoes are about strong bars against the fade: all of the last ones
\* closed beyond the level, or too many in a wider window.
MomentumVeto(candles, level, d, p) ==
    /\ Len(candles) >= p.momentum_bars + 1
    /\ \A i \in Before(candles, p.momentum_bars) :
          Beyond(d, level, candles[i].close) /\ StrongBody(candles[i], p.momentum_body_pct)
CounterTrendVeto(candles, d, p) ==
    /\ Len(candles) >= p.counter_window + 1
    /\ Cardinality({i \in Before(candles, p.counter_window) :
          /\ StrongBody(candles[i], p.momentum_body_pct)
          /\ (candles[i].close > candles[i].open) = (d = "short")}) >= p.counter_trend_bars

\* detect_setup: the bar is in the zone of one level and not of both.
Tested(candles, p) ==
    LET levels == YesterdayLevels(candles)
        bar  == LastOf(candles)
        high == bar.high * 1000 >= levels.high * (1000 - p.level_zone_pct)
        low  == bar.low * 1000 <= levels.low * (1000 + p.level_zone_pct)
    IN  CASE high /\ ~ low -> {[direction |-> "short", level |-> levels.high]}
          [] low /\ ~ high -> {[direction |-> "long", level |-> levels.low]}
          [] OTHER -> {}
Setups(candles, p) ==
    {s \in Tested(candles, p) :
        /\ ReversalBar(s.direction, LastOf(candles), p)
        /\ ~ MomentumVeto(candles, s.level, s.direction, p)
        /\ ~ CounterTrendVeto(candles, s.direction, p)}

\* evaluate_prices: the stop is at the other end of the bar, or nearer when
\* that is too far.
Prices(candles, d, p) ==
    LET bar   == LastOf(candles)
        entry == Ahead(d, Lead(d, bar), p.entry_offset_ticks * p.tick_size)
        stop  == Ahead(d, Rear(d, bar), -p.tick_size)
        far   == 1000 * Abs(entry - stop) > p.stop_atr_mult * Atr(candles, p.atr_period)
        money == Ahead(d, entry, -Part(p.monetary_stop_range_pct, RangeOf(bar)))
    IN  MultipleSignal(d, entry, IF far THEN money ELSE stop, p)

Analyze(candles, p) ==
    IF /\ Len(candles) >= 2
       /\ InWindow(LastOf(candles), p)
       /\ DaysBefore(candles) # {}
       /\ Atr(candles, p.atr_period) # Off
    THEN UNION {Prices(candles, s.direction, p) : s \in Setups(candles, p)}
    ELSE {}
=============================================================================
