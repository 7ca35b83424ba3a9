--------------------------- MODULE FailureTestLong ---------------------------
(***************************************************************************)
(* failure_test_long_v1: the market probes under a support that was tested *)
(* and closes back above it (crates/trader-core/src/strategies).  Long     *)
(* only.                                                                   *)
(***************************************************************************)
EXTENDS Candles

Defaults == [
    level_lookback_candles |-> 60, level_min_touches |-> 2, level_touch_tolerance_pct |-> 1,
    level_min_age_candles |-> 8, keltner_ema_period |-> 20, keltner_atr_mult |-> 2250,
    atr_period |-> 14, climax_lookback_candles |-> 10, overextension_atr_mult |-> 2000,
    macd_fast_sma |-> 3, macd_slow_sma |-> 10, macd_lookback_candles |-> 40,
    climax_bar_atr_mult |-> 2500, probe_max_bars |-> 2, probe_max_atr_mult |-> 1000,
    signal_close_min_position |-> 500, entry_order_type |-> "stop", entry_offset_ticks |-> 1,
    stop_jitter_atr_mult |-> 100, min_stop_bar_ranges |-> 1000, range_bars |-> 20,
    max_stop_atr_mult |-> 3000, target_r_multiple |-> 1500, min_risk_reward |-> 1200,
    max_atr_pct |-> 1500, tick_size |-> 100, start |-> 585, end |-> 930]

\* macd_fast_series: the fast line at bar i, times both periods.
HasMacd(i, p) == i >= p.macd_slow_sma /\ i >= p.macd_fast_sma
Macd(candles, i, p) ==
    LET Closes(period) == MapThenSumSet(LAMBDA k : candles[k].close, (i - period + 1) .. i)
    IN  p.macd_slow_sma * Closes(p.macd_fast_sma) - p.macd_fast_sma * Closes(p.macd_slow_sma)
Macds(candles, bars, p) == {Macd(candles, i, p) : i \in {k \in bars : HasMacd(k, p)}}

\* The bars are overextended when one touched the Keltner channel under its own
\* average, when the market fell far, or when a new low of the price is none of
\* the MACD; its earlier lows are those of the whole series.
TouchedLowerKeltner(candles, p) ==
    \E i \in Larger(Len(candles) - p.climax_lookback_candles, 0) + 1 .. Len(candles) :
        LET prefix == SubSeq(candles, 1, i)
            ema == Ema(prefix, p.keltner_ema_period)
            atr == Atr(prefix, p.atr_period)
        IN  /\ ema # Off /\ atr # Off
            /\ candles[i].low <= ema - Part(p.keltner_atr_mult, atr)
DropFromSwingHigh(candles, atr, p) ==
    LET bars == Larger(Len(candles) - p.level_lookback_candles, 0) + 1 .. Len(candles)
    IN  1000 * (Max(Highs(candles, bars)) - LastOf(candles).close) >= p.overextension_atr_mult * atr
MacdDivergence(candles, p) ==
    LET n      == Len(candles)
        prior  == 1 .. (n - 3)
        recent == (n - 2) .. n
    IN  /\ n >= p.macd_lookback_candles + 3
        /\ Min(Lows(candles, recent)) < Min(Lows(candles, prior))
        /\ Macds(candles, prior, p) # {} /\ Macds(candles, recent, p) # {}
        /\ Min(Macds(candles, recent, p)) > Min(Macds(candles, prior, p))

\* climax_in_progress: a very wide bar, with the MACD at the low of its window.
ClimaxInProgress(candles, atr, p) ==
    LET n == Len(candles)
        window == Larger(n - p.macd_lookback_candles, 0) + 1 .. n
    IN  /\ 1000 * RangeOf(LastOf(candles)) > p.climax_bar_atr_mult * atr
        /\ HasMacd(n, p)
        /\ Macd(candles, n, p) <= Min(Macds(candles, window, p))

\* check_context
Primed(candles, p) ==
    LET atr == Atr(candles, p.atr_period)
    IN  /\ Regular(LastOf(candles)) /\ InWindow(LastOf(candles), p)
        /\ atr # Off /\ atr # 0
        /\ AtrPercent(candles, p.atr_period) # Off => AtrPercent(candles, p.atr_period) <= p.max_atr_pct
        /\ ~ ClimaxInProgress(candles, atr, p)
        /\ \/ TouchedLowerKeltner(candles, p)
           \/ DropFromSwingHigh(candles, atr, p)
           \/ MacdDivergence(candles, p)

\* find_support_level: of the pivots before the zone of the probe, those that
\* were touched often, never closed under and are old enough; the most touched
\* counts, and the higher of equals.
LevelZone(candles, p) ==
    LET end == Len(candles) - (p.probe_max_bars + 1)
    IN  Larger(end - p.level_lookback_candles, 0) + 1 .. end
IsSwingLow(candles, i) ==
    LET NoHigherThan(bars) == /\ \A k \in bars : candles[i].low <= candles[k].low
                              /\ \E k \in bars : candles[i].low < candles[k].low
    IN  i > 2 /\ i + 2 <= Len(candles) /\ NoHigherThan({i - 1, i - 2}) /\ NoHigherThan({i + 1, i + 2})
Tolerance(price, p) == Part(p.level_touch_tolerance_pct, price)
Touches(candles, price, p) ==
    {i \in LevelZone(candles, p) : Abs(candles[i].low - price) <= Tolerance(price, p)}
Levels(candles, p) ==
    LET zone == LevelZone(candles, p)
    IN  {price \in Lows(candles, {i \in zone : i >= Min(zone) + 2 /\ IsSwingLow(candles, i)}) :
            /\ Cardinality(Touches(candles, price, p)) >= p.level_min_touches
            /\ \A i \in zone : candles[i].close >= price - Tolerance(price, p)
            /\ Len(candles) - Min(Touches(candles, price, p)) >= p.level_min_age_candles}
SupportLevels(candles, p) ==
    LET tested(price) == Cardinality(Touches(candles, price, p))
    IN  {s \in Levels(candles, p) : \A other \in Levels(candles, p) :
            tested(other) < tested(s) \/ (tested(other) = tested(s) /\ other <= s)}

\* detect_probe: the run of bars under the level ends at the last bar or at the
\* one before, which then did not recover by itself.
RunUnder(candles, end, s) == {i \in 1 .. end : \A k \in i .. end : candles[k].low < s}
ProbeRun(candles, s) ==
    LET n == Len(candles)
    IN  RunUnder(candles, IF LastOf(candles).low < s THEN n ELSE n - 1, s)
Recovers(candles, s, p) ==
    LET n == Len(candles)
    IN  /\ LastOf(candles).close > s
        /\ ProbeRun(candles, s) # {}
        /\ Cardinality(ProbeRun(candles, s)) <= p.probe_max_bars
        /\ LastOf(candles).low >= s => candles[n - 1].close <= s

\* validate_probe: not too deep, and a strong bar.
ExtremeOf(candles, s) == Min(Lows(candles, Min(ProbeRun(candles, s)) .. Len(candles)))
ValidProbe(candles, s, p) ==
    LET bar == LastOf(candles)
    IN  /\ 1000 * (s - ExtremeOf(candles, s)) <= p.probe_max_atr_mult * Atr(candles, p.atr_period)
        /\ RangeOf(bar) # 0
        /\ 1000 * (bar.close - bar.low) >= p.signal_close_min_position * RangeOf(bar)

\* evaluate_prices
Prices(candles, s, p) ==
    LET bar   == LastOf(candles)
        atr   == Atr(candles, p.atr_period)
        entry == IF p.entry_order_type = "market_next_open" THEN bar.close
                 ELSE bar.high + p.entry_offset_ticks * p.tick_size
        stop  == ExtremeOf(candles, s) - p.tick_size - Part(p.stop_jitter_atr_mult, atr) \div 2
        risk  == entry - stop
    IN  IF /\ risk > 0
           /\ Len(candles) >= p.range_bars =>
                1000 * risk >= p.min_stop_bar_ranges * AverageRange(candles, LastBars(candles, p.range_bars))
           /\ 1000 * risk <= p.max_stop_atr_mult * atr
        THEN MultipleSignal("long", entry, stop, p) ELSE {}

\* A stop entry the last close has passed already is no entry.
Analyze(candles, p) ==
    IF /\ Len(candles) >= p.level_min_age_candles + p.probe_max_bars + 3
       /\ Primed(candles, p)
    THEN {signal \in UNION {Prices(candles, s, p) :
                            s \in {level \in SupportLevels(candles, p) :
                                      Recovers(candles, level, p) /\ ValidProbe(candles, level, p)}} :
             signal.order_type = "stop" => LastOf(candles).close < signal.entry}
    ELSE {}
=============================================================================
