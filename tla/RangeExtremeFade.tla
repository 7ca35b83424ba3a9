-------------------------- MODULE RangeExtremeFade --------------------------
(***************************************************************************)
(* range_extreme_fade_v1: the fade of a breakout without force of the      *)
(* extreme of a day in a range (crates/trader-core/src/strategies).        *)
(***************************************************************************)
EXTENDS Candles

\* ema_side is the number the rule of the average uses, whatever the
\* configuration says under ema_side_lookback.
Defaults == [
    structure_lookback |-> 12, max_ema_slope_pct_per_bar |-> 5, daily_atr_period |-> 14,
    max_day_range_atr_mult |-> 1500, max_extension_atr_mult |-> 500,
    use_ema_side_rule |-> FALSE, ema_side |-> 8, midday_start_time |-> 690,
    midday_end_time |-> 840, barb_wire_bars |-> 3, barb_wire_overlap_pct |-> 500,
    barb_wire_doji_body_pct |-> 300, signal_body_min_pct |-> 300, signal_wick_min_pct |-> 334,
    atr_period |-> 14, entry_order_type |-> "stop", entry_offset_ticks |-> 1,
    target_r_multiple |-> 1500, min_risk_reward |-> 1200, max_atr_pct |-> 1500,
    tick_size |-> 100, start |-> 585, end |-> 915, ema_period |-> 20, sma_period |-> 200,
    min_bars |-> 40]

DayRange(candles) == Max(Highs(candles, Today(candles))) - Min(Lows(candles, Today(candles)))

Pivots(candles, d, lookback) == Swings(candles, d, lookback, 2)

\* has_trend_structure: the last two highs and the last two lows went the same
\* way.
Steps(candles, d, lookback) ==
    LET found == Pivots(candles, d, lookback)
        last  == Max(found)
        prior == Max(found \ {last})
    IN  Lead(d, candles[last]) - Lead(d, candles[prior])
HasTrendStructure(candles, lookback) ==
    /\ \A d \in {"long", "short"} : Cardinality(Pivots(candles, d, lookback)) >= 2
    /\ \E d \in {"long", "short"} :
          \A e \in {"long", "short"} : Sign(d) * Steps(candles, e, lookback) > 0

\* check_range_day: a flat average, no structure and a range of the day that
\* is no trend.
FlatAverage(candles, p) ==
    LET n    == Len(candles)
        now  == Ema(candles, p.ema_period)
        then == Ema(SubSeq(candles, 1, n - p.structure_lookback + 1), p.ema_period)
    IN  /\ n > p.structure_lookback
        /\ now # Off /\ now # 0 /\ then # Off
        /\ 10000 * Abs(now - then) < p.max_ema_slope_pct_per_bar * p.structure_lookback * now
IsRangeDay(candles, daily, p) ==
    /\ FlatAverage(candles, p)
    /\ ~ HasTrendStructure(candles, p.structure_lookback)
    /\ 1000 * DayRange(candles) < p.max_day_range_atr_mult * daily

\* is_midday_midrange: a flat day is all middle.
IsMiddayMidrange(candles, p) ==
    LET last == LastOf(candles)
        low  == Min(Lows(candles, Today(candles)))
    IN  /\ p.midday_start_time <= last.time /\ last.time <= p.midday_end_time
        /\ 3 * (last.close - low) >= DayRange(candles)
        /\ 3 * (last.close - low) <= 2 * DayRange(candles)

\* is_barb_wire: bars that overlap their neighbours, one of them without body.
IsBarbWire(candles, p) ==
    LET n == Len(candles)
        bars == LastBars(candles, p.barb_wire_bars)
        Overlap(i) == Smaller(candles[i - 1].high, candles[i].high)
                        - Larger(candles[i - 1].low, candles[i].low)
    IN  /\ n >= p.barb_wire_bars + 1
        /\ Atr(candles, p.atr_period) # Off
        /\ \A i \in bars \ {Min(bars)} :
              1000 * Overlap(i) >= p.barb_wire_overlap_pct * Atr(candles, p.atr_period)
        /\ \E i \in bars : RangeOf(candles[i]) # 0 /\ ~ StrongBody(candles[i], p.barb_wire_doji_body_pct)

\* ema_side_veto: half of the closes above is enough to veto a long and not
\* enough to allow a short.
EmaSideVeto(candles, d, p) ==
    LET ema   == Ema(candles, p.ema_period)
        above == Cardinality({i \in LastBars(candles, p.ema_side) : candles[i].close > ema})
    IN  /\ ema # Off /\ Len(candles) >= p.ema_side
        /\ IF d = "long" THEN above * 2 >= p.ema_side ELSE above * 2 < p.ema_side

\* detect_setup: the bar passed an extreme the day had before it, by little; a
\* bar that passed both is a short.
Extension(candles, d) ==
    LET before == Today(candles) \ {Len(candles)}
        level  == IF d = "short" THEN Max(Highs(candles, before)) ELSE Min(Lows(candles, before))
    IN  Sign(d) * (level - Rear(d, LastOf(candles)))
Probes(candles, d, p) ==
    /\ Extension(candles, d) > 0
    /\ 1000 * Extension(candles, d) <= p.max_extension_atr_mult * Atr(candles, p.atr_period)
Setups(candles, p) ==
    IF Cardinality(Today(candles)) < 2 THEN {} ELSE
    LET ups   == IF Probes(candles, "short", p) THEN {"short"} ELSE {}
        downs == IF Probes(candles, "long", p) THEN {"long"} ELSE {}
    IN  {d \in IF ups # {} THEN ups ELSE downs :
            /\ ~ (p.use_ema_side_rule /\ EmaSideVeto(candles, d, p))
            /\ ReversalBar(d, LastOf(candles), p)}

\* evaluate_prices: the two ends of the bar, a tick beyond each.
Prices(bar, d, p) ==
    MultipleSignal(d, Ahead(d, Lead(d, bar), p.entry_offset_ticks * p.tick_size),
                   Ahead(d, Rear(d, bar), -p.tick_size), p)

Analyze(candles, p) ==
    LET daily == DailyAtr(candles, p.daily_atr_period)
    IN  IF /\ Len(candles) >= p.min_bars
           /\ InWindow(LastOf(candles), p)
           /\ Atr(candles, p.atr_period) # Off /\ daily # Off
           /\ IsRangeDay(candles, daily, p)
           /\ ~ IsMiddayMidrange(candles, p)
           /\ ~ IsBarbWire(candles, p)
        THEN UNION {Prices(LastOf(candles), d, p) : d \in Setups(candles, p)}
        ELSE {}
=============================================================================
