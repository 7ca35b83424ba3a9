------------------------- MODULE TrendlineBreakTest -------------------------
(***************************************************************************)
(* trendline_break_test_v1: the test of the extreme of a trend whose line  *)
(* was broken (crates/trader-core/src/strategies).  A trend is named by    *)
(* the side of the trade that reverses it: "long" for a bear.              *)
(***************************************************************************)
EXTENDS Candles

Defaults == [
    trend_lookback |-> 12, pivot_bars |-> 2, break_min_bars |-> 3,
    break_min_closes_beyond_ema |-> 2, break_max_age |-> 20, test_tolerance_pct |-> 3,
    max_overshoot_atr |-> 500, signal_body_min_pct |-> 300, signal_wick_min_pct |-> 334,
    atr_period |-> 14, entry_order_type |-> "stop", entry_offset_ticks |-> 1,
    target_r_multiple |-> 2000, min_risk_reward |-> 1500, max_stop_atr |-> 2000,
    min_stop_atr |-> 150, max_atr_pct |-> 1500, tick_size |-> 100, start |-> 600, end |-> 915,
    ema_period |-> 20, sma_period |-> 200]

WindowOf(p) == p.trend_lookback + p.break_max_age

\* detect_trend looks for the extreme where a leg and a test still fit behind
\* it; of equal ones the first counts.
Candidates(candles, p) ==
    LET n == Len(candles)
        from == Larger(n - WindowOf(p), 0) + 1
        last == n - (p.break_min_bars + 2)
    IN  IF n + 1 < from + 2 * p.pivot_bars + 3 \/ last <= from THEN {} ELSE from .. last
ExtremeBar(candles, d, p) ==
    CHOOSE i \in Candidates(candles, p) : \A j \in Candidates(candles, p) :
        \/ Beyond(d, Rear(d, candles[j]), Rear(d, candles[i]))
        \/ Rear(d, candles[j]) = Rear(d, candles[i]) /\ i <= j

\* qualify_trend: up to its extreme the last two swings against the trend went
\* with it, and the extreme passed the last swing with it.
Against(candles, d, p) == Swings(SubSeq(candles, 1, ExtremeBar(candles, d, p)), d, WindowOf(p), p.pivot_bars)
With(candles, d, p) ==
    Swings(SubSeq(candles, 1, ExtremeBar(candles, d, p)),
           IF d = "long" THEN "short" ELSE "long", WindowOf(p), p.pivot_bars)
LineEnd(candles, d, p) == Max(Against(candles, d, p))
LineStart(candles, d, p) == Max(Against(candles, d, p) \ {LineEnd(candles, d, p)})
Qualifies(candles, d, p) ==
    /\ Cardinality(Against(candles, d, p)) >= 2
    /\ Beyond(d, Lead(d, candles[LineStart(candles, d, p)]), Lead(d, candles[LineEnd(candles, d, p)]))
    /\ With(candles, d, p) # {}
    /\ Beyond(d, Rear(d, candles[Max(With(candles, d, p))]),
                 Rear(d, candles[ExtremeBar(candles, d, p)]))

\* Of two trends the one with the newer extreme, the bear when they tie.
Trends(candles, p) ==
    IF Candidates(candles, p) = {} THEN {} ELSE
    LET all == {d \in {"long", "short"} : Qualifies(candles, d, p)}
        newer(d, e) == ExtremeBar(candles, d, p) > ExtremeBar(candles, e, p)
    IN  IF Cardinality(all) < 2 THEN all
        ELSE IF newer("short", "long") THEN {"short"} ELSE {"long"}

\* trendline_value_at: the close of bar i is beyond the line through the swings.
BeyondLine(candles, d, i, p) ==
    LET p1 == LineStart(candles, d, p)
        p2 == LineEnd(candles, d, p)
        rise == Lead(d, candles[p2]) - Lead(d, candles[p1])
    IN  Beyond(d, (candles[i].close - Lead(d, candles[p2])) * (p2 - p1), rise * (i - p2))

\* find_trendline_break: the leg against the trend runs to its farthest bar, the
\* first of several; it broke the line not long ago, and with momentum.
LegPeak(candles, d, p) ==
    LET bars == (ExtremeBar(candles, d, p) + 1) .. Len(candles)
    IN  CHOOSE i \in bars : \A j \in bars :
            \/ Beyond(d, Lead(d, candles[i]), Lead(d, candles[j]))
            \/ Lead(d, candles[j]) = Lead(d, candles[i]) /\ i <= j
Leg(candles, d, p) == (ExtremeBar(candles, d, p) + 1) .. LegPeak(candles, d, p)
Breaks(candles, d, p) == {i \in Leg(candles, d, p) : BeyondLine(candles, d, i, p)}
ClosesBeyondEma(candles, d, p) ==
    {i \in Leg(candles, d, p) :
        LET ema == Ema(SubSeq(candles, 1, i), p.ema_period)
        IN  ema # Off /\ Beyond(d, candles[i].close, ema)}
LineBroken(candles, d, p) ==
    /\ Breaks(candles, d, p) # {}
    /\ Len(candles) - Min(Breaks(candles, d, p)) <= p.break_max_age
    /\ Cardinality(Leg(candles, d, p)) >= p.break_min_bars
    /\ Cardinality(ClosesBeyondEma(candles, d, p)) >= p.break_min_closes_beyond_ema
    /\ Beyond(d, Lead(d, candles[LegPeak(candles, d, p)]), Lead(d, candles[LineEnd(candles, d, p)]))

\* detect_setup: after the break, the last bar comes back to the extreme, short
\* of it or through it by little, and reverses.
Tests(candles, d, p) ==
    LET bar     == LastOf(candles)
        extreme == Rear(d, candles[ExtremeBar(candles, d, p)])
        offset  == Sign(d) * (Rear(d, bar) - extreme)
    IN  /\ Len(candles) > Min(Breaks(candles, d, p))
        /\ IF offset < 0 THEN 1000 * (-offset) <= p.max_overshoot_atr * Atr(candles, p.atr_period)
           ELSE offset * 1000 <= extreme * p.test_tolerance_pct
        /\ ReversalBar(d, bar, p)

Prices(candles, d, p) ==
    LET bar   == LastOf(candles)
        atr   == Atr(candles, p.atr_period)
        entry == Ahead(d, Lead(d, bar), p.entry_offset_ticks * p.tick_size)
        stop  == Ahead(d, Rear(d, bar), -p.tick_size)
        risk  == Abs(entry - stop)
    IN  IF /\ risk > p.tick_size
           /\ atr # 0 => 1000 * risk >= p.min_stop_atr * atr /\ 1000 * risk <= p.max_stop_atr * atr
        THEN MultipleSignal(d, entry, stop, p) ELSE {}

Analyze(candles, p) ==
    IF /\ Len(candles) >= WindowOf(p) + p.atr_period + 5
       /\ InWindow(LastOf(candles), p)
       /\ Atr(candles, p.atr_period) # Off
    THEN UNION {Prices(candles, d, p) :
                d \in {e \in Trends(candles, p) : LineBroken(candles, e, p) /\ Tests(candles, e, p)}}
    ELSE {}
=============================================================================
