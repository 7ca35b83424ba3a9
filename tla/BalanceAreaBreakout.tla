------------------------- MODULE BalanceAreaBreakout -------------------------
(***************************************************************************)
(* balance_area_breakout_v1: a close out of an area the market balanced in *)
(* for days (crates/trader-core/src/strategies).                           *)
(***************************************************************************)
EXTENDS Candles

Defaults == [
    balance_lookback_candles |-> 78, balance_max_width_pct |-> 20,
    balance_max_width_atr_mult |-> 10000, atr_period |-> 14, entry_order_type |-> "stop",
    entry_offset_ticks |-> 1, stop_buffer_atr_mult |-> 300, max_stop_atr_mult |-> 3000,
    target_r_multiple |-> 2000, min_risk_reward |-> 1500, max_atr_pct |-> 1500,
    tick_size |-> 100, start |-> 585, end |-> 930, ema_period |-> 20, sma_period |-> 200]

\* detect_balance_area: the bars before the last, narrow and of two sessions.
AreaBars(candles, p) == (Len(candles) - p.balance_lookback_candles) .. (Len(candles) - 1)
AreaOf(candles, p) ==
    [high |-> Max(Highs(candles, AreaBars(candles, p))), low |-> Min(Lows(candles, AreaBars(candles, p)))]
Balanced(candles, area, atr, p) ==
    LET width == area.high - area.low
    IN  /\ area.high + area.low # 0
        /\ Cardinality({candles[i].day : i \in AreaBars(candles, p)}) >= 2
        /\ 2000 * width <= p.balance_max_width_pct * (area.high + area.low)
        /\ atr # 0 => 1000 * width <= p.balance_max_width_atr_mult * atr

\* detect_setup: accepted, that is closed, out of the area.
Directions(bar, area) ==
    {d \in {"long", "short"} : Beyond(d, bar.close, Lead(d, area))}

\* evaluate_prices: the stop is back inside the area.
Prices(bar, d, area, atr, p) ==
    LET entry == Ahead(d, Lead(d, bar), p.entry_offset_ticks * p.tick_size)
        stop  == Ahead(d, Lead(d, area), -Part(p.stop_buffer_atr_mult, atr))
        risk  == Abs(entry - stop)
    IN  IF risk # 0 /\ 1000 * risk <= p.max_stop_atr_mult * atr
        THEN MultipleSignal(d, entry, stop, p) ELSE {}

Analyze(candles, p) ==
    LET atr  == Atr(candles, p.atr_period)
        area == AreaOf(candles, p)
    IN  IF /\ Len(candles) >= p.balance_lookback_candles + 1
           /\ InWindow(LastOf(candles), p)
           /\ atr # Off
           /\ Balanced(candles, area, atr, p)
        THEN UNION {Prices(LastOf(candles), d, area, atr, p) : d \in Directions(LastOf(candles), area)}
        ELSE {}
=============================================================================
