-------------------------- MODULE ValueAreaReentry --------------------------
(***************************************************************************)
(* value_area_reentry_v1: the traversal of yesterday's value area after an *)
(* open outside of it (crates/trader-core/src/strategies).                 *)
(***************************************************************************)
EXTENDS Candles

Defaults == [
    va_buckets |-> 50, va_percent |-> 70, max_open_distance_atr |-> 1000,
    max_va_width_atr |-> 800, trend_lookback |-> 12, trend_slope_threshold |-> 5,
    acceptance_bars |-> 2, daily_atr_period |-> 14, atr_period |-> 14,
    entry_order_type |-> "stop", entry_offset_ticks |-> 1, min_risk_reward |-> 1200,
    max_stop_atr |-> 2000, stop_buffer_atr |-> 250, min_stop_atr |-> 150, max_atr_pct |-> 1500,
    tick_size |-> 100, start |-> 600, end |-> 900, ema_period |-> 20, sma_period |-> 200,
    min_bars |-> 40]

\* previous_day_slice: yesterday, unless the series may have begun in it.
PreviousDay(candles) ==
    LET day == IF DaysBefore(candles) = {} THEN {} ELSE DayBars(candles, Max(DaysBefore(candles)))
    IN  IF 1 \in day THEN {} ELSE day

\* compute_value_area.  The range of the day is cut in buckets, numbered from
\* zero; every candle prints in the buckets it touches.
Width(low, high, p) == Larger((high - low) \div p.va_buckets, p.tick_size)
Buckets(low, high, p) == 0 .. Larger((high - low) \div Width(low, high, p), 1)
Prints(candles, day, low, high, p) ==
    LET top == Max(Buckets(low, high, p))
        Of(price) == Smaller((price - low) \div Width(low, high, p), top)
    IN  [b \in 0 .. top |->
            Cardinality({i \in day : Of(candles[i].low) <= b /\ b <= Of(candles[i].high)})]

\* The point of control: the densest bucket, of several the nearest to the
\* middle, of two as near the lower.
PointOfControl(prints) ==
    LET middle == Max(DOMAIN prints) \div 2
        FromMiddle(b) == Abs(b - middle)
    IN  CHOOSE b \in DOMAIN prints : \A c \in DOMAIN prints :
            \/ prints[b] > prints[c]
            \/ prints[b] = prints[c] /\ (FromMiddle(b) < FromMiddle(c) \/ (FromMiddle(b) = FromMiddle(c) /\ b <= c))

\* The area grows from there, by two buckets of the denser side, up when they
\* tie, until it holds its share of the prints.  area[n] is it after n steps.
PrintsIn(prints, bs) == MapThenSumSet(LAMBDA b : prints[b], bs)
Grown(prints, area, p) ==
    LET top   == Max(DOMAIN prints)
        above == (area.hi + 1) .. Smaller(area.hi + 2, top)
        below == Larger(area.lo - 2, 0) .. (area.lo - 1)
    IN  IF PrintsIn(prints, area.lo .. area.hi) * 100 >= PrintsIn(prints, DOMAIN prints) * p.va_percent
        THEN area
        ELSE IF above # {} /\ (below = {} \/ PrintsIn(prints, above) >= PrintsIn(prints, below))
        THEN [area EXCEPT !.hi = Max(above)]
        ELSE IF below # {} THEN [area EXCEPT !.lo = Min(below)]
        ELSE area
AreaBuckets(prints, p) ==
    LET top == Max(DOMAIN prints)
        area[n \in 0 .. top] == IF n = 0 THEN [lo |-> PointOfControl(prints), hi |-> PointOfControl(prints)]
                                ELSE Grown(prints, area[n - 1], p)
    IN  area[top]

ValueArea(candles, p) ==
    LET day  == PreviousDay(candles)
        high == Max(Highs(candles, day))
        low  == Min(Lows(candles, day))
        area == AreaBuckets(Prints(candles, day, low, high, p), p)
    IN  IF day = {} \/ p.va_buckets = 0 \/ high = low THEN Off
        ELSE [low  |-> Larger(low + area.lo * Width(low, high, p), low),
              high |-> Smaller(low + (area.hi + 1) * Width(low, high, p), high)]

Within(va, price) == va.low <= price /\ price <= va.high

\* detect_setup: opened outside, and accepted on this bar: the last closes are
\* inside and the one before them is not.
OpenOf(candles) == candles[Min(Today(candles))].open
OpenDistance(candles, va) ==
    IF OpenOf(candles) < va.low THEN va.low - OpenOf(candles) ELSE OpenOf(candles) - va.high
Directions(candles, va, p) ==
    LET n    == Len(candles)
        bars == Larger(p.acceptance_bars, 1)
    IN  IF /\ ~ Within(va, OpenOf(candles))
           /\ n >= bars + 1 /\ n - bars + 1 >= Min(Today(candles))
           /\ \A i \in (n - bars + 1) .. n : Within(va, candles[i].close)
           /\ ~ Within(va, candles[n - bars].close)
        THEN {IF OpenOf(candles) < va.low THEN "long" ELSE "short"}
        ELSE {}

\* trend_against_traversal, of the slope per bar of the average; without enough
\* history there is no slope.
AgainstTraversal(candles, d, p) ==
    LET n    == Len(candles)
        now  == Ema(candles, p.ema_period)
        then == Ema(SubSeq(candles, 1, n - p.trend_lookback + 1), p.ema_period)
    IN  /\ n > p.trend_lookback /\ p.trend_lookback # 0
        /\ now # Off /\ now # 0 /\ then # Off
        /\ 10000 * Sign(d) * (now - then) < -(p.trend_slope_threshold * p.trend_lookback * now)

\* evaluate_prices: the stop is out of the near edge, the target the far one.
Prices(bar, d, va, atr, p) ==
    LET tick   == p.entry_offset_ticks * p.tick_size
        entry  == IF p.entry_order_type = "limit" THEN bar.close ELSE Ahead(d, Lead(d, bar), tick)
        stop   == Ahead(d, Rear(d, va), -(p.tick_size + Part(p.stop_buffer_atr, atr)))
        target == Lead(d, va)
        risk   == Abs(entry - stop)
    IN  IF /\ risk > p.tick_size
           /\ atr # 0 => 1000 * risk >= p.min_stop_atr * atr /\ 1000 * risk <= p.max_stop_atr * atr
           /\ Beyond(d, target, entry)
        THEN SignalOf(d, entry, stop, target, p) ELSE {}

Analyze(candles, p) ==
    LET atr   == Atr(candles, p.atr_period)
        daily == DailyAtr(candles, p.daily_atr_period)
        va    == ValueArea(candles, p)
    IN  IF /\ Len(candles) >= p.min_bars
           /\ InWindow(LastOf(candles), p)
           /\ Off \notin {atr, daily, va}
           /\ 1000 * (va.high - va.low) <= p.max_va_width_atr * daily
        THEN UNION {Prices(LastOf(candles), d, va, atr, p) :
                    d \in {e \in Directions(candles, va, p) :
                             /\ 1000 * OpenDistance(candles, va) <= p.max_open_distance_atr * daily
                             /\ ~ AgainstTraversal(candles, e, p)}}
        ELSE {}
=============================================================================
