------------------------------- MODULE Candles -------------------------------
(***************************************************************************)
(* What the strategies of crates/trader-core share: the arithmetic of a    *)
(* candle, the indicators (indicators/mod.rs), the session in New York     *)
(* time (session.rs) and the context of the market (context/mod.rs).       *)
(*                                                                         *)
(* A candle is [day, time, open, high, low, close, volume]: the session it *)
(* belongs to and its minute in New York.  Prices are integers, a dollar   *)
(* being 10000, and a fraction of the code is a number of thousandths.     *)
(* Decimal divides exactly to 28 digits: a quotient that is only compared  *)
(* is compared as a product, and the prices of the instances divide.       *)
(***************************************************************************)
EXTENDS Amounts, FiniteSetsExt, SequencesExt, Functions

CONSTANT
    UtcOffset     \* minutes from New York to UTC: 240 in summer, 300 in winter

\* A fraction of an amount, the fraction in thousandths.
Part(thousandths, x) == (thousandths * x) \div 1000

LastOf(candles) == candles[Len(candles)]
Highs(candles, bars) == {candles[i].high : i \in bars}
Lows(candles, bars) == {candles[i].low : i \in bars}
LastBars(candles, period) == (Len(candles) - period + 1) .. Len(candles)

RangeOf(c) == c.high - c.low
BodyOf(c) == Abs(c.close - c.open)
\* body_fraction >= pct; a bar without range has no body.
StrongBody(c, pct) == IF RangeOf(c) = 0 THEN pct <= 0 ELSE BodyOf(c) * 1000 >= pct * RangeOf(c)

-----------------------------------------------------------------------------
(* Both sides of the market: what is written for a long holds for a short  *)
(* with the signs turned.                                                  *)

Sign(d) == IF d = "long" THEN 1 ELSE -1
Ahead(d, price, by) == price + Sign(d) * by
Beyond(d, x, y) == Sign(d) * (x - y) > 0
Lead(d, c) == IF d = "long" THEN c.high ELSE c.low
Rear(d, c) == IF d = "long" THEN c.low ELSE c.high

\* A bar that closed its way with a body, closed in the favourable third and
\* left a shadow where it came from: the reversal bar of three strategies.
ReversalBar(d, c, p) ==
    /\ RangeOf(c) # 0
    /\ StrongBody(c, p.signal_body_min_pct)
    /\ Beyond(d, c.close, c.open)
    /\ 3 * Abs(c.close - Rear(d, c)) >= 2 * RangeOf(c)
    /\ 1000 * Abs(c.open - Rear(d, c)) >= p.signal_wick_min_pct * RangeOf(c)

\* The bracket of a setup whose target is a multiple of its risk, if it pays.
PaysEnough(entry, stop, target, p) ==
    1000 * Abs(target - entry) >= p.min_risk_reward * Abs(entry - stop)
SignalOf(d, entry, stop, target, p) ==
    IF PaysEnough(entry, stop, target, p)
    THEN {[direction |-> d, entry |-> entry, stop |-> stop, target |-> target,
           order_type |-> p.entry_order_type]}
    ELSE {}
TargetAbove(d, entry, stop, p) ==     \* mutant: a short's target, above it too
    SignalOf(d, entry, stop, entry + Part(p.target_r_multiple, Abs(entry - stop)), p)
MultipleSignal(d, entry, stop, p) ==
    SignalOf(d, entry, stop, Ahead(d, entry, Part(p.target_r_multiple, Abs(entry - stop))), p)

-----------------------------------------------------------------------------
(* Indicators *)

Sma(candles, period) ==
    IF Len(candles) < period \/ period = 0 THEN Off
    ELSE MapThenSumSet(LAMBDA i : candles[i].close, LastBars(candles, period)) \div period

\* The seed is the mean of the last candles, and the average then goes over the
\* same candles again, the first one left out.
Ema(candles, period) ==
    IF Len(candles) < period \/ period = 0 THEN Off
    ELSE FoldLeft(LAMBDA e, c : ((c.close - e) * 2) \div (period + 1) + e,
                  Sma(candles, period),
                  SubSeq(candles, Len(candles) - period + 2, Len(candles)))

TrueRange(candles, i) ==
    Larger(RangeOf(candles[i]), Larger(Abs(candles[i].high - candles[i - 1].close),
                                       Abs(candles[i].low - candles[i - 1].close)))
Atr(candles, period) ==
    IF Len(candles) < period + 1 \/ period = 0 THEN Off
    ELSE MapThenSumSet(LAMBDA i : TrueRange(candles, i), LastBars(candles, period)) \div period

AverageRange(candles, bars) ==
    MapThenSumSet(LAMBDA i : RangeOf(candles[i]), bars) \div Cardinality(bars)

\* atr_percent, in thousandths of a percent.
AtrPercent(candles, period) ==
    LET atr == Atr(candles, period)
    IN  IF atr = Off \/ LastOf(candles).close = 0 THEN Off
        ELSE (atr * 1000) \div (LastOf(candles).close \div 100)

\* pivots: the bars of the last lookback that stick out of as many neighbours as
\* pivot_bars on each side, strictly only of those before.
Swings(candles, d, lookback, pivot_bars) ==
    {i \in Larger(Len(candles) - lookback, pivot_bars) + 1 .. Len(candles) - pivot_bars :
        \A k \in 1 .. pivot_bars :
            /\ Beyond(d, Lead(d, candles[i]), Lead(d, candles[i - k]))
            /\ ~ Beyond(d, Lead(d, candles[i + k]), Lead(d, candles[i]))}

-----------------------------------------------------------------------------
(* The session *)

\* Both ends belong to the window.
InWindow(c, p) == p.start <= c.time /\ c.time <= p.end

DayBars(candles, day) == {i \in DOMAIN candles : candles[i].day = day}
Today(candles) == DayBars(candles, LastOf(candles).day)
DaysBefore(candles) == {candles[i].day : i \in DOMAIN candles} \ {LastOf(candles).day}

\* daily_atr: the mean range of the last sessions before today, of those the
\* series holds any candle of.
DailyAtr(candles, period) ==
    LET days == DaysBefore(candles)
        last == {d \in days : Cardinality({e \in days : e >= d}) <= period}
        DayRange(d) == Max(Highs(candles, DayBars(candles, d))) - Min(Lows(candles, DayBars(candles, d)))
    IN  IF Cardinality(days) < period THEN Off
        ELSE MapThenSumSet(DayRange, last) \div period

-----------------------------------------------------------------------------
(* The context of the market *)

TrendOf(close, ema, sma) ==
    IF ema = Off THEN "neutral"
    ELSE IF close > ema /\ (sma = Off \/ ema > sma) THEN "up"
    ELSE IF close < ema /\ (sma = Off \/ ema < sma) THEN "down"
    ELSE "neutral"

\* The thresholds are those of the analyzer, in thousandths of a percent.
VolatilityOf(atr, high) ==
    IF atr = Off THEN "unknown"
    ELSE IF atr >= high THEN "high" ELSE IF atr <= 300 THEN "low" ELSE "normal"

\* 13:30 to 21:00 in UTC: the session of summer and of winter.
Regular(c) == c.time + UtcOffset >= 810 /\ c.time + UtcOffset <= 1260

\* MarketContextAnalyzer::analyze, of a strategy whose periods are p's.
ContextOf(candles, p) ==
    LET last  == LastOf(candles)
        ema   == Ema(candles, p.ema_period)
        trend == TrendOf(last.close, ema, Sma(candles, p.sma_period))
        atr   == AtrPercent(candles, p.atr_period)
        volatility == VolatilityOf(atr, p.max_atr_pct)
    IN  [ema_20 |-> ema, trend |-> trend, volatility |-> volatility, atr_14 |-> atr,
         regular |-> Regular(last), time |-> last.time,
         is_tradeable |-> trend # "neutral" /\ volatility # "high" /\ Regular(last)]
=============================================================================
