--------------------------- MODULE StrategyProofs ---------------------------
(***************************************************************************)
(* What every signal of the nine strategies is, on any series of bars and  *)
(* under any configuration of StrategyTape's assumptions: a bracket the    *)
(* risk manager accepts for its shape, with an entry the market has still  *)
(* to reach.                                                               *)
(***************************************************************************)
EXTENDS StrategyTape, SetLemmas

\* A series of bars as the market gives them.
Series(cs, tick) ==
    /\ cs \in Seq(Bar) /\ cs # <<>>
    /\ \A i \in DOMAIN cs : Ordered(cs[i]) /\ Moves(cs[i], tick)

\* What a signal s of a strategy must be on the series cs: prices, on the right
\* sides of each other, with a reward the risk is worth, and not yet passed.
Whole(sig) == sig.entry \in Int /\ sig.stop \in Int /\ sig.target \in Int
Pays(s, sig) == RewardDistance(sig) * 100 >= RiskOf[s].min_risk_reward * RiskDistance(sig)
Waits(cs, sig) ==
    sig.order_type = "stop" => Beyond(sig.direction, sig.entry, LastOf(cs).close)
Proper(s, cs, sig) == Whole(sig) /\ SidesHold(sig) /\ Pays(s, sig) /\ Waits(cs, sig)

-----------------------------------------------------------------------------
(* Arithmetic *)

\* Products of naturals, which the solver does not find by itself.
LEMMA ProductNat == \A a, b \in Nat : a * b \in Nat
OBVIOUS
\* Of two that are not zero, a product that is not.
LEMMA ProductPositive == \A a, b \in Nat \ {0} : a * b \in Nat \ {0}
OBVIOUS
\* A product grows with its factor.
LEMMA ProductMonotone == \A a, b, c \in Int : a <= b /\ 0 <= c => a * c <= b * c
OBVIOUS

\* A fraction of an amount that is not negative is not negative.
LEMMA PartNat == \A f, x \in Nat : Part(f, x) \in Nat
<1> SUFFICES ASSUME NEW f \in Nat, NEW x \in Nat PROVE Part(f, x) \in Nat
  OBVIOUS
<1>1. f * x \in Nat
  BY ProductNat
<1>2. \A n \in Nat : n \div 1000 \in Nat
  OBVIOUS
<1> QED BY <1>1, <1>2 DEF Part

\* Whole multiples: the fraction of a risk is no less than its whole part of it.
LEMMA PartWhole == \A f, x, q \in Nat : 1000 * q <= f => q * x <= Part(f, x)
<1> SUFFICES ASSUME NEW f \in Nat, NEW x \in Nat, NEW q \in Nat, 1000 * q <= f
             PROVE  q * x <= Part(f, x)
  OBVIOUS
<1>1. (1000 * q) * x <= f * x
  BY ProductMonotone
<1>2. q * x \in Nat /\ f * x \in Nat
  BY ProductNat
<1>3. (1000 * q) * x = 1000 * (q * x)
  OBVIOUS
<1>4. \A m, n \in Nat : 1000 * m <= n => m <= n \div 1000
  OBVIOUS
<1>5. q * x <= (f * x) \div 1000
  BY <1>1, <1>2, <1>3, <1>4
<1> QED BY <1>5 DEF Part

\* The extremes of prices are prices.
LEMMA ExtremesIn ==
    ASSUME NEW S, IsFiniteSet(S), S # {}, \A x \in S : x \in Int
    PROVE  Max(S) \in S /\ Min(S) \in S /\ \A x \in S : Min(S) <= x /\ x <= Max(S)
<1> DEFINE Bounded(u) == (\E m \in u : \A x \in u : x <= m) /\ (\E m \in u : \A x \in u : m <= x)
           B == {u \in SUBSET S : u # {} /\ ~ Bounded(u)}
<1>1. B = {}
  <2> SUFFICES ASSUME B # {} PROVE FALSE
    OBVIOUS
  <2>1. PICK u \in B : \A v \in B : v \subseteq u => v = u
    <3>1. B \subseteq SUBSET S
      OBVIOUS
    <3> HIDE DEF B
    <3> QED BY <3>1, SmallestPart
  <2>2. PICK x \in u : TRUE
    BY <2>1
  <2>3. u \subseteq S /\ x \in Int /\ ~ Bounded(u)
    BY <2>1
  <2>4. CASE u \ {x} = {}
    <3>1. \A y \in u : y = x
      BY <2>4
    <3> QED BY <2>2, <2>3, <3>1
  <2>5. CASE u \ {x} # {}
    <3>1. Bounded(u \ {x})
      <4>1. u \ {x} \in SUBSET S /\ u \ {x} \subseteq u /\ u \ {x} # u
        BY <2>2, <2>3
      <4>2. u \ {x} \notin B
        BY <2>1, <4>1
      <4> QED BY <2>5, <4>1, <4>2
    <3>2. \E m \in u : \A y \in u : y <= m
      <4>1. PICK m \in u \ {x} : \A y \in u \ {x} : y <= m
        BY <3>1
      <4>2. m \in Int /\ x \in Int /\ \A y \in u : y \in Int
        BY <2>3
      <4>3. CASE x <= m
        BY <4>1, <4>3
      <4>4. CASE m <= x
        <5>1. \A y \in u : y <= x
          BY <4>1, <4>2, <4>4
        <5> QED BY <2>2, <5>1
      <4> QED BY <4>2, <4>3, <4>4
    <3>3. \E m \in u : \A y \in u : m <= y
      <4>1. PICK m \in u \ {x} : \A y \in u \ {x} : m <= y
        BY <3>1
      <4>2. m \in Int /\ x \in Int /\ \A y \in u : y \in Int
        BY <2>3
      <4>3. CASE m <= x
        BY <4>1, <4>3
      <4>4. CASE x <= m
        <5>1. \A y \in u : x <= y
          BY <4>1, <4>2, <4>4
        <5> QED BY <2>2, <5>1
      <4> QED BY <4>2, <4>3, <4>4
    <3> QED BY <2>3, <3>2, <3>3
  <2> QED BY <2>4, <2>5
<1>2. Bounded(S)
  BY <1>1
<1>3. \E m \in S : \A x \in S : m >= x
  BY <1>2
<1> QED
  BY <1>2, <1>3 DEF Max, Min

-----------------------------------------------------------------------------
(* Series *)

\* The bars of a series, and the last one.
LEMMA BarsOf ==
    ASSUME NEW cs, NEW tick, Series(cs, tick)
    PROVE  /\ Len(cs) \in Nat /\ Len(cs) >= 1 /\ DOMAIN cs = 1 .. Len(cs)
           /\ \A i \in 1 .. Len(cs) :
                /\ cs[i].open \in Int /\ cs[i].high \in Int
                /\ cs[i].low \in Int /\ cs[i].close \in Int
                /\ cs[i].low <= cs[i].close /\ cs[i].close <= cs[i].high
                /\ cs[i].low <= cs[i].high /\ Moves(cs[i], tick)
<1>1. Len(cs) \in Nat /\ Len(cs) >= 1 /\ DOMAIN cs = 1 .. Len(cs)
  BY DEF Series
<1>2. ASSUME NEW i \in 1 .. Len(cs)
      PROVE  /\ cs[i].open \in Int /\ cs[i].high \in Int
             /\ cs[i].low \in Int /\ cs[i].close \in Int
             /\ Ordered(cs[i]) /\ Moves(cs[i], tick)
  <2>1. cs[i] \in Bar
    BY <1>1 DEF Series
  <2>2. Ordered(cs[i]) /\ Moves(cs[i], tick)
    BY <1>1 DEF Series
  <2> QED BY <2>1, <2>2 DEF Bar
<1> QED
  BY <1>1, <1>2 DEF Ordered, Smaller, Larger

\* The last bar of a series, the one a strategy is asked about.
LEMMA LastBar ==
    ASSUME NEW cs, NEW tick, Series(cs, tick)
    PROVE  /\ LastOf(cs).high \in Int /\ LastOf(cs).low \in Int /\ LastOf(cs).close \in Int
           /\ LastOf(cs).low <= LastOf(cs).close /\ LastOf(cs).close <= LastOf(cs).high
           /\ Moves(LastOf(cs), tick)
BY BarsOf DEF LastOf

\* The highest high and the lowest low of some bars are prices.
LEMMA HighsAndLows ==
    ASSUME NEW cs, NEW tick, Series(cs, tick), NEW bars \in SUBSET (1 .. Len(cs)), bars # {}
    PROVE  /\ Max(Highs(cs, bars)) \in Int /\ Min(Highs(cs, bars)) \in Int
           /\ Max(Lows(cs, bars)) \in Int /\ Min(Lows(cs, bars)) \in Int
           /\ \A i \in bars : Min(Lows(cs, bars)) <= cs[i].low /\ cs[i].high <= Max(Highs(cs, bars))
<1>1. IsFiniteSet(bars)
  <2>1. IsFiniteSet(1 .. Len(cs))
    BY BarsOf, FS_Interval
  <2> QED BY <2>1, FS_Subset
<1>2. IsFiniteSet(Highs(cs, bars)) /\ IsFiniteSet(Lows(cs, bars))
  <2>1. [i \in bars |-> cs[i].high] \in Surjection(bars, Highs(cs, bars))
    BY DEF Highs, Surjection
  <2>2. [i \in bars |-> cs[i].low] \in Surjection(bars, Lows(cs, bars))
    BY DEF Lows, Surjection
  <2> QED BY <1>1, <2>1, <2>2, FS_Surjection
<1>3. /\ Highs(cs, bars) # {} /\ \A x \in Highs(cs, bars) : x \in Int
      /\ Lows(cs, bars) # {} /\ \A x \in Lows(cs, bars) : x \in Int
  BY BarsOf DEF Highs, Lows
<1>4. \A i \in bars : cs[i].low \in Lows(cs, bars) /\ cs[i].high \in Highs(cs, bars)
  BY DEF Highs, Lows
<1> QED
  BY <1>2, <1>3, <1>4, ExtremesIn

\* What atr is the mean of.
TrueRanges(cs, bars) == [i \in bars |-> TrueRange(cs, i)]
AddsRanges(g, cs, bars) ==
    g = [s \in SUBSET bars |-> IF s = {} THEN 0 ELSE TrueRange(cs, First(s)) + g[s \ {First(s)}]]
\* The sum in Atr, as a sum of the lemmas.
LEMMA RangesFold ==
    ASSUME NEW cs, NEW bars, IsFiniteSet(bars)
    PROVE  MapThenSumSet(LAMBDA i : TrueRange(cs, i), bars) = SumOver(TrueRanges(cs, bars), bars)
<1> DEFINE w == TrueRanges(cs, bars)
<1>1. MapThenSumSet(LAMBDA i : TrueRange(cs, i), bars) = (CHOOSE g : AddsRanges(g, cs, bars))[bars]
  BY Zenon DEF MapThenSumSet, MapThenFoldSet, AddsRanges, First
<1>2. \A g : AddsRanges(g, cs, bars) <=> Adds(g, w, bars)
  <2>1. \A s \in SUBSET bars : s # {} => w[First(s)] = TrueRange(cs, First(s))
    BY FirstIn DEF TrueRanges
  <2> HIDE DEF w
  <2>2. ASSUME NEW g
        PROVE [s \in SUBSET bars |-> IF s = {} THEN 0 ELSE TrueRange(cs, First(s)) + g[s \ {First(s)}]]
                = [s \in SUBSET bars |-> IF s = {} THEN 0 ELSE w[First(s)] + g[s \ {First(s)}]]
    BY <2>1
  <2> QED BY <2>2 DEF AddsRanges, Adds
<1>3. Adds(CHOOSE g : AddsRanges(g, cs, bars), w, bars)
  <2>1. \E g : AddsRanges(g, cs, bars)
    BY <1>2, AddsExists
  <2> QED BY <1>2, <2>1
<1> QED
  BY <1>1, <1>3, TotalAdds

\* An average true range, when there is one, is a natural number.
LEMMA AtrNat ==
    ASSUME NEW cs, NEW tick, Series(cs, tick), NEW period \in Nat, Atr(cs, period) # Off
    PROVE  Atr(cs, period) \in Nat
<1> DEFINE bars == LastBars(cs, period)
           w == TrueRanges(cs, bars)
<1>1. Len(cs) \in Nat /\ ~ (Len(cs) < period + 1) /\ period # 0
  BY BarsOf DEF Atr
<1>2. bars = (Len(cs) - period + 1) .. Len(cs)
  BY DEF LastBars
<1>3. IsFiniteSet(bars)
  BY <1>1, <1>2, FS_Interval
<1>4. \A i \in bars : i \in 1 .. Len(cs) /\ i - 1 \in 1 .. Len(cs)
  BY <1>1, <1>2
<1> HIDE DEF bars
<1>5. ASSUME NEW i \in bars PROVE w[i] \in Nat
  <2>1. RangeOf(cs[i]) \in Nat
    BY <1>4, BarsOf DEF RangeOf
  <2>2. \A x, y \in Int : Abs(x - y) \in Nat
    BY DEF Abs
  <2>3. cs[i].high \in Int /\ cs[i].low \in Int /\ cs[i - 1].close \in Int
    BY <1>4, BarsOf
  <2>4. TrueRange(cs, i) \in Nat
    BY <2>1, <2>2, <2>3 DEF TrueRange, Larger
  <2> QED BY <2>4 DEF TrueRanges
<1>6. SumOver(w, bars) \in Nat
  <2> HIDE DEF w
  <2> QED BY <1>3, <1>5, TotalNat
<1>7. Atr(cs, period) = SumOver(w, bars) \div period
  BY <1>1, <1>3, RangesFold DEF Atr, bars
<1>8. \A n \in Nat, m \in Nat \ {0} : n \div m \in Nat
  OBVIOUS
<1> QED
  BY <1>1, <1>6, <1>7, <1>8
-----------------------------------------------------------------------------
(* Brackets *)

Sides == {"long", "short"}

\* What a configuration says of the numbers every strategy uses.
LEMMA Numbers ==
    ASSUME NEW s \in Strategies
    PROVE  /\ Params[s].tick_size \in Nat \ {0}
           /\ Params[s].entry_offset_ticks * Params[s].tick_size \in Nat \ {0}
           /\ Params[s].min_risk_reward \in Nat \ {0}
           /\ RiskOf[s].min_risk_reward \in Nat \ {0}
           /\ 10 * RiskOf[s].min_risk_reward <= Params[s].min_risk_reward
           /\ Params[s].atr_period \in Nat
<1>1. /\ Params[s].tick_size \in Nat \ {0} /\ Params[s].entry_offset_ticks \in Nat \ {0}
      /\ Params[s].min_risk_reward \in Nat \ {0} /\ RiskOf[s].min_risk_reward \in Nat \ {0}
      /\ 10 * RiskOf[s].min_risk_reward <= Params[s].min_risk_reward
      /\ Params[s].atr_period \in Nat
  BY ParamsAssumption
<1> QED
  BY <1>1, ProductPositive

\* A bracket that pays what the strategy asks pays what the risk manager asks,
\* and is on the right sides: the target cannot be where the entry is.
LEMMA PaidBracket ==
    ASSUME NEW s \in Strategies, NEW d \in Sides,
           NEW entry \in Int, NEW stop \in Int, NEW target \in Int,
           Beyond(d, entry, stop), ~ Beyond(d, entry, target),
           NEW sig \in SignalOf(d, entry, stop, target, Params[s])
    PROVE  /\ sig.direction = d /\ sig.entry = entry
           /\ sig.order_type = Params[s].entry_order_type
           /\ Whole(sig) /\ SidesHold(sig) /\ Pays(s, sig)
<1> DEFINE asked == RiskOf[s].min_risk_reward
           least == Params[s].min_risk_reward
           risk == Abs(entry - stop)
           reward == Abs(target - entry)
<1>1. /\ 1000 * reward >= least * risk
      /\ sig = [direction |-> d, entry |-> entry, stop |-> stop, target |-> target,
                order_type |-> Params[s].entry_order_type]
  BY DEF SignalOf, PaysEnough
<1>2. sig.direction = d /\ sig.entry = entry /\ sig.stop = stop /\ sig.target = target
      /\ sig.order_type = Params[s].entry_order_type
  BY <1>1
<1>3. risk \in Nat \ {0} /\ reward \in Nat
  BY DEF Beyond, Sign, Sides, Abs
<1>4. asked \in Nat \ {0} /\ least \in Nat \ {0} /\ 10 * asked <= least
  BY Numbers
<1>5. reward # 0
  <2> HIDE DEF asked, least, risk, reward
  <2>1. least * risk \in Nat \ {0}
    BY <1>3, <1>4, ProductPositive
  <2> QED BY <1>1, <1>3, <2>1
<1>6. reward * 100 >= asked * risk
  <2> HIDE DEF asked, least, risk, reward
  <2>1. (10 * asked) * risk <= least * risk
    BY <1>3, <1>4, ProductMonotone
  <2>2. asked * risk \in Nat /\ least * risk \in Nat /\ (10 * asked) * risk = 10 * (asked * risk)
    BY <1>3, <1>4, ProductNat
  <2> QED BY <1>1, <1>3, <2>1, <2>2
<1>7. SidesHold(sig)
  BY <1>2, <1>5 DEF SidesHold, Beyond, Sign, Sides, Abs
<1> QED
  BY <1>2, <1>6, <1>7 DEF Whole, Pays, RiskDistance, RewardDistance

\* The same of a bracket whose target is a multiple of its risk.
LEMMA MultipleBracket ==
    ASSUME NEW s \in Strategies, s # "value-area-reentry-v1", NEW d \in Sides,
           NEW entry \in Int, NEW stop \in Int, Beyond(d, entry, stop),
           NEW sig \in MultipleSignal(d, entry, stop, Params[s])
    PROVE  /\ sig.direction = d /\ sig.entry = entry
           /\ sig.order_type = Params[s].entry_order_type
           /\ Whole(sig) /\ SidesHold(sig) /\ Pays(s, sig)
<1> DEFINE part == Part(Params[s].target_r_multiple, Abs(entry - stop))
           target == Ahead(d, entry, part)
<1>1. part \in Nat
  <2>1. Params[s].target_r_multiple \in Nat
    BY ParamsAssumption
  <2>2. Abs(entry - stop) \in Nat
    BY DEF Abs
  <2> QED BY <2>1, <2>2, PartNat
<1>2. sig \in SignalOf(d, entry, stop, target, Params[s])
  BY DEF MultipleSignal
<1> HIDE DEF part
<1>3. target \in Int /\ ~ Beyond(d, entry, target)
  BY <1>1 DEF Ahead, Beyond, Sign, Sides
<1> HIDE DEF target
<1> QED
  BY <1>2, <1>3, PaidBracket

\* An entry a tick beyond the last bar is one the market has still to reach.
LEMMA EntryBeyondBar ==
    ASSUME NEW s \in Strategies, NEW cs, Series(cs, Params[s].tick_size), NEW d \in Sides
    PROVE  LET entry == Ahead(d, Lead(d, LastOf(cs)), Params[s].entry_offset_ticks * Params[s].tick_size)
           IN  /\ entry \in Int /\ Beyond(d, entry, LastOf(cs).close)
               /\ Beyond(d, entry, Rear(d, LastOf(cs)))
BY Numbers, LastBar DEF Ahead, Lead, Rear, Beyond, Sign, Sides
-----------------------------------------------------------------------------
(* The strategies, one by one.  An instance has its own copies of what the   *)
(* modules share, and each lemma begins with their equality.                 *)

\* opening_reversal_v1: the stop is beyond the other end of the bar, or a part
\* of its range away, which is a unit at least.
LEMMA OpeningSame ==
    /\ \A cs : Opening!LastOf(cs) = LastOf(cs)
    /\ \A c : Opening!RangeOf(c) = RangeOf(c)
    /\ \A d, c : Opening!Lead(d, c) = Lead(d, c) /\ Opening!Rear(d, c) = Rear(d, c)
    /\ \A d, x, by : Opening!Ahead(d, x, by) = Ahead(d, x, by)
    /\ \A f, x : Opening!Part(f, x) = Part(f, x)
    /\ \A d, e, o, p : Opening!MultipleSignal(d, e, o, p) = MultipleSignal(d, e, o, p)
<1>1. \A d, x, by : Opening!Ahead(d, x, by) = Ahead(d, x, by)
  BY DEF Opening!Ahead, Ahead, Opening!Sign, Sign
<1>2. \A f, x : Opening!Part(f, x) = Part(f, x)
  BY DEF Opening!Part, Part
<1>3. \A d, e, o, t, p : Opening!SignalOf(d, e, o, t, p) = SignalOf(d, e, o, t, p)
  BY DEF Opening!SignalOf, SignalOf, Opening!PaysEnough, PaysEnough, Opening!Abs, Abs
<1>4. \A d, e, o, p : Opening!MultipleSignal(d, e, o, p) = MultipleSignal(d, e, o, p)
  BY <1>1, <1>2, <1>3 DEF Opening!MultipleSignal, MultipleSignal, Opening!Abs, Abs
<1> QED
  BY <1>1, <1>2, <1>4 DEF Opening!LastOf, LastOf, Opening!RangeOf, RangeOf, Opening!Lead, Lead,
     Opening!Rear, Rear

\* opening_reversal_v1: the stop in money is a part of the range of the bar, behind an
\* entry beyond its extreme, and that part is not zero.
LEMMA OpeningProper ==
    ASSUME NEW s \in Strategies, s = "opening-reversal-v1",
           NEW cs, Series(cs, Params[s].tick_size), NEW sig \in Opening!Analyze(cs, Params[s])
    PROVE  Proper(s, cs, sig)
<1> DEFINE p == Params[s]
           bar == LastOf(cs)
<1>1. PICK setup \in Opening!Setups(cs, p) : sig \in Opening!Prices(cs, setup.direction, p)
  BY DEF Opening!Analyze
<1> DEFINE d == setup.direction
           entry == Ahead(d, Lead(d, bar), p.entry_offset_ticks * p.tick_size)
           beyond == Ahead(d, Rear(d, bar), -p.tick_size)
           money == Ahead(d, entry, -Part(p.monetary_stop_range_pct, RangeOf(bar)))
<1>2. d \in Sides /\ RangeOf(bar) # 0
  <2>1. setup \in Opening!Tested(cs, p) /\ Opening!ReversalBar(d, Opening!LastOf(cs), p)
    BY <1>1 DEF Opening!Setups
  <2>2. d \in Sides
    BY <2>1 DEF Opening!Tested, Sides
  <2>3. RangeOf(bar) # 0
    BY <2>1, OpeningSame DEF Opening!ReversalBar
  <2> QED BY <2>2, <2>3
<1>3. sig \in MultipleSignal(d, entry, money, p) \/ sig \in MultipleSignal(d, entry, beyond, p)
  BY <1>1, OpeningSame DEF Opening!Prices
<1>4. p.tick_size \in Nat \ {0}
  BY Numbers
<1>5. entry \in Int /\ Beyond(d, entry, bar.close) /\ Beyond(d, entry, Rear(d, bar))
  BY <1>2, EntryBeyondBar
<1>6. beyond \in Int /\ Beyond(d, entry, beyond)
  <2> HIDE DEF entry
  <2> QED BY <1>2, <1>4, <1>5, LastBar DEF Ahead, Rear, Beyond, Sign, Sides
<1>7. money \in Int /\ Beyond(d, entry, money)
  <2> DEFINE f == p.monetary_stop_range_pct
  <2>1. f \in Nat /\ f * p.tick_size >= 1000
    BY ParamsAssumption
  <2>2. RangeOf(bar) \in Nat /\ RangeOf(bar) >= p.tick_size
    BY <1>2, LastBar DEF Moves, RangeOf
  <2>3. Part(f, RangeOf(bar)) \in Nat \ {0}
    <3> HIDE DEF f, bar
    <3>1. p.tick_size * f <= RangeOf(bar) * f
      BY <1>4, <2>1, <2>2, ProductMonotone
    <3>2. f * p.tick_size = p.tick_size * f /\ f * RangeOf(bar) = RangeOf(bar) * f
      BY <1>4, <2>1, <2>2
    <3>3. f * p.tick_size \in Nat /\ f * RangeOf(bar) \in Nat
      BY <1>4, <2>1, <2>2, ProductNat
    <3>4. f * RangeOf(bar) >= 1000
      BY <2>1, <3>1, <3>2, <3>3
    <3>5. \A n \in Nat : n >= 1000 => n \div 1000 \in Nat \ {0}
      OBVIOUS
    <3> QED BY <3>3, <3>4, <3>5 DEF Part
  <2> HIDE DEF entry, f
  <2> QED BY <1>2, <1>5, <2>3 DEF Ahead, Beyond, Sign, Sides, f
<1> HIDE DEF p, entry, beyond, money
<1>8. sig.direction = d /\ sig.entry = entry /\ Whole(sig) /\ SidesHold(sig) /\ Pays(s, sig)
  <2>1. CASE sig \in MultipleSignal(d, entry, money, p)
    BY <1>2, <1>5, <1>7, <2>1, MultipleBracket DEF p
  <2>2. CASE sig \in MultipleSignal(d, entry, beyond, p)
    BY <1>2, <1>5, <1>6, <2>2, MultipleBracket DEF p
  <2> QED BY <1>3, <2>1, <2>2
<1> QED
  BY <1>5, <1>8 DEF Proper, Waits

\* range_extreme_fade_v1: the two ends of the bar, a tick beyond each.
LEMMA FadeSame ==
    /\ \A cs : Fade!LastOf(cs) = LastOf(cs)
    /\ \A d, c : Fade!Lead(d, c) = Lead(d, c) /\ Fade!Rear(d, c) = Rear(d, c)
    /\ \A d, x, by : Fade!Ahead(d, x, by) = Ahead(d, x, by)
    /\ \A d, e, o, p : Fade!MultipleSignal(d, e, o, p) = MultipleSignal(d, e, o, p)
<1>1. \A d, x, by : Fade!Ahead(d, x, by) = Ahead(d, x, by)
  BY DEF Fade!Ahead, Ahead, Fade!Sign, Sign
<1>2. \A d, e, o, t, p : Fade!SignalOf(d, e, o, t, p) = SignalOf(d, e, o, t, p)
  BY DEF Fade!SignalOf, SignalOf, Fade!PaysEnough, PaysEnough, Fade!Abs, Abs
<1>3. \A d, e, o, p : Fade!MultipleSignal(d, e, o, p) = MultipleSignal(d, e, o, p)
  BY <1>1, <1>2 DEF Fade!MultipleSignal, MultipleSignal, Fade!Abs, Abs, Fade!Part, Part
<1> QED
  BY <1>1, <1>3 DEF Fade!LastOf, LastOf, Fade!Lead, Lead, Fade!Rear, Rear

\* range_extreme_fade_v1: entry beyond the extreme of the bar, stop behind its other one.
LEMMA FadeProper ==
    ASSUME NEW s \in Strategies, s = "range-extreme-fade-v1",
           NEW cs, Series(cs, Params[s].tick_size), NEW sig \in Fade!Analyze(cs, Params[s])
    PROVE  Proper(s, cs, sig)
<1> DEFINE p == Params[s]
           bar == LastOf(cs)
<1>1. PICK d \in Fade!Setups(cs, p) : sig \in Fade!Prices(Fade!LastOf(cs), d, p)
  BY DEF Fade!Analyze
<1> DEFINE entry == Ahead(d, Lead(d, bar), p.entry_offset_ticks * p.tick_size)
           stop == Ahead(d, Rear(d, bar), -p.tick_size)
<1>2. d \in Sides
  BY <1>1 DEF Fade!Setups, Sides
<1>3. sig \in MultipleSignal(d, entry, stop, p)
  BY <1>1, FadeSame DEF Fade!Prices
<1>4. entry \in Int /\ Beyond(d, entry, bar.close) /\ Beyond(d, entry, Rear(d, bar))
  BY <1>2, EntryBeyondBar
<1>5. stop \in Int /\ Beyond(d, entry, stop)
  <2> HIDE DEF entry
  <2> QED BY <1>2, <1>4, Numbers, LastBar DEF Ahead, Rear, Beyond, Sign, Sides
<1> HIDE DEF p, entry, stop
<1>6. sig.direction = d /\ sig.entry = entry /\ Whole(sig) /\ SidesHold(sig) /\ Pays(s, sig)
  BY <1>2, <1>3, <1>4, <1>5, MultipleBracket DEF p
<1> QED
  BY <1>4, <1>6 DEF Proper, Waits

\* trendline_break_test_v1: the same two ends.
LEMMA LineSame ==
    /\ \A cs : Line!LastOf(cs) = LastOf(cs)
    /\ \A d, c : Line!Lead(d, c) = Lead(d, c) /\ Line!Rear(d, c) = Rear(d, c)
    /\ \A d, x, by : Line!Ahead(d, x, by) = Ahead(d, x, by)
    /\ \A d, e, o, p : Line!MultipleSignal(d, e, o, p) = MultipleSignal(d, e, o, p)
<1>1. \A d, x, by : Line!Ahead(d, x, by) = Ahead(d, x, by)
  BY DEF Line!Ahead, Ahead, Line!Sign, Sign
<1>2. \A d, e, o, t, p : Line!SignalOf(d, e, o, t, p) = SignalOf(d, e, o, t, p)
  BY DEF Line!SignalOf, SignalOf, Line!PaysEnough, PaysEnough, Line!Abs, Abs
<1>3. \A d, e, o, p : Line!MultipleSignal(d, e, o, p) = MultipleSignal(d, e, o, p)
  BY <1>1, <1>2 DEF Line!MultipleSignal, MultipleSignal, Line!Abs, Abs, Line!Part, Part
<1> QED
  BY <1>1, <1>3 DEF Line!LastOf, LastOf, Line!Lead, Lead, Line!Rear, Rear

\* trendline_break_test_v1: entry beyond the extreme of the bar, stop behind its other one.
LEMMA LineProper ==
    ASSUME NEW s \in Strategies, s = "trendline-break-test-v1",
           NEW cs, Series(cs, Params[s].tick_size), NEW sig \in Line!Analyze(cs, Params[s])
    PROVE  Proper(s, cs, sig)
<1> DEFINE p == Params[s]
           bar == LastOf(cs)
<1>1. PICK d \in Line!Trends(cs, p) : sig \in Line!Prices(cs, d, p)
  BY DEF Line!Analyze
<1> DEFINE entry == Ahead(d, Lead(d, bar), p.entry_offset_ticks * p.tick_size)
           stop == Ahead(d, Rear(d, bar), -p.tick_size)
<1>2. d \in Sides
  <2>1. {e \in {"long", "short"} : Line!Qualifies(cs, e, p)} \subseteq Sides
    BY DEF Sides
  <2>2. Line!Trends(cs, p) \subseteq Sides
    BY <2>1 DEF Line!Trends, Sides
  <2> QED BY <1>1, <2>2
<1>3. sig \in MultipleSignal(d, entry, stop, p)
  BY <1>1, LineSame DEF Line!Prices
<1>4. entry \in Int /\ Beyond(d, entry, bar.close) /\ Beyond(d, entry, Rear(d, bar))
  BY <1>2, EntryBeyondBar
<1>5. stop \in Int /\ Beyond(d, entry, stop)
  <2> HIDE DEF entry
  <2> QED BY <1>2, <1>4, Numbers, LastBar DEF Ahead, Rear, Beyond, Sign, Sides
<1> HIDE DEF p, entry, stop
<1>6. sig.direction = d /\ sig.entry = entry /\ Whole(sig) /\ SidesHold(sig) /\ Pays(s, sig)
  BY <1>2, <1>3, <1>4, <1>5, MultipleBracket DEF p
<1> QED
  BY <1>4, <1>6 DEF Proper, Waits

\* balance_area_breakout_v1: the stop is inside the area the bar closed out of,
\* and the fraction of the mean range it is back in there is none below zero.
LEMMA BalanceSame ==
    /\ \A cs : Balance!LastOf(cs) = LastOf(cs)
    /\ \A d, c : Balance!Lead(d, c) = Lead(d, c) /\ Balance!Rear(d, c) = Rear(d, c)
    /\ \A d, x, by : Balance!Ahead(d, x, by) = Ahead(d, x, by)
    /\ \A d, e, o, p : Balance!MultipleSignal(d, e, o, p) = MultipleSignal(d, e, o, p)
<1>1. \A d, x, by : Balance!Ahead(d, x, by) = Ahead(d, x, by)
  BY DEF Balance!Ahead, Ahead, Balance!Sign, Sign
<1>2. \A d, e, o, t, p : Balance!SignalOf(d, e, o, t, p) = SignalOf(d, e, o, t, p)
  BY DEF Balance!SignalOf, SignalOf, Balance!PaysEnough, PaysEnough, Balance!Abs, Abs
<1>3. \A d, e, o, p : Balance!MultipleSignal(d, e, o, p) = MultipleSignal(d, e, o, p)
  BY <1>1, <1>2 DEF Balance!MultipleSignal, MultipleSignal, Balance!Abs, Abs, Balance!Part, Part
<1> QED
  BY <1>1, <1>3 DEF Balance!LastOf, LastOf, Balance!Lead, Lead, Balance!Rear, Rear

\* The average true range of the instance.
LEMMA BalanceAtr == \A cs, period : Balance!Atr(cs, period) = Atr(cs, period)
BY Zenon DEF Balance!Atr, Atr, Balance!LastBars, LastBars, Balance!TrueRange, TrueRange, Balance!Larger, Larger,
   Balance!RangeOf, RangeOf, Balance!Abs, Abs, MapThenSumSet, MapThenFoldSet,
   Balance!MapThenSumSet, Balance!MapThenFoldSet

\* balance_area_breakout_v1: the stop is back inside the area, the entry beyond
\* the bar that closed out of it.
LEMMA BalanceProper ==
    ASSUME NEW s \in Strategies, s = "balance-area-breakout-v1",
           NEW cs, Series(cs, Params[s].tick_size), NEW sig \in Balance!Analyze(cs, Params[s])
    PROVE  Proper(s, cs, sig)
<1> DEFINE p == Params[s]
           bar == LastOf(cs)
           atr == Atr(cs, p.atr_period)
           area == Balance!AreaOf(cs, p)
<1>1. PICK d \in Balance!Directions(bar, area) :
          /\ sig \in Balance!Prices(bar, d, area, atr, p)
          /\ Len(cs) >= p.balance_lookback_candles + 1 /\ atr # Off
  BY BalanceSame, BalanceAtr DEF Balance!Analyze
<1> DEFINE entry == Ahead(d, Lead(d, bar), p.entry_offset_ticks * p.tick_size)
           buffer == Part(p.stop_buffer_atr_mult, atr)
           stop == Ahead(d, Lead(d, area), -buffer)
<1>2. d \in Sides /\ Beyond(d, bar.close, Lead(d, area))
  BY <1>1 DEF Balance!Directions, Sides, Balance!Beyond, Beyond, Balance!Sign, Sign, Balance!Lead, Lead
<1>3. sig \in MultipleSignal(d, entry, stop, p)
  BY <1>1, BalanceSame DEF Balance!Prices, Balance!Part, Part
<1>4. entry \in Int /\ Beyond(d, entry, bar.close)
  BY <1>2, EntryBeyondBar
<1>5. buffer \in Nat
  <2>1. p.stop_buffer_atr_mult \in Nat
    BY ParamsAssumption
  <2>2. atr \in Nat
    BY <1>1, Numbers, AtrNat
  <2> HIDE DEF atr
  <2> QED BY <2>1, <2>2, PartNat
<1>6. area.high \in Int /\ area.low \in Int
  <2> DEFINE bars == (Len(cs) - p.balance_lookback_candles) .. (Len(cs) - 1)
  <2>1. p.balance_lookback_candles \in Nat \ {0}
    BY ParamsAssumption
  <2>2. bars \in SUBSET (1 .. Len(cs)) /\ bars # {}
    <3> DEFINE k == p.balance_lookback_candles
               n == Len(cs)
    <3>1. k \in Nat \ {0} /\ n \in Nat /\ n >= k + 1
      BY <1>1, <2>1, BarsOf
    <3> HIDE DEF k, n
    <3>2. (n - k) .. (n - 1) \in SUBSET (1 .. n) /\ n - k \in (n - k) .. (n - 1)
      BY <3>1
    <3> QED BY <3>2 DEF k, n
  <2>3. area = [high |-> Max(Highs(cs, bars)), low |-> Min(Lows(cs, bars))]
    BY DEF Balance!AreaOf, Balance!AreaBars, Balance!Highs, Balance!Lows, Balance!Max, Balance!Min,
       Highs, Lows, Max, Min
  <2> HIDE DEF bars, area
  <2> QED BY <2>2, <2>3, HighsAndLows
<1>7. stop \in Int /\ Beyond(d, entry, stop)
  <2> HIDE DEF entry, buffer, area
  <2> QED BY <1>2, <1>4, <1>5, <1>6, LastBar DEF Ahead, Lead, Beyond, Sign, Sides
<1> HIDE DEF p, entry, stop
<1>8. sig.direction = d /\ sig.entry = entry /\ Whole(sig) /\ SidesHold(sig) /\ Pays(s, sig)
  BY <1>2, <1>3, <1>4, <1>7, MultipleBracket DEF p
<1> QED
  BY <1>4, <1>8 DEF Proper, Waits

\* failure_test_long_v1: the stop is under the lowest low of the probe; a stop
\* entry the market has passed is dropped.
LEMMA FailureSame ==
    /\ \A cs : Failure!LastOf(cs) = LastOf(cs)
    /\ \A cs, bars : Failure!Highs(cs, bars) = Highs(cs, bars) /\ Failure!Lows(cs, bars) = Lows(cs, bars)
    /\ \A S : Failure!Max(S) = Max(S) /\ Failure!Min(S) = Min(S)
    /\ \A f, x : Failure!Part(f, x) = Part(f, x)
    /\ \A x, y : Failure!Larger(x, y) = Larger(x, y) /\ Failure!Smaller(x, y) = Smaller(x, y)
    /\ \A d, e, o, t, p : Failure!SignalOf(d, e, o, t, p) = SignalOf(d, e, o, t, p)
BY DEF Failure!LastOf, LastOf, Failure!Highs, Highs, Failure!Lows, Lows, Failure!Max, Max, Failure!Min, Min,
   Failure!Part, Part, Failure!Larger, Larger, Failure!Smaller, Smaller,
   Failure!SignalOf, SignalOf, Failure!PaysEnough, PaysEnough, Failure!Abs, Abs
\* The bracket of the instance.
LEMMA FailureMultiple ==
    \A d, e, o, p : Failure!MultipleSignal(d, e, o, p) = MultipleSignal(d, e, o, p)
BY FailureSame DEF Failure!MultipleSignal, MultipleSignal, Failure!Ahead, Ahead, Failure!Sign, Sign,
   Failure!Abs, Abs
\* The average true range of the instance.
LEMMA FailureAtr == \A cs, period : Failure!Atr(cs, period) = Atr(cs, period)
BY Zenon DEF Failure!Atr, Atr, Failure!LastBars, LastBars, Failure!TrueRange, TrueRange, Failure!Larger, Larger,
   Failure!RangeOf, RangeOf, Failure!Abs, Abs, MapThenSumSet, MapThenFoldSet,
   Failure!MapThenSumSet, Failure!MapThenFoldSet

\* The probe is of bars of the series, so that its extreme is a price.
LEMMA ProbePrice ==
    ASSUME NEW cs, NEW tick, Series(cs, tick), NEW level, Failure!ProbeRun(cs, level) # {}
    PROVE  Failure!ExtremeOf(cs, level) \in Int
<1> DEFINE run == Failure!ProbeRun(cs, level)
           n == Len(cs)
           bars == Min(run) .. n
<1>1. n \in Nat /\ n >= 1
  BY BarsOf
<1>2. run \in SUBSET (1 .. n)
  <2>1. \A end, l : Failure!RunUnder(cs, end, l) \subseteq 1 .. end
    BY DEF Failure!RunUnder
  <2>2. run \subseteq 1 .. n \/ run \subseteq 1 .. (n - 1)
    BY <2>1 DEF Failure!ProbeRun
  <2> HIDE DEF run, n
  <2> QED BY <1>1, <2>2
<1>3. Min(run) \in 1 .. n
  <2> HIDE DEF run, n
  <2>1. run \in SUBSET Nat
    BY <1>1, <1>2
  <2> QED BY <1>2, <2>1, MinIn DEF run
<1> HIDE DEF run, n
<1>4. bars \in SUBSET (1 .. n) /\ bars # {}
  BY <1>1, <1>3
<1>5. Failure!ExtremeOf(cs, level) = Min(Lows(cs, bars))
  BY FailureSame DEF Failure!ExtremeOf, run, n
<1> QED
  BY <1>4, <1>5, HighsAndLows DEF n

\* failure_test_long_v1: the stop is below the low of the probe of the level.
LEMMA FailureProper ==
    ASSUME NEW s \in Strategies, s = "failure-test-long-v1",
           NEW cs, Series(cs, Params[s].tick_size), NEW sig \in Failure!Analyze(cs, Params[s])
    PROVE  Proper(s, cs, sig)
<1> DEFINE p == Params[s]
           bar == LastOf(cs)
           atr == Atr(cs, p.atr_period)
<1>1. PICK level \in Failure!SupportLevels(cs, p) :
          /\ Failure!Recovers(cs, level, p)
          /\ sig \in Failure!Prices(cs, level, p)
          /\ sig.order_type = "stop" => bar.close < sig.entry
          /\ atr # Off
  BY FailureSame, FailureAtr DEF Failure!Analyze, Failure!Primed
<1> DEFINE entry == IF p.entry_order_type = "market_next_open" THEN bar.close
                    ELSE bar.high + p.entry_offset_ticks * p.tick_size
           jitter == Part(p.stop_jitter_atr_mult, atr)
           stop == Failure!ExtremeOf(cs, level) - p.tick_size - jitter \div 2
<1>2. sig \in MultipleSignal("long", entry, stop, p) /\ entry - stop > 0
  BY <1>1, FailureSame, FailureMultiple, FailureAtr DEF Failure!Prices
<1>3. entry \in Int
  BY Numbers, LastBar
<1>4. stop \in Int
  <2>1. jitter \in Nat
    <3>1. p.stop_jitter_atr_mult \in Nat
      BY ParamsAssumption
    <3>2. atr \in Nat
      BY <1>1, Numbers, AtrNat
    <3> HIDE DEF atr
    <3> QED BY <3>1, <3>2, PartNat
  <2>2. Failure!ExtremeOf(cs, level) \in Int
    BY <1>1, ProbePrice DEF Failure!Recovers
  <2> HIDE DEF jitter
  <2> QED BY <2>1, <2>2, Numbers
<1> HIDE DEF p, entry, stop
<1>5. Beyond("long", entry, stop) /\ "long" \in Sides
  BY <1>2, <1>3, <1>4 DEF Beyond, Sign, Sides
<1>6. sig.direction = "long" /\ sig.entry = entry /\ Whole(sig) /\ SidesHold(sig) /\ Pays(s, sig)
  BY <1>2, <1>3, <1>4, <1>5, MultipleBracket DEF p
<1>7. Waits(cs, sig)
  BY <1>1, <1>3, <1>6, LastBar DEF Waits, Beyond, Sign
<1> QED
  BY <1>6, <1>7 DEF Proper

\* pullback_trend_v1 and low2_m2s_short_v1 ask nothing of what their risk earns:
\* their target is as many whole risks away as the risk manager asks for.
LEMMA WholeRisks ==
    ASSUME NEW s \in Strategies, s \in Unasked, NEW risk \in Nat \ {0}
    PROVE  LET part == Part(Params[s].target_r_multiple, risk)
           IN  part \in Nat \ {0} /\ part * 100 >= RiskOf[s].min_risk_reward * risk
<1> DEFINE f == Params[s].target_r_multiple
           q == f \div 1000
           asked == RiskOf[s].min_risk_reward
           part == Part(f, risk)
<1>1. f \in Nat /\ asked <= 100 * q /\ asked \in Nat \ {0}
  BY ParamsAssumption, Numbers DEF Unasked
<1>2. q \in Nat /\ 1000 * q <= f
  <2> HIDE DEF f
  <2> QED BY <1>1
<1>3. part \in Nat /\ q * risk <= part
  <2> HIDE DEF f, q
  <2> QED BY <1>1, <1>2, PartNat, PartWhole
<1> HIDE DEF f, q, asked, part
<1>4. q \in Nat \ {0} /\ q * risk \in Nat \ {0}
  <2>1. q \in Nat \ {0}
    BY <1>1, <1>2
  <2> QED BY <2>1, ProductPositive
<1>5. asked * risk <= (100 * q) * risk
  BY <1>1, <1>2, ProductMonotone
<1>6. (100 * q) * risk = 100 * (q * risk)
  <2>1. \A m, n \in Nat : (100 * m) * n = 100 * (m * n)
    OBVIOUS
  <2> QED BY <1>2, <2>1
<1>7. asked * risk \in Nat
  BY <1>1, ProductNat
<1>8. part \in Nat \ {0} /\ part * 100 >= asked * risk
  <2>1. \A r, m, n \in Nat : r >= m /\ n <= 100 * m => r * 100 >= n
    OBVIOUS
  <2> HIDE DEF part
  <2> QED BY <1>3, <1>4, <1>5, <1>6, <1>7, <2>1
<1> QED
  BY <1>8 DEF f, asked, part

\* pullback_trend_v1, which leaves the reward to the risk manager: its multiple of the risk
\* is at least what that asks, in whole risks.
LEMMA PullbackProper ==
    ASSUME NEW s \in Strategies, s = "pullback-trend-v1",
           NEW cs, Series(cs, Params[s].tick_size), NEW sig \in Pullback!Analyze(cs, Params[s])
    PROVE  Proper(s, cs, sig)
<1> DEFINE p == Params[s]
<1>1. PICK i \in Pullback!SignalBars(cs, p) :
          sig = Pullback!PullbackSignal(cs, i, p) /\ LastOf(cs).close < sig.entry
  BY DEF Pullback!Analyze, Pullback!LastOf, LastOf
<1>2. i \in 1 .. Len(cs)
  <2>1. i \in Pullback!Larger(Len(cs) - p.max_pullback_candles - 2, 1) + 1 .. Len(cs)
    BY <1>1 DEF Pullback!SignalBars
  <2>2. p.max_pullback_candles \in Nat /\ Len(cs) \in Nat
    BY ParamsAssumption, BarsOf DEF Unasked
  <2> HIDE DEF p
  <2> QED BY <2>1, <2>2 DEF Pullback!Larger
<1> DEFINE in == p.entry_offset_ticks * p.tick_size
           out == p.stop_offset_ticks * p.tick_size
           entry == cs[i].high + in
           stop == cs[i].low - out
           part == Part(p.target_r_multiple, entry - stop)
<1>3. sig = [direction |-> "long", entry |-> entry, stop |-> stop, target |-> entry + part,
             order_type |-> p.entry_order_type]
  BY <1>1 DEF Pullback!PullbackSignal, Pullback!Part, Part
<1>4. entry \in Int /\ stop \in Int /\ entry - stop \in Nat \ {0}
  <2>1. p.stop_offset_ticks \in Nat /\ p.tick_size \in Nat
    BY ParamsAssumption DEF Unasked
  <2>2. out \in Nat
    BY <2>1, ProductNat
  <2>3. /\ in \in Nat \ {0} /\ cs[i].high \in Int /\ cs[i].low \in Int
        /\ cs[i].low <= cs[i].high
    BY <1>2, Numbers, BarsOf
  <2>4. \A h, l \in Int, a \in Nat \ {0}, b \in Nat :
            l <= h => h + a \in Int /\ l - b \in Int /\ (h + a) - (l - b) \in Nat \ {0}
    OBVIOUS
  <2> HIDE DEF in, out, p
  <2> QED BY <2>2, <2>3, <2>4
<1>5. part \in Nat \ {0} /\ part * 100 >= RiskOf[s].min_risk_reward * (entry - stop)
  <2> HIDE DEF entry, stop
  <2> QED BY <1>4, WholeRisks DEF Unasked
<1> HIDE DEF entry, stop, part, p
<1>6. Whole(sig) /\ SidesHold(sig)
  BY <1>3, <1>4, <1>5 DEF Whole, SidesHold
<1>7. Pays(s, sig)
  <2>1. RiskDistance(sig) = entry - stop /\ RewardDistance(sig) = part
    BY <1>3, <1>4, <1>5 DEF RiskDistance, RewardDistance, Abs
  <2> QED BY <1>5, <2>1 DEF Pays
<1>8. Waits(cs, sig)
  BY <1>1, <1>3, <1>4, LastBar DEF Waits, Beyond, Sign
<1> QED
  BY <1>6, <1>7, <1>8 DEF Proper

\* low2_m2s_short_v1, the same on the other side.
LEMMA LowTwoProper ==
    ASSUME NEW s \in Strategies, s = "low2-m2s-short-v1",
           NEW cs, Series(cs, Params[s].tick_size), NEW sig \in LowTwo!Analyze(cs, Params[s])
    PROVE  Proper(s, cs, sig)
<1> DEFINE p == Params[s]
<1>1. PICK i \in LowTwo!SignalBars(cs, p) :
          sig = LowTwo!PullbackSignal(cs, i, p) /\ LastOf(cs).close > sig.entry
  BY DEF LowTwo!Analyze, LowTwo!LastOf, LastOf
<1>2. i \in 1 .. Len(cs)
  <2>1. i \in LowTwo!Larger(Len(cs) - p.max_pullback_candles - 2, 1) + 1 .. Len(cs)
    BY <1>1 DEF LowTwo!SignalBars
  <2>2. p.max_pullback_candles \in Nat /\ Len(cs) \in Nat
    BY ParamsAssumption, BarsOf DEF Unasked
  <2> HIDE DEF p
  <2> QED BY <2>1, <2>2 DEF LowTwo!Larger
<1> DEFINE in == p.entry_offset_ticks * p.tick_size
           out == p.stop_offset_ticks * p.tick_size
           entry == cs[i].low - in
           stop == cs[i].high + out
           part == Part(p.target_r_multiple, stop - entry)
<1>3. sig = [direction |-> "short", entry |-> entry, stop |-> stop, target |-> entry - part,
             order_type |-> p.entry_order_type]
  BY <1>1 DEF LowTwo!PullbackSignal, LowTwo!Part, Part
<1>4. entry \in Int /\ stop \in Int /\ stop - entry \in Nat \ {0}
  <2>1. p.stop_offset_ticks \in Nat /\ p.tick_size \in Nat
    BY ParamsAssumption DEF Unasked
  <2>2. out \in Nat
    BY <2>1, ProductNat
  <2>3. /\ in \in Nat \ {0} /\ cs[i].high \in Int /\ cs[i].low \in Int
        /\ cs[i].low <= cs[i].high
    BY <1>2, Numbers, BarsOf
  <2>4. \A h, l \in Int, a \in Nat \ {0}, b \in Nat :
            l <= h => l - a \in Int /\ h + b \in Int /\ (h + b) - (l - a) \in Nat \ {0}
    OBVIOUS
  <2> HIDE DEF in, out, p
  <2> QED BY <2>2, <2>3, <2>4
<1>5. part \in Nat \ {0} /\ part * 100 >= RiskOf[s].min_risk_reward * (stop - entry)
  <2> HIDE DEF entry, stop
  <2> QED BY <1>4, WholeRisks DEF Unasked
<1> HIDE DEF entry, stop, part, p
<1>6. Whole(sig) /\ SidesHold(sig)
  BY <1>3, <1>4, <1>5 DEF Whole, SidesHold
<1>7. Pays(s, sig)
  <2>1. RiskDistance(sig) = stop - entry /\ RewardDistance(sig) = part
    BY <1>3, <1>4, <1>5 DEF RiskDistance, RewardDistance, Abs
  <2> QED BY <1>5, <2>1 DEF Pays
<1>8. Waits(cs, sig)
  BY <1>1, <1>3, <1>4, LastBar DEF Waits, Beyond, Sign
<1> QED
  BY <1>6, <1>7, <1>8 DEF Proper

\* breakout_first_pullback_v1: the stop is under a pivot before the breakout, the
\* target the move repeated or a multiple of the risk, and above the entry.
LEMMA BreakoutSame ==
    /\ \A cs : Breakout!LastOf(cs) = LastOf(cs)
    /\ \A cs, bars : Breakout!Highs(cs, bars) = Highs(cs, bars) /\ Breakout!Lows(cs, bars) = Lows(cs, bars)
    /\ \A S : Breakout!Max(S) = Max(S) /\ Breakout!Min(S) = Min(S)
    /\ \A f, x : Breakout!Part(f, x) = Part(f, x)
    /\ \A x, y : Breakout!Larger(x, y) = Larger(x, y) /\ Breakout!Smaller(x, y) = Smaller(x, y)
    /\ \A d, e, o, t, p : Breakout!SignalOf(d, e, o, t, p) = SignalOf(d, e, o, t, p)
BY DEF Breakout!LastOf, LastOf, Breakout!Highs, Highs, Breakout!Lows, Lows, Breakout!Max, Max, Breakout!Min, Min,
   Breakout!Part, Part, Breakout!Larger, Larger, Breakout!Smaller, Smaller,
   Breakout!SignalOf, SignalOf, Breakout!PaysEnough, PaysEnough, Breakout!Abs, Abs

\* breakout_first_pullback_v1: the stop is behind the pullback, which the entry is beyond.
LEMMA BreakoutProper ==
    ASSUME NEW s \in Strategies, s = "breakout-first-pullback-v1",
           NEW cs, Series(cs, Params[s].tick_size), NEW sig \in Breakout!Analyze(cs, Params[s])
    PROVE  Proper(s, cs, sig)
<1> DEFINE p == Params[s]
           n == Len(cs)
           bar == LastOf(cs)
<1>1. PICK b \in Breakout!Breakouts(cs, p) : sig \in Breakout!Prices(cs, b, p)
  BY DEF Breakout!Analyze
<1>2. n \in Nat /\ n >= 1 /\ bar = cs[n]
  BY BarsOf DEF LastOf
<1>3. b \in 2 .. n
  <2>1. /\ p.level_lookback_candles \in Nat \ {0} /\ p.pullback_min_candles \in Nat
        /\ p.pullback_max_candles \in Nat
    BY ParamsAssumption
  <2>2. b \in Larger(1, n - p.pullback_max_candles) .. (n - p.pullback_min_candles)
    BY <1>1, BreakoutSame DEF Breakout!Breakouts
  <2>3. b > p.level_lookback_candles
    BY <1>1 DEF Breakout!Breakouts, Breakout!IsBreakout
  <2> HIDE DEF p, n
  <2> QED BY <1>2, <2>1, <2>2, <2>3 DEF Larger
<1> DEFINE pivots == Larger(1, b - p.pivot_lookback_candles) .. (b - 1)
           pivot == Max(Lows(cs, pivots))
           high == Max(Highs(cs, b .. n))
           entry == bar.high + p.entry_offset_ticks * p.tick_size
           stop == pivot - p.tick_size
           far == entry + Part(p.target_r_multiple, entry - stop)
           target == Smaller(high + (high - cs[b].low), far)
<1>4. sig \in SignalOf("long", entry, stop, target, p) /\ entry - stop > 0 /\ target > entry
  BY <1>1, <1>2, BreakoutSame DEF Breakout!Prices, Breakout!Pivot, Breakout!Impulse
<1>5. pivot \in Int
  <2>1. p.pivot_lookback_candles \in Nat \ {0}
    BY ParamsAssumption
  <2>2. pivots \in SUBSET (1 .. n) /\ pivots # {}
    <3> HIDE DEF p, n
    <3>1. b - 1 \in pivots /\ \A i \in pivots : i \in 1 .. n
      BY <1>2, <1>3, <2>1 DEF Larger
    <3> HIDE DEF pivots
    <3> QED BY <3>1
  <2> HIDE DEF pivots
  <2> QED BY <2>2, HighsAndLows
<1>6. high \in Int /\ cs[b].low \in Int
  <2>1. b .. n \in SUBSET (1 .. n) /\ b .. n # {}
    <3> HIDE DEF n
    <3> QED BY <1>2, <1>3
  <2>2. high \in Int
    BY <2>1, HighsAndLows
  <2> QED BY <1>3, <2>2, BarsOf
<1>7. entry \in Int /\ stop \in Int
  <2> HIDE DEF pivot
  <2> QED BY <1>5, Numbers, LastBar
<1>8. far \in Int
  <2>1. p.target_r_multiple \in Nat
    BY ParamsAssumption
  <2> HIDE DEF entry, stop
  <2>2. entry - stop \in Nat
    BY <1>4, <1>7
  <2>3. Part(p.target_r_multiple, entry - stop) \in Nat
    BY <2>1, <2>2, PartNat
  <2> QED BY <1>7, <2>3
<1>9. target \in Int
  <2> HIDE DEF high, far
  <2> QED BY <1>6, <1>8 DEF Smaller
<1>10. Beyond("long", entry, bar.close)
  BY Numbers, LastBar DEF Beyond, Sign
<1> HIDE DEF entry, stop, target, p
<1>11. Beyond("long", entry, stop) /\ ~ Beyond("long", entry, target) /\ "long" \in Sides
  BY <1>4, <1>7, <1>9 DEF Beyond, Sign, Sides
<1>12. sig.direction = "long" /\ sig.entry = entry /\ Whole(sig) /\ SidesHold(sig) /\ Pays(s, sig)
  BY <1>4, <1>7, <1>9, <1>11, PaidBracket DEF p
<1> QED
  BY <1>10, <1>12 DEF Proper, Waits

\* value_area_reentry_v1: the stop is out of the near edge of the value area, the
\* target its far edge, and the area is between two prices.
LEMMA ValueSame ==
    /\ \A cs : Value!LastOf(cs) = LastOf(cs)
    /\ \A d, c : Value!Lead(d, c) = Lead(d, c) /\ Value!Rear(d, c) = Rear(d, c)
    /\ \A d, x, by : Value!Ahead(d, x, by) = Ahead(d, x, by)
    /\ \A d, x, y : Value!Beyond(d, x, y) = Beyond(d, x, y)
    /\ \A cs, bars : Value!Highs(cs, bars) = Highs(cs, bars) /\ Value!Lows(cs, bars) = Lows(cs, bars)
    /\ \A S : Value!Max(S) = Max(S) /\ Value!Min(S) = Min(S)
    /\ \A f, x : Value!Part(f, x) = Part(f, x)
    /\ \A x, y : Value!Larger(x, y) = Larger(x, y) /\ Value!Smaller(x, y) = Smaller(x, y)
    /\ \A d, e, o, t, p : Value!SignalOf(d, e, o, t, p) = SignalOf(d, e, o, t, p)
BY DEF Value!LastOf, LastOf, Value!Lead, Lead, Value!Rear, Rear, Value!Ahead, Ahead, Value!Sign, Sign,
   Value!Beyond, Beyond, Value!Highs, Highs, Value!Lows, Lows, Value!Max, Max, Value!Min, Min,
   Value!Part, Part, Value!Larger, Larger, Value!Smaller, Smaller,
   Value!SignalOf, SignalOf, Value!PaysEnough, PaysEnough, Value!Abs, Abs
\* The average true range of the instance.
LEMMA ValueAtr == \A cs, period : Value!Atr(cs, period) = Atr(cs, period)
BY Zenon DEF Value!Atr, Atr, Value!LastBars, LastBars, Value!TrueRange, TrueRange, Value!Larger, Larger,
   Value!RangeOf, RangeOf, Value!Abs, Abs, MapThenSumSet, MapThenFoldSet,
   Value!MapThenSumSet, Value!MapThenFoldSet

\* The numbers of an interval.
LEMMA IntervalInts ==
    ASSUME NEW i \in Int, NEW j \in Int
    PROVE  IsFiniteSet(i .. j) /\ \A x \in i .. j : x \in Int
<1>1. IsFiniteSet(i .. j)
  BY FS_Interval
<1> QED BY <1>1

\* The last of the buckets.
LEMMA TopOf == ASSUME NEW top \in Nat PROVE Max(0 .. top) \in 0 .. top
<1>1. 0 .. top \in SUBSET (0 .. top) /\ 0 .. top # {}
  OBVIOUS
<1> QED BY <1>1, MaxIn

\* There is a point of control: a densest bucket, of those one nearest to the
\* middle, of those the lowest.
LEMMA PointIn ==
    ASSUME NEW top \in Nat, NEW prints \in [0 .. top -> Nat]
    PROVE  Value!PointOfControl(prints) \in DOMAIN prints
<1> DEFINE D == DOMAIN prints
           middle == Max(D) \div 2
           Far(b) == Abs(b - middle)
           values == {prints[b] : b \in D}
           dense == {b \in D : prints[b] = Max(values)}
           fars == {Far(b) : b \in dense}
           near == {b \in dense : Far(b) = Min(fars)}
<1>0. D = 0 .. top /\ \A b \in D : b \in Nat /\ prints[b] \in Nat
  OBVIOUS
<1>1. Max(values) \in values /\ \A b \in D : prints[b] <= Max(values)
  <2>1. [b \in D |-> prints[b]] \in Surjection(D, values)
    BY DEF Surjection
  <2>2. IsFiniteSet(values)
    <3>1. IsFiniteSet(D)
      BY <1>0, FS_Interval
    <3> QED BY <2>1, <3>1, FS_Surjection
  <2>3. values # {} /\ \A x \in values : x \in Int
    BY <1>0
  <2>4. \A b \in D : prints[b] \in values
    OBVIOUS
  <2> HIDE DEF values
  <2> QED BY <2>2, <2>3, <2>4, ExtremesIn
<1>2. dense # {}
  BY <1>1
<1>3. \A b \in D : Far(b) \in Nat
  <2>1. Max(D) \in Nat
    BY <1>0, TopOf
  <2>2. middle \in Int
    BY <2>1
  <2> HIDE DEF middle
  <2> QED BY <1>0, <2>2 DEF Abs
<1> HIDE DEF middle, D
<1>4. Min(fars) \in fars /\ \A b \in dense : Min(fars) <= Far(b)
  <2>1. fars \in SUBSET Nat /\ fars # {} /\ \A b \in dense : Far(b) \in fars
    BY <1>2, <1>3
  <2> HIDE DEF fars, dense
  <2> QED BY <2>1, MinIn
<1>5. Min(near) \in near /\ \A b \in near : Min(near) <= b
  <2>1. near # {}
    BY <1>4
  <2>2. near \in SUBSET Nat
    <3>1. \A b \in near : b \in D
      OBVIOUS
    <3> HIDE DEF near
    <3> QED BY <1>0, <3>1
  <2> HIDE DEF near
  <2> QED BY <2>1, <2>2, MinIn
<1> DEFINE b0 == Min(near)
           Best(b) == \A c \in D :
               \/ prints[b] > prints[c]
               \/ prints[b] = prints[c] /\ (Far(b) < Far(c) \/ (Far(b) = Far(c) /\ b <= c))
<1>6. b0 \in D /\ Best(b0)
  <2>1. /\ b0 \in D /\ prints[b0] = Max(values) /\ Far(b0) = Min(fars)
        /\ \A b \in near : b0 <= b
    BY <1>5
  <2> HIDE DEF b0
  <2> SUFFICES ASSUME NEW c \in D
               PROVE  \/ prints[b0] > prints[c]
                      \/ prints[b0] = prints[c]
                           /\ (Far(b0) < Far(c) \/ (Far(b0) = Far(c) /\ b0 <= c))
    BY <2>1
  <2>2. prints[c] <= prints[b0] /\ prints[c] \in Nat /\ prints[b0] \in Nat
    BY <1>0, <1>1, <2>1
  <2>3. CASE prints[c] = prints[b0]
    <3>1. c \in dense
      BY <2>1, <2>3
    <3>2. Far(b0) <= Far(c) /\ Far(b0) \in Nat /\ Far(c) \in Nat
      BY <1>3, <1>4, <2>1, <3>1
    <3>3. Far(c) = Far(b0) => b0 <= c
      BY <2>1, <3>1
    <3> HIDE DEF Far
    <3> QED BY <2>3, <3>2, <3>3
  <2> QED BY <2>2, <2>3
<1>7. Value!PointOfControl(prints) = CHOOSE b \in D : Best(b)
  BY Zenon DEF Value!PointOfControl, Value!Abs, Abs, Value!Max, Max, middle, D
<1> HIDE DEF Best, b0
<1> QED
  BY <1>6, <1>7 DEF D

Area == [lo : Int, hi : Int]

\* What a step of the growth makes of an area is an area.
LEMMA GrownArea ==
    ASSUME NEW top \in Nat, NEW prints \in [0 .. top -> Nat], NEW area \in Area, NEW p
    PROVE  Value!Grown(prints, area, p) \in Area
<1> DEFINE above == (area.hi + 1) .. Smaller(area.hi + 2, Max(DOMAIN prints))
           below == Larger(area.lo - 2, 0) .. (area.lo - 1)
<1>1. \/ Value!Grown(prints, area, p) = area
      \/ above # {} /\ Value!Grown(prints, area, p) = [area EXCEPT !.hi = Max(above)]
      \/ below # {} /\ Value!Grown(prints, area, p) = [area EXCEPT !.lo = Min(below)]
  BY ValueSame DEF Value!Grown
<1>2. area.lo \in Int /\ area.hi \in Int
  BY DEF Area
<1>3. Max(DOMAIN prints) \in Int
  <2>1. DOMAIN prints = 0 .. top
    OBVIOUS
  <2> QED BY <2>1, TopOf
<1>4. above # {} => Max(above) \in Int
  <2>1. area.hi + 1 \in Int /\ Smaller(area.hi + 2, Max(DOMAIN prints)) \in Int
    BY <1>2, <1>3 DEF Smaller
  <2>2. IsFiniteSet(above) /\ \A x \in above : x \in Int
    BY <2>1, IntervalInts
  <2> HIDE DEF above
  <2> QED BY <2>2, ExtremesIn
<1>5. below # {} => Min(below) \in Int
  <2>1. area.lo - 1 \in Int /\ Larger(area.lo - 2, 0) \in Int
    BY <1>2 DEF Larger
  <2>2. IsFiniteSet(below) /\ \A x \in below : x \in Int
    BY <2>1, IntervalInts
  <2> HIDE DEF below
  <2> QED BY <2>2, ExtremesIn
<1> HIDE DEF above, below
<1> QED
  BY <1>1, <1>4, <1>5 DEF Area

\* The function that grows it, as the module defines it.
Grows(g, prints, p, m) ==
    g = [n \in 0 .. m |->
            IF n = 0 THEN [lo |-> Value!PointOfControl(prints), hi |-> Value!PointOfControl(prints)]
            ELSE Value!Grown(prints, g[n - 1], p)]
\* There is such a function.
LEMMA GrowthExists ==
    ASSUME NEW prints, NEW p, NEW m \in Nat
    PROVE  \E g : Grows(g, prints, p, m)
<1> DEFINE B == {k \in Nat : ~ \E g : Grows(g, prints, p, k)}
<1> SUFFICES ASSUME B # {} PROVE FALSE
  OBVIOUS
<1>1. PICK k \in B : \A i \in B : k <= i
  <2>1. B \in SUBSET Nat
    OBVIOUS
  <2> HIDE DEF B
  <2> QED BY <2>1, MinIn
<1>2. k \in Nat /\ ~ \E g : Grows(g, prints, p, k)
  BY <1>1
<1>3. CASE k = 0
  <2> DEFINE z == [lo |-> Value!PointOfControl(prints), hi |-> Value!PointOfControl(prints)]
             g == [n \in 0 .. k |-> z]
  <2>1. \A n \in 0 .. k : n = 0
    BY <1>3
  <2>2. g = [n \in 0 .. k |-> IF n = 0 THEN z ELSE Value!Grown(prints, g[n - 1], p)]
    BY <2>1
  <2>3. Grows(g, prints, p, k)
    BY <2>2 DEF Grows
  <2> QED BY <1>2, <2>3
<1>4. CASE k # 0
  <2>1. k - 1 \in Nat /\ k - 1 \notin B
    BY <1>1, <1>2, <1>4
  <2>2. PICK f : Grows(f, prints, p, k - 1)
    BY <2>1
  <2> DEFINE z == [lo |-> Value!PointOfControl(prints), hi |-> Value!PointOfControl(prints)]
             g == [n \in 0 .. k |-> IF n = k THEN Value!Grown(prints, f[k - 1], p) ELSE f[n]]
  <2>3. \A n \in 0 .. (k - 1) : f[n] = IF n = 0 THEN z ELSE Value!Grown(prints, f[n - 1], p)
    BY <2>2 DEF Grows
  <2> HIDE DEF z
  <2>4. \A n \in 0 .. k : g[n] = IF n = 0 THEN z ELSE Value!Grown(prints, g[n - 1], p)
    <3> SUFFICES ASSUME NEW n \in 0 .. k
                 PROVE  g[n] = IF n = 0 THEN z ELSE Value!Grown(prints, g[n - 1], p)
      OBVIOUS
    <3>1. CASE n = k
      <4>1. g[n - 1] = f[k - 1] /\ g[n] = Value!Grown(prints, f[k - 1], p) /\ n # 0
        BY <1>2, <1>4, <3>1
      <4> QED BY <4>1
    <3>2. CASE n # k
      <4>1. n \in 0 .. (k - 1) /\ g[n] = f[n]
        BY <1>2, <3>2
      <4>2. n # 0 => n - 1 \in 0 .. k /\ n - 1 # k /\ g[n - 1] = f[n - 1]
        BY <1>2, <3>2
      <4> HIDE DEF g
      <4> QED BY <2>3, <4>1, <4>2
    <3> QED BY <3>1, <3>2
  <2>5. g = [n \in 0 .. k |-> IF n = 0 THEN z ELSE Value!Grown(prints, g[n - 1], p)]
    <3>1. g = [n \in 0 .. k |-> g[n]]
      OBVIOUS
    <3> HIDE DEF g
    <3> QED BY <2>4, <3>1
  <2>6. Grows(g, prints, p, k)
    BY <2>5 DEF Grows, z
  <2> QED BY <1>2, <2>6
<1> QED
  BY <1>3, <1>4

\* So what the growth ends with is an area.
LEMMA BucketsArea ==
    ASSUME NEW top \in Nat, NEW prints \in [0 .. top -> Nat], NEW p
    PROVE  Value!AreaBuckets(prints, p) \in Area
<1> DEFINE m == Max(DOMAIN prints)
           g == CHOOSE f : Grows(f, prints, p, m)
<1>1. m \in Nat
  <2>1. DOMAIN prints = 0 .. top
    OBVIOUS
  <2> QED BY <2>1, TopOf
<1>2. Value!AreaBuckets(prints, p) = g[m]
  BY Zenon DEF Value!AreaBuckets, Grows, Value!Max, Max
<1> HIDE DEF m
<1>3. Grows(g, prints, p, m)
  BY <1>1, GrowthExists
<1> HIDE DEF g
<1> DEFINE B == {n \in 0 .. m : g[n] \notin Area}
<1>4. B = {}
  <2> SUFFICES ASSUME B # {} PROVE FALSE
    OBVIOUS
  <2>1. PICK n \in B : \A i \in B : n <= i
    <3>1. B \in SUBSET Nat
      OBVIOUS
    <3> HIDE DEF B
    <3> QED BY <3>1, MinIn
  <2>2. n \in 0 .. m /\ g[n] \notin Area
    BY <2>1
  <2>3. CASE n = 0
    <3>1. g[n] = [lo |-> Value!PointOfControl(prints), hi |-> Value!PointOfControl(prints)]
      BY <1>3, <2>2, <2>3 DEF Grows
    <3>2. Value!PointOfControl(prints) \in Int
      <4>1. DOMAIN prints = 0 .. top
        OBVIOUS
      <4> QED BY <4>1, PointIn
    <3> QED BY <2>2, <3>1, <3>2 DEF Area
  <2>4. CASE n # 0
    <3>1. n - 1 \in 0 .. m /\ n - 1 \notin B
      BY <1>1, <2>1, <2>2, <2>4
    <3>2. g[n - 1] \in Area
      BY <3>1
    <3>3. g[n] = Value!Grown(prints, g[n - 1], p)
      BY <1>3, <2>2, <2>4 DEF Grows
    <3> QED BY <2>2, <3>2, <3>3, GrownArea
  <2> QED BY <2>3, <2>4
<1> QED
  BY <1>1, <1>2, <1>4

\* The edges of the value area are prices.
LEMMA ValuePrints ==
    ASSUME NEW cs, NEW day, NEW low, NEW high, NEW p
    PROVE  LET width == Value!Width(low, high, p)
               top == Max(Value!Buckets(low, high, p))
               Of(price) == Smaller((price - low) \div width, top)
           IN  Value!Prints(cs, day, low, high, p) =
                 [b \in 0 .. top |->
                    Cardinality({i \in day : Of(cs[i].low) <= b /\ b <= Of(cs[i].high)})]
BY Zenon DEF Value!Prints, Value!Smaller, Smaller, Value!Max, Max,
             Value!Cardinality, Cardinality

\* The edges of the value area are prices.
LEMMA AreaEdges ==
    ASSUME NEW s \in Strategies, s = "value-area-reentry-v1",
           NEW cs, Series(cs, Params[s].tick_size),
           Value!ValueArea(cs, Params[s]) # Off
    PROVE  /\ Value!ValueArea(cs, Params[s]).low \in Int
           /\ Value!ValueArea(cs, Params[s]).high \in Int
<1> DEFINE p == Params[s]
           day == Value!PreviousDay(cs)
           high == Max(Highs(cs, day))
           low == Min(Lows(cs, day))
           width == Value!Width(low, high, p)
           prints == Value!Prints(cs, day, low, high, p)
           area == Value!AreaBuckets(prints, p)
<1>1. /\ day # {} /\ p.va_buckets # 0
      /\ Value!ValueArea(cs, p)
           = [low |-> Larger(low + area.lo * width, low),
              high |-> Smaller(low + (area.hi + 1) * width, high)]
  BY ValueSame DEF Value!ValueArea
<1>2. day \in SUBSET (1 .. Len(cs))
  <2>1. \A k : Value!DayBars(cs, k) \subseteq DOMAIN cs
    BY DEF Value!DayBars
  <2>2. day \subseteq DOMAIN cs
    BY <2>1 DEF Value!PreviousDay
  <2> HIDE DEF day
  <2> QED BY <2>2, BarsOf
<1>3. high \in Int /\ low \in Int
  <2> HIDE DEF day
  <2> QED BY <1>1, <1>2, HighsAndLows
<1>4. width \in Nat \ {0}
  <2>1. p.va_buckets \in Nat \ {0} /\ p.tick_size \in Nat \ {0}
    BY <1>1, Numbers, ParamsAssumption
  <2> HIDE DEF p, high, low
  <2>2. (high - low) \div p.va_buckets \in Int
    BY <1>3, <2>1
  <2>3. \A x \in Int, y \in Nat \ {0} : Larger(x, y) \in Nat \ {0}
    BY DEF Larger
  <2> QED BY <2>1, <2>2, <2>3, ValueSame DEF Value!Width
<1> DEFINE top == Max(Value!Buckets(low, high, p))
<1>5. top \in Nat
  <2> HIDE DEF p, high, low
  <2>1. (high - low) \div width \in Int
    BY <1>3, <1>4
  <2>2. Larger((high - low) \div width, 1) \in Nat
    <3> HIDE DEF width
    <3> QED BY <2>1 DEF Larger
  <2>3. Value!Buckets(low, high, p) = 0 .. Larger((high - low) \div width, 1)
    BY ValueSame DEF Value!Buckets
  <2> QED BY <2>2, <2>3, TopOf
<1>6. prints \in [0 .. top -> Nat]
  <2> DEFINE Of(price) == Smaller((price - low) \div width, top)
             In(b) == {i \in day : Of(cs[i].low) <= b /\ b <= Of(cs[i].high)}
  <2>1. prints = [b \in 0 .. top |-> Cardinality(In(b))]
    BY ValuePrints
  <2>2. IsFiniteSet(day)
    <3>1. IsFiniteSet(1 .. Len(cs))
      BY BarsOf, FS_Interval
    <3> HIDE DEF day
    <3> QED BY <1>2, <3>1, FS_Subset
  <2>3. \A b : Cardinality(In(b)) \in Nat
    <3>1. \A b : In(b) \subseteq day
      OBVIOUS
    <3> HIDE DEF In, day
    <3> QED BY <2>2, <3>1, FS_Subset, FS_CardinalityType
  <2> HIDE DEF In, top, prints
  <2> QED BY <2>1, <2>3
<1>7. area \in Area
  <2> HIDE DEF prints, top, p
  <2> QED BY <1>5, <1>6, BucketsArea
<1>8. area.lo * width \in Int /\ (area.hi + 1) * width \in Int
  <2>1. \A x, y \in Int : x * y \in Int
    OBVIOUS
  <2> HIDE DEF area, width
  <2> QED BY <1>4, <1>7, <2>1 DEF Area
<1> DEFINE up == area.lo * width
           down == (area.hi + 1) * width
<1>9. Larger(low + up, low) \in Int /\ Smaller(low + down, high) \in Int
  <2>1. up \in Int /\ down \in Int
    BY <1>8
  <2> HIDE DEF low, high, up, down
  <2> QED BY <1>3, <2>1 DEF Larger, Smaller
<1> HIDE DEF low, high, area, width
<1> QED
  BY <1>1, <1>9

\* value_area_reentry_v1: the target is the far edge of the area, which the entry has
\* not reached.
LEMMA ValueProper ==
    ASSUME NEW s \in Strategies, s = "value-area-reentry-v1",
           NEW cs, Series(cs, Params[s].tick_size), NEW sig \in Value!Analyze(cs, Params[s])
    PROVE  Proper(s, cs, sig)
<1> DEFINE p == Params[s]
           bar == LastOf(cs)
           atr == Atr(cs, p.atr_period)
           va == Value!ValueArea(cs, p)
<1>1. PICK d \in Value!Directions(cs, va, p) : sig \in Value!Prices(bar, d, va, atr, p)
  BY ValueSame, ValueAtr DEF Value!Analyze
<1>2. atr # Off /\ va # Off
  BY ValueAtr DEF Value!Analyze
<1>3. va.low \in Int /\ va.high \in Int
  BY <1>2, AreaEdges
<1>4. d \in Sides
  BY <1>1 DEF Value!Directions, Sides
<1>5. va.low <= bar.close /\ bar.close <= va.high
  <2> DEFINE n == Len(cs)
             bars == Larger(p.acceptance_bars, 1)
  <2>1. \A i \in (n - bars + 1) .. n : Value!Within(va, cs[i].close)
    BY <1>1, ValueSame DEF Value!Directions
  <2>2. n \in (n - bars + 1) .. n
    <3>1. p.acceptance_bars \in Nat
      BY ParamsAssumption
    <3>2. bars \in Nat \ {0} /\ n \in Nat
      <4> HIDE DEF p
      <4> QED BY <3>1, BarsOf DEF Larger
    <3> HIDE DEF bars, n
    <3> QED BY <3>2
  <2> QED BY <2>1, <2>2 DEF Value!Within, LastOf
<1> DEFINE tick == p.entry_offset_ticks * p.tick_size
           entry == IF p.entry_order_type = "limit" THEN bar.close ELSE Ahead(d, Lead(d, bar), tick)
           out == p.tick_size + Part(p.stop_buffer_atr, atr)
           stop == Ahead(d, Rear(d, va), -out)
           target == Lead(d, va)
<1>6. sig \in SignalOf(d, entry, stop, target, p) /\ Beyond(d, target, entry)
  BY <1>1, ValueSame DEF Value!Prices
<1>7. /\ Ahead(d, Lead(d, bar), tick) \in Int
      /\ Beyond(d, Ahead(d, Lead(d, bar), tick), bar.close)
  BY <1>4, EntryBeyondBar
<1>8. out \in Nat \ {0}
  <2>1. p.stop_buffer_atr \in Nat
    BY ParamsAssumption
  <2>2. atr \in Nat
    BY <1>2, Numbers, AtrNat
  <2>3. Part(p.stop_buffer_atr, atr) \in Nat
    <3> HIDE DEF atr
    <3> QED BY <2>1, <2>2, PartNat
  <2> QED BY <2>3, Numbers
<1>9. bar.close \in Int
  BY LastBar
<1> HIDE DEF out, bar, va, tick, p
<1>10. /\ entry \in Int /\ stop \in Int /\ target \in Int
       /\ Beyond(d, entry, stop) /\ ~ Beyond(d, entry, target)
  BY <1>3, <1>4, <1>5, <1>6, <1>7, <1>8, <1>9 DEF Ahead, Lead, Rear, Beyond, Sign, Sides
<1>11. p.entry_order_type = "stop" => Beyond(d, entry, bar.close)
  BY <1>7
<1> HIDE DEF entry, stop, target
<1>12. /\ sig.direction = d /\ sig.entry = entry /\ sig.order_type = p.entry_order_type
       /\ Whole(sig) /\ SidesHold(sig) /\ Pays(s, sig)
  BY <1>4, <1>6, <1>10, PaidBracket DEF p
<1> QED
  BY <1>11, <1>12 DEF Proper, Waits, bar

-----------------------------------------------------------------------------
(* The tape *)

\* Whatever the strategy, whatever the series: what it asks for is proper.
LEMMA SignalsProper ==
    ASSUME NEW s \in Strategies, NEW cs, Series(cs, Params[s].tick_size),
           NEW sig \in SignalFor(s, cs)
    PROVE  Proper(s, cs, sig)
<1>1. s \in Known
  BY ParamsAssumption
<1>2. CASE s = "opening-reversal-v1"
  BY <1>2, OpeningProper DEF SignalFor
<1>3. CASE s = "balance-area-breakout-v1"
  BY <1>3, BalanceProper DEF SignalFor
<1>4. CASE s = "value-area-reentry-v1"
  BY <1>4, ValueProper DEF SignalFor
<1>5. CASE s = "breakout-first-pullback-v1"
  BY <1>5, BreakoutProper DEF SignalFor
<1>6. CASE s = "range-extreme-fade-v1"
  BY <1>6, FadeProper DEF SignalFor
<1>7. CASE s = "trendline-break-test-v1"
  BY <1>7, LineProper DEF SignalFor
<1>8. CASE s = "failure-test-long-v1"
  BY <1>8, FailureProper DEF SignalFor
<1>9. CASE s = "pullback-trend-v1"
  BY <1>9, PullbackProper DEF SignalFor
<1>10. CASE s = "low2-m2s-short-v1"
  BY <1>10, LowTwoProper DEF SignalFor
<1> QED
  BY <1>1, <1>2, <1>3, <1>4, <1>5, <1>6, <1>7, <1>8, <1>9, <1>10 DEF Known

\* The bar after a bar is a bar of the market.
LEMMA AfterBar ==
    ASSUME NEW s \in Strategies, NEW c \in Bar, NEW shape \in Shapes
    PROVE  /\ After(c, shape) \in Bar /\ Ordered(After(c, shape))
           /\ Moves(After(c, shape), Params[s].tick_size)
<1> DEFINE left == {t \in Slots : t > c.time}
           close == c.close + shape.close
           range == Abs(shape.close) + shape.up + shape.down
<1>1. /\ c.day \in Int /\ c.close \in Int
      /\ shape.close \in Int /\ shape.up \in Nat /\ shape.down \in Nat /\ shape.volume \in Int
  BY SeriesAssumption DEF Bar
<1>2. Min(Slots) \in Int
  <2>1. IsFiniteSet(Slots) /\ Slots # {} /\ \A x \in Slots : x \in Int
    BY SeriesAssumption
  <2> QED BY <2>1, ExtremesIn
<1>3. left # {} => Min(left) \in Int
  <2>1. IsFiniteSet(left)
    <3>1. IsFiniteSet(Slots) /\ left \subseteq Slots
      BY SeriesAssumption
    <3> HIDE DEF left
    <3> QED BY <3>1, FS_Subset
  <2>2. \A x \in left : x \in Int
    BY SeriesAssumption
  <2> HIDE DEF left
  <2> QED BY <2>1, <2>2, ExtremesIn
<1>4. range = 0 \/ range >= Params[s].tick_size
  BY SeriesAssumption
<1> DEFINE bar == After(c, shape)
<1>5. /\ bar.open = c.close /\ bar.close = close /\ bar.volume = shape.volume
      /\ bar.high = Larger(c.close, close) + shape.up
      /\ bar.low = Smaller(c.close, close) - shape.down
      /\ bar \in Bar
  <2>1. Larger(c.close, close) + shape.up \in Int /\ Smaller(c.close, close) - shape.down \in Int
    BY <1>1 DEF Larger, Smaller
  <2>2. close \in Int /\ c.close \in Int /\ shape.volume \in Int /\ c.day \in Int /\ c.day + 1 \in Int
    BY <1>1
  <2> HIDE DEF left, close
  <2>3. bar = [day |-> IF left = {} THEN c.day + 1 ELSE c.day,
               time |-> IF left = {} THEN Min(Slots) ELSE Min(left),
               open |-> c.close, high |-> Larger(c.close, close) + shape.up,
               low |-> Smaller(c.close, close) - shape.down,
               close |-> close, volume |-> shape.volume]
    BY DEF After, left, close
  <2> HIDE DEF bar
  <2> QED BY <1>2, <1>3, <2>1, <2>2, <2>3 DEF Bar
<1>6. \A a, x \in Int, up, down \in Nat :
        /\ Smaller(a, a + x) - down <= Smaller(a, a + x)
        /\ Larger(a, a + x) <= Larger(a, a + x) + up
        /\ (Larger(a, a + x) + up) - (Smaller(a, a + x) - down) = Abs(x) + up + down
  BY DEF Smaller, Larger, Abs
<1>7. Ordered(bar) /\ RangeOf(bar) = range
  <2> HIDE DEF bar
  <2> QED BY <1>1, <1>5, <1>6 DEF Ordered, RangeOf
<1> HIDE DEF range, bar
<1>8. Moves(bar, Params[s].tick_size)
  BY <1>4, <1>7 DEF Moves
<1> QED
  BY <1>5, <1>7, <1>8 DEF bar

\* A series that grows by such a bar is a series.
LEMMA SeriesGrows ==
    ASSUME NEW cs, NEW tick, Series(cs, tick), NEW b \in Bar, Ordered(b), Moves(b, tick)
    PROVE  Series(Append(cs, b), tick)
<1>1. Len(cs) \in Nat /\ cs \in Seq(Bar) /\ DOMAIN cs = 1 .. Len(cs)
  BY DEF Series
<1>2. /\ Append(cs, b) \in Seq(Bar) /\ Len(Append(cs, b)) = Len(cs) + 1
      /\ Append(cs, b)[Len(cs) + 1] = b
      /\ \A i \in 1 .. Len(cs) : Append(cs, b)[i] = cs[i]
  BY <1>1
<1>3. DOMAIN Append(cs, b) = 1 .. Len(cs) + 1
  BY <1>1, <1>2
<1>4. ASSUME NEW i \in 1 .. Len(cs) + 1
      PROVE  Ordered(Append(cs, b)[i]) /\ Moves(Append(cs, b)[i], tick)
  <2>1. CASE i = Len(cs) + 1
    BY <1>2, <2>1
  <2>2. CASE i \in 1 .. Len(cs)
    BY <1>1, <1>2, <2>2 DEF Series
  <2> QED BY <1>1, <2>1, <2>2
<1>5. Append(cs, b) # <<>>
  BY <1>1, <1>2
<1> QED
  BY <1>2, <1>3, <1>4, <1>5 DEF Series

\* The inductive invariant of the tape: a series of bars, and a signal that is
\* proper on the series as it is, which a new bar makes the one of that bar.
ProperInv ==
    /\ strategy \in Strategies
    /\ Series(candles, Params[strategy].tick_size)
    /\ \A sig \in signal : Proper(strategy, candles, sig)

\* The history is a series, and nothing was asked yet.
LEMMA ProperInvInit == TapeInit => ProperInv
<1> SUFFICES ASSUME TapeInit PROVE ProperInv
  OBVIOUS
<1>1. strategy \in Strategies /\ candles = History[strategy] /\ signal = {}
  BY DEF TapeInit
<1>2. Series(candles, Params[strategy].tick_size)
  BY <1>1, SeriesAssumption DEF Series
<1> QED
  BY <1>1, <1>2 DEF ProperInv

\* A bar that closes keeps the invariant.
LEMMA ProperInvNext == ProperInv /\ [BarCloses]_tapeVars => ProperInv'
<1> SUFFICES ASSUME ProperInv, [BarCloses]_tapeVars PROVE ProperInv'
  OBVIOUS
<1>1. CASE BarCloses
  <2>1. PICK shape \in Shapes : candles' = Append(candles, After(LastOf(candles), shape))
    BY <1>1 DEF BarCloses
  <2>2. strategy' = strategy /\ signal' = SignalFor(strategy, candles') /\ strategy \in Strategies
    BY <1>1 DEF BarCloses, ProperInv
  <2>3. LastOf(candles) \in Bar
    BY DEF ProperInv, Series, LastOf
  <2>4. Series(candles', Params[strategy].tick_size)
    BY <2>1, <2>2, <2>3, AfterBar, SeriesGrows DEF ProperInv
  <2>5. \A sig \in signal' : Proper(strategy, candles', sig)
    BY <2>2, <2>4, SignalsProper
  <2> QED BY <2>2, <2>4, <2>5 DEF ProperInv
<1>2. CASE UNCHANGED tapeVars
  BY <1>2 DEF tapeVars, ProperInv
<1> QED
  BY <1>1, <1>2

\* A proper signal passes the checks of its shape, whichever of the others fail.
LEMMA ProperPasses ==
    ASSUME NEW s \in Strategies, NEW sig, Whole(sig), SidesHold(sig), Pays(s, sig),
           NEW context, NEW quote, NEW state, NEW capital
    PROVE  Refusal(Checks(RiskOf[s], sig, context, quote, state, capital))
             \notin {"StopMissing", "PoorRiskReward"}
<1> DEFINE ck == Checks(RiskOf[s], sig, context, quote, state, capital)
           failed == {i \in DOMAIN ck : ~ ck[i][1]}
           first == CHOOSE i \in failed : \A j \in failed : i <= j
           shape == {6, 11, 12}
<1>1. Off \notin {sig.entry, sig.stop, sig.target}
  BY SeriesAssumption DEF Whole
<1>2. DOMAIN ck = 1 .. 12
  BY DEF Checks
<1>3. ck[6][1] /\ ck[11][1] /\ ck[12][1]
  BY <1>1 DEF Checks, Pays
<1>4. \A i \in (1 .. 12) \ shape : ck[i][2] \notin {"StopMissing", "PoorRiskReward"}
  BY DEF Checks
<1>5. Refusal(ck) = IF failed = {} THEN "none" ELSE ck[first][2]
  BY DEF Refusal
<1> HIDE DEF ck
<1>6. failed \subseteq (1 .. 12) \ shape
  BY <1>2, <1>3
<1>7. failed # {} => first \in failed
  <2>1. failed \in SUBSET Nat
    BY <1>6
  <2> HIDE DEF failed
  <2>2. failed # {} => \E i \in failed : \A j \in failed : i <= j
    BY <2>1, MinIn
  <2> QED BY <2>2
<1> HIDE DEF failed, first, shape
<1>8. Refusal(ck) \notin {"StopMissing", "PoorRiskReward"}
  BY <1>4, <1>5, <1>6, <1>7
<1> QED
  BY <1>8 DEF ck

\* Every state of the tape is one of the invariant.
THEOREM ProperInvariant == TapeSpec => []ProperInv
BY ProperInvInit, ProperInvNext, PTL DEF TapeSpec

\* Whatever the series and the parameters within ParamsAssumption, no strategy
\* asks for a stop entry the market has already passed (an order that would fill
\* at once, without the confirmation the setup waits for).
THEOREM EntriesAhead == TapeSpec => []EntryAhead
<1>1. ProperInv => EntryAhead
  BY DEF ProperInv, EntryAhead, Proper, Waits
<1> QED
  BY <1>1, ProperInvariant, PTL

\* No strategy asks for a bracket the risk manager refuses for its shape: prices
\* that are missing, on the wrong sides of each other, or a reward the risk is
\* not worth.  Such a refusal stops the day of the bot (halts_trading, paper.rs).
THEOREM SignalsAccepted == TapeSpec => []SignalsPassRisk
<1>1. ProperInv => SignalsPassRisk
  BY ProperPasses DEF ProperInv, SignalsPassRisk, Proper
<1> QED
  BY <1>1, ProperInvariant, PTL
=============================================================================
