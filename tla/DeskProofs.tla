----------------------------- MODULE DeskProofs -----------------------------
(***************************************************************************)
(* The parts of the desk that share no state with the orders of the live   *)
(* loop, each for every value of its constants: the limits of an account   *)
(* that several processes share (AccountLimits), placing a bracket at the  *)
(* gateway (PlaceOrder), `trader flatten` (ManualFlatten), the baseline of *)
(* the analysis (GateB) and the way of the executions to the books         *)
(* (ExecutionsPoll).                                                       *)
(***************************************************************************)
EXTENDS AccountLimits, PlaceOrder, ManualFlatten, GateB, ExecutionsPoll, SetLemmas

(***************************************************************************)
(* OvershootBounded for any number of processes, limits, configurations    *)
(* and signals: of the sizes nothing is used, the bound is about counts.   *)
(* And SizesFit for any amounts: what validate sizes is the last share     *)
(* that the budget of risk and every cap that is on allow.                 *)
(***************************************************************************)
Steps == {"idle", "positions", "trades", "signal", "working", "open"}

\* The types of what the counts depend on.
CountTypeOK == step \in [Bots -> Steps] /\ peak \in Nat

\* peak is a history of the decisions, the one at hand included.
PeakCovers == Cardinality(Deciding) <= peak

CountInv == CountTypeOK /\ PeakCovers /\ OvershootBounded

-----------------------------------------------------------------------------
\* The processes that hold or decide are finitely many.
LEMMA CountsAreNaturals ==
    ASSUME NEW S, S \subseteq Bots
    PROVE  IsFiniteSet(S) /\ Cardinality(S) \in Nat
BY AccountAssumption, FS_Subset, FS_CardinalityType

\* A step after which no process decides that did not, and none holds that
\* neither held nor decided, keeps the invariant.
LEMMA FewerKeep ==
    ASSUME CountInv, CountTypeOK', UNCHANGED peak,
           Deciding' \subseteq Deciding,
           Holding' \subseteq Holding \cup Deciding
    PROVE  CountInv'
<1> DEFINE Both == Holding \cup Deciding
<1>1. Deciding \subseteq Bots /\ Both \subseteq Bots
  BY DEF Deciding, Holding
<1>2. Both' \subseteq Both
  OBVIOUS
<1>3. Cardinality(Deciding') <= Cardinality(Deciding)
  BY <1>1, CountsAreNaturals, FS_Subset
<1>4. Cardinality(Both') <= Cardinality(Both)
  BY <1>1, <1>2, CountsAreNaturals, FS_Subset
<1>5. /\ Cardinality(Deciding') \in Nat /\ Cardinality(Deciding) \in Nat
      /\ Cardinality(Both') \in Nat /\ Cardinality(Both) \in Nat
  BY <1>1, <1>2, CountsAreNaturals
<1> HIDE DEF Both
<1>6. PeakCovers'
  BY <1>3, <1>5 DEF PeakCovers, CountInv, CountTypeOK
<1>7. Cardinality(Both) <= IF peak = 0 THEN 0 ELSE MaxPositions + peak - 1
  BY DEF CountInv, OvershootBounded, Both
<1>8. Cardinality(Both') <= IF peak' = 0 THEN 0 ELSE MaxPositions + peak' - 1
  BY <1>4, <1>5, <1>7, AccountAssumption DEF CountInv, CountTypeOK
<1> QED
  BY <1>6, <1>8 DEF CountInv, OvershootBounded, Both

\* The look at the positions: what is held stays under the limit, and the peak
\* covers those that decide now.
LEMMA LookKeeps ==
    ASSUME CountInv, NEW b \in Bots, ReadPositions(b)
    PROVE  CountInv'
<1>1. CountTypeOK'
  <2>1. step' \in [Bots -> Steps]
    BY DEF ReadPositions, CountInv, CountTypeOK, Steps
  <2>2. Cardinality(Deciding') \in Nat
    <3>1. Deciding' \subseteq Bots
      BY DEF Deciding
    <3> QED
      BY <3>1, CountsAreNaturals
  <2>3. peak' \in Nat
    BY <2>2 DEF ReadPositions, CountInv, CountTypeOK
  <2> QED
    BY <2>1, <2>3 DEF CountTypeOK
<1>2. CASE ExposureLimitHit(Cardinality(Holding), Notional(Holding), equity[b], Prospective(b))
  <2>1. step' = [step EXCEPT ![b] = "idle"] /\ UNCHANGED peak
    BY <1>2 DEF ReadPositions
  <2>2. Deciding' \subseteq Deciding /\ Holding' \subseteq Holding \cup Deciding
    BY <2>1 DEF Deciding, Holding, CountInv, CountTypeOK
  <2> QED
    BY <1>1, <2>1, <2>2, FewerKeep
<1>3. CASE ~ ExposureLimitHit(Cardinality(Holding), Notional(Holding), equity[b], Prospective(b))
  <2>1. /\ step[b] = "positions"
        /\ step' = [step EXCEPT ![b] = "trades"]
        /\ peak' = IF Cardinality(Deciding') > peak THEN Cardinality(Deciding') ELSE peak
    BY <1>3 DEF ReadPositions
  <2>2. /\ Holding' = Holding
        /\ Deciding' \subseteq Bots /\ Holding \subseteq Bots
        /\ b \in Deciding'
    BY <2>1 DEF Deciding, Holding, CountInv, CountTypeOK
  <2>3. /\ IsFiniteSet(Deciding') /\ Cardinality(Deciding') \in Nat
        /\ IsFiniteSet(Holding) /\ Cardinality(Holding) \in Nat
    BY <2>2, CountsAreNaturals
  <2>4. Cardinality(Deciding') # 0
    BY <2>2, <2>3, FS_EmptySet
  <2>5. Cardinality(Holding) < MaxPositions
    BY <1>3, <2>3, AccountAssumption DEF ExposureLimitHit
  <2>6. PeakCovers' /\ peak' # 0
    BY <2>1, <2>3, <2>4 DEF PeakCovers, CountInv, CountTypeOK
  <2>7. /\ Cardinality(Holding \cup Deciding') \in Nat
        /\ Cardinality(Holding \cup Deciding') <= Cardinality(Holding) + Cardinality(Deciding')
    <3>1. Cardinality(Holding \cup Deciding') =
            Cardinality(Holding) + Cardinality(Deciding') - Cardinality(Holding \cap Deciding')
      BY <2>3, FS_Union
    <3>2. Cardinality(Holding \cap Deciding') \in Nat
      BY <2>2, CountsAreNaturals
    <3>3. Cardinality(Holding \cup Deciding') \in Nat
      BY <2>2, CountsAreNaturals
    <3> QED
      BY <2>3, <3>1, <3>2, <3>3
  <2>8. Cardinality(Holding \cup Deciding') <= MaxPositions + peak' - 1
    BY <1>1, <2>3, <2>5, <2>6, <2>7, AccountAssumption DEF PeakCovers, CountTypeOK
  <2>9. OvershootBounded'
    BY <2>2, <2>6, <2>8 DEF OvershootBounded
  <2> QED
    BY <1>1, <2>6, <2>9 DEF CountInv
<1> QED
  BY <1>2, <1>3

\* Every other step of a process only takes it further or back.
LEMMA OthersKeep ==
    ASSUME CountInv, NEW b \in Bots,
           \/ ReadSummary(b) \/ ReadTrades(b) \/ NoOrder(b) \/ SendEntry(b)
           \/ EntryFills(b) \/ EntryExpires(b) \/ PositionCloses(b)
    PROVE  CountInv'
<1>1. UNCHANGED peak
  BY DEF ReadSummary, ReadTrades, NoOrder, SendEntry, EntryFills, EntryExpires, PositionCloses
<1>2. CountTypeOK'
  BY <1>1 DEF CountInv, CountTypeOK, Steps, ReadSummary, ReadTrades, NoOrder, SendEntry,
              EntryFills, EntryExpires, PositionCloses
<1>3. /\ Deciding' \subseteq Deciding
      /\ Holding' \subseteq Holding \cup Deciding
  BY DEF CountInv, CountTypeOK, Deciding, Holding, ReadSummary, ReadTrades, NoOrder,
         SendEntry, EntryFills, EntryExpires, PositionCloses
<1> QED
  BY <1>1, <1>2, <1>3, FewerKeep

-----------------------------------------------------------------------------
\* No process decides or holds at the start, and no step breaks the count.
LEMMA CountInit == LimitsInit => CountInv
<1> SUFFICES ASSUME LimitsInit PROVE CountInv
  OBVIOUS
<1>1. Deciding = {} /\ Holding = {}
  BY DEF LimitsInit, Deciding, Holding
<1>2. Cardinality(Deciding) = 0 /\ Cardinality(Holding \cup Deciding) = 0
  BY <1>1, FS_EmptySet
<1> QED
  BY <1>2 DEF LimitsInit, CountInv, CountTypeOK, Steps, PeakCovers, OvershootBounded

LEMMA CountNext == CountInv /\ [LimitsNext]_limitsVars => CountInv'
<1> SUFFICES ASSUME CountInv, [LimitsNext]_limitsVars PROVE CountInv'
  OBVIOUS
<1>1. CASE LimitsNext
  BY <1>1, LookKeeps, OthersKeep DEF LimitsNext
<1>2. CASE UNCHANGED limitsVars
  <2>1. UNCHANGED <<step, peak>>
    BY <1>2 DEF limitsVars
  <2> QED
    BY <2>1 DEF CountInv, CountTypeOK, PeakCovers, OvershootBounded, Deciding, Holding
<1> QED
  BY <1>1, <1>2

\* The account never holds and decides more than MaxPositions plus what others
\* decided beside the first, however many processes share it and whatever each
\* call answers (paper.rs:438 reads, paper.rs:502 sends).
THEOREM OvershootSafe == LimitsSpec => []OvershootBounded
<1>1. CountInv => OvershootBounded
  BY DEF CountInv
<1> QED
  BY <1>1, CountInit, CountNext, PTL DEF LimitsSpec

-----------------------------------------------------------------------------
(* SizesFit *)

\* Multiplying keeps an order.
LEMMA TimesKeepsOrder ==
    ASSUME NEW x \in Int, NEW y \in Int, NEW d \in Nat, x <= y
    PROVE  x * d <= y * d
OBVIOUS

\* What is cut to a whole number is the last multiple not above.
LEMMA CutIsTheLast ==
    ASSUME NEW n \in Int, NEW d \in Nat \ {0}
    PROVE  /\ n \div d \in Int
           /\ (n \div d) * d <= n
           /\ n < ((n \div d) + 1) * d
OBVIOUS

LEMMA RoundedIsWhole ==
    ASSUME NEW n \in Int, NEW d \in Nat \ {0}
    PROVE  RoundHalfEven(n, d) \in Int
BY CutIsTheLast DEF RoundHalfEven

\* The smallest of a few numbers.
LEMMA FirstOfTwelve ==
    ASSUME NEW S \in SUBSET (1 .. 12), S # {}
    PROVE  \E i \in S : \A j \in S : i <= j
<1> SUFFICES ASSUME \A i \in S : \E j \in S : j < i PROVE FALSE
  OBVIOUS
<1>1. 1 \notin S /\ 2 \notin S /\ 3 \notin S
  OBVIOUS
<1>2. 4 \notin S /\ 5 \notin S /\ 6 \notin S
  BY <1>1
<1>3. 7 \notin S /\ 8 \notin S /\ 9 \notin S
  BY <1>1, <1>2
<1>4. 10 \notin S /\ 11 \notin S /\ 12 \notin S
  BY <1>1, <1>2, <1>3
<1>5. \A i \in 1 .. 12 : i \notin S
  <2>1. \A i \in 1 .. 12 : i \in {1, 2, 3, 4, 5, 6, 7, 8, 9, 10, 11, 12}
    OBVIOUS
  <2> QED
    BY <1>1, <1>2, <1>3, <1>4, <2>1, Zenon
<1> QED
  BY <1>5

\* A bar of the window has the rank.
IsRanked(worth, bars, k) == \E i \in bars : RankOf(worth, i) = k

\* The ranks of a window, by worth and then by place, are its places: one bar
\* has each.
LEMMA RanksAreAll ==
    ASSUME NEW first, NEW last, NEW worth, NEW k, first \in Int, last \in Int, first <= last,
           worth \in [first .. last -> Int], k \in 1 .. last - first + 1
    PROVE  IsRanked(worth, first .. last, k)
<1> DEFINE Bars == first .. last
           Below(i) == {j \in Bars : worth[j] < worth[i] \/ (worth[j] = worth[i] /\ j <= i)}
           rank == [i \in Bars |-> Cardinality(Below(i))]
<1>1. IsFiniteSet(Bars) /\ Cardinality(Bars) = last - first + 1
  BY FS_Interval
<1>2. \A i \in Bars : IsFiniteSet(Below(i)) /\ Cardinality(Below(i)) \in 1 .. last - first + 1
  <2> SUFFICES ASSUME NEW i \in Bars
               PROVE  IsFiniteSet(Below(i)) /\ Cardinality(Below(i)) \in 1 .. last - first + 1
    OBVIOUS
  <2>1. Below(i) \subseteq Bars /\ i \in Below(i)
    OBVIOUS
  <2>2. /\ IsFiniteSet(Below(i)) /\ Cardinality(Below(i)) \in Nat
        /\ Cardinality(Below(i)) <= Cardinality(Bars)
    BY <1>1, <2>1, FS_Subset, FS_CardinalityType
  <2>3. Cardinality(Below(i)) # 0
    BY <2>1, <2>2, FS_EmptySet
  <2> HIDE DEF Below, Bars
  <2> QED
    BY <1>1, <2>2, <2>3
<1>3. ASSUME NEW i \in Bars, NEW j \in Bars, i # j, rank[i] = rank[j]
      PROVE  FALSE
  <2>1. Below(i) \subseteq Below(j) \/ Below(j) \subseteq Below(i)
    OBVIOUS
  <2>2. Below(i) # Below(j)
    <3>1. i \in Below(i) /\ j \in Below(j)
      OBVIOUS
    <3>2. ~ (i \in Below(j) /\ j \in Below(i))
      <4>1. worth[i] \in Int /\ worth[j] \in Int /\ i \in Int /\ j \in Int
        OBVIOUS
      <4>2. CASE worth[i] < worth[j] \/ (worth[i] = worth[j] /\ i < j)
        BY <4>1, <4>2
      <4>3. CASE worth[j] < worth[i] \/ (worth[i] = worth[j] /\ j < i)
        BY <4>1, <4>3
      <4> QED
        BY <1>3, <4>1, <4>2, <4>3
    <3> HIDE DEF Below
    <3> QED
      BY <3>1, <3>2, Zenon
  <2>3. Cardinality(Below(i)) = Cardinality(Below(j))
    BY <1>3
  <2>4. IsFiniteSet(Below(i)) /\ IsFiniteSet(Below(j))
    BY <1>2
  <2> HIDE DEF Below
  <2> QED
    BY <2>1, <2>2, <2>3, <2>4, FS_Subset
<1>4. rank \in Injection(Bars, 1 .. last - first + 1)
  <2>1. rank \in [Bars -> 1 .. last - first + 1]
    BY <1>2
  <2>2. IsInjective(rank)
    BY <1>3 DEF IsInjective
  <2> HIDE DEF rank
  <2> QED
    BY <2>1, <2>2 DEF Injection
<1>5. /\ IsFiniteSet(1 .. last - first + 1)
      /\ Cardinality(1 .. last - first + 1) = last - first + 1
  BY FS_Interval
<1>6. rank \in Surjection(Bars, 1 .. last - first + 1)
  BY <1>1, <1>4, <1>5, FS_Injection
<1>7. PICK i \in Bars : rank[i] = k
  BY <1>6 DEF Surjection
<1>8. RankOf(worth, i) = Cardinality(Below(i)) /\ rank[i] = Cardinality(Below(i))
  <2>1. DOMAIN worth = Bars
    OBVIOUS
  <2> QED
    BY <2>1, Zenon DEF RankOf
<1> QED
  BY <1>7, <1>8 DEF IsRanked

\* The median of a window that is there is a number: the bar of a middle rank
\* exists, whatever bars are worth the same.
LEMMA MedianIsWhole ==
    ASSUME NEW candles \in Seq([close : Int, volume : Int]), NEW lookback \in Nat,
           MedianBarNotional(candles, lookback) # Off
    PROVE  MedianBarNotional(candles, lookback) \in Int
<1>0. \A i \in 1 .. Len(candles) : candles[i] \in [close : Int, volume : Int]
  <2> DEFINE Bar == [close : Int, volume : Int]
  <2>1. candles \in Seq(Bar)
    OBVIOUS
  <2> HIDE DEF Bar
  <2>2. \A i \in 1 .. Len(candles) : candles[i] \in Bar
    BY <2>1
  <2> QED
    BY <2>2 DEF Bar
<1> DEFINE first == Len(candles) - lookback + 1
           last  == Len(candles)
           bars  == first .. last
           worth == [i \in bars |-> Abs(candles[i].close * candles[i].volume)]
           nth(k) == worth[CHOOSE i \in bars : RankOf(worth, i) = k]
           half  == lookback \div 2
<1>1. lookback # 0 /\ Len(candles) >= lookback
  <2>1. ~ (lookback = 0 \/ Len(candles) < lookback)
    BY Zenon DEF MedianBarNotional
  <2> QED
    BY <2>1
<1>2. MedianBarNotional(candles, lookback) =
        IF lookback % 2 = 1 THEN 2 * nth(half + 1) ELSE nth(half) + nth(half + 1)
  BY <1>1 DEF MedianBarNotional
<1>3. first \in Int /\ last \in Int /\ first <= last /\ bars \subseteq DOMAIN candles
  BY <1>1
<1>4. worth \in [bars -> Int]
  <2> SUFFICES ASSUME NEW i \in bars PROVE Abs(candles[i].close * candles[i].volume) \in Int
    OBVIOUS
  <2>1. candles[i].close \in Int /\ candles[i].volume \in Int
    <3>1. candles[i] \in [close : Int, volume : Int]
      <4>1. i \in 1 .. Len(candles)
        BY <1>1
      <4> QED
        BY <1>0, <4>1
    <3> QED
      BY <3>1
  <2>2. candles[i].close * candles[i].volume \in Int
    BY <2>1
  <2> QED
    BY <2>2 DEF Abs
<1>5. ASSUME NEW k \in 1 .. lookback PROVE nth(k) \in Int
  <2>1. k \in 1 .. last - first + 1
    BY <1>1
  <2> HIDE DEF first, last, worth
  <2>2. IsRanked(worth, bars, k)
    BY <1>3, <1>4, <2>1, RanksAreAll
  <2>3. (CHOOSE i \in bars : RankOf(worth, i) = k) \in bars
    BY <2>2 DEF IsRanked
  <2> HIDE DEF bars
  <2> QED
    BY <1>4, <2>3
<1>6. half + 1 \in 1 .. lookback /\ (lookback % 2 # 1 => half \in 1 .. lookback)
  BY <1>1
<1> HIDE DEF nth, half
<1>7. nth(half + 1) \in Int
  BY <1>5, <1>6
<1>8. lookback % 2 # 1 => nth(half) \in Int
  BY <1>5, <1>6
<1> QED
  BY <1>2, <1>7, <1>8

\* The cap is the lowest of those that are on.
LEMMA CapIsTheLowest ==
    ASSUME NEW b \in Bots, NEW capital \in Int, NEW liquidity \in Int \cup {Off}
    PROVE  LET slice == CapitalEfetivo(Config[b], capital)
               own   == Scale * slice * Config[b].max_notional_multiple
               usd   == Config[b].max_notional_usd
               pct   == Config[b].max_pct_of_median_bar_notional
               cap   == TetoDeNotional(Config[b], capital, liquidity).cap
           IN  /\ slice \in Int /\ cap \in Int
               /\ cap <= own
               /\ usd # Off => cap <= Scale * usd
               /\ pct # Off /\ liquidity # Off => cap <= liquidity * pct
               /\ \/ cap = own
                  \/ usd # Off /\ cap = Scale * usd
                  \/ pct # Off /\ liquidity # Off /\ cap = liquidity * pct
<1> DEFINE slice == CapitalEfetivo(Config[b], capital)
           own   == Scale * slice * Config[b].max_notional_multiple
           usd   == Config[b].max_notional_usd
           pct   == Config[b].max_pct_of_median_bar_notional
           cap   == TetoDeNotional(Config[b], capital, liquidity).cap
<1>1. slice \in Int
  <2>1. capital * Config[b].capital_fraction \in Int
    BY AmountsAssumption
  <2> QED
    BY <2>1, RoundedIsWhole DEF CapitalEfetivo
<1>2. own \in Int
  BY <1>1, AmountsAssumption DEF Scale
<1>3. usd # Off => Scale * usd \in Int
  BY AmountsAssumption DEF Scale
<1>4. pct # Off /\ liquidity # Off => liquidity * pct \in Int
  BY AmountsAssumption
<1>5. cap = LET lower == IF usd # Off /\ Scale * usd < own THEN Scale * usd ELSE own
            IN  IF pct # Off /\ liquidity # Off /\ liquidity * pct < lower
                THEN liquidity * pct ELSE lower
  BY Zenon DEF TetoDeNotional
<1> HIDE DEF own, usd, pct, cap, slice
<1>6. /\ cap \in Int /\ cap <= own
      /\ usd # Off => cap <= Scale * usd
      /\ pct # Off /\ liquidity # Off => cap <= liquidity * pct
      /\ \/ cap = own
         \/ usd # Off /\ cap = Scale * usd
         \/ pct # Off /\ liquidity # Off /\ cap = liquidity * pct
  BY <1>2, <1>3, <1>4, <1>5
<1> QED
  BY <1>1, <1>6 DEF own, usd, pct, cap, slice

\* When no reason is given, every check passed.
LEMMA NoReasonNoFailure ==
    ASSUME NEW checks, DOMAIN checks = 1 .. 12, \A i \in 1 .. 12 : checks[i][2] # "none",
           Refusal(checks) = "none"
    PROVE  \A i \in 1 .. 12 : checks[i][1]
<1> DEFINE failed == {i \in DOMAIN checks : ~ checks[i][1]}
<1>1. SUFFICES ASSUME failed # {} PROVE FALSE
  OBVIOUS
<1>2. failed \in SUBSET (1 .. 12)
  OBVIOUS
<1>3. Refusal(checks) = checks[CHOOSE i \in failed : \A j \in failed : i <= j][2]
  BY <1>1, Zenon DEF Refusal
<1> HIDE DEF failed
<1>4. \E i \in failed : \A j \in failed : i <= j
  BY <1>1, <1>2, FirstOfTwelve
<1>5. (CHOOSE i \in failed : \A j \in failed : i <= j) \in 1 .. 12
  BY <1>2, <1>4
<1> QED
  BY <1>3, <1>5

\* A signal that is sized has its prices, the stop on the losing side.
LEMMA PassedHasSides ==
    ASSUME NEW config, NEW signal, NEW ctx, NEW quote, NEW state, NEW capital,
           Refusal(Checks(config, signal, ctx, quote, state, capital)) = "none"
    PROVE  Off \notin {signal.entry, signal.stop, signal.target} /\ SidesHold(signal)
<1> DEFINE checks == Checks(config, signal, ctx, quote, state, capital)
           priced == Off \notin {signal.entry, signal.stop, signal.target}
<1>1. DOMAIN checks = 1 .. 12
  BY DEF Checks
<1>2. /\ checks[1][2] = "NotInPaperMode" /\ checks[2][2] = "OutsideTradingHours"
      /\ checks[3][2] = "DailyLossLimitReached" /\ checks[4][2] = "MaxTradesReached"
      /\ checks[5][2] = "ConsecutiveLosses" /\ checks[6][2] = "StopMissing"
      /\ checks[7][2] = "NoContext" /\ checks[8][2] = "HighVolatility"
      /\ checks[9][2] = "HighVolatility" /\ checks[10][2] = "HighSpread"
      /\ checks[11][2] = "StopMissing" /\ checks[12][2] = "PoorRiskReward"
  BY DEF Checks
<1>3. checks[6][1] = priced /\ checks[11][1] = (priced => SidesHold(signal))
  BY DEF Checks
<1> HIDE DEF checks
<1>4. \A i \in 1 .. 12 : checks[i][2] # "none"
  <2>1. \A i \in 1 .. 12 : i \in {1, 2, 3, 4, 5, 6, 7, 8, 9, 10, 11, 12}
    OBVIOUS
  <2> QED
    BY <1>2, <2>1
<1>5. Refusal(checks) = "none"
  BY DEF checks
<1>6. checks[6][1] /\ checks[11][1]
  BY <1>1, <1>4, <1>5, NoReasonNoFailure
<1> QED
  BY <1>3, <1>6

\* What validate makes of one signal.
Judged(b, signal, capital) ==
    Validate(Config[b], signal, Context, Quote, State, capital, Candles)

\* A signal that is approved can be priced, and both sides cost something.
LEMMA ApprovedHasPrices ==
    ASSUME NEW b \in Bots, NEW signal \in Signals, NEW capital \in Int,
           Judged(b, signal, capital).approved
    PROVE  /\ signal.entry \in Nat \ {0} /\ RiskDistance(signal) \in Nat \ {0}
           /\ Judged(b, signal, capital) = Sized(Config[b], signal, capital, Candles)
<1> DEFINE refusal == Refusal(Checks(Config[b], signal, Context, Quote, State, capital))
<1>1. refusal = "none"
  <2> SUFFICES ASSUME refusal # "none" PROVE FALSE
    OBVIOUS
  <2>1. Judged(b, signal, capital) = Refused(refusal)
    BY DEF Judged, Validate
  <2> HIDE DEF refusal
  <2> QED
    BY <2>1 DEF Refused
<1>2. Judged(b, signal, capital) = Sized(Config[b], signal, capital, Candles)
  BY <1>1, Zenon DEF Judged, Validate
<1>3. Off \notin {signal.entry, signal.stop, signal.target} /\ SidesHold(signal)
  BY <1>1, PassedHasSides
<1>4. signal.entry \in Nat \ {0} /\ signal.stop \in Int /\ signal.target \in Int
  BY <1>3, AmountsAssumption
<1>5. RiskDistance(signal) \in Nat \ {0}
  BY <1>3, <1>4 DEF SidesHold, RiskDistance, Abs
<1> QED
  BY <1>2, <1>4, <1>5

\* An approved size is the smaller of what the budget and what the cap pay for,
\* and the cap on the liquidity could be measured.
LEMMA ApprovedIsSmaller ==
    ASSUME NEW b \in Bots, NEW signal \in Signals, NEW capital \in Int,
           Judged(b, signal, capital).approved
    PROVE  LET pct    == Config[b].max_pct_of_median_bar_notional
               median == MedianBarNotional(Candles, Config[b].liquidity_lookback_bars)
               cap    == TetoDeNotional(Config[b], capital, IF pct = Off THEN Off ELSE median).cap
               size   == Judged(b, signal, capital).position_size
           IN  /\ pct # Off => median # Off
               /\ size = Smaller(QtyByRisk(Config[b], capital, RiskDistance(signal)),
                                 QtyByNotional(cap, signal.entry))
               /\ ~ (size < 1)
<1> DEFINE pct    == Config[b].max_pct_of_median_bar_notional
           median == MedianBarNotional(Candles, Config[b].liquidity_lookback_bars)
           liquidity == IF pct = Off THEN Off ELSE median
           cap    == TetoDeNotional(Config[b], capital, liquidity)
           byRisk == QtyByRisk(Config[b], capital, RiskDistance(signal))
           size   == Smaller(byRisk, QtyByNotional(cap.cap, signal.entry))
           answer == Judged(b, signal, capital)
           refusals == {"InvalidQuantity", "NotionalAboveLiquidityCap", "InsufficientBuyingPower"}
<1>1. answer = Sized(Config[b], signal, capital, Candles)
  BY ApprovedHasPrices
<1>2. Sized(Config[b], signal, capital, Candles) =
        IF byRisk <= 0 THEN Refused("InvalidQuantity")
        ELSE IF pct # Off /\ liquidity = Off THEN Refused("NotionalAboveLiquidityCap")
        ELSE IF size < 1
        THEN Refused(IF cap.rule = "liquidity" THEN "NotionalAboveLiquidityCap"
                     ELSE "InsufficientBuyingPower")
        ELSE [approved |-> TRUE, position_size |-> size,
              risk_amount |-> RiskDistance(signal) * size]
  BY Zenon DEF Sized
<1> HIDE DEF byRisk, size, cap, liquidity, pct
<1>3. \A reason : ~ Refused(reason).approved
  BY DEF Refused
<1>4. /\ ~ (pct # Off /\ liquidity = Off) /\ ~ (size < 1)
      /\ answer = [approved |-> TRUE, position_size |-> size,
                   risk_amount |-> RiskDistance(signal) * size]
  BY <1>1, <1>2, <1>3, Zenon
<1>5. answer.position_size = size
  BY <1>4
<1>6. pct # Off => median # Off
  BY <1>4, Zenon DEF liquidity
<1> QED
  BY <1>4, <1>5, <1>6, Zenon DEF size, byRisk, cap, liquidity, pct

\* A size that is cut from a budget spends it, and one share more would not.
LEMMA CutSpendsBudget ==
    ASSUME NEW budget \in Int, NEW price \in Nat \ {0}, NEW size \in Int
    PROVE  /\ size <= budget \div price => size * price <= budget
           /\ size = budget \div price => ~ ((size + 1) * price <= budget)
<1> DEFINE q == budget \div price
<1>1. q \in Int /\ q * price <= budget /\ budget < (q + 1) * price
  BY CutIsTheLast
<1> HIDE DEF q
<1>2. size <= q => size * price <= q * price
  BY <1>1, TimesKeepsOrder
<1>3. size * price \in Int /\ q * price \in Int /\ (q + 1) * price \in Int
  BY <1>1
<1>4. size <= q => size * price <= budget
  BY <1>1, <1>2, <1>3
<1>5. size = q => ~ ((size + 1) * price <= budget)
  BY <1>1, <1>3
<1> QED
  BY <1>4, <1>5 DEF q

\* The size of an approved signal keeps the budget and every cap, and is the
\* largest that does.
LEMMA ApprovedFits ==
    ASSUME NEW b \in Bots, NEW signal \in Signals, NEW capital \in Int,
           Judged(b, signal, capital).approved
    PROVE  LET size == Judged(b, signal, capital).position_size
           IN  /\ size \in Int /\ size >= 1
               /\ Keeps(Config[b], capital, signal, size)
               /\ ~ Keeps(Config[b], capital, signal, size + 1)
<1> DEFINE slice  == CapitalEfetivo(Config[b], capital)
           rp     == Config[b].risk_per_trade_pct
           mult   == Config[b].max_notional_multiple
           usd    == Config[b].max_notional_usd
           pct    == Config[b].max_pct_of_median_bar_notional
           median == MedianBarNotional(Candles, Config[b].liquidity_lookback_bars)
           liquidity == IF pct = Off THEN Off ELSE median
           cap    == TetoDeNotional(Config[b], capital, liquidity).cap
           dist   == RiskDistance(signal)
           price  == signal.entry
           risk   == QtyByRisk(Config[b], capital, dist)
           worth  == QtyByNotional(cap, price)
           size   == Judged(b, signal, capital).position_size
           Risky(n)   == n * dist * 100 <= slice * rp
           Owned(n)   == n * price <= slice * mult
           Capped(n)  == usd # Off => n * price <= usd
           Liquid(n)  == pct # Off => n * price * Scale <= pct * median
<1>1. price \in Nat \ {0} /\ dist \in Nat \ {0}
  BY ApprovedHasPrices
<1>2. /\ pct # Off => median # Off
      /\ size = Smaller(risk, worth) /\ ~ (size < 1)
  BY ApprovedIsSmaller
<1>3. /\ rp \in Int /\ mult \in Int /\ usd \in Int \cup {Off} /\ pct \in Int \cup {Off}
      /\ Config[b].liquidity_lookback_bars \in Nat /\ Candles \in Seq([close : Int, volume : Int])
  BY AmountsAssumption
<1>4. pct # Off => median \in Int
  BY <1>2, <1>3, MedianIsWhole
<1>5. liquidity \in Int \cup {Off} /\ (pct # Off => liquidity = median /\ liquidity # Off)
  BY <1>2, <1>4
<1>6. /\ slice \in Int /\ cap \in Int
      /\ cap <= Scale * slice * mult
      /\ usd # Off => cap <= Scale * usd
      /\ pct # Off => cap <= liquidity * pct
      /\ \/ cap = Scale * slice * mult
         \/ usd # Off /\ cap = Scale * usd
         \/ pct # Off /\ cap = liquidity * pct
  <2> HIDE DEF liquidity
  <2> QED
    BY <1>5, CapIsTheLowest
<1>7. risk = (slice * rp) \div (100 * dist) /\ worth = cap \div (Scale * price)
  BY DEF QtyByRisk, QtyByNotional
<1> HIDE DEF slice, rp, mult, usd, pct, median, liquidity, cap, dist, price, risk, worth, size
<1>8. /\ slice * rp \in Int /\ 100 * dist \in Nat \ {0} /\ Scale * price \in Nat \ {0}
  BY <1>1, <1>3, <1>6 DEF Scale
<1>9. risk \in Int /\ worth \in Int
  BY <1>6, <1>7, <1>8, CutIsTheLast
<1>10. /\ size \in Int /\ size >= 1 /\ size <= risk /\ size <= worth
       /\ size = risk \/ size = worth
  BY <1>2, <1>9 DEF Smaller
<1>11. size * (100 * dist) <= slice * rp /\ size * (Scale * price) <= cap
  BY <1>6, <1>7, <1>8, <1>10, CutSpendsBudget
<1>12. \/ ~ ((size + 1) * (100 * dist) <= slice * rp)
       \/ ~ ((size + 1) * (Scale * price) <= cap)
  <2>1. size = risk => ~ ((size + 1) * (100 * dist) <= slice * rp)
    BY <1>7, <1>8, <1>10, CutSpendsBudget
  <2>2. size = worth => ~ ((size + 1) * (Scale * price) <= cap)
    BY <1>6, <1>7, <1>8, <1>10, CutSpendsBudget
  <2> QED
    BY <1>10, <2>1, <2>2
<1>13. \A n \in Int : n * (100 * dist) = n * dist * 100 /\ n * (Scale * price) = n * price * 200
  BY <1>1 DEF Scale
<1>14. \A n \in Int : n * price \in Int /\ n * dist \in Int
  BY <1>1
<1>15. slice * mult \in Int /\ Scale * slice * mult = 200 * (slice * mult)
  BY <1>3, <1>6 DEF Scale
<1>16. pct # Off => liquidity = median /\ liquidity * pct = pct * median /\ pct * median \in Int
  BY <1>3, <1>4, <1>5
<1>17. Risky(size) /\ Owned(size) /\ Capped(size) /\ Liquid(size)
  <2>1. Risky(size)
    BY <1>10, <1>11, <1>13
  <2>2. size * price * 200 <= cap
    BY <1>10, <1>11, <1>13
  <2>3. Owned(size)
    BY <1>6, <1>10, <1>14, <1>15, <2>2
  <2>4. Capped(size)
    <3> DEFINE notional == size * price
    <3>1. notional \in Int /\ notional * 200 <= cap /\ cap \in Int
      BY <1>6, <1>10, <1>14, <2>2
    <3> HIDE DEF notional
    <3>2. usd # Off => usd \in Int /\ cap <= 200 * usd
      BY <1>3, <1>6 DEF Scale
    <3>3. usd # Off => notional <= usd
      BY <3>1, <3>2
    <3> QED
      BY <3>3 DEF notional
  <2>5. Liquid(size)
    BY <1>6, <1>10, <1>14, <1>16, <2>2 DEF Scale
  <2> QED
    BY <2>1, <2>3, <2>4, <2>5
<1>18. ASSUME NEW n \in Int, n = size + 1
       PROVE  ~ (Risky(n) /\ Owned(n) /\ Capped(n) /\ Liquid(n))
  <2>1. n * price \in Int
    BY <1>14
  <2>2. CASE ~ (n * (100 * dist) <= slice * rp)
    BY <1>13, <2>2
  <2>3. CASE ~ (n * (Scale * price) <= cap)
    <3>1. ~ (n * price * 200 <= cap)
      BY <1>13, <2>3
    <3>2. CASE cap = Scale * slice * mult
      BY <1>15, <2>1, <3>1, <3>2
    <3>3. CASE usd # Off /\ cap = Scale * usd
      BY <1>3, <2>1, <3>1, <3>3 DEF Scale
    <3>4. CASE pct # Off /\ cap = liquidity * pct
      BY <1>16, <2>1, <3>1, <3>4 DEF Scale
    <3> QED
      BY <1>6, <3>2, <3>3, <3>4
  <2> QED
    BY <1>12, <1>18, <2>2, <2>3
<1> HIDE DEF Judged
<1>19. \A n : Keeps(Config[b], capital, signal, n) <=>
                Risky(n) /\ Owned(n) /\ Capped(n) /\ Liquid(n)
  BY Zenon DEF Keeps, slice, rp, mult, usd, pct, median, dist, price
<1>20. ~ (Risky(size + 1) /\ Owned(size + 1) /\ Capped(size + 1) /\ Liquid(size + 1))
  BY <1>10, <1>18
<1> QED
  BY <1>10, <1>17, <1>19, <1>20, Zenon DEF size

\* The equity a process looked at is a number.
EquityTypeOK == equity \in [Bots -> Nat]

LEMMA EquityNext == EquityTypeOK /\ [LimitsNext]_limitsVars => EquityTypeOK'
<1> SUFFICES ASSUME EquityTypeOK, [LimitsNext]_limitsVars PROVE EquityTypeOK'
  OBVIOUS
<1>1. ASSUME NEW b \in Bots, ReadSummary(b) PROVE EquityTypeOK'
  BY <1>1, AccountAssumption DEF ReadSummary, EquityTypeOK
<1>2. ASSUME UNCHANGED equity PROVE EquityTypeOK'
  BY <1>2 DEF EquityTypeOK
<1> QED
  BY <1>1, <1>2 DEF LimitsNext, limitsVars, ReadPositions, ReadTrades, NoOrder, SendEntry,
                    EntryFills, EntryExpires, PositionCloses

\* Whatever is approved is sized to the last share: within the budget of risk
\* and every cap, and one share more would break one (risk/mod.rs:360, ADR-020).
THEOREM SizesSafe == LimitsSpec => []SizesFit
<1>1. LimitsInit => EquityTypeOK
  BY DEF LimitsInit, EquityTypeOK
<1>2. EquityTypeOK => SizesFit
  <2> SUFFICES ASSUME EquityTypeOK, NEW b \in Bots, NEW signal \in Signals,
                      Judged(b, signal, equity[b]).approved
               PROVE  LET check == Judged(b, signal, equity[b])
                      IN  /\ check.position_size >= 1
                          /\ Keeps(Config[b], equity[b], signal, check.position_size)
                          /\ ~ Keeps(Config[b], equity[b], signal, check.position_size + 1)
    BY Zenon DEF SizesFit, Judged
  <2>1. equity[b] \in Int
    BY DEF EquityTypeOK
  <2> QED
    BY <2>1, ApprovedFits
<1> QED
  BY <1>1, <1>2, EquityNext, PTL DEF LimitsSpec

-----------------------------------------------------------------------------
(* NotionalKeptAlone *)

\* The notional of what is open, as SumOver adds it.
LEMMA NotionalIsTotal == \A bots : Notional(bots) = SumOver(entry, bots)
BY DEF Notional, SumOver

EntryTypeOK == entry \in [Bots -> Nat]

\* What a process that decides alone knows of the account: that the look found
\* room for what it may add, and then that its bracket is within that room.
Foreseen ==
    peak = 1 => \A b \in Bots :
      /\ step[b] \in {"trades", "signal"} =>
           ~ NotionalHit(Notional(Holding), equity[b], Prospective(b))
      /\ step[b] = "working" =>
           (Notional(Holding) + entry[b]) * 100 <= equity[b] * MaxNotionalPct

AloneInv == CountInv /\ EquityTypeOK /\ EntryTypeOK /\ Foreseen

\* While one decides at a time, it is the only one.
LEMMA DecidesAlone ==
    ASSUME CountInv, peak <= 1, NEW b \in Deciding, NEW c \in Deciding
    PROVE  b = c /\ peak = 1
<1>1. IsFiniteSet(Deciding) /\ Cardinality(Deciding) \in Nat /\ Cardinality(Deciding) <= peak
  <2>1. Deciding \subseteq Bots
    BY DEF Deciding
  <2> QED BY <2>1, CountsAreNaturals DEF CountInv, PeakCovers
<1>2. IsFiniteSet(Deciding \ {b}) /\ Cardinality(Deciding \ {b}) = Cardinality(Deciding) - 1
  BY <1>1, FS_RemoveElement
<1>3. peak \in Nat
  BY DEF CountInv, CountTypeOK
<1>4. Cardinality(Deciding \ {b}) \in Nat
  BY <1>2, FS_CardinalityType
<1>5. peak = 1 /\ Cardinality(Deciding \ {b}) = 0
  BY <1>1, <1>2, <1>3, <1>4
<1>6. Deciding \ {b} = {}
  BY <1>2, <1>5, FS_EmptySet
<1> QED
  BY <1>5, <1>6

\* What is open is not worth more after a step that opens nothing.
LEMMA NotionalShrinks ==
    ASSUME EntryTypeOK, EntryTypeOK', Holding' \subseteq Holding,
           \A x \in Holding' : entry'[x] = entry[x]
    PROVE  /\ Notional(Holding) \in Nat /\ Notional(Holding)' \in Nat
           /\ Notional(Holding)' <= Notional(Holding)
<1>1. IsFiniteSet(Holding) /\ IsFiniteSet(Holding')
  <2>1. Holding \subseteq Bots /\ Holding' \subseteq Bots
    BY DEF Holding
  <2> QED BY <2>1, CountsAreNaturals
<1>2. \A x \in Holding : entry[x] \in Nat
  BY DEF EntryTypeOK, Holding
<1>3. \A x \in Holding' : entry'[x] \in Nat
  BY DEF EntryTypeOK, Holding
<1>4. SumOver(entry, Holding) \in Nat /\ SumOver(entry', Holding') \in Nat
  BY <1>1, <1>2, <1>3, TotalNat
<1>5. SumOver(entry', Holding') = SumOver(entry, Holding')
  BY <1>1, TotalSame
<1>6. SumOver(entry, Holding') <= SumOver(entry, Holding)
  BY <1>1, <1>2, TotalOfPart
<1>7. Notional(Holding) = SumOver(entry, Holding) /\ Notional(Holding)' = SumOver(entry', Holding')
  BY Zenon DEF Notional, SumOver, MapThenSumSet, MapThenFoldSet
<1> QED
  BY <1>4, <1>5, <1>6, <1>7

\* Less that is open leaves at least the room there was.
LEMMA RoomStays ==
    ASSUME NEW n \in Nat, NEW m \in Nat, m <= n, NEW worth, NEW prospective \in Int,
           worth * MaxNotionalPct * 2 \in Int, ~ NotionalHit(n, worth, prospective)
    PROVE  ~ NotionalHit(m, worth, prospective)
BY DEF NotionalHit, Scale

\* The cap without the liquidity is a number.
LEMMA ProspectiveIsWhole ==
    ASSUME NEW b \in Bots, equity[b] \in Nat
    PROVE  Prospective(b) \in Int
<1> DEFINE liquidity == Off
<1>1. liquidity \in Int \cup {Off} /\ equity[b] \in Int
  OBVIOUS
<1> HIDE DEF liquidity
<1>2. TetoDeNotional(Config[b], equity[b], liquidity).cap \in Int
  BY <1>1, CapIsTheLowest
<1> QED
  BY <1>2, Zenon DEF Prospective, liquidity

\* The bracket a process sends after a look that found room is within that room,
\* whatever size it got: the look counts the cap without the liquidity, and no
\* size is above it.  Without an equity nothing is approved.
LEMMA BracketWithinRoom ==
    ASSUME NEW b \in Bots, equity[b] \in Nat, NEW signal \in Signals,
           Judged(b, signal, equity[b]).approved,
           NEW n \in Nat, ~ NotionalHit(n, equity[b], Prospective(b))
    PROVE  LET notional == Judged(b, signal, equity[b]).position_size * signal.entry
           IN  notional \in Nat /\ (n + notional) * 100 <= equity[b] * MaxNotionalPct
<1> DEFINE worth == equity[b]
           slice == CapitalEfetivo(Config[b], worth)
           mult  == Config[b].max_notional_multiple
           usd   == Config[b].max_notional_usd
           size  == Judged(b, signal, worth).position_size
           price == signal.entry
           cap   == Prospective(b)
           notional == size * price
           liquidity == Off
<1>1. price \in Nat \ {0} /\ worth \in Nat /\ worth \in Int
  BY ApprovedHasPrices
<1>2. size \in Int /\ size >= 1 /\ Keeps(Config[b], worth, signal, size)
  BY <1>1, ApprovedFits
<1>3. notional <= slice * mult /\ (usd # Off => notional <= usd)
  BY <1>2, Zenon DEF Keeps
<1>4. mult \in Int /\ usd \in Int \cup {Off} /\ mult >= 1
  BY AmountsAssumption, AccountAssumption DEF ValidConfig
<1>5. /\ slice \in Int /\ cap \in Int
      /\ cap = Scale * slice * mult \/ (usd # Off /\ cap = Scale * usd)
  <2>1. liquidity \in Int \cup {Off} /\ cap = TetoDeNotional(Config[b], worth, liquidity).cap
    BY DEF Prospective
  <2>2. ~ (liquidity # Off)
    OBVIOUS
  <2> HIDE DEF liquidity, cap, worth, slice, mult, usd
  <2> QED
    BY <1>1, <2>1, <2>2, CapIsTheLowest DEF slice, mult, usd
<1> HIDE DEF size, price
<1>6. notional \in Nat /\ notional >= 1
  BY <1>1, <1>2
<1>7. worth # 0
  <2> SUFFICES ASSUME worth = 0 PROVE FALSE
    OBVIOUS
  <2>1. worth * Config[b].capital_fraction = 0
    BY AmountsAssumption
  <2>2. slice = 0
    <3>1. slice = RoundHalfEven(0, 100)
      BY <2>1, Zenon DEF CapitalEfetivo
    <3>2. RoundHalfEven(0, 100) = 0
      BY DEF RoundHalfEven
    <3> QED BY <3>1, <3>2
  <2>3. slice * mult = 0
    BY <1>4, <2>2
  <2> QED
    BY <1>3, <1>6, <2>3
<1> HIDE DEF notional, slice, mult, usd, cap, worth
<1>8. notional * 200 <= cap
  <2>1. slice * mult \in Int /\ Scale * slice * mult = 200 * (slice * mult)
    BY <1>4, <1>5 DEF Scale
  <2>2. CASE cap = Scale * slice * mult
    BY <1>3, <1>6, <2>1, <2>2
  <2>3. CASE usd # Off /\ cap = Scale * usd
    BY <1>3, <1>4, <1>6, <2>3 DEF Scale
  <2> QED
    BY <1>5, <2>2, <2>3
<1>9. ~ (n * Scale + cap > worth * MaxNotionalPct * 2)
  BY <1>1, <1>7 DEF NotionalHit, worth, cap
<1>10. worth * MaxNotionalPct \in Int
  BY <1>1, AccountAssumption
<1>11. (n + notional) * 100 <= worth * MaxNotionalPct
  BY <1>5, <1>6, <1>8, <1>9, <1>10 DEF Scale
<1> QED
  BY <1>6, <1>11 DEF notional, size, price, worth

\* Room that was found stays as long as nothing opens.
LEMMA RoomKept ==
    ASSUME EquityTypeOK, EntryTypeOK, EntryTypeOK', NEW b \in Bots, equity'[b] = equity[b],
           Holding' \subseteq Holding, \A x \in Holding' : entry'[x] = entry[x],
           ~ NotionalHit(Notional(Holding), equity[b], Prospective(b))
    PROVE  ~ NotionalHit(Notional(Holding), equity[b], Prospective(b))'
<1>1. /\ Notional(Holding) \in Nat /\ Notional(Holding)' \in Nat
      /\ Notional(Holding)' <= Notional(Holding)
  BY NotionalShrinks
<1>2. equity[b] \in Nat /\ equity[b] * MaxNotionalPct * 2 \in Int
  BY AccountAssumption DEF EquityTypeOK
<1>3. Prospective(b)' = Prospective(b) /\ Prospective(b) \in Int
  BY <1>2, ProspectiveIsWhole DEF Prospective
<1>4. ~ NotionalHit(Notional(Holding)', equity[b], Prospective(b))
  BY <1>1, <1>2, <1>3, RoomStays
<1>5. NotionalHit(Notional(Holding), equity[b], Prospective(b))' <=>
        NotionalHit(Notional(Holding)', equity[b], Prospective(b))
  BY <1>3 DEF NotionalHit
<1> QED BY <1>4, <1>5

\* A step of another process leaves alone what the one that decides knows.
LEMMA OthersLeaveRoom ==
    ASSUME AloneInv, EquityTypeOK', EntryTypeOK', NEW b \in Bots, peak = 1,
           step'[b] = step[b], equity'[b] = equity[b], entry'[b] = entry[b],
           Holding' \subseteq Holding, \A x \in Holding' : entry'[x] = entry[x]
    PROVE  /\ step'[b] \in {"trades", "signal"} =>
                ~ NotionalHit(Notional(Holding), equity[b], Prospective(b))'
           /\ step'[b] = "working" =>
                ((Notional(Holding) + entry[b]) * 100 <= equity[b] * MaxNotionalPct)'
<1>1. /\ Notional(Holding) \in Nat /\ Notional(Holding)' \in Nat
      /\ Notional(Holding)' <= Notional(Holding)
  BY NotionalShrinks DEF AloneInv
<1>2. equity[b] \in Nat /\ entry[b] \in Nat
  BY DEF AloneInv, EquityTypeOK, EntryTypeOK
<1>3. equity[b] * MaxNotionalPct \in Int
  BY <1>2, AccountAssumption
<1>4. CASE step'[b] \in {"trades", "signal"}
  <2>1. ~ NotionalHit(Notional(Holding), equity[b], Prospective(b))
    BY <1>4 DEF AloneInv, Foreseen
  <2> QED BY <1>4, <2>1, RoomKept DEF AloneInv
<1>5. CASE step'[b] = "working"
  <2>1. (Notional(Holding) + entry[b]) * 100 <= equity[b] * MaxNotionalPct
    BY <1>5 DEF AloneInv, Foreseen
  <2>2. (Notional(Holding)' + entry[b]) * 100 <= equity[b] * MaxNotionalPct
    BY <1>1, <1>2, <1>3, <2>1
  <2> QED BY <1>5, <2>2
<1>6. CASE step'[b] \notin {"trades", "signal", "working"}
  BY <1>6
<1> QED
  BY <1>4, <1>5, <1>6

\* A process that sends, fills or closes changes its own bracket only, to a number.
LEMMA EntryTypes == EquityTypeOK /\ EntryTypeOK /\ [LimitsNext]_limitsVars => EntryTypeOK'
<1> SUFFICES ASSUME EquityTypeOK, EntryTypeOK, [LimitsNext]_limitsVars PROVE EntryTypeOK'
  OBVIOUS
<1>1. ASSUME NEW b \in Bots, SendEntry(b) PROVE EntryTypeOK'
  <2>1. PICK signal \in Signals :
          /\ Judged(b, signal, equity[b]).approved
          /\ entry' = [entry EXCEPT
                         ![b] = Judged(b, signal, equity[b]).position_size * signal.entry]
    BY <1>1, Zenon DEF SendEntry, Judged
  <2>2. equity[b] \in Int
    BY DEF EquityTypeOK
  <2> DEFINE size == Judged(b, signal, equity[b]).position_size
  <2>3. size \in Int /\ size >= 1 /\ signal.entry \in Nat \ {0}
    BY <2>1, <2>2, ApprovedFits, ApprovedHasPrices
  <2> HIDE DEF size
  <2>4. size * signal.entry \in Nat
    BY <2>3
  <2> QED
    BY <2>1, <2>4 DEF EntryTypeOK, size
<1>2. ASSUME NEW b \in Bots, EntryExpires(b) \/ PositionCloses(b) PROVE EntryTypeOK'
  BY <1>2 DEF EntryExpires, PositionCloses, EntryTypeOK
<1>3. ASSUME UNCHANGED entry PROVE EntryTypeOK'
  BY <1>3 DEF EntryTypeOK
<1> QED
  BY <1>1, <1>2, <1>3 DEF LimitsNext, limitsVars, ReadSummary, ReadPositions, ReadTrades,
                          NoOrder, EntryFills

\* What the step of a process does to what another one knows.
LEMMA ForeseenOther ==
    ASSUME AloneInv, CountInv', EquityTypeOK', EntryTypeOK', peak' = 1,
           NEW b \in Bots, NEW c \in Bots, b # c,
           \/ ReadSummary(c) \/ ReadPositions(c) \/ ReadTrades(c) \/ NoOrder(c) \/ SendEntry(c)
           \/ EntryFills(c) \/ EntryExpires(c) \/ PositionCloses(c),
           step'[b] \in {"trades", "signal", "working"}
    PROVE  /\ step'[b] \in {"trades", "signal"} =>
                ~ NotionalHit(Notional(Holding), equity[b], Prospective(b))'
           /\ step'[b] = "working" =>
                ((Notional(Holding) + entry[b]) * 100 <= equity[b] * MaxNotionalPct)'
<1>0. step \in [Bots -> Steps] /\ peak \in Nat
  BY DEF AloneInv, CountInv, CountTypeOK
<1>1. step'[b] = step[b]
  BY <1>0 DEF ReadSummary, ReadPositions, ReadTrades, NoOrder, SendEntry, EntryFills,
              EntryExpires, PositionCloses
<1>2. b \in Deciding /\ b \in Deciding'
  BY <1>1 DEF Deciding
<1>3. peak <= 1
  BY <1>0 DEF ReadSummary, ReadPositions, ReadTrades, NoOrder, SendEntry, EntryFills,
              EntryExpires, PositionCloses
<1>4. peak = 1 /\ c \notin Deciding
  BY <1>2, <1>3, DecidesAlone DEF AloneInv
<1>5. c \notin Deciding'
  <2>1. IsFiniteSet(Deciding') /\ Cardinality(Deciding') <= 1
    <3>1. Deciding' \subseteq Bots
      BY DEF Deciding
    <3> QED BY <3>1, CountsAreNaturals DEF CountInv, PeakCovers
  <2>2. /\ IsFiniteSet(Deciding' \ {b})
        /\ Cardinality(Deciding' \ {b}) = Cardinality(Deciding') - 1
    BY <1>2, <2>1, FS_RemoveElement
  <2>3. Cardinality(Deciding' \ {b}) \in Nat /\ Cardinality(Deciding') \in Nat
    BY <2>1, <2>2, FS_CardinalityType
  <2>4. Cardinality(Deciding' \ {b}) = 0
    BY <2>1, <2>2, <2>3
  <2> QED BY <2>2, <2>4, FS_EmptySet
<1>6. step[c] \notin {"trades", "signal", "working"} /\ step'[c] \notin {"trades", "signal", "working"}
  BY <1>4, <1>5 DEF Deciding
<1>7. \/ step' = [step EXCEPT ![c] = "positions"] /\ UNCHANGED entry
           /\ \E e : equity' = [equity EXCEPT ![c] = e]
      \/ step' = [step EXCEPT ![c] = "idle"] /\ UNCHANGED equity
           /\ (UNCHANGED entry \/ entry' = [entry EXCEPT ![c] = 0])
  BY <1>0, <1>6 DEF ReadSummary, ReadPositions, ReadTrades, NoOrder, SendEntry, EntryFills,
              EntryExpires, PositionCloses
<1>8. /\ equity'[b] = equity[b] /\ entry'[b] = entry[b]
      /\ Holding' \subseteq Holding /\ \A x \in Holding' : entry'[x] = entry[x]
  BY <1>0, <1>7 DEF AloneInv, EquityTypeOK, EntryTypeOK, Holding
<1> QED
  BY <1>1, <1>4, <1>8, OthersLeaveRoom

\* What a step of a process does to what it knows itself: a look that found room
\* gives it, the send turns it into a bracket, and nothing between loses it.
LEMMA ForeseenOwn ==
    ASSUME AloneInv, CountInv', EquityTypeOK', EntryTypeOK', peak' = 1, NEW b \in Bots,
           \/ ReadSummary(b) \/ ReadPositions(b) \/ ReadTrades(b) \/ NoOrder(b) \/ SendEntry(b)
           \/ EntryFills(b) \/ EntryExpires(b) \/ PositionCloses(b)
    PROVE  /\ step'[b] \in {"trades", "signal"} =>
                ~ NotionalHit(Notional(Holding), equity[b], Prospective(b))'
           /\ step'[b] = "working" =>
                ((Notional(Holding) + entry[b]) * 100 <= equity[b] * MaxNotionalPct)'
<1>0. step \in [Bots -> Steps] /\ peak \in Nat /\ equity[b] \in Nat /\ entry \in [Bots -> Nat]
  BY DEF AloneInv, CountInv, CountTypeOK, EquityTypeOK, EntryTypeOK
<1>1. CASE ReadPositions(b)
  <2>1. CASE ExposureLimitHit(Cardinality(Holding), Notional(Holding), equity[b], Prospective(b))
    <3>1. step'[b] = "idle"
      BY <1>0, <1>1, <2>1 DEF ReadPositions
    <3> QED BY <3>1
  <2>2. CASE ~ ExposureLimitHit(Cardinality(Holding), Notional(Holding), equity[b], Prospective(b))
    <3>1. /\ step[b] = "positions" /\ step' = [step EXCEPT ![b] = "trades"]
          /\ UNCHANGED <<equity, entry>>
      BY <1>1, <2>2 DEF ReadPositions
    <3>2. step'[b] = "trades" /\ Holding' = Holding
      BY <1>0, <3>1 DEF Holding
    <3>3. ~ NotionalHit(Notional(Holding), equity[b], Prospective(b))
      BY <2>2 DEF ExposureLimitHit
    <3>4. ~ NotionalHit(Notional(Holding), equity[b], Prospective(b))'
      BY <3>1, <3>2, <3>3, RoomKept DEF AloneInv
    <3> QED BY <3>2, <3>4
  <2> QED BY <2>1, <2>2
<1>2. CASE ReadTrades(b)
  <2>1. /\ step[b] = "trades" /\ step'[b] \in {"idle", "signal"}
        /\ \E next \in {"idle", "signal"} : step' = [step EXCEPT ![b] = next]
        /\ UNCHANGED <<equity, entry, peak>>
    BY <1>0, <1>2 DEF ReadTrades
  <2>2. Holding' = Holding
    BY <1>0, <2>1 DEF Holding
  <2>3. ~ NotionalHit(Notional(Holding), equity[b], Prospective(b))
    BY <2>1 DEF AloneInv, Foreseen
  <2>4. ~ NotionalHit(Notional(Holding), equity[b], Prospective(b))'
    BY <2>1, <2>2, <2>3, RoomKept DEF AloneInv
  <2> QED BY <2>1, <2>4
<1>3. CASE SendEntry(b)
  <2>1. PICK signal \in Signals :
          /\ Judged(b, signal, equity[b]).approved
          /\ entry' = [entry EXCEPT
                         ![b] = Judged(b, signal, equity[b]).position_size * signal.entry]
    BY <1>3, Zenon DEF SendEntry, Judged
  <2>2. /\ step[b] = "signal" /\ step' = [step EXCEPT ![b] = "working"]
        /\ UNCHANGED <<equity, peak>>
    BY <1>3 DEF SendEntry
  <2>3. /\ step'[b] = "working" /\ Holding' = Holding /\ b \notin Holding
        /\ \A x \in Holding' : entry'[x] = entry[x]
    BY <1>0, <2>1, <2>2 DEF Holding
  <2>4. /\ Notional(Holding) \in Nat /\ Notional(Holding)' \in Nat
        /\ Notional(Holding)' <= Notional(Holding)
    BY <2>3, NotionalShrinks DEF AloneInv
  <2>5. ~ NotionalHit(Notional(Holding), equity[b], Prospective(b))
    BY <2>2 DEF AloneInv, Foreseen
  <2> DEFINE notional == Judged(b, signal, equity[b]).position_size * signal.entry
  <2>6. /\ notional \in Nat
        /\ (Notional(Holding) + notional) * 100 <= equity[b] * MaxNotionalPct
    BY <1>0, <2>1, <2>4, <2>5, BracketWithinRoom
  <2>7. entry'[b] = notional /\ equity'[b] = equity[b]
    BY <1>0, <2>1, <2>2
  <2>8. equity[b] * MaxNotionalPct \in Int
    BY <1>0, AccountAssumption
  <2> HIDE DEF notional
  <2>9. (Notional(Holding)' + notional) * 100 <= equity[b] * MaxNotionalPct
    BY <2>4, <2>6, <2>8
  <2> QED
    BY <2>3, <2>7, <2>9
<1>4. CASE \/ ReadSummary(b) \/ NoOrder(b) \/ EntryFills(b) \/ EntryExpires(b)
           \/ PositionCloses(b)
  <2>1. step'[b] \in {"idle", "positions", "open"}
    BY <1>0, <1>4 DEF ReadSummary, NoOrder, EntryFills, EntryExpires, PositionCloses
  <2> QED BY <2>1
<1> QED
  BY <1>1, <1>2, <1>3, <1>4

\* Together they are inductive.
LEMMA AloneNext == AloneInv /\ [LimitsNext]_limitsVars => AloneInv'
<1> SUFFICES ASSUME AloneInv, [LimitsNext]_limitsVars PROVE AloneInv'
  OBVIOUS
<1>1. CountInv'
  BY CountNext DEF AloneInv
<1>2. EquityTypeOK'
  BY EquityNext DEF AloneInv
<1>3. EntryTypeOK'
  BY EntryTypes DEF AloneInv
<1>4. CASE UNCHANGED limitsVars
  <2>1. UNCHANGED <<step, equity, entry, peak>>
    BY <1>4 DEF limitsVars
  <2>2. Holding' = Holding
    BY <2>1 DEF Holding
  <2>3. Foreseen'
    BY <1>2, <1>3, <2>1, <2>2, OthersLeaveRoom DEF Foreseen
  <2> QED BY <1>1, <1>2, <1>3, <2>3 DEF AloneInv
<1>5. ASSUME NEW c \in Bots,
             \/ ReadSummary(c) \/ ReadPositions(c) \/ ReadTrades(c) \/ NoOrder(c)
             \/ SendEntry(c) \/ EntryFills(c) \/ EntryExpires(c) \/ PositionCloses(c)
      PROVE  Foreseen'
  <2> SUFFICES ASSUME peak' = 1, NEW b \in Bots
               PROVE  /\ step'[b] \in {"trades", "signal"} =>
                           ~ NotionalHit(Notional(Holding), equity[b], Prospective(b))'
                      /\ step'[b] = "working" =>
                           ((Notional(Holding) + entry[b]) * 100 <= equity[b] * MaxNotionalPct)'
    BY DEF Foreseen
  <2>1. CASE b = c
    BY <1>1, <1>2, <1>3, <1>5, <2>1, ForeseenOwn
  <2>2. CASE b # c /\ step'[b] \in {"trades", "signal", "working"}
    BY <1>1, <1>2, <1>3, <1>5, <2>2, ForeseenOther
  <2>3. CASE step'[b] \notin {"trades", "signal", "working"}
    BY <2>3
  <2> QED BY <2>1, <2>2, <2>3
<1> QED
  BY <1>1, <1>2, <1>3, <1>4, <1>5 DEF LimitsNext, AloneInv

\* While processes decide one at a time, a position that opens leaves the account
\* under the ceiling of the equity its process read, for any number of processes
\* and any sizes: the look counts what the process may add (paper.rs:502, ADR-020).
THEOREM NotionalSafe == LimitsSpec => NotionalKeptAlone
<1> DEFINE Kept == \A b \in Bots : peak = 1 /\ step[b] = "working" /\ step'[b] = "open" =>
                     Notional(Holding') * 100 <= equity[b] * MaxNotionalPct
<1>1. LimitsInit => AloneInv
  <2> SUFFICES ASSUME LimitsInit PROVE AloneInv
    OBVIOUS
  <2>1. CountInv
    BY CountInit
  <2> QED
    BY <2>1 DEF LimitsInit, AloneInv, EquityTypeOK, EntryTypeOK, Foreseen
<1>2. AloneInv /\ [LimitsNext]_limitsVars => [Kept]_limitsVars
  <2> SUFFICES ASSUME AloneInv, LimitsNext, NEW b \in Bots,
                      peak = 1, step[b] = "working", step'[b] = "open"
               PROVE  Notional(Holding') * 100 <= equity[b] * MaxNotionalPct
    OBVIOUS
  <2>0. step \in [Bots -> Steps] /\ entry \in [Bots -> Nat]
    BY DEF AloneInv, CountInv, CountTypeOK, EntryTypeOK
  <2>1. EntryFills(b)
    BY <2>0 DEF LimitsNext, ReadSummary, ReadPositions, ReadTrades, NoOrder, SendEntry,
       EntryFills, EntryExpires, PositionCloses
  <2>2. Holding' = Holding \cup {b} /\ b \notin Holding
    BY <2>0, <2>1 DEF EntryFills, Holding
  <2>3. IsFiniteSet(Holding)
    <3>1. Holding \subseteq Bots
      BY DEF Holding
    <3> QED BY <3>1, CountsAreNaturals
  <2>4. SumOver(entry, Holding \cup {b}) = SumOver(entry, Holding) + entry[b]
    <3>1. \A x \in Holding : entry[x] \in Int
      BY <2>0 DEF Holding
    <3> QED BY <2>0, <2>2, <2>3, <3>1, TotalPlus
  <2>5. (Notional(Holding) + entry[b]) * 100 <= equity[b] * MaxNotionalPct
    BY DEF AloneInv, Foreseen
  <2> QED
    BY <2>2, <2>4, <2>5, NotionalIsTotal
<1> QED
  BY <1>1, <1>2, AloneNext, PTL DEF LimitsSpec, NotionalKeptAlone

(***************************************************************************)
(* BracketWhole and RejectedIsDead, whatever may be asked for and however  *)
(* often the connection is tried.                                          *)
(***************************************************************************)
Stands == {"connect", "build", "send", "confirm", "done"}
Dead == \A l \in Legs : leg[l] \in {"absent", "dead"}

CallTypeOK ==
    /\ request \in RequestKinds /\ at \in Stands
    /\ sent \in 0 .. 3 /\ leg \in [Legs -> LegStatuses]
    /\ words \in Seq({"open", "filled", "refused"})

\* Legs are sent only of what could be built, none twice, and of a chain that is
\* not released the gateway says nothing.
Sending ==
    /\ sent <= LegCount
    /\ at \in {"connect", "build"} => sent = 0
    /\ at = "send" => sent < LegCount /\ request \in {"simple", "bracket"}
    /\ sent < LegCount => words = << >>

\* Before the last leg the gateway holds all it has; after it, it has them all.
Chain ==
    /\ sent < LegCount => \A l \in Legs : leg[l] \in {"absent", "held"}
    /\ sent = LegCount =>
        \A l \in Legs : leg[l] # "held" /\ (l <= LegCount => leg[l] # "absent")
    /\ sent = 0 => \A l \in Legs : leg[l] = "absent"
    /\ \A l \in Legs : leg[l] = "filled" => l = Parent

\* A refusal that was said, read or not, is of an order that is dead.
Refusals ==
    /\ \A i \in 1 .. Len(words) : words[i] = "refused" => Dead
    /\ reply = "rejected" => at = "done"

CallInv == CallTypeOK /\ Sending /\ Chain /\ Refusals /\ RejectedIsDead

-----------------------------------------------------------------------------
\* What the gateway holds, works or refused is whole.
LEMMA Whole == CallInv => BracketWhole
BY DEF CallInv, CallTypeOK, Sending, Chain, BracketWhole, LegCount, Legs, Parent, LegStatuses

\* The steps of the call that send nothing.
LEMMA CallKeeps ==
    ASSUME CallInv, Handshake \/ HandshakeFails \/ Built \/ NotBuilt \/ SendFails
                    \/ NoWord \/ StreamBreaks \/ TimesOut
    PROVE  CallInv'
<1>1. UNCHANGED <<request, sent, leg, words>>
  BY DEF Handshake, HandshakeFails, Built, NotBuilt, SendFails, NoWord, StreamBreaks, TimesOut
<1>2. CallTypeOK'
  BY <1>1 DEF CallInv, CallTypeOK, Stands, Handshake, HandshakeFails, Built, NotBuilt,
              SendFails, NoWord, StreamBreaks, TimesOut, Answer
<1>3. Sending'
  BY <1>1 DEF CallInv, CallTypeOK, Sending, LegCount, Handshake, HandshakeFails, Built, NotBuilt,
              SendFails, NoWord, StreamBreaks, TimesOut, Answer
<1>4. Chain'
  BY <1>1 DEF CallInv, Chain, LegCount
<1>5. Refusals'
  BY <1>1 DEF CallInv, Refusals, Dead, Handshake, HandshakeFails, Built, NotBuilt, SendFails,
              NoWord, StreamBreaks, TimesOut, Answer
<1>6. RejectedIsDead'
  <2>1. CASE NotBuilt \/ SendFails
    <3>1. \A l \in Legs : leg[l] \in {"absent", "held"}
      BY <2>1 DEF NotBuilt, SendFails, CallInv, CallTypeOK, Sending, Chain
    <3> QED
      BY <1>1, <3>1 DEF RejectedIsDead
  <2>2. CASE Handshake \/ HandshakeFails \/ Built \/ NoWord \/ StreamBreaks \/ TimesOut
    <3>1. reply' = "rejected" => reply = "rejected"
      BY <2>2 DEF Handshake, HandshakeFails, Built, NoWord, StreamBreaks, TimesOut, Answer,
                  SilenceMeans
    <3> QED
      BY <1>1, <3>1 DEF RejectedIsDead, CallInv
  <2> QED
    BY <2>1, <2>2
<1> QED
  BY <1>2, <1>3, <1>4, <1>5, <1>6 DEF CallInv

LEMMA SendLegKeeps ==
    ASSUME CallInv, SendLeg
    PROVE  CallInv'
<1>1. /\ at = "send" /\ sent \in 0 .. 3 /\ sent < LegCount
      /\ request \in {"simple", "bracket"} /\ request' = request /\ LegCount' = LegCount
      /\ LegCount \in 1 .. 3 /\ sent' = sent + 1 /\ reply' = reply /\ reply # "rejected"
  BY DEF SendLeg, CallInv, CallTypeOK, Sending, Refusals, LegCount
<1>2. \A l \in Legs : leg[l] \in {"absent", "held"}
  BY <1>1 DEF CallInv, Chain
<1>3. leg' = IF sent' = LegCount
             THEN [l \in Legs |-> IF l <= sent' THEN "working" ELSE "absent"]
             ELSE [leg EXCEPT ![sent'] = "held"]
  BY DEF SendLeg, Transmits
<1>4. leg' \in [Legs -> LegStatuses]
  BY <1>1, <1>3 DEF CallInv, CallTypeOK, LegStatuses, Legs
<1>5. /\ words' \in Seq({"open", "filled", "refused"})
      /\ \A i \in 1 .. Len(words') : words'[i] # "refused"
  <2>1. /\ words \in Seq({"open", "filled", "refused"})
        /\ words' = words \/ words' = Append(words, "open")
    BY DEF SendLeg, CallInv, CallTypeOK
  <2>2. words = << >>
    BY <1>1 DEF CallInv, Sending
  <2>3. CASE words' = words
    BY <2>1, <2>2, <2>3
  <2>4. CASE words' = Append(words, "open")
    <3>1. "open" \in {"open", "filled", "refused"} /\ Len(words) = 0
      BY <2>2
    <3>2. /\ words' \in Seq({"open", "filled", "refused"}) /\ Len(words') = 1
          /\ words'[1] = "open"
      BY <2>1, <2>4, <3>1
    <3> QED
      BY <3>2
  <2> QED
    BY <2>1, <2>3, <2>4
<1>6. CallTypeOK' /\ Sending'
  BY <1>1, <1>4, <1>5 DEF CallInv, CallTypeOK, Sending, SendLeg, Stands, Transmits
<1>7. Chain'
  BY <1>1, <1>2, <1>3 DEF Chain, CallInv, CallTypeOK, Legs, Parent
<1>8. Refusals' /\ RejectedIsDead'
  BY <1>1, <1>5 DEF Refusals, RejectedIsDead
<1> QED
  BY <1>6, <1>7, <1>8 DEF CallInv

\* The answer is the oldest word nobody read.
LEMMA ConfirmKeeps ==
    ASSUME CallInv, Confirm
    PROVE  CallInv'
<1>1. /\ UNCHANGED <<request, sent, leg>> /\ words # << >> /\ words' = Tail(words)
      /\ at' = "done" /\ reply' = Meaning(Head(words))
  BY DEF Confirm, Answer
<1>2. /\ words \in Seq({"open", "filled", "refused"})
      /\ words' \in Seq({"open", "filled", "refused"})
      /\ Len(words) \in Nat /\ Len(words) >= 1 /\ Len(words') = Len(words) - 1
      /\ Head(words) = words[1]
      /\ \A i \in 1 .. Len(words') : words'[i] = words[i + 1]
  BY <1>1 DEF CallInv, CallTypeOK
<1>3. CallTypeOK' /\ Sending' /\ Chain'
  BY <1>1, <1>2 DEF CallInv, CallTypeOK, Sending, Chain, Stands, LegCount
<1>4. \A i \in 1 .. Len(words) : words[i] = "refused" => Dead
  BY DEF CallInv, Refusals
<1>5. Dead' <=> Dead
  BY <1>1 DEF Dead
<1>6. \A i \in 1 .. Len(words') : words'[i] = "refused" => Dead'
  <2> TAKE i \in 1 .. Len(words')
  <2>1. i + 1 \in 1 .. Len(words) /\ words'[i] = words[i + 1]
    BY <1>2
  <2> QED
    BY <1>4, <1>5, <2>1
<1>7. reply' = "rejected" => Dead
  <2>1. reply' = "rejected" => words[1] = "refused"
    BY <1>1, <1>2 DEF Meaning
  <2> QED
    BY <1>2, <1>4, <2>1
<1>8. Refusals' /\ RejectedIsDead'
  BY <1>1, <1>5, <1>6, <1>7 DEF Refusals, RejectedIsDead, Dead
<1> QED
  BY <1>3, <1>8 DEF CallInv

\* The gateway moves only a chain that was released.
LEMMA GatewayKeeps ==
    ASSUME CallInv, Refuse \/ FillParent
    PROVE  CallInv'
<1>1. /\ UNCHANGED <<request, at, tries, sent, reply>>
      /\ leg[Parent] = "working" /\ Parent \in Legs
      /\ words' = Append(words, "refused") \/ words' = Append(words, "filled")
  BY DEF Refuse, FillParent, Parent, Legs
<1>2. /\ sent = LegCount /\ LegCount' = LegCount /\ LegCount \in 1 .. 3
      /\ sent \in 0 .. 3 /\ reply # "rejected" /\ ~ Dead
  BY <1>1 DEF CallInv, CallTypeOK, Sending, Chain, LegCount, Dead, RejectedIsDead
<1>3. /\ leg' \in [Legs -> LegStatuses]
      /\ words' \in Seq({"open", "filled", "refused"})
  <2>1. leg \in [Legs -> LegStatuses] /\ words \in Seq({"open", "filled", "refused"})
    BY DEF CallInv, CallTypeOK
  <2>2. leg' \in [Legs -> LegStatuses]
    BY <2>1 DEF Refuse, FillParent, LegStatuses
  <2> QED
    BY <1>1, <2>1, <2>2
<1>4. CallTypeOK' /\ Sending'
  BY <1>1, <1>2, <1>3 DEF CallInv, CallTypeOK, Sending
<1>5. Chain'
  BY <1>1, <1>2 DEF Chain, CallInv, CallTypeOK, LegStatuses, Legs, Parent, Refuse, FillParent
<1>6. /\ words \in Seq({"open", "filled", "refused"}) /\ Len(words) \in Nat
      /\ \A i \in 1 .. Len(words) : words[i] # "refused"
  BY <1>2 DEF CallInv, CallTypeOK, Refusals
<1>7. \A i \in 1 .. Len(words') : words'[i] = "refused" => Dead'
  <2>1. CASE Refuse
    <3>1. Dead'
      BY <2>1 DEF Refuse, CallInv, CallTypeOK, Chain, LegStatuses, Dead, Legs, Parent
    <3> QED
      BY <3>1
  <2>2. CASE FillParent
    <3>1. words' = Append(words, "filled")
      BY <2>2 DEF FillParent
    <3> QED
      BY <1>6, <3>1
  <2> QED
    BY <2>1, <2>2 DEF Refuse, FillParent
<1>8. Refusals' /\ RejectedIsDead'
  BY <1>1, <1>2, <1>7 DEF Refusals, RejectedIsDead
<1> QED
  BY <1>4, <1>5, <1>8 DEF CallInv

-----------------------------------------------------------------------------
LEMMA CallSafe == PlaceSpec => []CallInv
<1>1. PlaceInit => CallInv
  BY PlaceAssumption DEF PlaceInit, CallInv, CallTypeOK, Sending, Chain, Refusals,
     RejectedIsDead, Stands, LegStatuses, Legs, LegCount, Dead
<1>2. CallInv /\ [PlaceNext]_placeVars => CallInv'
  <2> SUFFICES ASSUME CallInv, [PlaceNext]_placeVars PROVE CallInv'
    OBVIOUS
  <2>1. CASE PlaceNext
    BY <2>1, CallKeeps, SendLegKeeps, ConfirmKeeps, GatewayKeeps DEF PlaceNext
  <2>2. CASE UNCHANGED placeVars
    BY <2>2 DEF placeVars, CallInv, CallTypeOK, Sending, Chain, Refusals, RejectedIsDead,
                Dead, LegCount
  <2> QED
    BY <2>1, <2>2
<1> QED
  BY <1>1, <1>2, PTL DEF PlaceSpec

\* An entry that can trade has its exits at the exchange, whichever send fails and
\* wherever the sixty seconds run out.
THEOREM BracketSafe == PlaceSpec => []BracketWhole
BY CallSafe, Whole, PTL

\* A caller is told of a rejection only when nothing of the order can trade.
THEOREM RejectionSafe == PlaceSpec => []RejectedIsDead
<1>1. CallInv => RejectedIsDead
  BY DEF CallInv
<1> QED
  BY CallSafe, <1>1, PTL

-----------------------------------------------------------------------------
(***************************************************************************)
(* ClosesOnce for any number of tries and any orders left from before.     *)
(***************************************************************************)
Stages == {"look", "send", "again", "list", "cancel", "over"}
Conditions == {"none", "working", "filled", "cancelled"}

CommandTypeOK ==
    /\ stage \in Stages /\ try \in Closes /\ keep \in Closes \cup {0}
    /\ exitOrder \in [OldLegs \cup Closes -> Conditions]

\* No close works while one may be sent, and there is never a second one.
OneClose ==
    /\ stage \in {"look", "send"} => \A c \in Closes : exitOrder[c] # "working"
    /\ \A c, d \in Closes : exitOrder[c] = "working" /\ exitOrder[d] = "working" => c = d

\* The close the broker acknowledged is sent last and is no target.
Kept ==
    keep # 0 =>
        /\ stage \in {"list", "cancel", "over"} /\ keep \notin targets
        /\ exitOrder[keep] \in {"working", "filled"}

\* What to cancel is known once the orders were listed.
Listed == stage \in {"look", "send", "again"} => targets = {}

FlattenInv == CommandTypeOK /\ OneClose /\ Kept /\ Listed

-----------------------------------------------------------------------------
LEMMA OneIsOne == FlattenInv => ClosesOnce
<1> SUFFICES ASSUME FlattenInv PROVE ClosesOnce
  OBVIOUS
<1>1. OwnCloseKept
  BY DEF FlattenInv, Kept, OwnCloseKept
<1>2. CASE Working \cap Closes = {}
  BY <1>1, <1>2, FS_EmptySet DEF ClosesOnce, OneCloseWaits
<1>3. CASE Working \cap Closes # {}
  <2>1. PICK c \in Working \cap Closes : TRUE
    BY <1>3
  <2>2. Working \cap Closes = {c}
    BY <2>1 DEF FlattenInv, OneClose, Working
  <2> QED
    BY <1>1, <2>2, FS_Singleton DEF ClosesOnce, OneCloseWaits
<1> QED
  BY <1>2, <1>3

\* The steps that send nothing and cancel nothing.
LEMMA LooksKeep ==
    ASSUME FlattenInv,
           \/ FlattenStops \/ FlattenStarts \/ Repeat \/ AlreadyThere \/ RepeatUnknown
           \/ ListFails \/ CancelFails \/ ShowRest
    PROVE  FlattenInv'
<1>1. UNCHANGED <<try, exitOrder, keep>> /\ targets' \subseteq targets
  BY DEF FlattenStops, FlattenStarts, Repeat, AlreadyThere, RepeatUnknown, ListFails,
         CancelFails, ShowRest
<1>2. CommandTypeOK'
  BY <1>1 DEF FlattenInv, CommandTypeOK, Stages, FlattenStops, FlattenStarts, Repeat,
     AlreadyThere, RepeatUnknown, ListFails, CancelFails, ShowRest, Ends
<1>3. OneClose'
  <2>1. stage' = "send" => \A c \in Closes : exitOrder[c] # "working"
    BY DEF FlattenInv, OneClose, FlattenStops, FlattenStarts, Repeat, MayRepeat, Working,
       AlreadyThere, RepeatUnknown, ListFails, CancelFails, ShowRest, Ends
  <2>2. stage' # "look"
    BY DEF FlattenStops, FlattenStarts, Repeat, AlreadyThere, RepeatUnknown, ListFails,
       CancelFails, ShowRest, Ends
  <2> QED
    BY <1>1, <2>1, <2>2 DEF FlattenInv, OneClose
<1>4. Kept'
  BY <1>1 DEF FlattenInv, Kept, FlattenStops, FlattenStarts, Repeat, AlreadyThere,
     RepeatUnknown, ListFails, CancelFails, ShowRest, Ends
<1>5. Listed'
  BY <1>1 DEF FlattenInv, Listed, FlattenStops, FlattenStarts, Repeat, AlreadyThere,
     RepeatUnknown, ListFails, CancelFails, ShowRest, Ends
<1> QED
  BY <1>2, <1>3, <1>4, <1>5 DEF FlattenInv

\* A close is sent only when no other one works, acknowledged or not.
LEMMA SendsKeep ==
    ASSUME FlattenInv, SendClose \/ SendCloseFails
    PROVE  FlattenInv'
<1>1. /\ stage = "send" /\ keep = 0 /\ try \in Closes /\ try # 0
      /\ exitOrder \in [OldLegs \cup Closes -> Conditions]
      /\ \A c \in Closes : exitOrder[c] # "working"
  BY DEF SendClose, SendCloseFails, FlattenInv, CommandTypeOK, OneClose, Kept, Closes
<1>2. /\ exitOrder' = exitOrder \/ exitOrder' = [exitOrder EXCEPT ![try] = "working"]
      /\ stage' \in {"list", "again", "over"} /\ try' \in Closes
  BY <1>1, FlattenAssumption DEF SendClose, SendCloseFails, Ends, Closes
<1>3. exitOrder' \in [OldLegs \cup Closes -> Conditions]
  BY <1>1, <1>2 DEF Conditions
<1>4. OneClose'
  BY <1>1, <1>2 DEF OneClose
<1>5. CASE SendClose
  <2>1. /\ keep' = try /\ stage' = "list" /\ targets' = targets
        /\ exitOrder' = [exitOrder EXCEPT ![try] = "working"]
    BY <1>5 DEF SendClose
  <2>2. targets = {}
    BY <1>1 DEF FlattenInv, Listed
  <2> QED
    BY <1>1, <1>2, <1>3, <1>4, <2>1, <2>2 DEF FlattenInv, CommandTypeOK, Stages, Kept, Listed
<1>6. CASE SendCloseFails
  BY <1>1, <1>2, <1>3, <1>4, <1>6 DEF SendCloseFails, FlattenInv, CommandTypeOK, Stages, Kept,
     Listed
<1> QED
  BY <1>5, <1>6

\* A cancel is of a target, and the close that is kept is none.
LEMMA CancelsKeep ==
    ASSUME FlattenInv, List \/ CancelNext
    PROVE  FlattenInv'
<1>1. CommandTypeOK'
  BY DEF FlattenInv, CommandTypeOK, List, CancelNext, Stages, Conditions
<1>2. CASE List
  BY <1>1, <1>2 DEF List, ToCancel, FlattenInv, CommandTypeOK, OneClose, Kept, Listed
<1>3. CASE CancelNext
  <2>1. PICK o \in targets :
          /\ targets' = targets \ {o}
          /\ exitOrder' = IF o \in Working THEN [exitOrder EXCEPT ![o] = "cancelled"]
                          ELSE exitOrder
    BY <1>3 DEF CancelNext
  <2>2. UNCHANGED <<stage, try, keep>> /\ stage = "cancel"
    BY <1>3 DEF CancelNext
  <2>3. OneClose'
    BY <2>1, <2>2 DEF FlattenInv, CommandTypeOK, OneClose
  <2>4. Kept'
    BY <2>1, <2>2 DEF FlattenInv, CommandTypeOK, Kept
  <2> QED
    BY <1>1, <2>2, <2>3, <2>4 DEF FlattenInv, Listed
<1> QED
  BY <1>2, <1>3

LEMMA FillsKeep ==
    ASSUME FlattenInv, ExitFills
    PROVE  FlattenInv'
<1>1. PICK o \in Working : exitOrder' = [exitOrder EXCEPT ![o] = "filled"]
  BY DEF ExitFills
<1>2. UNCHANGED <<stage, try, keep, targets>>
  BY DEF ExitFills
<1> QED
  BY <1>1, <1>2 DEF FlattenInv, CommandTypeOK, OneClose, Kept, Conditions, Listed

-----------------------------------------------------------------------------
\* However the calls of the command fail and whenever orders fill, no two of its
\* closes wait for the market together and it never cancels the one it knows of.
THEOREM CloseSafe == FlattenSpec => []ClosesOnce
<1>1. FlattenInit => FlattenInv
  BY FlattenAssumption DEF FlattenInit, FlattenInv, CommandTypeOK, OneClose, Kept, Stages,
     Conditions, Closes, Listed
<1>2. FlattenInv /\ [FlattenNext]_flattenVars => FlattenInv'
  <2> SUFFICES ASSUME FlattenInv, [FlattenNext]_flattenVars PROVE FlattenInv'
    OBVIOUS
  <2>1. CASE FlattenNext
    BY <2>1, LooksKeep, SendsKeep, CancelsKeep, FillsKeep DEF FlattenNext
  <2>2. CASE UNCHANGED flattenVars
    BY <2>2 DEF flattenVars, FlattenInv, CommandTypeOK, OneClose, Kept, Listed
  <2> QED
    BY <2>1, <2>2
<1> QED
  BY <1>1, <1>2, OneIsOne, PTL DEF FlattenSpec

-----------------------------------------------------------------------------
(***************************************************************************)
(* BaselineIsNoAblation for any symbols, costs and trades and however many *)
(* runs are kept.  What the figures of a run are is not used.              *)
(***************************************************************************)
\* The rows of backtest_runs.
Rows ==
    [pair         : Pairs,
     hash         : Nat \X {"changed", "as is"},
     experimental : BOOLEAN,
     overrides    : BOOLEAN,
     sizing       : {"overridden", "of the config"},
     commission   : {"fixed-0.35", "ibkr-fixed-us"},
     slippage     : {SlippageBps(c) : c \in Costs},
     haircut      : {HaircutBps(c) : c \in Costs},
     figures      : {FromTrades(Backtested, 0)}]

\* A row with an override of any kind says that it is an experiment.
Labelled(row) == row.overrides \/ row.sizing = "overridden" => row.experimental

GateInv ==
    /\ version \in Nat /\ runs \in Seq(Rows)
    /\ \A i \in 1 .. Len(runs) : Labelled(runs[i])
    /\ BaselineIsNoAblation

-----------------------------------------------------------------------------
\* Whatever the sources, the row that is written is labelled.
LEMMA RecordIsLabelled ==
    ASSUME version \in Nat, NEW pair \in Pairs, NEW source \in Sources,
           NEW sizing \in BOOLEAN, NEW cost \in Costs
    PROVE  /\ Record(pair, source, sizing, cost) \in Rows
           /\ Labelled(Record(pair, source, sizing, cost))
<1> DEFINE row == Record(pair, source, sizing, cost)
<1>1. HashOf(source) \in Nat \X {"changed", "as is"}
  BY DEF HashOf
<1>2. Experimental(source, sizing) \in BOOLEAN
  BY DEF Experimental, IsExperimental
<1>3. CommissionLabel(cost.legacy) \in {"fixed-0.35", "ibkr-fixed-us"}
  BY DEF CommissionLabel
<1>4. row \in Rows
  <2>1. /\ SlippageBps(cost) \in {SlippageBps(c) : c \in Costs}
        /\ HaircutBps(cost) \in {HaircutBps(c) : c \in Costs}
        /\ FromTrades(Backtested, 0) \in {FromTrades(Backtested, 0)}
    OBVIOUS
  <2>2. /\ (source \in {"set", "set to the same"}) \in BOOLEAN
        /\ (IF sizing THEN "overridden" ELSE "of the config") \in {"overridden", "of the config"}
    OBVIOUS
  <2> QED
    BY <1>1, <1>2, <1>3, <2>1, <2>2, Zenon DEF Record, Rows
<1>5. Labelled(row)
  BY DEF Labelled, Record, Experimental, IsExperimental, Sources
<1> QED
  BY <1>4, <1>5

\* A labelled row that is saved, or not, keeps the rows labelled.
LEMMA SaveKeeps ==
    ASSUME GateInv, NEW row \in Rows, Labelled(row), Save(row), UNCHANGED <<version, analysis>>
    PROVE  GateInv'
<1>1. BaselineIsNoAblation'
  BY DEF GateInv, BaselineIsNoAblation
<1>2. CASE runs' = runs
  BY <1>1, <1>2 DEF GateInv
<1>3. CASE runs' = Append(runs, row)
  <2>1. runs' \in Seq(Rows) /\ Len(runs) \in Nat /\ Len(runs') = Len(runs) + 1
    BY <1>3 DEF GateInv
  <2>2. \A i \in 1 .. Len(runs') :
            (runs'[i] = runs[i] /\ i \in 1 .. Len(runs)) \/ runs'[i] = row
    BY <1>3, <2>1 DEF GateInv
  <2>3. \A i \in 1 .. Len(runs') : Labelled(runs'[i])
    BY <2>2 DEF GateInv
  <2> QED
    BY <1>1, <2>1, <2>3 DEF GateInv
<1> QED
  BY <1>2, <1>3 DEF Save

\* The baseline is an eligible row, or none.
LEMMA LatestIsEligible ==
    ASSUME GateInv, NEW pair, LatestFor(pair) # Off
    PROVE  \E i \in 1 .. Len(runs) : LatestFor(pair) = runs[i] /\ Eligible(runs[i], pair)
<1>1. \E i \in DOMAIN runs : Newest(i, pair)
  BY DEF LatestFor
<1> DEFINE i == CHOOSE j \in DOMAIN runs : Newest(j, pair)
<1>2. i \in DOMAIN runs /\ Newest(i, pair)
  BY <1>1
<1>3. LatestFor(pair) = runs[i]
  BY <1>1 DEF LatestFor
<1>4. DOMAIN runs = 1 .. Len(runs)
  BY DEF GateInv
<1> HIDE DEF i
<1> QED
  BY <1>2, <1>3, <1>4 DEF Newest

LEMMA AnalyzeKeeps ==
    ASSUME GateInv, Analyze
    PROVE  GateInv'
<1>1. UNCHANGED <<version, runs>>
  BY DEF Analyze
<1>2. PICK pair \in Pairs, accepted \in BOOLEAN :
        /\ analysis' = [pair |-> pair, hash |-> HashOf("canonical"),
                        baseline |-> LatestFor(pair), accepted |-> accepted]
        /\ accepted => LatestFor(pair) # Off
  <2>1. PICK pair \in Pairs, sample \in Samples :
          analysis' = [pair |-> pair, hash |-> HashOf("canonical"),
                       baseline |-> LatestFor(pair),
                       accepted |-> /\ LatestFor(pair) # Off
                                    /\ PaperAccepted(FromTrades(sample, 0),
                                                     LatestFor(pair).figures)]
    BY DEF Analyze
  <2>2. (/\ LatestFor(pair) # Off
         /\ PaperAccepted(FromTrades(sample, 0), LatestFor(pair).figures)) \in BOOLEAN
    BY DEF PaperAccepted
  <2> QED
    BY <2>1, <2>2
<1>3. analysis'.baseline # Off =>
        \E i \in 1 .. Len(runs) :
            /\ analysis'.baseline = runs[i] /\ runs[i] \in Rows
            /\ Labelled(runs[i]) /\ Eligible(runs[i], pair)
  <2> SUFFICES ASSUME analysis'.baseline # Off
               PROVE  \E i \in 1 .. Len(runs) :
                        /\ analysis'.baseline = runs[i] /\ runs[i] \in Rows
                        /\ Labelled(runs[i]) /\ Eligible(runs[i], pair)
    OBVIOUS
  <2>1. LatestFor(pair) # Off /\ analysis'.baseline = LatestFor(pair)
    BY <1>2
  <2>2. PICK i \in 1 .. Len(runs) : LatestFor(pair) = runs[i] /\ Eligible(runs[i], pair)
    BY <2>1, LatestIsEligible
  <2>3. runs[i] \in Rows /\ Labelled(runs[i])
    BY DEF GateInv
  <2> QED
    BY <2>1, <2>2, <2>3
<1>4. BaselineIsNoAblation'
  <2>1. analysis'.accepted => analysis'.baseline # Off
    BY <1>2
  <2>2. analysis'.pair = pair /\ analysis'.hash = HashOf("canonical")
    BY <1>2
  <2>3. ASSUME NEW i \in 1 .. Len(runs), analysis'.baseline = runs[i], runs[i] \in Rows,
               Labelled(runs[i]), Eligible(runs[i], pair)
        PROVE  LET run == analysis'.baseline
               IN  /\ run.pair = analysis'.pair /\ run.hash = analysis'.hash
                   /\ ~run.overrides /\ run.sizing = "of the config"
                   /\ <<run.commission, run.slippage, run.haircut>>
                       = <<"ibkr-fixed-us", ProductionBps.slippage, ProductionBps.haircut>>
    BY <2>2, <2>3 DEF Eligible, Labelled, Rows, CommissionLabel
  <2> QED
    BY <1>3, <2>1, <2>3 DEF BaselineIsNoAblation
<1> QED
  BY <1>1, <1>4 DEF GateInv

-----------------------------------------------------------------------------
\* Paper is never measured against an experiment, another pair, an older version of the
\* configuration or other costs, whatever was saved and edited in between.
THEOREM BaselineSafe == GateSpec => []BaselineIsNoAblation
<1>1. GateInit => GateInv
  BY DEF GateInit, GateInv, BaselineIsNoAblation
<1>2. GateInv /\ [GateNext]_gateVars => GateInv'
  <2> SUFFICES ASSUME GateInv, [GateNext]_gateVars PROVE GateInv'
    OBVIOUS
  <2>1. CASE Walkforward
    <3>1. PICK pair \in Pairs, source \in Sources, cost \in Costs, sizing \in BOOLEAN :
            Save(Record(pair, source, sizing, cost))
      BY <2>1 DEF Walkforward
    <3> QED
      BY <2>1, <3>1, RecordIsLabelled, SaveKeeps DEF Walkforward, GateInv
  <2>2. CASE BacktestRun
    <3>1. PICK pair \in Pairs, cost \in Costs, sizing \in BOOLEAN :
            Save(Record(pair, "canonical", sizing, cost))
      BY <2>2 DEF BacktestRun
    <3>2. "canonical" \in Sources
      BY DEF Sources
    <3> QED
      BY <2>2, <3>1, <3>2, RecordIsLabelled, SaveKeeps DEF BacktestRun, GateInv
  <2>3. CASE EditConfig
    <3>1. version' \in Nat /\ UNCHANGED <<runs, analysis>>
      BY <2>3 DEF EditConfig, GateInv
    <3>2. BaselineIsNoAblation'
      BY <3>1 DEF GateInv, BaselineIsNoAblation
    <3> QED
      BY <3>1, <3>2 DEF GateInv
  <2>4. CASE Analyze
    BY <2>4, AnalyzeKeeps
  <2>5. CASE UNCHANGED gateVars
    BY <2>5 DEF gateVars, GateInv, BaselineIsNoAblation
  <2> QED
    BY <2>1, <2>2, <2>3, <2>4, <2>5 DEF GateNext
<1>3. GateInv => BaselineIsNoAblation
  BY DEF GateInv
<1> QED
  BY <1>1, <1>2, <1>3, PTL DEF GateSpec

-----------------------------------------------------------------------------
(***************************************************************************)
(* BooksBalance, for any executions in any batches.                        *)
(***************************************************************************)
Events == [id : 1 .. Len(script), paid : BOOLEAN]
Trackers == [direction : {"none", "long", "short"}, entry_qty : Nat, entry_cost : Int,
             exit_qty : Nat, exit_value : Int, commissions : Int]

BooksTypeOK ==
    /\ script \in Scripts /\ done \in 0 .. Len(script)
    /\ batch \subseteq Events /\ channel \in Seq(Events)
    /\ saved \subseteq Events /\ IsFiniteSet(saved)
    /\ tracker \in Trackers /\ net \in Int /\ surplus \in Nat

\* A tracker that is not empty has entered something: the first fill gives the
\* direction, so it enters.
Entered ==
    /\ tracker.direction = "none" => tracker = Untracked
    /\ tracker.direction # "none" => tracker.entry_qty > 0

\* No execution is on its way twice, nor again after it was saved: what a fetch
\* brings was not listed before.
OnTheWay ==
    /\ \A e \in batch : e.id \in listed
    /\ \A i \in 1 .. Len(channel) : channel[i].id \in listed
    /\ \A e \in saved : e.id \in listed
OnceEach ==
    /\ \A e, f \in batch : e.id = f.id => e = f
    /\ \A i, j \in 1 .. Len(channel) : channel[i].id = channel[j].id => i = j
    /\ \A e \in batch, i \in 1 .. Len(channel) : e.id # channel[i].id
    /\ \A s \in saved : /\ \A e \in batch : e.id # s.id
                        /\ \A i \in 1 .. Len(channel) : channel[i].id # s.id

\* What a tracker holds in cash: what came in for it, less what went out.
Worth(t) ==
    IF t.direction = "none" THEN 0
    ELSE IF t.direction = "long" THEN t.exit_value - t.entry_cost - t.commissions
    ELSE t.entry_cost - t.exit_value - t.commissions

\* What an event moved, as a function; until an exit left more than was entered
\* the saved fills add up to what the trades earned and the tracker holds.
CashOf == [e \in Events |-> Cash(e)]
CashKept == surplus = 0 => SumOver(CashOf, saved) = net + Worth(tracker)

BooksInv == BooksTypeOK /\ Entered /\ OnTheWay /\ OnceEach /\ CashKept

-----------------------------------------------------------------------------
\* An event is of an execution, which has a price and a quantity.
LEMMA EventFill ==
    ASSUME BooksTypeOK, NEW e \in Events
    PROVE  /\ script[e.id].side \in {"buy", "sell"}
           /\ script[e.id].quantity \in Nat \ {0} /\ script[e.id].price \in Nat \ {0}
           /\ script[e.id].price * script[e.id].quantity \in Nat
           /\ Commission(e) \in Nat /\ Cash(e) \in Int
<1> DEFINE Fills == [side : {"buy", "sell"}, quantity : Nat \ {0},
                     price : Nat \ {0}, commission : Nat]
<1>1. script[e.id] \in Fills
  <2>1. script \in Seq(Fills) /\ e.id \in 1 .. Len(script)
    BY PollAssumption DEF BooksTypeOK, Events
  <2> HIDE DEF Fills
  <2> QED BY <2>1
<1>2. script[e.id].price * script[e.id].quantity \in Nat
  BY <1>1
<1>3. Commission(e) \in Nat
  BY <1>1 DEF Commission
<1>4. Cash(e) \in Int
  BY <1>1, <1>3 DEF Cash
<1> QED
  BY <1>1, <1>2, <1>3, <1>4

\* A fill moves the tracker by its cash.
LEMMA FillMovesCash ==
    ASSUME BooksTypeOK, Entered, NEW e \in Events
    PROVE  LET t == OnFill(tracker, e)
           IN  /\ t \in Trackers /\ t.direction # "none" /\ t.entry_qty > 0
               /\ Worth(t) = Worth(tracker) + Cash(e)
<1> DEFINE fill == script[e.id]
           amount == fill.price * fill.quantity
           fee == Commission(e)
           t == OnFill(tracker, e)
           direction == IF tracker.direction # "none" THEN tracker.direction
                        ELSE IF fill.side = "buy" THEN "long" ELSE "short"
           charged == [tracker EXCEPT !.direction = direction, !.commissions = @ + fee]
<1>1. /\ fill.side \in {"buy", "sell"} /\ fill.quantity \in Nat \ {0}
      /\ amount \in Nat /\ fee \in Nat
  BY EventFill
<1>2. Cash(e) = IF fill.side = "sell" THEN amount - fee ELSE (0 - amount) - fee
  <2>1. Cash(e) = (IF fill.side = "sell" THEN 1 ELSE 0 - 1) * fill.price * fill.quantity - fee
    BY Zenon DEF Cash
  <2>2. fill.price \in Nat /\ fill.quantity \in Nat
    BY EventFill
  <2> QED BY <1>1, <2>1, <2>2
<1>3. t = IF direction = "long" <=> fill.side = "buy"
          THEN [charged EXCEPT !.entry_qty = @ + fill.quantity, !.entry_cost = @ + amount]
          ELSE [charged EXCEPT !.exit_qty = @ + fill.quantity, !.exit_value = @ + amount]
  BY Zenon DEF OnFill
<1>4. tracker \in Trackers
  BY DEF BooksTypeOK
<1> HIDE DEF fill, amount, fee, t
<1>5. direction \in {"long", "short"}
  BY <1>4 DEF Trackers
<1> DEFINE q == fill.quantity
<1>8. /\ tracker.direction \in {"none", "long", "short"} /\ tracker.entry_qty \in Nat
      /\ tracker.entry_cost \in Int /\ tracker.exit_qty \in Nat
      /\ tracker.exit_value \in Int /\ tracker.commissions \in Int
  BY <1>4 DEF Trackers
<1>9. /\ tracker.direction = "none" =>
           /\ tracker.entry_qty = 0 /\ tracker.entry_cost = 0 /\ tracker.exit_value = 0
           /\ tracker.commissions = 0 /\ (direction = "long" <=> fill.side = "buy")
      /\ tracker.direction # "none" => tracker.entry_qty > 0 /\ direction = tracker.direction
  BY DEF Entered, Untracked
<1> HIDE DEF direction
<1>6. /\ charged \in Trackers
      /\ charged.direction = direction /\ charged.entry_qty = tracker.entry_qty
      /\ charged.entry_cost = tracker.entry_cost /\ charged.exit_qty = tracker.exit_qty
      /\ charged.exit_value = tracker.exit_value
      /\ charged.commissions = tracker.commissions + fee
  <2> DEFINE k == tracker.commissions + fee
  <2>1. k \in Int
    BY <1>1, <1>8
  <2>2. charged = [tracker EXCEPT !.direction = direction, !.commissions = k]
    OBVIOUS
  <2> HIDE DEF k, charged
  <2>3. charged \in Trackers
    BY <1>4, <1>5, <2>1, <2>2 DEF Trackers
  <2>4. /\ charged.direction = direction /\ charged.entry_qty = tracker.entry_qty
        /\ charged.entry_cost = tracker.entry_cost /\ charged.exit_qty = tracker.exit_qty
        /\ charged.exit_value = tracker.exit_value /\ charged.commissions = k
    BY <1>4, <2>2 DEF Trackers
  <2> QED BY <2>3, <2>4 DEF k
<1> HIDE DEF charged
<1>7. ASSUME direction = "long" <=> fill.side = "buy"
      PROVE  /\ t \in Trackers /\ t.direction = direction
             /\ t.entry_qty = tracker.entry_qty + q /\ t.entry_cost = tracker.entry_cost + amount
             /\ t.exit_value = tracker.exit_value /\ t.commissions = tracker.commissions + fee
  <2> DEFINE k == charged.entry_qty + q
             j == charged.entry_cost + amount
  <2>0. k \in Nat /\ j \in Int
    BY <1>1, <1>6, <1>8
  <2>1. t = [charged EXCEPT !.entry_qty = k, !.entry_cost = j]
    BY <1>3, <1>7
  <2> HIDE DEF k, j
  <2>2. t \in Trackers
    BY <1>6, <2>0, <2>1 DEF Trackers
  <2>3. /\ t.direction = charged.direction /\ t.commissions = charged.commissions
        /\ t.exit_qty = charged.exit_qty /\ t.exit_value = charged.exit_value
        /\ t.entry_qty = k /\ t.entry_cost = j
    BY <1>6, <2>1 DEF Trackers
  <2> QED BY <1>6, <2>2, <2>3 DEF k, j
<1>12. ASSUME ~ (direction = "long" <=> fill.side = "buy")
      PROVE  /\ t \in Trackers /\ t.direction = direction
             /\ t.entry_qty = tracker.entry_qty /\ t.entry_cost = tracker.entry_cost
             /\ t.exit_value = tracker.exit_value + amount
             /\ t.commissions = tracker.commissions + fee
  <2> DEFINE k == charged.exit_qty + q
             j == charged.exit_value + amount
  <2>0. k \in Nat /\ j \in Int
    BY <1>1, <1>6, <1>8
  <2>1. t = [charged EXCEPT !.exit_qty = k, !.exit_value = j]
    BY <1>3, <1>12
  <2> HIDE DEF k, j
  <2>2. t \in Trackers
    BY <1>6, <2>0, <2>1 DEF Trackers
  <2>3. /\ t.direction = charged.direction /\ t.commissions = charged.commissions
        /\ t.entry_qty = charged.entry_qty /\ t.entry_cost = charged.entry_cost
        /\ t.exit_qty = k /\ t.exit_value = j
    BY <1>6, <2>1 DEF Trackers
  <2> QED BY <1>6, <2>2, <2>3 DEF k, j
<1>10. t \in Trackers /\ t.direction # "none" /\ t.entry_qty > 0
  BY <1>1, <1>5, <1>7, <1>8, <1>9, <1>12
<1>11. Worth(t) = Worth(tracker) + Cash(e)
  <2>1. CASE direction = "long"
    <3>1. Worth(t) = t.exit_value - t.entry_cost - t.commissions
      BY <1>7, <1>12, <2>1 DEF Worth
    <3>2. Worth(tracker) = tracker.exit_value - tracker.entry_cost - tracker.commissions
      BY <1>8, <1>9, <2>1 DEF Worth
    <3>3. CASE fill.side = "buy"
      BY <1>1, <1>2, <1>7, <1>8, <2>1, <3>1, <3>2, <3>3
    <3>4. CASE fill.side = "sell"
      BY <1>1, <1>2, <1>12, <1>8, <2>1, <3>1, <3>2, <3>4
    <3> QED BY <1>1, <3>3, <3>4
  <2>2. CASE direction = "short"
    <3>1. Worth(t) = t.entry_cost - t.exit_value - t.commissions
      BY <1>7, <1>12, <2>2 DEF Worth
    <3>2. Worth(tracker) = tracker.entry_cost - tracker.exit_value - tracker.commissions
      BY <1>8, <1>9, <2>2 DEF Worth
    <3>3. CASE fill.side = "buy"
      BY <1>1, <1>2, <1>12, <1>8, <2>2, <3>1, <3>2, <3>3
    <3>4. CASE fill.side = "sell"
      BY <1>1, <1>2, <1>7, <1>8, <2>2, <3>1, <3>2, <3>4
    <3> QED BY <1>1, <3>3, <3>4
  <2> QED BY <1>5, <2>1, <2>2
<1> QED
  BY <1>10, <1>11 DEF t

\* A trade that left exactly what it entered earned what its tracker held: the
\* average of the exits divides without a rest.
LEMMA TradeEarnsWorth ==
    ASSUME NEW t \in Trackers, t.direction # "none", t.entry_qty > 0, t.exit_qty = t.entry_qty
    PROVE  NetPnl(t) = Worth(t)
<1>1. \A x \in Int, q \in Nat \ {0} : (x * q) \div q = x
  OBVIOUS
<1>2. (t.exit_value * t.entry_qty) \div t.exit_qty = t.exit_value
  BY <1>1 DEF Trackers
<1>3. NetPnl(t) = (IF t.direction = "long" THEN t.exit_value - t.entry_cost
                   ELSE t.entry_cost - t.exit_value) - t.commissions
  BY <1>2, Zenon DEF NetPnl
<1> QED
  BY <1>3 DEF Worth, Trackers

\* What a trade earned is a number, however much it left.
LEMMA NetPnlIsWhole ==
    ASSUME NEW t \in Trackers, t.direction # "none", t.entry_qty > 0, Covered(t)
    PROVE  NetPnl(t) \in Int
<1>1. t.exit_qty \in Nat \ {0} /\ t.exit_value * t.entry_qty \in Int
  BY DEF Covered, Trackers
<1>2. (t.exit_value * t.entry_qty) \div t.exit_qty \in Int
  BY <1>1
<1> QED
  BY <1>2 DEF NetPnl, Trackers

\* The sum of BooksBalance is that of the function CashOf.
LEMMA SavedCash == BooksTypeOK => MapThenSumSet(Cash, saved) = SumOver(CashOf, saved)
<1> SUFFICES ASSUME BooksTypeOK PROVE MapThenSumSet(Cash, saved) = SumOver(CashOf, saved)
  OBVIOUS
<1> DEFINE Sums(g) == g = [s \in SUBSET saved |->
                            IF s = {} THEN 0 ELSE Cash(First(s)) + g[s \ {First(s)}]]
           h == CHOOSE g : Sums(g)
<1>1. MapThenSumSet(Cash, saved) = h[saved]
  BY Zenon DEF MapThenSumSet, MapThenFoldSet, First
<1>2. \A s \in SUBSET saved : s # {} => Cash(First(s)) = CashOf[First(s)]
  BY FirstIn DEF BooksTypeOK, CashOf
<1>3. ASSUME NEW g PROVE Sums(g) <=> Adds(g, CashOf, saved)
  <2>1. [s \in SUBSET saved |->
           IF s = {} THEN 0 ELSE Cash(First(s)) + g[s \ {First(s)}]]
        = [s \in SUBSET saved |->
           IF s = {} THEN 0 ELSE CashOf[First(s)] + g[s \ {First(s)}]]
    <3>1. \A s \in SUBSET saved :
            (IF s = {} THEN 0 ELSE Cash(First(s)) + g[s \ {First(s)}])
            = IF s = {} THEN 0 ELSE CashOf[First(s)] + g[s \ {First(s)}]
      BY <1>2
    <3> QED BY <3>1
  <2> QED BY <2>1, Zenon DEF Adds
<1>4. IsFiniteSet(saved)
  BY DEF BooksTypeOK
<1>5. \E g : Sums(g)
  BY <1>3, <1>4, AddsExists
<1> HIDE DEF Sums
<1>6. Adds(h, CashOf, saved)
  BY <1>3, <1>5
<1> HIDE DEF h
<1>7. SumOver(CashOf, saved) = h[saved]
  BY <1>4, <1>6, TotalAdds
<1> QED
  BY <1>1, <1>7

-----------------------------------------------------------------------------
\* The event that is due is one of the batch.
LEMMA DueIn ==
    ASSUME BooksTypeOK, batch # {}
    PROVE  Due \in batch
<1> DEFINE ids == {e.id : e \in batch}
<1>1. ids \subseteq Nat /\ ids # {}
  BY DEF BooksTypeOK, Events
<1>2. \E n \in ids : \A m \in ids : n <= m
  <2> HIDE DEF ids
  <2> QED BY <1>1, MinIn
<1>3. \E e \in batch : \A f \in batch : e.id <= f.id
  BY <1>2
<1> QED
  BY <1>3 DEF Due

\* What the trades earned and what is saved do not change with the rest.
LEMMA CashStays ==
    ASSUME CashKept, UNCHANGED <<script, saved, tracker, net, surplus>>
    PROVE  CashKept'
<1>1. CashOf' = CashOf
  BY DEF CashOf, Cash, Commission, Events
<1> QED
  BY <1>1 DEF CashKept, Worth

\* What a fetch brings was not listed before, and is from here on.
LEMMA FetchKeeps ==
    ASSUME BooksInv, NEW n \in 0 .. done, NEW late \in BOOLEAN, Fetch(n, late)
    PROVE  BooksInv'
<1>1. /\ batch' = {[id |-> k, paid |-> ~ (late /\ k = n)] : k \in (1 .. n) \ listed}
      /\ listed' = listed \cup (1 .. n)
      /\ UNCHANGED <<script, done, channel, tracker, net, surplus, saved>>
  BY DEF Fetch, EventsOf, Fresh
<1>2. \A e \in batch' : e \in Events /\ e.id \notin listed /\ e.id \in listed'
  <2>1. Len(script) \in Nat /\ done \in 0 .. Len(script)
    BY PollAssumption DEF BooksInv, BooksTypeOK
  <2>2. ASSUME NEW k \in (1 .. n) \ listed PROVE k \in 1 .. Len(script)
    BY <2>1
  <2>3. ASSUME NEW e \in batch' PROVE e \in Events /\ e.id \notin listed /\ e.id \in listed'
    <3>1. PICK k \in (1 .. n) \ listed : e = [id |-> k, paid |-> ~ (late /\ k = n)]
      BY <1>1, <2>3
    <3>2. (~ (late /\ k = n)) \in BOOLEAN
      OBVIOUS
    <3>3. k \in 1 .. Len(script)
      BY <2>2
    <3>4. e \in Events
      BY <3>1, <3>2, <3>3 DEF Events
    <3>5. e.id = k
      BY <3>1
    <3> QED BY <1>1, <3>4, <3>5
  <2> QED BY <2>3
<1>3. \A e, f \in batch' : e.id = f.id => e = f
  BY <1>1
<1>4. BooksTypeOK'
  BY <1>1, <1>2 DEF BooksInv, BooksTypeOK, Events
<1>5. OnTheWay' /\ OnceEach'
  BY <1>1, <1>2, <1>3 DEF BooksInv, OnTheWay, OnceEach
<1>6. Entered' /\ CashKept'
  BY <1>1, CashStays DEF BooksInv, Entered
<1> QED
  BY <1>4, <1>5, <1>6 DEF BooksInv

\* An event goes from the batch to the end of the channel.
LEMMA SendKeeps == ASSUME BooksInv, Send PROVE BooksInv'
<1>1. PICK e \in batch : /\ channel' = Append(channel, e) /\ batch' = batch \ {e}
                         /\ UNCHANGED <<script, done, listed, tracker, net, surplus, saved>>
  BY DueIn DEF Send, BooksInv
<1>2. e \in Events /\ channel \in Seq(Events)
  BY DEF BooksInv, BooksTypeOK
<1>3. /\ channel' \in Seq(Events) /\ Len(channel') = Len(channel) + 1
      /\ \A i \in 1 .. Len(channel') : i \in 1 .. Len(channel) \/ i = Len(channel')
      /\ \A i \in 1 .. Len(channel) : channel'[i] = channel[i]
      /\ channel'[Len(channel')] = e
  <2> HIDE DEF Events
  <2> QED BY <1>1, <1>2
<1>4. BooksTypeOK'
  BY <1>1, <1>3 DEF BooksInv, BooksTypeOK, Events
<1>5. OnTheWay'
  BY <1>1, <1>3 DEF BooksInv, OnTheWay
<1>6. OnceEach'
  <2>1. \A f \in batch' : f \in batch /\ f.id # e.id
    BY <1>1 DEF BooksInv, OnceEach
  <2>2. \A i, j \in 1 .. Len(channel') : channel'[i].id = channel'[j].id => i = j
    BY <1>3 DEF BooksInv, OnceEach
  <2>3. \A f \in batch', i \in 1 .. Len(channel') : f.id # channel'[i].id
    BY <1>3, <2>1 DEF BooksInv, OnceEach
  <2>4. \A t \in saved' : /\ \A f \in batch' : f.id # t.id
                          /\ \A i \in 1 .. Len(channel') : channel'[i].id # t.id
    BY <1>1, <1>3, <2>1 DEF BooksInv, OnceEach
  <2>5. \A f, g \in batch' : f.id = g.id => f = g
    BY <2>1 DEF BooksInv, OnceEach
  <2> QED BY <2>2, <2>3, <2>4, <2>5 DEF OnceEach
<1>7. Entered' /\ CashKept'
  BY <1>1, CashStays DEF BooksInv, Entered
<1> QED
  BY <1>4, <1>5, <1>6, <1>7 DEF BooksInv

\* The first of the channel is taken, and saved or not.
LEMMA TakenOnce ==
    ASSUME BooksInv, channel # <<>>, channel' = Tail(channel), UNCHANGED <<listed, batch>>,
           saved' = saved \/ saved' = saved \cup {Head(channel)}
    PROVE  /\ Head(channel) \in Events /\ channel' \in Seq(Events) /\ Head(channel) \notin saved
           /\ OnTheWay' /\ OnceEach'
<1>1. channel \in Seq(Events)
  BY DEF BooksInv, BooksTypeOK
<1>2. /\ channel' \in Seq(Events) /\ Len(channel') = Len(channel) - 1 /\ Len(channel) >= 1
      /\ \A i \in 1 .. Len(channel') : i + 1 \in 1 .. Len(channel) /\ channel'[i] = channel[i + 1]
      /\ Head(channel) = channel[1] /\ Head(channel) \in Events
  <2> HIDE DEF Events
  <2> QED BY <1>1
<1>3. 1 \in 1 .. Len(channel)
  BY <1>1, <1>2
<1>4. Head(channel) \notin saved
  BY <1>2, <1>3 DEF BooksInv, OnceEach
<1>5. OnTheWay'
  BY <1>2, <1>3 DEF BooksInv, OnTheWay
<1>6. OnceEach'
  <2>1. \A i \in 1 .. Len(channel') : channel'[i].id # Head(channel).id
    <3>1. \A i \in 1 .. Len(channel') : i + 1 # 1
      OBVIOUS
    <3> QED BY <1>2, <1>3, <3>1 DEF BooksInv, OnceEach
  <2>2. \A i, j \in 1 .. Len(channel') : channel'[i].id = channel'[j].id => i = j
    <3>1. \A i, j \in 1 .. Len(channel') : i + 1 = j + 1 => i = j
      OBVIOUS
    <3> QED BY <1>2, <3>1 DEF BooksInv, OnceEach
  <2>3. \A e \in batch' : /\ \A i \in 1 .. Len(channel') : e.id # channel'[i].id
                          /\ e.id # Head(channel).id
    BY <1>2, <1>3 DEF BooksInv, OnceEach
  <2>4. \A t \in saved' : /\ \A e \in batch' : e.id # t.id
                          /\ \A i \in 1 .. Len(channel') : channel'[i].id # t.id
    BY <1>2, <2>1, <2>3 DEF BooksInv, OnceEach
  <2> QED BY <2>2, <2>3, <2>4 DEF BooksInv, OnceEach
<1> QED
  BY <1>2, <1>4, <1>5, <1>6

\* A fill the loop does not save is out of both sides of the books.
LEMMA DiscardKeeps == ASSUME BooksInv, Discard PROVE BooksInv'
<1>1. /\ channel # <<>> /\ channel' = Tail(channel)
      /\ UNCHANGED <<script, done, listed, batch, tracker, net, surplus, saved>>
  BY DEF Discard
<1>2. channel' \in Seq(Events) /\ OnTheWay' /\ OnceEach'
  BY <1>1, TakenOnce
<1>3. BooksTypeOK'
  BY <1>1, <1>2 DEF BooksInv, BooksTypeOK, Events
<1>4. Entered' /\ CashKept'
  BY <1>1, CashStays DEF BooksInv, Entered
<1> QED
  BY <1>2, <1>3, <1>4 DEF BooksInv

\* A saved fill moves the tracker by its cash, and the trade that closes with
\* nothing left over takes to net what the tracker held.
LEMMA RegisterKeeps == ASSUME BooksInv, Register PROVE BooksInv'
<1> DEFINE e == Head(channel)
           t == OnFill(tracker, e)
<1>1. /\ channel # <<>> /\ channel' = Tail(channel) /\ saved' = saved \cup {e}
      /\ UNCHANGED <<script, done, listed, batch>>
      /\ \/ /\ Covered(t) /\ net' = net + NetPnl(t)
            /\ surplus' = surplus + t.exit_qty - t.entry_qty /\ tracker' = Untracked
         \/ ~ Covered(t) /\ tracker' = t /\ UNCHANGED <<net, surplus>>
  BY DEF Register, AfterTrade
<1>2. /\ e \in Events /\ channel' \in Seq(Events) /\ e \notin saved
      /\ OnTheWay' /\ OnceEach'
  BY <1>1, TakenOnce
<1>3. /\ t \in Trackers /\ t.direction # "none" /\ t.entry_qty > 0
      /\ Worth(t) = Worth(tracker) + Cash(e)
  BY <1>2, FillMovesCash DEF BooksInv
<1>4. /\ net \in Int /\ surplus \in Nat /\ Cash(e) \in Int /\ Worth(tracker) \in Int
      /\ t.exit_qty \in Nat /\ t.entry_qty \in Nat
  <2>1. Cash(e) \in Int
    BY <1>2, EventFill DEF BooksInv
  <2>2. Worth(tracker) \in Int
    BY DEF BooksInv, BooksTypeOK, Trackers, Worth
  <2> HIDE DEF t
  <2> QED BY <1>3, <2>1, <2>2 DEF BooksInv, BooksTypeOK, Trackers
<1> HIDE DEF e, t
<1>5. Untracked \in Trackers /\ Worth(Untracked) = 0
  BY DEF Untracked, Trackers, Worth
<1>6. IsFiniteSet(saved') /\ saved' \subseteq Events
  BY <1>1, <1>2, FS_AddElement DEF BooksInv, BooksTypeOK
<1>7. tracker' \in Trackers /\ net' \in Int /\ surplus' \in Nat
  <2>1. CASE Covered(t)
    <3>1. NetPnl(t) \in Int
      BY <1>3, <2>1, NetPnlIsWhole
    <3> QED BY <1>1, <1>4, <1>5, <2>1, <3>1 DEF Covered
  <2>2. CASE ~ Covered(t)
    BY <1>1, <1>3, <1>4, <2>2
  <2> QED BY <2>1, <2>2
<1>8. BooksTypeOK'
  BY <1>1, <1>2, <1>6, <1>7 DEF BooksInv, BooksTypeOK, Events
<1>9. Entered'
  BY <1>1, <1>3 DEF Entered, Untracked
<1>10. CashOf' = CashOf
  BY <1>1 DEF CashOf, Cash, Commission, Events
<1>11. SumOver(CashOf, saved') = SumOver(CashOf, saved) + Cash(e)
  <2>1. IsFiniteSet(saved) /\ saved \subseteq Events /\ BooksTypeOK
    BY DEF BooksInv, BooksTypeOK
  <2>2. \A f \in Events : CashOf[f] = Cash(f) /\ Cash(f) \in Int
    BY <2>1, EventFill DEF CashOf
  <2>3. (\A f \in saved : CashOf[f] \in Int) /\ CashOf[e] \in Int
    BY <1>2, <2>1, <2>2
  <2>4. SumOver(CashOf, saved \cup {e}) = SumOver(CashOf, saved) + CashOf[e]
    BY <1>2, <2>1, <2>3, TotalPlus
  <2> QED BY <1>1, <1>2, <2>2, <2>4
<1>12. ASSUME surplus' = 0 PROVE SumOver(CashOf, saved') = net' + Worth(tracker')
  <2>1. CASE Covered(t)
    <3>1. t.exit_qty = t.entry_qty /\ surplus = 0
      BY <1>1, <1>4, <1>12, <2>1 DEF Covered
    <3>2. NetPnl(t) = Worth(t)
      BY <1>3, <3>1, TradeEarnsWorth
    <3>3. SumOver(CashOf, saved) = net + Worth(tracker)
      BY <3>1 DEF BooksInv, CashKept
    <3>4. net' = net + NetPnl(t) /\ Worth(tracker') = 0
      BY <1>1, <1>5, <2>1
    <3> QED BY <1>3, <1>4, <1>11, <3>2, <3>3, <3>4
  <2>2. CASE ~ Covered(t)
    <3>1. surplus = 0 /\ net' = net /\ tracker' = t
      BY <1>1, <1>12, <2>2
    <3>2. SumOver(CashOf, saved) = net + Worth(tracker)
      BY <3>1 DEF BooksInv, CashKept
    <3> QED BY <1>3, <1>4, <1>11, <3>1, <3>2
  <2> QED BY <2>1, <2>2
<1>13. CashKept'
  BY <1>10, <1>12 DEF CashKept, Worth
<1> QED
  BY <1>2, <1>8, <1>9, <1>13 DEF BooksInv

\* Nothing executed, nothing saved, nothing earned.
LEMMA BooksInit == PollInit => BooksInv
<1> SUFFICES ASSUME PollInit PROVE BooksInv
  OBVIOUS
<1>1. script \in Scripts /\ Len(script) \in Nat
  BY PollAssumption DEF PollInit
<1>2. Untracked \in Trackers /\ Worth(Untracked) = 0
  BY DEF Untracked, Trackers, Worth
<1>3. BooksTypeOK
  <2>1. <<>> \in Seq(Events) /\ IsFiniteSet({})
    BY FS_EmptySet
  <2> QED BY <1>1, <1>2, <2>1 DEF PollInit, BooksTypeOK
<1>4. Entered /\ OnTheWay /\ OnceEach
  BY DEF PollInit, Entered, OnTheWay, OnceEach, Untracked
<1>5. CashKept
  BY <1>2, TotalEmpty DEF PollInit, CashKept
<1> QED
  BY <1>3, <1>4, <1>5 DEF BooksInv

\* Every step of the gateway, the poll and the loop keeps the books.
LEMMA BooksNext == BooksInv /\ [PollNext]_pollVars => BooksInv'
<1> SUFFICES ASSUME BooksInv, [PollNext]_pollVars PROVE BooksInv'
  OBVIOUS
<1>0. Len(script) \in Nat /\ done \in 0 .. Len(script)
  BY PollAssumption DEF BooksInv, BooksTypeOK
<1>1. CASE Execute
  <2>1. /\ done' \in 0 .. Len(script)
        /\ UNCHANGED <<script, listed, batch, channel, tracker, net, surplus, saved>>
    BY <1>0, <1>1 DEF Execute
  <2>2. BooksTypeOK'
    BY <2>1 DEF BooksInv, BooksTypeOK, Events
  <2>3. Entered' /\ OnTheWay' /\ OnceEach' /\ CashKept'
    BY <2>1, CashStays DEF BooksInv, Entered, OnTheWay, OnceEach
  <2> QED BY <2>2, <2>3 DEF BooksInv
<1>2. CASE FetchWhole
  <2>1. done \in 0 .. done /\ FALSE \in BOOLEAN
    BY <1>0
  <2>2. Fetch(done, FALSE)
    BY <1>2 DEF FetchWhole
  <2> QED BY <2>1, <2>2, FetchKeeps
<1>3. CASE FetchCut
  <2>1. PICK n \in 1 .. done, late \in BOOLEAN : Fetch(n, late)
    BY <1>3 DEF FetchCut
  <2>2. n \in 0 .. done
    BY <1>0
  <2> QED BY <2>1, <2>2, FetchKeeps
<1>4. CASE FetchFails
  <2>1. /\ \E n \in 1 .. done : listed' = listed \cup (1 .. n)
        /\ UNCHANGED <<script, done, batch, channel, tracker, net, surplus, saved>>
    BY <1>4 DEF FetchFails
  <2>2. BooksTypeOK'
    BY <2>1 DEF BooksInv, BooksTypeOK, Events
  <2>3. Entered' /\ OnTheWay' /\ OnceEach' /\ CashKept'
    BY <2>1, CashStays DEF BooksInv, Entered, OnTheWay, OnceEach
  <2> QED BY <2>2, <2>3 DEF BooksInv
<1>5. CASE UNCHANGED pollVars
  <2>1. UNCHANGED <<script, done, listed, batch, channel, tracker, net, surplus, saved>>
    BY <1>5 DEF pollVars
  <2>2. BooksTypeOK'
    BY <2>1 DEF BooksInv, BooksTypeOK, Events
  <2>3. Entered' /\ OnTheWay' /\ OnceEach' /\ CashKept'
    BY <2>1, CashStays DEF BooksInv, Entered, OnTheWay, OnceEach
  <2> QED BY <2>2, <2>3 DEF BooksInv
<1> QED
  BY <1>1, <1>2, <1>3, <1>4, <1>5, SendKeeps, RegisterKeeps, DiscardKeeps DEF PollNext

\* Flat, and with no exit beyond its entry, the trades add up to the cash of the
\* saved fills: whatever executions a day brings, in whatever batches, streams and
\* orders of the two tasks they come (broker.rs:381, trade_tracker.rs:138).
THEOREM BooksSafe == PollSpec => []BooksBalance
<1>1. BooksInv => BooksBalance
  <2> SUFFICES ASSUME BooksInv, tracker.direction = "none", surplus = 0
               PROVE  net = MapThenSumSet(Cash, saved)
    BY DEF BooksBalance
  <2>1. MapThenSumSet(Cash, saved) = SumOver(CashOf, saved)
    BY SavedCash DEF BooksInv
  <2>2. SumOver(CashOf, saved) = net + Worth(tracker)
    BY DEF BooksInv, CashKept
  <2>3. Worth(tracker) = 0 /\ net \in Int
    BY DEF BooksInv, BooksTypeOK, Worth
  <2> QED BY <2>1, <2>2, <2>3
<1> QED
  BY <1>1, BooksInit, BooksNext, PTL DEF PollSpec
=============================================================================
