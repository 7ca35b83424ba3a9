-------------------------------- MODULE Metrics --------------------------------
(***************************************************************************)
(* trader-backtest/src/metrics.rs: the figures of a series of trades.  A   *)
(* trade is a record with its net pnl and its result in R (integers), the  *)
(* commission paid, its direction, reason of exit and hour of entry, and   *)
(* the day and the month it was left in.  A ratio is kept as its two       *)
(* terms; the f64 statistics (t-stat, correlation, Sharpe) are left out.   *)
(***************************************************************************)
EXTENDS Amounts, SequencesExt, FiniteSetsExt

\* A field of every trade (or of every group), and the sum of the amounts.
Each(trades, field) == [i \in DOMAIN trades |-> trades[i][field]]
Total(amounts) == MapThenSumSet(LAMBDA i: amounts[i], DOMAIN amounts)
Gain(x) == Larger(x, 0)
Loss(x) == Larger(-x, 0)

\* Profit over loss; None when nothing was lost.
ProfitFactor(results) ==
    LET gains  == Total([i \in DOMAIN results |-> Gain(results[i])])
        losses == Total([i \in DOMAIN results |-> Loss(results[i])])
    IN  IF losses = 0 THEN Off ELSE <<gains, losses>>

\* The trades of a set, in their order.
TradesIn(trades, set) ==
    LET kept[n \in 0 .. Len(trades)] ==
            IF n = 0 THEN << >>
            ELSE IF trades[n] \in set THEN Append(kept[n - 1], trades[n]) ELSE kept[n - 1]
    IN  kept[Len(trades)]

Won(t) == t.pnl > 0
Winners(trades) == {t \in ToSet(trades) : Won(t)}
Where(trades, key, k) == {t \in ToSet(trades) : t[key] = k}

\* GroupMetrics: push for each trade of the group, then finish.
Group(trades) ==
    [trades       |-> Len(trades),
     wins         |-> Len(TradesIn(trades, Winners(trades))),
     net          |-> Total(Each(trades, "pnl")),
     profitFactor |-> ProfitFactor(Each(trades, "pnl")),
     averageR     |-> <<Total(Each(trades, "r")), Len(trades)>>]

By(trades, key) ==
    [k \in ToSet(Each(trades, key)) |-> Group(TradesIn(trades, Where(trades, key, k)))]

\* The loop over the trades, for what depends on their order.
FreshTally(capital) ==
    [equity |-> capital, peak |-> capital, drawdown |-> 0, from |-> capital,
     streak |-> 0, longest |-> 0]

Follow(a, t) ==
    LET equity == a.equity + t.pnl
        peak   == Larger(a.peak, equity)
        streak == IF Won(t) THEN 0 ELSE a.streak + 1
        deeper == peak - equity > a.drawdown
    IN  [equity   |-> equity,
         peak     |-> peak,
         drawdown |-> IF deeper THEN peak - equity ELSE a.drawdown,
         from     |-> IF deeper THEN peak ELSE a.from,
         streak   |-> streak,
         longest  |-> Larger(a.longest, streak)]

Followed(trades, capital) ==
    LET tally[n \in 0 .. Len(trades)] ==
            IF n = 0 THEN FreshTally(capital) ELSE Follow(tally[n - 1], trades[n])
    IN  tally[Len(trades)]

\* por_dia, por_mes: the net of each day (or month) a trade was left in.
NetOf(trades, when) ==
    [w \in ToSet(Each(trades, when)) |->
        Total(Each(TradesIn(trades, Where(trades, when, w)), "pnl"))]

\* The share of the n best of them in the net, 0 when the net is zero.
TopShare(nets, n, net) ==
    LET best == SetToSortSeq(DOMAIN nets, LAMBDA a, b: nets[a] > nets[b])
        sum  == FoldLeft(LAMBDA s, w: s + nets[w], 0, SubSeq(best, 1, Smaller(n, Len(best))))
    IN  IF net = 0 THEN 0 ELSE <<sum, Abs(net)>>

Nothing ==
    [total |-> 0, wins |-> 0, losses |-> 0, net |-> 0, profitFactor |-> Off,
     profitFactorR |-> Off, averageR |-> 0, drawdown |-> 0, drawdownPct |-> 0, longest |-> 0,
     best |-> 0, worst |-> 0, byReason |-> << >>, byDirection |-> << >>, byHour |-> << >>,
     days |-> 0, topDay |-> 0, topTwoMonths |-> 0, months |-> 0, goodMonths |-> 0, cost |-> 0]

\* BacktestMetrics::compute without the series of equity (from_trades).
FromTrades(trades, capital) ==
    LET followed == Followed(trades, capital)
        pnls     == ToSet(Each(trades, "pnl"))
        net      == Total(Each(trades, "pnl"))
        daily    == NetOf(trades, "day")
        monthly  == NetOf(trades, "month")
    IN  IF trades = << >> THEN Nothing ELSE
        [total         |-> Len(trades),
         wins          |-> Len(TradesIn(trades, Winners(trades))),
         losses        |-> Len(TradesIn(trades, ToSet(trades) \ Winners(trades))),
         net           |-> net,
         profitFactor  |-> ProfitFactor(Each(trades, "pnl")),
         profitFactorR |-> ProfitFactor(Each(trades, "r")),
         averageR      |-> <<Total(Each(trades, "r")), Len(trades)>>,
         drawdown      |-> followed.drawdown,
         drawdownPct   |-> IF followed.drawdown = 0 \/ followed.from = 0 THEN 0
                           ELSE <<followed.drawdown, followed.from>>,
         longest       |-> followed.longest,
         best          |-> Max(pnls),
         worst         |-> Min(pnls),
         byReason      |-> By(trades, "reason"),
         byDirection   |-> By(trades, "direction"),
         byHour        |-> By(trades, "hour"),
         days          |-> Cardinality(DOMAIN daily),
         topDay        |-> TopShare(daily, 1, net),
         topTwoMonths  |-> TopShare(monthly, 2, net),
         months        |-> Cardinality(DOMAIN monthly),
         goodMonths    |-> Cardinality({w \in DOMAIN monthly : monthly[w] > 0}),
         cost          |-> Total(Each(trades, "cost"))]

\* What the order-dependent figures and the groups mean, said without the loop.
EquityAt(trades, capital, i) == capital + Total(Each(SubSeq(trades, 1, i), "pnl"))

DeepestFall(trades, capital) ==
    Max({EquityAt(trades, capital, w[1]) - EquityAt(trades, capital, w[2]) :
            w \in {x \in (0 .. Len(trades)) \X (0 .. Len(trades)) : x[1] <= x[2]}})

LongestLosing(trades) ==
    Max({0} \cup {w[2] - w[1] + 1 : w \in
        {x \in (DOMAIN trades) \X (DOMAIN trades) :
            x[1] <= x[2] /\ \A k \in x[1] .. x[2] : ~Won(trades[k])}})

Partitions(groups, figures) ==
    /\ Total(Each(groups, "trades")) = figures.total
    /\ Total(Each(groups, "net")) = figures.net
    /\ Total(Each(groups, "wins")) = figures.wins

FiguresAgree(figures, trades, capital) ==
    /\ figures.drawdown = DeepestFall(trades, capital)
    /\ figures.longest = LongestLosing(trades)
    /\ capital + figures.net = EquityAt(trades, capital, Len(trades))
    /\ figures.wins + figures.losses = figures.total
    /\ Partitions(figures.byReason, figures)
    /\ Partitions(figures.byDirection, figures)
    /\ Partitions(figures.byHour, figures)
=============================================================================
