---------------------------- MODULE RiskManager ----------------------------
(***************************************************************************)
(* RiskManager::validate (crates/trader-core/src/risk/mod.rs): the checks  *)
(* a signal passes, in their order, and the size of the position it gets.  *)
(* A pure function of the configuration, the signal, the context of the    *)
(* market, the quote, the state of the day, the capital and the candles.   *)
(*                                                                         *)
(* Money is counted in its smallest unit, so that round_dp(2) rounds to an *)
(* integer.  Percentages are numbers of percent, fractions of the capital  *)
(* numbers of hundredths.  Decimal keeps 28 digits and integers keep all.  *)
(***************************************************************************)
EXTENDS Amounts

\* capital_efetivo: the slice of the account this instance may use.
CapitalEfetivo(config, capital) ==
    RoundHalfEven(capital * config.capital_fraction, 100)

Scale == 200

\* teto_de_notional: the lowest of the three caps, and which one it is.
\* The numbers are in two-hundredths of the unit of money, which keeps the last
\* cap, a percentage of half a sum, an integer.
TetoDeNotional(config, capital, liquidity) ==
    LET own  == [cap |-> Scale * CapitalEfetivo(config, capital) * config.max_notional_multiple,
                 rule |-> "capital"]
        usd  == IF config.max_notional_usd # Off /\ Scale * config.max_notional_usd < own.cap
                THEN [cap |-> Scale * config.max_notional_usd, rule |-> "absolute"] ELSE own
        pct  == config.max_pct_of_median_bar_notional
    IN  IF pct # Off /\ liquidity # Off /\ liquidity * pct < usd.cap
        THEN [cap |-> liquidity * pct, rule |-> "liquidity"] ELSE usd

\* The place of a bar when the window is sorted by worth, equal ones by age.
RankOf(worth, i) ==
    Cardinality({j \in DOMAIN worth : worth[j] < worth[i] \/ (worth[j] = worth[i] /\ j <= i)})

\* median_bar_notional: None unless the window fits; sorted, the middle one, or
\* the mean of the two in the middle.  Twice the median, to stay with integers.
MedianBarNotional(candles, lookback) ==
    IF lookback = 0 \/ Len(candles) < lookback THEN Off ELSE
    LET bars   == (Len(candles) - lookback + 1) .. Len(candles)
        worth  == [i \in bars |-> Abs(candles[i].close * candles[i].volume)]
        at(k)  == worth[CHOOSE i \in bars : RankOf(worth, i) = k]
        half   == lookback \div 2
    IN  IF lookback % 2 = 1 THEN 2 * at(half + 1) ELSE at(half) + at(half + 1)

\* Quote::spread_pct above the limit, in hundredths of a percent; a mid of zero
\* has no spread.
SpreadAbove(quote, limit) ==
    quote.bid + quote.ask # 0 /\
        2 * (quote.ask - quote.bid) * 10000 > limit * (quote.bid + quote.ask)

\* The stop on the losing side of the entry, the target on the winning side.
SidesHold(signal) ==
    IF signal.direction = "long"
    THEN signal.stop < signal.entry /\ signal.entry < signal.target
    ELSE signal.target < signal.entry /\ signal.entry < signal.stop

RiskDistance(signal) == Abs(signal.entry - signal.stop)
RewardDistance(signal) == Abs(signal.target - signal.entry)

\* is_within_trading_hours: both ends belong to the window.
WithinTradingHours(config, time) == config.start <= time /\ time <= config.end

\* The checks before the size, each with the reason it refuses for, in the
\* order of the code: the first that fails is the answer.
Checks(config, signal, ctx, quote, state, capital) ==
    LET priced == Off \notin {signal.entry, signal.stop, signal.target} IN <<
    <<~ config.real,                                        "NotInPaperMode">>,
    <<WithinTradingHours(config, ctx.time),                 "OutsideTradingHours">>,
    <<state.daily_pnl * 100 > -(capital * config.max_daily_loss_pct), "DailyLossLimitReached">>,
    <<state.daily_trades < config.max_trades_per_day,       "MaxTradesReached">>,
    <<state.consecutive_losses < config.max_consecutive_losses, "ConsecutiveLosses">>,
    <<priced,                                               "StopMissing">>,
    <<ctx.is_tradeable,                                     "NoContext">>,
    <<ctx.volatility # "high",                              "HighVolatility">>,
    <<ctx.atr_14 = Off \/ ctx.atr_14 <= config.max_atr_pct, "HighVolatility">>,
    <<quote = Off \/ ~ SpreadAbove(quote, config.max_spread_pct), "HighSpread">>,
    <<priced => SidesHold(signal),                          "StopMissing">>,
    <<priced => RewardDistance(signal) * 100 >= config.min_risk_reward * RiskDistance(signal),
                                                            "PoorRiskReward">> >>

\* What the checks answer: the reason of the first that fails, or none.
Refusal(checks) ==
    LET failed == {i \in DOMAIN checks : ~ checks[i][1]}
    IN  IF failed = {} THEN "none"
        ELSE checks[CHOOSE i \in failed : \A j \in failed : i <= j][2]

\* The shares the risk budget pays for, and those the cap on the notional does;
\* both are cut to whole shares.
QtyByRisk(config, capital, distance) ==
    (CapitalEfetivo(config, capital) * config.risk_per_trade_pct) \div (100 * distance)
QtyByNotional(cap, entry) == cap \div (Scale * entry)

Refused(reason) == [approved |-> FALSE, reason |-> reason]

UncutSize(config, signal, capital, candles) ==   \* mutant: the notional is not capped
    LET byRisk == QtyByRisk(config, capital, RiskDistance(signal))
    IN  IF byRisk <= 0 THEN Refused("InvalidQuantity")
        ELSE [approved |-> TRUE, position_size |-> byRisk,
              risk_amount |-> RiskDistance(signal) * byRisk]
\* The size, once every check passed.  A liquidity cap that cannot be measured
\* refuses the signal.
Sized(config, signal, capital, candles) ==
    LET liquidity == IF config.max_pct_of_median_bar_notional = Off THEN Off
                     ELSE MedianBarNotional(candles, config.liquidity_lookback_bars)
        byRisk    == QtyByRisk(config, capital, RiskDistance(signal))
        cap       == TetoDeNotional(config, capital, liquidity)
        size      == Smaller(byRisk, QtyByNotional(cap.cap, signal.entry))
    IN  IF byRisk <= 0 THEN Refused("InvalidQuantity")
        ELSE IF config.max_pct_of_median_bar_notional # Off /\ liquidity = Off
        THEN Refused("NotionalAboveLiquidityCap")
        ELSE IF size < 1
        THEN Refused(IF cap.rule = "liquidity" THEN "NotionalAboveLiquidityCap"
                     ELSE "InsufficientBuyingPower")
        ELSE [approved |-> TRUE, position_size |-> size,
              risk_amount |-> RiskDistance(signal) * size]

Validate(config, signal, ctx, quote, state, capital, candles) ==
    LET refusal == Refusal(Checks(config, signal, ctx, quote, state, capital))
    IN  IF refusal # "none" THEN Refused(refusal)
        ELSE Sized(config, signal, capital, candles)

\* halts_trading (paper.rs): the refusals that stop the day and are alerted.
HaltsTrading(reason) ==
    reason \in {"DailyLossLimitReached", "MaxTradesReached", "ConsecutiveLosses", "StopMissing"}

\* build_risk_config (risk_config.rs) starts the process with nothing else: a
\* value out of its range aborts the start.
ValidConfig(config) ==
    /\ config.capital_fraction > 0 /\ config.capital_fraction <= 100
    /\ config.max_notional_multiple >= 1
    /\ config.max_notional_usd # Off => config.max_notional_usd > 0
    /\ config.max_pct_of_median_bar_notional # Off =>
         /\ config.max_pct_of_median_bar_notional > 0
         /\ config.max_pct_of_median_bar_notional <= 100
    /\ config.liquidity_lookback_bars > 0
=============================================================================
