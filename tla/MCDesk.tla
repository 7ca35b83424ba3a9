--------------------------------- MODULE MCDesk ---------------------------------
(***************************************************************************)
(* The parts of the trading desk that share no state with the live loop    *)
(* of LiveOrders, each on a small instance: a behaviour belongs to one     *)
(* part, chosen at the start, and leaves the others alone.                 *)
(***************************************************************************)
EXTENDS AccountLimits, StrategyTape, ExecutionsPoll, PlaceOrder, ManualFlatten,
        WalkForward, GateB, TLC

CONSTANTS b1, b2, b3

-----------------------------------------------------------------------------
(* AccountLimits: three processes with a different cap each. *)

Base ==
    [real |-> FALSE, start |-> 0, end |-> 10, max_daily_loss_pct |-> 20,
     max_trades_per_day |-> 2, max_consecutive_losses |-> 2, max_atr_pct |-> 150,
     max_spread_pct |-> 5, min_risk_reward |-> 150, capital_fraction |-> 100,
     max_notional_multiple |-> 1, max_notional_usd |-> Off,
     max_pct_of_median_bar_notional |-> Off, liquidity_lookback_bars |-> 2,
     risk_per_trade_pct |-> 10]
MCConfig ==
    b1 :> Base
    @@ b2 :> [Base EXCEPT !.capital_fraction = 33, !.max_notional_usd = 30]
    @@ b3 :> [Base EXCEPT !.max_pct_of_median_bar_notional = 50]
Bracket(direction, in, stop, target) ==
    [direction |-> direction, entry |-> in, stop |-> stop, target |-> target]
MCSignals ==
    {Bracket("long", 10, 8, 13), Bracket("short", 7, 8, 5), Bracket("short", 10, 8, 6)}
MCContext == [time |-> 10, is_tradeable |-> TRUE, volatility |-> "normal", atr_14 |-> 150]
MCState == [daily_pnl |-> 0, daily_trades |-> 0, consecutive_losses |-> 0]
MCQuote == [bid |-> 100, ask |-> 100]
MCCandles ==
    <<[close |-> 10, volume |-> 90], [close |-> 10, volume |-> 9], [close |-> 10, volume |-> 12]>>

-----------------------------------------------------------------------------
(* StrategyTape: bars by their shape, a history that brings each strategy   *)
(* to the edge of a signal, and parameters short enough for it.             *)

Unit == 1200
Shape(c, u, d, v) == [close |-> c * Unit, up |-> u * Unit, down |-> d * Unit, volume |-> v]
ShapeOf ==
    "U" :> Shape(4, 0, 0, 3) @@ "u" :> Shape(1, 0, 0, 2)
    @@ "D" :> Shape(-4, 0, 0, 3) @@ "d" :> Shape(-1, 0, 0, 2)
    @@ "B" :> Shape(2, 1, 2, 2) @@ "b" :> Shape(-2, 2, 1, 2) @@ "J" :> Shape(0, 2, 2, 2)
    @@ "S" :> Shape(1, 0, 4, 2) @@ "T" :> Shape(-1, 4, 0, 2)
    @@ "X" :> Shape(-8, 0, 2, 3) @@ "Y" :> Shape(8, 0, 2, 3)
    @@ "x" :> Shape(0, 0, 10, 2) @@ "Z" :> Shape(8, 0, 0, 3)
MCShapes == {ShapeOf[k] : k \in {"U", "u", "D", "d", "B", "b", "J", "S", "T"}}
MCSlots == {600, 630, 700, 900}
FirstBar ==
    [day |-> 1, time |-> 0, open |-> 1000000, high |-> 1000000, low |-> 1000000,
     close |-> 1000000, volume |-> 1]
WarmUp == <<"Z", "X", "Z", "D", "D", "Z", "X", "U">>
Tape(names) ==
    Tail(FoldLeft(LAMBDA cs, k : Append(cs, After(cs[Len(cs)], ShapeOf[k])),
                  <<FirstBar>>, WarmUp \o names))

MCParams ==
    "opening-reversal-v1" :>
        [Opening!Defaults EXCEPT !.atr_period = 2, !.counter_trend_bars = 2, !.counter_window = 3]
    @@ "balance-area-breakout-v1" :>
        [Balance!Defaults EXCEPT !.atr_period = 2, !.balance_lookback_candles = 6]
    @@ "value-area-reentry-v1" :>
        [Value!Defaults EXCEPT !.atr_period = 2, !.va_buckets = 5, !.trend_lookback = 3,
                               !.daily_atr_period = 2, !.ema_period = 3, !.min_bars = 8]
    @@ "breakout-first-pullback-v1" :>
        [Breakout!Defaults EXCEPT !.atr_period = 2, !.level_lookback_candles = 4,
            !.avg_period = 3, !.pullback_max_candles = 3, !.pivot_lookback_candles = 3]
    @@ "range-extreme-fade-v1" :>
        [Fade!Defaults EXCEPT !.atr_period = 2, !.structure_lookback = 5,
                              !.daily_atr_period = 2, !.ema_period = 3, !.min_bars = 8]
    @@ "trendline-break-test-v1" :>
        [Line!Defaults EXCEPT !.trend_lookback = 6, !.pivot_bars = 1, !.break_max_age = 7,
                              !.atr_period = 2, !.ema_period = 3]
    @@ "failure-test-long-v1" :>
        [Failure!Defaults EXCEPT !.level_lookback_candles = 8, !.level_min_age_candles = 4,
            !.keltner_ema_period = 3, !.atr_period = 2, !.climax_lookback_candles = 3,
            !.macd_slow_sma = 4, !.macd_fast_sma = 2, !.macd_lookback_candles = 5,
            !.range_bars = 4]
    @@ "pullback-trend-v1" :>
        [Pullback!Defaults EXCEPT !.min_candles_of_trend = 3, !.ema_period = 3,
            !.sma_period = 6, !.atr_period = 2, !.max_pullback_candles = 2]
    @@ "low2-m2s-short-v1" :>
        [LowTwo!Defaults EXCEPT !.min_candles_of_trend = 3, !.ema_period = 3,
            !.sma_period = 6, !.atr_period = 2, !.max_pullback_candles = 2]

MCHistory ==
    "opening-reversal-v1" :> Tape(<<"u", "d", "u", "d", "U", "U", "J", "d">>)
    @@ "balance-area-breakout-v1" :>
        Tape(<<"U", "u", "d", "J", "J", "u", "d", "J", "u", "d">>)
    @@ "value-area-reentry-v1" :>
        Tape(<<"u", "d", "u", "d", "X", "Y", "J", "J", "X", "Y", "x", "Z">>)
    @@ "breakout-first-pullback-v1" :>
        Tape(<<"u", "d", "u", "d", "u", "d", "u", "d", "U">>)
    @@ "range-extreme-fade-v1" :>
        Tape(<<"U", "D", "u", "d", "U", "D", "u", "d", "u", "d">>)
    @@ "trendline-break-test-v1" :>
        Tape(<<"u", "d", "u", "d", "D", "D", "U", "u", "D", "D", "U", "u", "D", "D", "U", "U", "U">>)
    @@ "failure-test-long-v1" :>
        Tape(<<"U", "U", "D", "D", "U", "d", "D", "u", "u", "U">>)
    @@ "pullback-trend-v1" :> Tape(<<"u", "d", "u", "u", "U", "u", "u">>)
    @@ "low2-m2s-short-v1" :> Tape(<<"d", "u", "d", "d", "D", "d", "d">>)
MCStrategies == DOMAIN MCHistory
MCRiskOf ==
    [s \in Strategies |->
        [real |-> FALSE, start |-> 0, end |-> 1440, max_daily_loss_pct |-> 20,
         max_trades_per_day |-> 2, max_consecutive_losses |-> 2, max_atr_pct |-> 150,
         max_spread_pct |-> 5, min_risk_reward |-> MCParams[s].min_risk_reward \div 10]]

-----------------------------------------------------------------------------
(* ExecutionsPoll: a scale-in with a partial exit, a short with a second    *)
(* trade behind it, an exit that goes beyond its entry.                     *)

Fill(side, quantity, price) ==
    [side |-> side, quantity |-> quantity, price |-> price, commission |-> 1]
MCScripts == {
    <<Fill("buy", 1, 10), Fill("buy", 2, 13), Fill("sell", 2, 12), Fill("sell", 1, 9)>>,
    <<Fill("sell", 2, 10), Fill("buy", 2, 8), Fill("buy", 1, 9), Fill("sell", 1, 11)>>,
    <<Fill("buy", 2, 10), Fill("sell", 3, 12), Fill("sell", 1, 9), Fill("buy", 1, 7)>> }

-----------------------------------------------------------------------------
(* WalkForward and GateB. *)

Left(pnl, r, reason, direction) ==
    [pnl |-> pnl, r |-> r, cost |-> 1, reason |-> reason, direction |-> direction]
MCExits == <<
    Left(1, 1, "target", "long"), Left(-2, -1, "stop", "long"), Left(3, 2, "target", "short"),
    Left(-1, -1, "stop", "short"), Left(0, 0, "time", "long"), Left(-2, -1, "stop", "long"),
    Left(4, 1, "target", "long"), Left(-3, -1, "stop", "short") >>
MCFlattened == [i \in 1 .. 8 |-> [MCExits[i] EXCEPT !.pnl = i - 4, !.reason = "end_of_day"]]

Stamp(month, day, hour) == [month |-> month, day |-> day, hour |-> hour]
MCStamps ==
    << Stamp(1, 1, 9), Stamp(1, 1, 10), Stamp(1, 1, 11), Stamp(1, 2, 9), Stamp(1, 2, 10),
       Stamp(1, 2, 11), Stamp(2, 3, 9), Stamp(2, 3, 10) >>

\* Two kinds of candle: a pending entry fills, an open position stays, and a trigger is asked
\* for; a pending entry fills, what is open is left, and a limit enters at once.
Market(leaves, asks) == [fills |-> TRUE, leaves |-> leaves, asks |-> asks]
MCMarkets == {Market(FALSE, "stop"), Market(TRUE, "limit")}

Cost(legacy, slippage, haircut) ==
    [legacy |-> legacy, slippage |-> slippage, haircut |-> haircut]
MCCosts == {Cost(FALSE, Off, Off), Cost(TRUE, Off, 2), Cost(FALSE, 4, Off), Cost(TRUE, Off, Off)}
MCBps == [slippage |-> 2, haircut |-> 2]
Traded(pnl, r) ==
    [pnl |-> pnl, r |-> r, cost |-> 1, reason |-> "stop", direction |-> "long",
     hour |-> 10, day |-> 1, month |-> 1]
MCBacktested == <<Traded(3, 1), Traded(-2, -1)>>
MCSamples == {<< >>, <<Traded(3, 1), Traded(-2, -1)>>, <<Traded(3, 1), Traded(2, 1)>>}

-----------------------------------------------------------------------------
VARIABLE part
deskVars == <<part, limitsVars, tapeVars, pollVars, placeVars, flattenVars, walkVars, gateVars>>

Init ==
    /\ part \in {"limits", "tape", "poll", "place", "flatten", "walk", "gate"}
    /\ LimitsInit
    /\ TapeInit /\ (part # "tape" => strategy = "pullback-trend-v1")
    /\ PollInit /\ (part # "poll" => script = CHOOSE s \in Scripts : TRUE)
    /\ PlaceInit /\ (part # "place" => request = "simple")
    /\ FlattenInit /\ (part # "flatten" => command = "flatten" /\ holding = 0 /\ Working = {})
    /\ WalkInit /\ (part # "walk" => series = <<Market(FALSE, "stop")>>)
    /\ GateInit

\* A step of one part leaves the variables of the others alone.
Only(name, act, others) == part = name /\ act /\ UNCHANGED <<part, others>>

Limits == Only("limits", LimitsNext,
    <<tapeVars, pollVars, placeVars, flattenVars, walkVars, gateVars>>)
Strategy == Only("tape", BarCloses,
    <<limitsVars, pollVars, placeVars, flattenVars, walkVars, gateVars>>)
Polling(act) == Only("poll", act,
    <<limitsVars, tapeVars, placeVars, flattenVars, walkVars, gateVars>>)
Placing == Only("place", PlaceNext,
    <<limitsVars, tapeVars, pollVars, flattenVars, walkVars, gateVars>>)
Flattening == Only("flatten", FlattenNext,
    <<limitsVars, tapeVars, pollVars, placeVars, walkVars, gateVars>>)
Walking == Only("walk", WalkNext,
    <<limitsVars, tapeVars, pollVars, placeVars, flattenVars, gateVars>>)
Gating == Only("gate", GateNext,
    <<limitsVars, tapeVars, pollVars, placeVars, flattenVars, walkVars>>)

Next == Limits \/ Strategy \/ Polling(PollNext) \/ Placing \/ Flattening \/ Walking \/ Gating

\* The fairness is that of the task that polls and of the loop that drains.
Spec ==
    /\ Init /\ [][Next]_deskVars
    /\ WF_deskVars(Polling(FetchWhole))
    /\ WF_deskVars(Polling(Send))
    /\ WF_deskVars(Polling(Drained))
=============================================================================
