------------------------------- MODULE Ledger -------------------------------
(***************************************************************************)
(* What the cash account of the simulated broker promises: one trade at a  *)
(* time, and a balance that moves only when a trade closes, by the net P&L *)
(* of that trade.  The broker keeps no such balance: it moves cash with    *)
(* each leg.  Backtest shows that the two agree.                           *)
(***************************************************************************)
EXTENDS Costs

CONSTANTS
    Capital,      \* the initial cash
    Quantities,   \* the sizes of a position
    Prices,       \* the prices of executions
    NoTrade

VARIABLES balance, trade

Trades == [direction : Directions, quantity : Quantities, entry : Prices]
Earned(t, exit) == NetPnl(t.direction, t.quantity, t.entry, exit)

Init == balance = Capital /\ trade = NoTrade

Open ==
    /\ trade = NoTrade
    /\ trade' \in Trades
    /\ UNCHANGED balance

Close ==
    /\ trade # NoTrade
    /\ trade' = NoTrade
    /\ \E exit \in Prices : balance' = balance + Earned(trade, exit)

\* In and out within one candle.
RoundTrip ==
    /\ trade = NoTrade
    /\ trade' = NoTrade
    /\ \E t \in Trades, exit \in Prices : balance' = balance + Earned(t, exit)

Next == Open \/ Close \/ RoundTrip

Spec == Init /\ [][Next]_<<balance, trade>>
=============================================================================
