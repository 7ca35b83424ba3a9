--------------------------- MODULE SimulatedBroker --------------------------
(***************************************************************************)
(* The simulated broker of the backtest and of the replay, for one symbol  *)
(* (crates/trader-adapters/src/simulated/broker.rs).  Each call locks the  *)
(* state and runs to its end: one action per call.                         *)
(*                                                                         *)
(* Prices, sizes and bars are integers.  A position and its two exits are  *)
(* one record: every order of the engine is a bracket.                     *)
(***************************************************************************)
EXTENDS Costs, Sequences

CONSTANTS
    Bars,         \* the candles of the series, 1 .. n
    Candles,      \* the shapes a candle may have
    Setups,       \* the brackets a strategy may ask for
    Quantities,   \* the sizes the risk manager may give them
    Capital,      \* initial_cash
    Validity,     \* entry_validity_candles
    Tolerance,    \* entry_overshoot_tolerance, in hundredths
    None

Kinds == {"stop", "limit"}
SetupType == [kind : Kinds, direction : Directions, entry : Int, stop : Int, target : Int]
CandleType == [open : Int, high : Int, low : Int, close : Int]

ASSUME BrokerAssumption ==
    /\ Bars \subseteq Nat /\ Candles \subseteq CandleType /\ Setups \subseteq SetupType
    /\ Quantities \subseteq Nat \ {0} /\ Capital \in Int
    /\ Validity \in Nat \ {0} /\ Tolerance \in Nat
    /\ None \notin [setup : Setups, quantity : Quantities, order : Nat, waiting : Nat]
    /\ None \notin [setup : Setups, quantity : Quantities, order : Nat, entry : Int, since : Bars]
    /\ None \notin [direction : Directions, quantity : Quantities, entry : Int]

VARIABLES
    orders,          \* every order sent: its status and the bars of its life
    pending,         \* pending_entries of the symbol, or None
    position,        \* positions and pending_exits of the symbol, or None
    cash, equity,
    closed           \* closed_trades, until the engine takes them

brokerVars == <<orders, pending, position, cash, equity, closed>>

Statuses == {"accepted", "filled", "cancelled", "expired"}

BrokerInit ==
    /\ orders = <<>> /\ pending = None /\ position = None
    /\ cash = Capital /\ equity = Capital /\ closed = <<>>

AbsOf(n) == IF n < 0 THEN 0 - n ELSE n
RiskOf(s) == AbsOf(s.entry - s.stop)

\* How far a price is beyond the trigger, and whether that is too far (ADR-015).
Beyond(s, p) == IF s.direction = "long" THEN p - s.entry ELSE s.entry - p
TooFar(s, p) == RiskOf(s) > 0 /\ Beyond(s, p) * 100 > Tolerance * RiskOf(s)

-----------------------------------------------------------------------------
(* set_market_candle *)

Reaches(s, c) == IF s.direction = "long" THEN c.high >= s.entry ELSE c.low <= s.entry
Triggered(c) == pending # None /\ Reaches(pending.setup, c)

\* stop_entry_expired, with the candle at hand counted.
ExpiresLate(c) ==     \* mutant: one candle too many
    pending # None /\ ~ Reaches(pending.setup, c) /\ pending.waiting + 1 > Validity
Expires(c) == pending # None /\ ~ Reaches(pending.setup, c) /\ pending.waiting + 1 >= Validity
Invalidated(c) == Triggered(c) /\ TooFar(pending.setup, c.open)
Fills(c) == Triggered(c) /\ ~ TooFar(pending.setup, c.open)

\* The worse of the open and the level, for an order that buys or sells there.
WorseOf(dir, entering, a, b) == IF Buys(dir, entering) THEN Larger(a, b) ELSE Smaller(a, b)
BetterOf(dir, entering, a, b) == IF Buys(dir, entering) THEN Smaller(a, b) ELSE Larger(a, b)

FillPrice(s, c) ==
    Slipped(WorseOf(s.direction, TRUE, c.open, s.entry), s.direction, TRUE, Slippage)

Opened(e, p, bar) ==
    [setup |-> e.setup, quantity |-> e.quantity, order |-> e.order, entry |-> p, since |-> bar]

\* What the candle leaves of the pending entry, then what it finds open.
PositionAt(c, bar) ==
    IF Fills(c) THEN Opened(pending, FillPrice(pending.setup, c), bar) ELSE position

CashAfterEntry(c) ==
    IF Fills(c)
    THEN cash + EntryFlow(pending.setup.direction, FillPrice(pending.setup, c), pending.quantity)
    ELSE cash

PendingAfter(c) ==
    IF pending = None \/ Triggered(c) \/ Expires(c) THEN None
    ELSE [pending EXCEPT !.waiting = @ + 1]

Ends(o, status, bar) == [orders EXCEPT ![o].status = status, ![o].ended = bar]
OrdersForgotten(c, bar) ==     \* mutant: an invalidated order stays accepted
    CASE Fills(c)   -> Ends(pending.order, "filled", bar)
      [] Expires(c) -> Ends(pending.order, "expired", bar)
      [] OTHER      -> orders
OrdersAfter(c, bar) ==
    CASE Fills(c)       -> Ends(pending.order, "filled", bar)
      [] Invalidated(c) -> Ends(pending.order, "cancelled", bar)
      [] Expires(c)     -> Ends(pending.order, "expired", bar)
      [] OTHER          -> orders

\* The stop is looked at first: when both levels are in the candle it is the
\* one that trades.
StopHit(p, c) ==
    IF p.setup.direction = "long" THEN c.low <= p.setup.stop ELSE c.high >= p.setup.stop
TargetHit(p, c) ==
    IF p.setup.direction = "long" THEN c.high >= p.setup.target ELSE c.low <= p.setup.target
ExitReason(p, c) ==
    IF StopHit(p, c) THEN "stop" ELSE "target"
Exits(p, c) == p # None /\ (StopHit(p, c) \/ TargetHit(p, c))
ExitPrice(p, c) ==
    LET d == p.setup.direction
    IN  IF StopHit(p, c)
        THEN Slipped(WorseOf(d, FALSE, c.open, p.setup.stop), d, FALSE, Slippage)
        ELSE Slipped(BetterOf(d, FALSE, c.open, p.setup.target), d, FALSE, Haircut)

\* The trade a position becomes.
TradeOf(p, price, reason, bar) ==
    [order |-> p.order, kind |-> p.setup.kind, reason |-> reason,
     from |-> p.since, until |-> bar,
     net |-> NetPnl(p.setup.direction, p.quantity, p.entry, price)]

\* The position is gone, the money is in the account, the trade is recorded.
Settle(p, money, price, reason, bar) ==
    /\ position' = None
    /\ cash' = money + ExitFlow(p.setup.direction, price, p.quantity)
    /\ equity' = cash'
    /\ closed' = Append(closed, TradeOf(p, price, reason, bar))

KeepPosition(c, bar) ==
    LET p == PositionAt(c, bar)
    IN  /\ ~ Exits(p, c)
        /\ position' = p
        /\ cash' = CashAfterEntry(c)
        /\ equity' = IF p = None THEN equity
                     ELSE Marked(cash', p.setup.direction, c.close, p.quantity)
        /\ UNCHANGED closed

ExitPosition(c, bar) ==
    LET p == PositionAt(c, bar)
    IN  /\ Exits(p, c)
        /\ Settle(p, CashAfterEntry(c), ExitPrice(p, c), ExitReason(p, c), bar)

SetMarketCandle(c, bar) ==
    /\ orders' = OrdersAfter(c, bar)
    /\ pending' = PendingAfter(c)
    /\ KeepPosition(c, bar) \/ ExitPosition(c, bar)

-----------------------------------------------------------------------------
(* The other calls *)

\* close_position_at_market: an execution at market, it slips.
ClosePositionAtMarket(price, reason, bar) ==
    /\ position # None
    /\ LET d == position.setup.direction
       IN  Settle(position, cash, Slipped(price, d, FALSE, Slippage), reason, bar)
    /\ UNCHANGED <<orders, pending>>

\* place_order of a bracket: a stop entry waits, any other fills on the spot.
PlaceOrder(s, q, bar) ==
    LET id == Len(orders) + 1
        price == Slipped(s.entry, s.direction, TRUE, Slippage)
        bracket == [setup |-> s, quantity |-> q, order |-> id, waiting |-> 0]
        Sent(status, end) ==
            Append(orders, [status |-> status, kind |-> s.kind, sent |-> bar, ended |-> end])
    IN  /\ position = None /\ pending = None
        /\ IF s.kind = "stop"
           THEN /\ pending' = bracket
                /\ orders' = Sent("accepted", 0)
                /\ UNCHANGED <<position, cash, equity>>
           ELSE /\ position' = Opened(bracket, price, bar)
                /\ cash' = cash + EntryFlow(s.direction, price, q)
                /\ equity' = Marked(cash', s.direction, price, q)
                /\ orders' = Sent("filled", bar)
                /\ UNCHANGED pending
        /\ UNCHANGED closed

\* cancel_order: whatever the order, the entry pending in its symbol goes.
CancelOrder(o, bar) ==
    /\ o \in 1 .. Len(orders) /\ orders[o].status # "filled"
    /\ orders' = Ends(o, "cancelled", bar)
    /\ pending' = None
    /\ UNCHANGED <<position, cash, equity, closed>>

ClearClosedTrades ==
    /\ closed' = <<>>
    /\ UNCHANGED <<orders, pending, position, cash, equity>>
=============================================================================
