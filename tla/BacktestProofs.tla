--------------------------- MODULE BacktestProofs ---------------------------
(***************************************************************************)
(* Proofs about Backtest for every series, every set of brackets and every *)
(* cost table: the book of orders, the night, the cash account, the        *)
(* equity, the exit by time and the limits of the day.                     *)
(***************************************************************************)
EXTENDS Backtest, SetLemmas

-----------------------------------------------------------------------------
(* Money *)

\* A commission is an integer.
LEMMA CommissionType ==
    ASSUME NEW q \in Nat, NEW p \in Int
    PROVE  Commission(q, p) \in Int
<1>1. p * q \in Int
  OBVIOUS
<1>2. Cap(q, p) \in Int
  BY <1>1, CostsAssumption DEF Cap
<1>3. Gross(q) \in Int
  BY CostsAssumption DEF Gross, Larger
<1> QED
  BY <1>2, <1>3 DEF Commission, Smaller

\* The two legs of a trade give what the trade says it earned.
LEMMA LegsGiveNet ==
    ASSUME NEW dir \in Directions, NEW q \in Nat, NEW entry \in Int, NEW exit \in Int
    PROVE  /\ EntryFlow(dir, entry, q) \in Int
           /\ ExitFlow(dir, exit, q) \in Int
           /\ EntryFlow(dir, entry, q) + ExitFlow(dir, exit, q) = NetPnl(dir, q, entry, exit)
<1> DEFINE ce == Commission(q, entry)
           cx == Commission(q, exit)
<1>1. ce \in Int /\ cx \in Int
  BY CommissionType
<1> HIDE DEF ce, cx
<1>2. (exit - entry) * q = exit * q - entry * q
  OBVIOUS
<1>3. exit * q \in Int /\ entry * q \in Int
  OBVIOUS
<1>4. CASE dir = "long"
  <2>1. EntryFlow(dir, entry, q) = (0 - 1) * entry * q - ce
    BY <1>4 DEF EntryFlow, SignOf, ce
  <2>2. ExitFlow(dir, exit, q) = 1 * exit * q - cx
    BY <1>4 DEF ExitFlow, SignOf, cx
  <2>3. NetPnl(dir, q, entry, exit) = (exit - entry) * q * 1 - (ce + cx)
    BY <1>4 DEF NetPnl, SignOf, ce, cx
  <2> QED
    BY <1>1, <1>2, <1>3, <2>1, <2>2, <2>3
<1>5. CASE dir = "short"
  <2>1. EntryFlow(dir, entry, q) = (0 - (0 - 1)) * entry * q - ce
    BY <1>5 DEF EntryFlow, SignOf, ce
  <2>2. ExitFlow(dir, exit, q) = (0 - 1) * exit * q - cx
    BY <1>5 DEF ExitFlow, SignOf, cx
  <2>3. NetPnl(dir, q, entry, exit) = (exit - entry) * q * (0 - 1) - (ce + cx)
    BY <1>5 DEF NetPnl, SignOf, ce, cx
  <2> QED
    BY <1>1, <1>2, <1>3, <2>1, <2>2, <2>3
<1> QED
  BY <1>4, <1>5 DEF Directions

\* So is what the entry moves.
LEMMA EntryFlowType ==
    ASSUME NEW dir \in Directions, NEW q \in Nat, NEW p \in Int
    PROVE  EntryFlow(dir, p, q) \in Int
BY LegsGiveNet

-----------------------------------------------------------------------------
(* Prices of executions *)

\* Prices are integers.
LEMMA FillPricesAreIntegers == FillPrices \subseteq Int
<1>1. Levels \subseteq Int
  BY BrokerAssumption DEF Levels, CandleType, SetupType
<1> QED
  BY <1>1, CostsAssumption DEF FillPrices

\* Slippage and haircut take a level to a price of an execution.
LEMMA SlippedLevel ==
    ASSUME NEW p \in Levels, NEW d, NEW e \in BOOLEAN, NEW by \in {Slippage, Haircut}
    PROVE  Slipped(p, d, e, by) \in FillPrices
BY DEF Slipped, FillPrices

\* Whatever the candle does, an entry, an exit and a close at market execute at
\* a level of the candle or of the bracket, slipped.
LEMMA ExecutionPrices ==
    ASSUME NEW s \in Setups, NEW c \in Candles
    PROVE  /\ FillPrice(s, c) \in FillPrices
           /\ \A p : p.setup = s => ExitPrice(p, c) \in FillPrices
           /\ \A d : Slipped(c.close, d, FALSE, Slippage) \in FillPrices
           /\ Slipped(s.entry, s.direction, TRUE, Slippage) \in FillPrices
<1>1. c.open \in Levels /\ c.close \in Levels
      /\ s.entry \in Levels /\ s.stop \in Levels /\ s.target \in Levels
  BY DEF Levels
<1>2. WorseOf(s.direction, TRUE, c.open, s.entry) \in Levels
  BY <1>1 DEF WorseOf, Larger, Smaller
<1>3. FillPrice(s, c) \in FillPrices
  BY <1>2, SlippedLevel DEF FillPrice
<1>4. ASSUME NEW p, p.setup = s
      PROVE  ExitPrice(p, c) \in FillPrices
  <2>1. WorseOf(s.direction, FALSE, c.open, s.stop) \in Levels
        /\ BetterOf(s.direction, FALSE, c.open, s.target) \in Levels
    BY <1>1 DEF WorseOf, BetterOf, Larger, Smaller
  <2> QED
    BY <1>4, <2>1, SlippedLevel DEF ExitPrice
<1> QED
  BY <1>1, <1>3, <1>4, SlippedLevel

-----------------------------------------------------------------------------
(* The calls of the broker *)

BookInv == BrokerTypeOK /\ BookMatchesPending /\ bar \in Bars /\ candle \in Candles

\* One step of the ledger, or none.
LedgerStep == [Account!Next]_<<Balance, OpenTrade>>

USE DEF BracketType, PositionType

\* None is neither an entry nor a position; sizes and directions are what they say.
LEMMA Records ==
    /\ None \notin BracketType /\ None \notin PositionType
    /\ \A s \in Setups : s.direction \in Directions
    /\ Quantities \subseteq Nat
<1>1. None \notin BracketType
  BY BrokerAssumption
<1>2. None \notin PositionType
  BY BrokerAssumption, FillPricesAreIntegers
<1> QED
  BY <1>1, <1>2, BrokerAssumption DEF SetupType

\* What the ledger sees of a position.
LEMMA LedgerTrade ==
    ASSUME NEW p \in PositionType
    PROVE  /\ [direction |-> p.setup.direction, quantity |-> p.quantity, entry |-> p.entry]
                 \in Account!Trades
           /\ [direction |-> p.setup.direction, quantity |-> p.quantity, entry |-> p.entry]
                 # None
           /\ p.setup.direction \in Directions /\ p.quantity \in Nat /\ p.entry \in Int
<1>1. p.setup.direction \in Directions /\ p.quantity \in Quantities /\ p.entry \in FillPrices
  BY Records
<1>2. p.entry \in Int /\ p.quantity \in Nat
  BY <1>1, FillPricesAreIntegers, Records
<1> QED
  BY <1>1, <1>2, BrokerAssumption DEF Account!Trades, Account!Directions, Directions

\* A position that is closed closes the trade of the ledger.
LEMMA SettleCloses ==
    ASSUME BookInv, NEW p \in PositionType, NEW money \in Int, NEW price \in FillPrices,
           NEW reason, Settle(p, money, price, reason, bar)
    PROVE  /\ position' = None /\ cash' \in Int /\ equity' \in Int
           /\ Balance' = money + ExitFlow(p.setup.direction, price, p.quantity)
           /\ OpenTrade' = None
<1>1. price \in Int
  BY FillPricesAreIntegers
<1>2. ExitFlow(p.setup.direction, price, p.quantity) \in Int
  BY <1>1, LedgerTrade, LegsGiveNet
<1> QED
  BY <1>2 DEF Settle, Balance, OpenTrade

\* What the candle makes of the pending entry.
LEMMA EntryOutcome ==
    ASSUME BookInv
    PROVE  /\ PositionAt(candle, bar) \in PositionType \cup {None}
           /\ CashAfterEntry(candle) \in Int
           /\ ~ Fills(candle) =>
                PositionAt(candle, bar) = position /\ CashAfterEntry(candle) = cash
           /\ Fills(candle) =>
                LET p == PositionAt(candle, bar)
                IN  /\ position = None /\ p \in PositionType
                    /\ CashAfterEntry(candle) =
                         cash + EntryFlow(p.setup.direction, p.entry, p.quantity)
<1>1. CASE ~ Fills(candle)
  BY <1>1 DEF PositionAt, CashAfterEntry, BookInv, BrokerTypeOK
<1>2. CASE Fills(candle)
  <2> DEFINE price == FillPrice(pending.setup, candle)
  <2>1. pending # None
    BY <1>2 DEF Fills, Triggered
  <2>2. pending \in BracketType
    BY <2>1 DEF BookInv, BrokerTypeOK
  <2>3. position = None
    BY <2>1 DEF BookInv, BookMatchesPending
  <2>4. price \in FillPrices
    BY <2>2, ExecutionPrices DEF BookInv
  <2>5. PositionAt(candle, bar) = Opened(pending, price, bar)
        /\ CashAfterEntry(candle) = cash + EntryFlow(pending.setup.direction, price, pending.quantity)
    BY <1>2 DEF PositionAt, CashAfterEntry
  <2>6. Opened(pending, price, bar) \in PositionType
    BY <2>2, <2>4 DEF Opened, BookInv
  <2>7. EntryFlow(pending.setup.direction, price, pending.quantity) \in Int
    BY <2>2, <2>4, FillPricesAreIntegers, Records, LegsGiveNet
  <2>8. cash + EntryFlow(pending.setup.direction, price, pending.quantity) \in Int
    BY <2>7 DEF BookInv, BrokerTypeOK
  <2>9. /\ Opened(pending, price, bar).setup = pending.setup
        /\ Opened(pending, price, bar).quantity = pending.quantity
        /\ Opened(pending, price, bar).entry = price
    BY DEF Opened
  <2> QED
    BY <1>2, <2>3, <2>5, <2>6, <2>8, <2>9
<1> QED
  BY <1>1, <1>2

\* The ledger computes with the same costs.
LEMMA SameCosts ==
    \A dir, q, entry, exit :
      Account!Earned([direction |-> dir, quantity |-> q, entry |-> entry], exit)
        = NetPnl(dir, q, entry, exit)
BY DEF Account!Earned, Account!NetPnl, Account!SignOf, Account!Commission, Account!Cap,
       Account!Gross, Account!Larger, Account!Smaller,
       NetPnl, SignOf, Commission, Cap, Gross, Larger, Smaller

-----------------------------------------------------------------------------
\* An order that ends leaves the rest of the book alone.
LEMMA OrderEnds ==
    ASSUME orders \in Seq(OrderType), NEW n \in 1 .. Len(orders), NEW status \in Statuses,
           NEW b \in Bars
    PROVE  /\ Ends(n, status, b) \in Seq(OrderType) /\ Len(Ends(n, status, b)) = Len(orders)
           /\ \A o \in 1 .. Len(orders) :
                /\ Ends(n, status, b)[o].status = IF o = n THEN status ELSE orders[o].status
                /\ Ends(n, status, b)[o].ended = IF o = n THEN b ELSE orders[o].ended
                /\ Ends(n, status, b)[o].sent = orders[o].sent
                /\ Ends(n, status, b)[o].kind = orders[o].kind
<1> DEFINE r == [orders[n] EXCEPT !.status = status, !.ended = b]
<1>1. orders[n] \in OrderType
  OBVIOUS
<1>2. /\ r \in OrderType /\ r.status = status /\ r.ended = b
      /\ r.sent = orders[n].sent /\ r.kind = orders[n].kind
  BY <1>1 DEF OrderType
<1>3. Ends(n, status, b) = [orders EXCEPT ![n] = r]
  BY DEF Ends
<1> HIDE DEF r
<1> QED
  BY <1>2, <1>3

\* The candle: the entry and then the position, the book first.
LEMMA MarketBook ==
    ASSUME BookInv, SetMarketCandle(candle, bar)
    PROVE  /\ orders' \in Seq(OrderType) /\ pending' \in BracketType \cup {None}
           /\ \A o \in 1 .. Len(orders') :
                orders'[o].status = "accepted" <=> pending' # None /\ pending'.order = o
           /\ pending' # None => pending'.order \in 1 .. Len(orders')
           /\ pending' # None => pending # None /\ ~ Fills(candle)
<1>1. CASE pending = None
  <2>1. orders' = orders /\ pending' = pending
    BY <1>1 DEF SetMarketCandle, OrdersAfter, PendingAfter, Fills, Invalidated, Expires, Triggered
  <2> QED
    BY <1>1, <2>1 DEF BookInv, BrokerTypeOK, BookMatchesPending
<1>2. CASE pending # None
  <2> DEFINE n == pending.order
  <2>1. pending \in BracketType /\ n \in 1 .. Len(orders)
    BY <1>2 DEF BookInv, BrokerTypeOK, BookMatchesPending
  <2>2. CASE ~ Triggered(candle) /\ ~ Expires(candle)
    <3>1. orders' = orders /\ pending' = [pending EXCEPT !.waiting = @ + 1] /\ ~ Fills(candle)
      BY <1>2, <2>2 DEF SetMarketCandle, OrdersAfter, PendingAfter, Fills, Invalidated
    <3>2. pending.waiting + 1 \in 0 .. Validity - 1
      BY <1>2, <2>1, <2>2, BrokerAssumption DEF Triggered, Expires
    <3>3. pending' \in BracketType /\ pending'.order = n
      BY <2>1, <3>1, <3>2
    <3> QED
      BY <1>2, <3>1, <3>3, Records DEF BookInv, BrokerTypeOK, BookMatchesPending
  <2>3. CASE Triggered(candle) \/ Expires(candle)
    <3>1. pending' = None
      BY <2>3 DEF SetMarketCandle, PendingAfter
    <3>2. PICK status \in Statuses \ {"accepted"} : orders' = Ends(n, status, bar)
      BY <1>2, <2>3 DEF SetMarketCandle, OrdersAfter, Fills, Invalidated, Expires, Triggered, Statuses
    <3>3. /\ orders' \in Seq(OrderType) /\ Len(orders') = Len(orders)
          /\ \A o \in 1 .. Len(orders) :
               orders'[o].status = IF o = n THEN status ELSE orders[o].status
      BY <2>1, <3>2, OrderEnds DEF BookInv, BrokerTypeOK
    <3> QED
      BY <1>2, <3>1, <3>2, <3>3 DEF BookInv, BookMatchesPending
  <2> QED
    BY <2>2, <2>3
<1> QED
  BY <1>1, <1>2

\* The candle: then the position, and what the ledger sees of both.
LEMMA MarketStep ==
    ASSUME BookInv, SetMarketCandle(candle, bar)
    PROVE  BrokerTypeOK' /\ BookMatchesPending' /\ LedgerStep
<1> DEFINE p == PositionAt(candle, bar)
           m == CashAfterEntry(candle)
           d == p.setup.direction
           t == [direction |-> p.setup.direction, quantity |-> p.quantity, entry |-> p.entry]
<1>1. KeepPosition(candle, bar) \/ ExitPosition(candle, bar)
  BY DEF SetMarketCandle
<1>2. CASE KeepPosition(candle, bar)
  <2>1. position' = p /\ cash' = m
    BY <1>2 DEF KeepPosition
  <2>2. equity' \in Int
    <3>1. CASE p = None
      BY <1>2, <3>1 DEF KeepPosition, BookInv, BrokerTypeOK
    <3>2. CASE p # None
      <4>1. p \in PositionType /\ m \in Int
        BY <3>2, EntryOutcome
      <4>2. d \in Directions /\ p.quantity \in Nat
        BY <4>1, LedgerTrade
      <4>3. candle.close \in Int
        BY BrokerAssumption DEF BookInv, CandleType
      <4>4. equity' = m + SignOf[d] * candle.close * p.quantity
        BY <1>2, <2>1, <3>2 DEF KeepPosition, Marked
      <4>5. SignOf[d] \in Int
        BY <4>2 DEF SignOf, Directions
      <4>6. SignOf[d] * candle.close \in Int
        BY <4>3, <4>5
      <4>7. SignOf[d] * candle.close * p.quantity \in Int
        BY <4>2, <4>6
      <4> QED
        BY <4>1, <4>4, <4>7
    <3> QED
      BY <3>1, <3>2
  <2>3. BrokerTypeOK'
    BY <2>1, <2>2, MarketBook, EntryOutcome DEF BrokerTypeOK, OrderType
  <2>4. BookMatchesPending'
    BY <2>1, MarketBook, EntryOutcome DEF BookMatchesPending, BookInv
  <2>5. CASE Fills(candle)
    <3>1. p \in PositionType /\ position = None /\ m = cash + EntryFlow(d, p.entry, p.quantity)
      BY <2>5, EntryOutcome
    <3>2. p # None /\ t \in Account!Trades
      BY <3>1, Records, LedgerTrade
    <3>3. OpenTrade = None /\ OpenTrade' = t
      BY <2>1, <3>1, <3>2 DEF OpenTrade
    <3>4. EntryFlow(d, p.entry, p.quantity) \in Int /\ cash \in Int
      BY <3>1, LedgerTrade, LegsGiveNet DEF BookInv, BrokerTypeOK
    <3>5. Balance' = Balance
      BY <2>1, <3>1, <3>2, <3>4 DEF Balance
    <3> QED
      BY <2>3, <2>4, <3>2, <3>3, <3>5 DEF LedgerStep, Account!Next, Account!Open
  <2>6. CASE ~ Fills(candle)
    BY <2>1, <2>3, <2>4, <2>6, EntryOutcome DEF LedgerStep, Balance, OpenTrade
  <2> QED
    BY <2>5, <2>6
<1>3. CASE ExitPosition(candle, bar)
  <2> DEFINE price == ExitPrice(p, candle)
  <2>1. p \in PositionType /\ m \in Int
    BY <1>3, EntryOutcome DEF ExitPosition, Exits
  <2>2. price \in FillPrices
    BY <2>1, ExecutionPrices DEF BookInv
  <2>3. Settle(p, m, price, ExitReason(p, candle), bar)
    BY <1>3 DEF ExitPosition
  <2> HIDE DEF price
  <2>4. /\ position' = None /\ cash' \in Int /\ equity' \in Int
        /\ Balance' = m + ExitFlow(d, price, p.quantity)
        /\ OpenTrade' = None
    BY <2>1, <2>2, <2>3, SettleCloses
  <2>5. BrokerTypeOK' /\ BookMatchesPending'
    BY <2>4, MarketBook DEF BrokerTypeOK, BookMatchesPending, OrderType
  <2>6. t \in Account!Trades /\ t # None /\ Account!Earned(t, price) = NetPnl(d, p.quantity, p.entry, price)
    BY <2>1, LedgerTrade, SameCosts
  <2>7. /\ EntryFlow(d, p.entry, p.quantity) \in Int
        /\ ExitFlow(d, price, p.quantity) \in Int
        /\ EntryFlow(d, p.entry, p.quantity) + ExitFlow(d, price, p.quantity) = Account!Earned(t, price)
    BY <2>1, <2>2, <2>6, LedgerTrade, LegsGiveNet, FillPricesAreIntegers
  <2>8. CASE Fills(candle)
    <3>1. position = None /\ m = cash + EntryFlow(d, p.entry, p.quantity) /\ cash \in Int
      BY <2>8, EntryOutcome DEF BookInv, BrokerTypeOK
    <3>2. OpenTrade = None /\ Balance = cash
      BY <3>1 DEF OpenTrade, Balance
    <3>3. Balance' = Balance + Account!Earned(t, price)
      BY <2>4, <2>7, <3>1, <3>2
    <3> QED
      BY <2>2, <2>4, <2>5, <2>6, <3>2, <3>3 DEF LedgerStep, Account!Next, Account!RoundTrip
  <2>9. CASE ~ Fills(candle)
    <3>1. p = position /\ m = cash
      BY <2>9, EntryOutcome
    <3>2. p # None
      BY <2>1, Records
    <3>3. OpenTrade = t /\ Balance = cash - EntryFlow(d, p.entry, p.quantity)
      BY <3>1, <3>2 DEF OpenTrade, Balance
    <3>4. Balance' = Balance + Account!Earned(t, price)
      BY <2>1, <2>4, <2>7, <3>1, <3>3
    <3> QED
      BY <2>2, <2>4, <2>5, <2>6, <3>3, <3>4 DEF LedgerStep, Account!Next, Account!Close
  <2> QED
    BY <2>8, <2>9
<1> QED
  BY <1>1, <1>2, <1>3

\* A close at market closes the trade of the ledger and leaves the book alone.
LEMMA CloseStep ==
    ASSUME BookInv, NEW reason, ClosePositionAtMarket(candle.close, reason, bar)
    PROVE  BrokerTypeOK' /\ BookMatchesPending' /\ LedgerStep
<1> DEFINE d == position.setup.direction
           price == Slipped(candle.close, d, FALSE, Slippage)
           t == [direction |-> d, quantity |-> position.quantity, entry |-> position.entry]
<1>1. /\ position # None /\ position \in PositionType /\ cash \in Int
      /\ orders' = orders /\ pending' = pending
  BY DEF ClosePositionAtMarket, BookInv, BrokerTypeOK
<1>2. price \in FillPrices
  BY <1>1, ExecutionPrices DEF BookInv
<1>3. Settle(position, cash, price, reason, bar)
  BY DEF ClosePositionAtMarket
<1> HIDE DEF price
<1>4. /\ position' = None /\ cash' \in Int /\ equity' \in Int
      /\ Balance' = cash + ExitFlow(d, price, position.quantity)
      /\ OpenTrade' = None
  BY <1>1, <1>2, <1>3, SettleCloses
<1>5. BrokerTypeOK' /\ BookMatchesPending'
  BY <1>1, <1>4 DEF BrokerTypeOK, BookMatchesPending, BookInv, OrderType
<1>6. t \in Account!Trades /\ t # None
      /\ Account!Earned(t, price) = NetPnl(d, position.quantity, position.entry, price)
  BY <1>1, LedgerTrade, SameCosts
<1>7. /\ EntryFlow(d, position.entry, position.quantity) \in Int
      /\ ExitFlow(d, price, position.quantity) \in Int
      /\ EntryFlow(d, position.entry, position.quantity) + ExitFlow(d, price, position.quantity)
           = Account!Earned(t, price)
  BY <1>1, <1>2, <1>6, LedgerTrade, LegsGiveNet, FillPricesAreIntegers
<1>8. OpenTrade = t /\ Balance = cash - EntryFlow(d, position.entry, position.quantity)
  BY <1>1 DEF OpenTrade, Balance
<1>9. Balance' = Balance + Account!Earned(t, price)
  BY <1>1, <1>4, <1>7, <1>8
<1> QED
  BY <1>2, <1>4, <1>5, <1>6, <1>8, <1>9 DEF LedgerStep, Account!Next, Account!Close

\* A cancelled order takes the pending entry with it: it is its own.
LEMMA CancelStep ==
    ASSUME BookInv, pending # None, CancelOrder(pending.order, bar)
    PROVE  BrokerTypeOK' /\ BookMatchesPending' /\ LedgerStep
<1> DEFINE n == pending.order
<1>1. /\ n \in 1 .. Len(orders) /\ orders \in Seq(OrderType) /\ bar \in Bars
      /\ "cancelled" \in Statuses
  BY DEF BookInv, BookMatchesPending, BrokerTypeOK, Statuses
<1>2. orders' = Ends(n, "cancelled", bar) /\ pending' = None
      /\ UNCHANGED <<position, cash, equity>>
  BY DEF CancelOrder
<1>3. /\ orders' \in Seq(OrderType) /\ Len(orders') = Len(orders)
      /\ \A o \in 1 .. Len(orders) :
           orders'[o].status = IF o = n THEN "cancelled" ELSE orders[o].status
  BY <1>1, <1>2, OrderEnds
<1> QED
  BY <1>2, <1>3 DEF BookInv, BrokerTypeOK, BookMatchesPending, LedgerStep, Balance, OpenTrade,
                    OrderType

\* A bracket that is sent waits in the book or opens a trade of the ledger.
LEMMA PlaceStep ==
    ASSUME BookInv, NEW s \in Setups, NEW q \in Quantities, PlaceOrder(s, q, bar)
    PROVE  BrokerTypeOK' /\ BookMatchesPending' /\ LedgerStep
<1> DEFINE id == Len(orders) + 1
           price == Slipped(s.entry, s.direction, TRUE, Slippage)
           bracket == [setup |-> s, quantity |-> q, order |-> id, waiting |-> 0]
<1>1. /\ position = None /\ pending = None /\ cash \in Int /\ equity \in Int
      /\ orders \in Seq(OrderType) /\ id \in Nat /\ bar \in Bars
  BY DEF PlaceOrder, BookInv, BrokerTypeOK
<1>2. s.kind \in Kinds
  BY BrokerAssumption DEF SetupType
<1>3. \A o \in 1 .. Len(orders) : orders[o].status # "accepted"
  BY <1>1 DEF BookInv, BookMatchesPending
<1>4. ASSUME NEW status \in Statuses, NEW end \in Bars \cup {0},
             orders' = Append(orders, [status |-> status, kind |-> s.kind, sent |-> bar, ended |-> end])
      PROVE  /\ orders' \in Seq(OrderType) /\ Len(orders') = id
             /\ \A o \in 1 .. Len(orders') :
                  orders'[o].status = IF o = id THEN status ELSE orders[o].status
  <2>1. [status |-> status, kind |-> s.kind, sent |-> bar, ended |-> end] \in OrderType
    BY <1>1, <1>2 DEF OrderType
  <2> QED
    BY <1>1, <1>4, <2>1
<1>5. CASE s.kind = "stop"
  <2>1. /\ pending' = bracket /\ UNCHANGED <<position, cash, equity>>
        /\ orders' = Append(orders, [status |-> "accepted", kind |-> s.kind, sent |-> bar, ended |-> 0])
    BY <1>5 DEF PlaceOrder
  <2>2. bracket \in BracketType
    BY <1>1, BrokerAssumption
  <2>3. /\ orders' \in Seq(OrderType) /\ Len(orders') = id
        /\ \A o \in 1 .. Len(orders') :
             orders'[o].status = IF o = id THEN "accepted" ELSE orders[o].status
    BY <1>4, <2>1 DEF Statuses
  <2>4. pending' # None /\ pending'.order = id
    BY <2>1, <2>2, Records
  <2>5. BrokerTypeOK'
    BY <1>1, <2>1, <2>2, <2>3 DEF BrokerTypeOK, OrderType
  <2>6. BookMatchesPending'
    BY <1>1, <1>3, <2>1, <2>3, <2>4 DEF BookMatchesPending
  <2> QED
    BY <2>1, <2>5, <2>6 DEF LedgerStep, Balance, OpenTrade
<1>6. CASE s.kind # "stop"
  <2> DEFINE p == Opened(bracket, price, bar)
             t == [direction |-> s.direction, quantity |-> q, entry |-> price]
  <2>1. /\ position' = p /\ pending' = pending
        /\ cash' = cash + EntryFlow(s.direction, price, q)
        /\ equity' = Marked(cash', s.direction, price, q)
        /\ orders' = Append(orders, [status |-> "filled", kind |-> s.kind, sent |-> bar, ended |-> bar])
    BY <1>6 DEF PlaceOrder
  <2>2. price \in FillPrices
    BY ExecutionPrices DEF BookInv
  <2> HIDE DEF price
  <2>3. p \in PositionType /\ p.setup = s /\ p.quantity = q /\ p.entry = price
    BY <1>1, <2>2 DEF Opened
  <2>4. p # None /\ t \in Account!Trades /\ s.direction \in Directions /\ q \in Nat /\ price \in Int
    BY <2>3, Records, LedgerTrade
  <2>5. EntryFlow(s.direction, price, q) \in Int /\ cash' \in Int
    <3>1. EntryFlow(s.direction, price, q) \in Int
      BY <2>4, EntryFlowType
    <3> QED
      BY <1>1, <2>1, <3>1
  <2>6. equity' \in Int
    <3>1. SignOf[s.direction] \in Int
      BY <2>4 DEF SignOf, Directions
    <3>2. SignOf[s.direction] * price \in Int
      BY <2>4, <3>1
    <3>3. SignOf[s.direction] * price * q \in Int
      BY <2>4, <3>2
    <3> QED
      BY <2>1, <2>5, <3>3 DEF Marked
  <2>7. /\ orders' \in Seq(OrderType) /\ Len(orders') = id
        /\ \A o \in 1 .. Len(orders') :
             orders'[o].status = IF o = id THEN "filled" ELSE orders[o].status
    BY <1>1, <1>4, <2>1 DEF Statuses
  <2> HIDE DEF p
  <2>8. BrokerTypeOK'
    BY <1>1, <2>1, <2>3, <2>5, <2>6, <2>7 DEF BrokerTypeOK, OrderType
  <2>9. BookMatchesPending'
    BY <1>1, <1>3, <2>1, <2>7 DEF BookMatchesPending
  <2>10. OpenTrade = None /\ OpenTrade' = t
    BY <1>1, <2>1, <2>3, <2>4 DEF OpenTrade
  <2>11. Balance' = Balance
    BY <1>1, <2>1, <2>3, <2>4, <2>5 DEF Balance
  <2> QED
    BY <2>4, <2>8, <2>9, <2>10, <2>11 DEF LedgerStep, Account!Next, Account!Open
<1> QED
  BY <1>5, <1>6

-----------------------------------------------------------------------------
(* The loop *)

\* Every step of the loop makes one call of the broker, or none.
LEMMA LoopStep ==
    ASSUME BookInv, [Next]_vars
    PROVE  BookInv' /\ LedgerStep
<1>1. CASE UNCHANGED brokerVars /\ bar' \in Bars /\ candle' \in Candles
  BY <1>1 DEF BookInv, BrokerTypeOK, BookMatchesPending, OrderType, brokerVars, LedgerStep,
              Balance, OpenTrade
<1>2. CASE UNCHANGED <<bar, candle>> /\ BrokerTypeOK' /\ BookMatchesPending' /\ LedgerStep
  BY <1>2 DEF BookInv
<1>3. bar \in Bars /\ candle \in Candles
  BY DEF BookInv
<1>4. CASE Market
  BY <1>2, <1>4, MarketStep DEF Market
<1>5. CASE TimeExit
  <2>1. CASE TimeDisarmed \/ TimeCounted
    BY <1>1, <1>3, <2>1 DEF TimeDisarmed, TimeCounted
  <2>2. CASE TimeCloses
    BY <1>2, <2>2, CloseStep DEF TimeCloses
  <2> QED
    BY <1>5, <2>1, <2>2 DEF TimeExit
<1>6. CASE FlattenSession
  <2>1. CASE FlattenSkipped
    BY <1>1, <1>3, <2>1 DEF FlattenSkipped
  <2>2. CASE FlattenEntry
    BY <1>2, <2>2, CancelStep DEF FlattenEntry
  <2>3. CASE FlattenPosition
    BY <1>2, <2>3, CloseStep DEF FlattenPosition
  <2> QED
    BY <1>6, <2>1, <2>2, <2>3 DEF FlattenSession
<1>7. CASE Sync
  BY <1>3, <1>7 DEF Sync, ClearClosedTrades, BookInv, BrokerTypeOK, BookMatchesPending,
                    OrderType, LedgerStep, Balance, OpenTrade
<1>8. CASE Signal
  <2>1. CASE Enter
    BY <1>2, <2>1, PlaceStep DEF Enter
  <2>2. CASE NoEntry
    BY <1>1, <1>3, <2>2 DEF NoEntry
  <2> QED
    BY <1>8, <2>1, <2>2 DEF Signal
<1>9. CASE CancelLast
  <2>1. CASE UNCHANGED brokerVars
    BY <1>1, <1>3, <1>9, <2>1 DEF CancelLast
  <2>2. CASE pending # None /\ CancelOrder(pending.order, bar)
    BY <1>2, <1>9, <2>2, CancelStep DEF CancelLast
  <2> QED
    BY <1>9, <2>1, <2>2 DEF CancelLast
<1>10. CASE NextCandle
  BY <1>1, <1>10 DEF NextCandle
<1>11. CASE UNCHANGED vars
  BY <1>1, <1>3, <1>11 DEF vars, engineVars
<1> QED
  BY <1>4, <1>5, <1>6, <1>7, <1>8, <1>9, <1>10, <1>11 DEF Next

\* The invariant holds before the first candle,
LEMMA BookInit == Init => BookInv
BY BrokerAssumption DEF Init, BrokerInit, BookInv, BrokerTypeOK, BookMatchesPending

\* and for ever.
LEMMA BookInvariant == Spec => []BookInv
<1>1. BookInv /\ [Next]_vars => BookInv'
  BY LoopStep
<1> QED
  BY <1>1, BookInit, PTL DEF Spec

\* The order of the pending entry, and no other, is open, whatever candles come
\* and whatever the strategy asks for.
THEOREM BookSafe == Spec => []BookMatchesPending
<1>1. BookInv => BookMatchesPending
  BY DEF BookInv
<1> QED
  BY <1>1, BookInvariant, PTL

\* The cash account of the broker implements the ledger: a balance that moves
\* only when a trade closes, by the net P&L that the trade reports.
THEOREM LedgerImplemented == Spec => LedgerKept
<1>1. Init => Account!Init
  BY DEF Init, BrokerInit, Account!Init, Balance, OpenTrade
<1>2. BookInv /\ [Next]_vars => [Account!Next]_<<Balance, OpenTrade>>
  BY LoopStep DEF LedgerStep
<1> QED
  BY <1>1, <1>2, BookInvariant, PTL DEF Spec, LedgerKept, Account!Spec

-----------------------------------------------------------------------------
(* The night *)

\* From the flatten to the next candle nothing of a stop entry is left.
NightInv ==
    LastOfSession /\ ~ Replay =>
      /\ pc \in {"sync", "signal"} => pending = None /\ position = None
      /\ pc \in {"cancel", "next"} => position = None \/ position.setup.kind = "limit"
      /\ pc = "next" => pending = None

\* One step of the loop keeps both; the candle after the bell starts without them.
LEMMA NightStep ==
    ASSUME BookInv, NightInv, FlatOvernight, [Next]_vars
    PROVE  NightInv' /\ FlatOvernight'
<1> USE DEF NightInv, FlatOvernight, LastOfSession, NewDay, Go
<1>1. CASE Market
  BY <1>1 DEF Market
<1>2. CASE TimeExit
  BY <1>2 DEF TimeExit, TimeDisarmed, TimeCounted, TimeCloses
<1>3. CASE FlattenSession
  <2>1. CASE FlattenSkipped
    BY <1>3, <2>1 DEF FlattenSkipped, brokerVars
  <2>2. CASE FlattenEntry
    BY <2>2 DEF FlattenEntry, CancelOrder, BookInv, BookMatchesPending
  <2>3. CASE FlattenPosition
    BY <2>3 DEF FlattenPosition, ClosePositionAtMarket, Settle
  <2> QED
    BY <1>3, <2>1, <2>2, <2>3 DEF FlattenSession
<1>4. CASE Sync
  BY <1>4 DEF Sync, ClearClosedTrades
<1>5. CASE Signal
  <2>1. CASE Enter
    <3>1. PICK s \in Setups, q \in Quantities : PlaceOrder(s, q, bar)
      BY <2>1 DEF Enter
    <3>2. s.kind \in Kinds
      BY BrokerAssumption DEF SetupType
    <3>3. CASE s.kind = "stop"
      BY <2>1, <3>1, <3>3 DEF Enter, PlaceOrder
    <3>4. CASE s.kind = "limit"
      <4>1. position'.setup = s
        BY <3>1, <3>4 DEF PlaceOrder, Opened
      <4> QED
        BY <2>1, <3>4, <4>1 DEF Enter
    <3> QED
      BY <3>2, <3>3, <3>4 DEF Kinds
  <2>2. CASE NoEntry
    BY <2>2 DEF NoEntry, brokerVars
  <2> QED
    BY <1>5, <2>1, <2>2 DEF Signal
<1>6. CASE CancelLast
  BY <1>6 DEF CancelLast, CancelOrder, brokerVars
<1>7. CASE NextCandle
  <2>1. bar' - 1 = bar
    BY <1>7, BrokerAssumption DEF NextCandle, BookInv
  <2> QED
    BY <1>7, <2>1 DEF NextCandle, brokerVars
<1>8. CASE UNCHANGED vars
  BY <1>8 DEF vars, engineVars, brokerVars
<1> QED
  BY <1>1, <1>2, <1>3, <1>4, <1>5, <1>6, <1>7, <1>8 DEF Next

\* In the backtest no stop entry, waiting or filled, is alive when a session
\* begins, wherever the sessions end in the series.
THEOREM FlatOvernightSafe == Spec => []FlatOvernight
<1>1. Init => NightInv /\ FlatOvernight
  BY DEF Init, BrokerInit, NightInv, FlatOvernight
<1>2. BookInv /\ NightInv /\ FlatOvernight /\ [Next]_vars => NightInv' /\ FlatOvernight'
  BY NightStep
<1> QED
  BY <1>1, <1>2, BookInvariant, PTL DEF Spec

-----------------------------------------------------------------------------
(* The window of a stop entry *)

\* The count of the pending entry is the candles since the one that sent it.
Waited ==
    pending # None =>
      orders[pending.order].sent + pending.waiting = IF pc = "candle" THEN bar - 1 ELSE bar

WindowInv == EntryFillsInItsWindow /\ Waited

\* A step that leaves the book alone.
LEMMA WindowQuiet ==
    ASSUME BookInv, WindowInv, UNCHANGED <<orders, pending, bar>>, (pc = "candle") <=> (pc' = "candle")
    PROVE  WindowInv'
BY DEF WindowInv, Waited, EntryFillsInItsWindow

\* Bars are counted.
LEMMA BarsAreNumbers == \A b \in Bars : b \in Int
BY BrokerAssumption

\* The candle counts, fills or expires the entry.
LEMMA WindowMarket ==
    ASSUME BookInv, WindowInv, Market
    PROVE  WindowInv'
<1>1. SetMarketCandle(candle, bar) /\ pc = "candle" /\ pc' = "time" /\ bar' = bar
  BY DEF Market, Go
<1>2. CASE pending = None
  BY <1>1, <1>2 DEF SetMarketCandle, OrdersAfter, PendingAfter, Fills, Invalidated, Expires,
                    Triggered, WindowInv, Waited, EntryFillsInItsWindow
<1>3. CASE pending # None
  <2> DEFINE n == pending.order
  <2>1. /\ pending \in BracketType /\ n \in 1 .. Len(orders) /\ orders \in Seq(OrderType)
        /\ bar \in Bars /\ bar \in Int
    BY <1>3, BrokerAssumption DEF BookInv, BrokerTypeOK, BookMatchesPending
  <2>2. orders[n].sent \in Int
    <3>1. orders[n] \in OrderType
      BY <2>1
    <3>2. orders[n].sent \in Bars
      BY <3>1 DEF OrderType
    <3> QED
      BY <3>2, BarsAreNumbers
  <2>3. orders[n].sent + pending.waiting = bar - 1
    BY <1>1, <1>3 DEF WindowInv, Waited
  <2>4. CASE ~ Triggered(candle) /\ ~ Expires(candle)
    <3>1. orders' = orders /\ pending' = [pending EXCEPT !.waiting = @ + 1]
      BY <1>1, <1>3, <2>4 DEF SetMarketCandle, OrdersAfter, PendingAfter, Fills, Invalidated
    <3>2. pending'.order = n /\ pending'.waiting = pending.waiting + 1
      BY <2>1, <3>1
    <3>3. Waited'
      BY <1>1, <2>1, <2>2, <2>3, <3>1, <3>2 DEF Waited
    <3> QED
      BY <3>1, <3>3 DEF WindowInv, EntryFillsInItsWindow
  <2>5. CASE Triggered(candle) \/ Expires(candle)
    <3>1. pending' = None
      BY <1>1, <2>5 DEF SetMarketCandle, PendingAfter
    <3>2. PICK status \in Statuses : orders' = Ends(n, status, bar)
      BY <1>1, <1>3, <2>5 DEF SetMarketCandle, OrdersAfter, Fills, Invalidated, Expires,
                              Triggered, Statuses
    <3>3. orders[n].sent < bar /\ bar <= orders[n].sent + Validity
      BY <2>1, <2>2, <2>3, BrokerAssumption
    <3>4. EntryFillsInItsWindow'
      BY <2>1, <3>2, <3>3, OrderEnds DEF WindowInv, EntryFillsInItsWindow
    <3> QED
      BY <3>1, <3>4 DEF WindowInv, Waited
  <2> QED
    BY <2>4, <2>5
<1> QED
  BY <1>2, <1>3

\* A cancelled entry neither fills nor expires.
LEMMA WindowCancel ==
    ASSUME BookInv, WindowInv, pending # None, CancelOrder(pending.order, bar)
    PROVE  WindowInv'
<1> DEFINE n == pending.order
<1>1. /\ n \in 1 .. Len(orders) /\ orders \in Seq(OrderType) /\ bar \in Bars
      /\ "cancelled" \in Statuses
  BY DEF BookInv, BookMatchesPending, BrokerTypeOK, Statuses
<1>2. orders' = Ends(n, "cancelled", bar) /\ pending' = None
  BY DEF CancelOrder
<1>3. /\ Len(orders') = Len(orders)
      /\ \A o \in 1 .. Len(orders) :
           /\ orders'[o].status = IF o = n THEN "cancelled" ELSE orders[o].status
           /\ orders'[o].ended = IF o = n THEN bar ELSE orders[o].ended
           /\ orders'[o].sent = orders[o].sent
           /\ orders'[o].kind = orders[o].kind
  BY <1>1, <1>2, OrderEnds
<1> QED
  BY <1>1, <1>2, <1>3 DEF WindowInv, EntryFillsInItsWindow, Waited

\* A new order starts its own count.
LEMMA WindowPlace ==
    ASSUME BookInv, WindowInv, NEW s \in Setups, NEW q \in Quantities, PlaceOrder(s, q, bar),
           pc' # "candle", bar' = bar
    PROVE  WindowInv'
<1> DEFINE id == Len(orders) + 1
<1>1. orders \in Seq(OrderType) /\ bar \in Int
  BY BrokerAssumption DEF BookInv, BrokerTypeOK
<1>2. PICK status, end :
        /\ orders' = Append(orders, [status |-> status, kind |-> s.kind, sent |-> bar, ended |-> end])
        /\ s.kind = "stop" => status = "accepted"
  BY DEF PlaceOrder
<1>3. /\ Len(orders') = id
      /\ orders'[id] = [status |-> status, kind |-> s.kind, sent |-> bar, ended |-> end]
      /\ \A o \in 1 .. Len(orders) : orders'[o] = orders[o]
  BY <1>1, <1>2
<1>4. EntryFillsInItsWindow'
  BY <1>1, <1>2, <1>3 DEF WindowInv, EntryFillsInItsWindow
<1>5. pending' # None => pending'.order = id /\ pending'.waiting = 0
  <2>1. CASE s.kind = "stop"
    <3>1. pending' = [setup |-> s, quantity |-> q, order |-> id, waiting |-> 0]
      BY <2>1 DEF PlaceOrder
    <3> QED
      BY <3>1
  <2>2. CASE s.kind # "stop"
    BY <2>2 DEF PlaceOrder
  <2> QED
    BY <2>1, <2>2
<1>6. Waited'
  BY <1>1, <1>3, <1>5 DEF Waited
<1> QED
  BY <1>4, <1>6 DEF WindowInv

\* Every step is one of those.
LEMMA WindowStep ==
    ASSUME BookInv, WindowInv, [Next]_vars
    PROVE  WindowInv'
<1>1. CASE Market
  BY <1>1, WindowMarket
<1>2. CASE TimeExit
  BY <1>2, WindowQuiet DEF TimeExit, TimeDisarmed, TimeCounted, TimeCloses,
                           ClosePositionAtMarket, brokerVars, Go
<1>3. CASE FlattenSession
  <2>1. CASE FlattenEntry
    BY <2>1, WindowCancel DEF FlattenEntry
  <2>2. CASE FlattenSkipped \/ FlattenPosition
    BY <2>2, WindowQuiet DEF FlattenSkipped, FlattenPosition, ClosePositionAtMarket, brokerVars, Go
  <2> QED
    BY <1>3, <2>1, <2>2 DEF FlattenSession
<1>4. CASE Sync
  BY <1>4, WindowQuiet DEF Sync, ClearClosedTrades, Go
<1>5. CASE Signal
  <2>1. CASE Enter
    BY <2>1, WindowPlace DEF Enter, Go
  <2>2. CASE NoEntry
    BY <2>2, WindowQuiet DEF NoEntry, brokerVars, Go
  <2> QED
    BY <1>5, <2>1, <2>2 DEF Signal
<1>6. CASE CancelLast
  <2>1. CASE UNCHANGED brokerVars
    BY <1>6, <2>1, WindowQuiet DEF CancelLast, brokerVars, Go
  <2>2. CASE pending # None /\ CancelOrder(pending.order, bar)
    BY <2>2, WindowCancel
  <2> QED
    BY <1>6, <2>1, <2>2 DEF CancelLast
<1>7. CASE NextCandle
  <2>1. pc = "next" /\ pc' = "candle" /\ bar' = bar + 1 /\ orders' = orders /\ pending' = pending
    BY <1>7 DEF NextCandle, brokerVars, Go
  <2>2. bar \in Int
    BY BrokerAssumption DEF BookInv
  <2> QED
    BY <2>1, <2>2 DEF WindowInv, Waited, EntryFillsInItsWindow
<1>8. CASE UNCHANGED vars
  BY <1>8, WindowQuiet DEF vars, engineVars, brokerVars
<1> QED
  BY <1>1, <1>2, <1>3, <1>4, <1>5, <1>6, <1>7, <1>8 DEF Next

\* A stop entry fills, or expires, within its validity and never in the candle
\* that sent it, for every validity and every series.
THEOREM EntryWindowSafe == Spec => []EntryFillsInItsWindow
<1>1. Init => WindowInv
  BY DEF Init, BrokerInit, WindowInv, Waited, EntryFillsInItsWindow
<1>2. BookInv /\ WindowInv /\ [Next]_vars => WindowInv'
  BY WindowStep
<1>3. WindowInv => EntryFillsInItsWindow
  BY DEF WindowInv
<1> QED
  BY <1>1, <1>2, <1>3, BookInvariant, PTL DEF Spec

-----------------------------------------------------------------------------
(* The equity *)

\* Without a position equity is cash; from the candle to the count of its trades
\* it is marked at the close of that candle.
MarkInv ==
    /\ position = None => equity = cash
    /\ pc \in {"time", "flatten", "sync"} /\ position # None =>
         equity = Marked(cash, position.setup.direction, candle.close, position.quantity)

\* A step that leaves the account alone, and no later in the candle.
LEMMA MarkQuiet ==
    ASSUME MarkInv, UNCHANGED <<position, cash, equity, candle>>,
           pc' \in {"time", "flatten", "sync"} => pc \in {"time", "flatten", "sync"}
    PROVE  MarkInv'
BY DEF MarkInv, Marked

\* A close leaves cash.
LEMMA MarkClosed ==
    ASSUME position' = None, equity' = cash'
    PROVE  MarkInv'
BY DEF MarkInv

LEMMA MarkStep ==
    ASSUME BookInv, MarkInv, [Next]_vars
    PROVE  MarkInv'
<1>1. CASE Market
  <2>1. candle' = candle /\ (KeepPosition(candle, bar) \/ ExitPosition(candle, bar))
    BY <1>1 DEF Market, SetMarketCandle
  <2> DEFINE p == PositionAt(candle, bar)
  <2>2. CASE ExitPosition(candle, bar)
    BY <2>2, MarkClosed DEF ExitPosition, Settle
  <2>3. CASE KeepPosition(candle, bar) /\ p # None
    <3>1. position' = p /\ equity' = Marked(cash', p.setup.direction, candle.close, p.quantity)
      BY <2>3 DEF KeepPosition
    <3> QED
      BY <2>1, <2>3, <3>1 DEF MarkInv, Marked
  <2>4. CASE KeepPosition(candle, bar) /\ p = None
    <3>1. position' = None /\ cash' = CashAfterEntry(candle) /\ equity' = equity
      BY <2>4 DEF KeepPosition
    <3>2. ~ Fills(candle)
      BY <2>4, EntryOutcome, Records
    <3> QED
      BY <2>4, <3>1, <3>2, EntryOutcome DEF MarkInv
  <2> QED
    BY <2>1, <2>2, <2>3, <2>4
<1>2. CASE TimeExit
  BY <1>2, MarkQuiet, MarkClosed DEF TimeExit, TimeDisarmed, TimeCounted, TimeCloses, Go, brokerVars,
     ClosePositionAtMarket, Settle
<1>3. CASE FlattenSession
  BY <1>3, MarkQuiet, MarkClosed DEF FlattenSession, FlattenSkipped, FlattenEntry, FlattenPosition, Go,
     brokerVars, ClosePositionAtMarket, Settle, CancelOrder
<1>4. CASE Sync
  BY <1>4, MarkQuiet DEF Sync, ClearClosedTrades, Go
<1>5. CASE Signal
  <2>1. CASE Enter
    <3>1. PICK s \in Setups, q \in Quantities : PlaceOrder(s, q, bar)
      BY <2>1 DEF Enter
    <3>2. pc' = "cancel" /\ candle' = candle
      BY <2>1 DEF Enter, Go
    <3>3. CASE s.kind = "stop"
      BY <3>1, <3>2, <3>3, MarkQuiet DEF PlaceOrder
    <3>4. CASE s.kind # "stop"
      <4>1. position' = Opened([setup |-> s, quantity |-> q, order |-> Len(orders) + 1, waiting |-> 0],
                               Slipped(s.entry, s.direction, TRUE, Slippage), bar)
        BY <3>1, <3>4 DEF PlaceOrder
      <4>2. [setup |-> s, quantity |-> q, order |-> Len(orders) + 1, waiting |-> 0] \in BracketType
        BY BrokerAssumption DEF BookInv, BrokerTypeOK
      <4>3. Slipped(s.entry, s.direction, TRUE, Slippage) \in FillPrices /\ bar \in Bars
        BY ExecutionPrices DEF BookInv
      <4>4. position' \in PositionType
        BY <4>1, <4>2, <4>3 DEF Opened
      <4>5. position' # None
        BY <4>4, Records
      <4> QED
        BY <3>2, <4>5 DEF MarkInv
    <3> QED
      BY <3>3, <3>4
  <2>2. CASE NoEntry
    BY <2>2, MarkQuiet DEF NoEntry, Go, brokerVars
  <2> QED
    BY <1>5, <2>1, <2>2 DEF Signal
<1>6. CASE CancelLast
  BY <1>6, MarkQuiet DEF CancelLast, CancelOrder, Go, brokerVars
<1>7. CASE NextCandle
  BY <1>7 DEF NextCandle, Go, brokerVars, MarkInv
<1>8. CASE UNCHANGED vars
  BY <1>8, MarkQuiet DEF vars, engineVars, brokerVars
<1> QED
  BY <1>1, <1>2, <1>3, <1>4, <1>5, <1>6, <1>7, <1>8 DEF Next

\* The equity curve is the cash and the position at the close of each candle,
\* minus it for a short, for every series, bracket and size.
THEOREM EquitySafe == Spec => []EquityIsMarked
<1>1. Init => MarkInv
  BY DEF Init, BrokerInit, MarkInv
<1>2. BookInv /\ MarkInv /\ [Next]_vars => MarkInv'
  BY MarkStep
<1>3. ASSUME BookInv, MarkInv PROVE EquityIsMarked
  <2>1. CASE position = None
    BY <1>3, <2>1 DEF MarkInv, EquityIsMarked
  <2>2. CASE position # None /\ pc = "sync"
    <3> DEFINE d == position.setup.direction
    <3>1. d \in Directions /\ position.quantity \in Nat /\ candle.close \in Int /\ cash \in Int
      BY <1>3, <2>2, LedgerTrade, BrokerAssumption DEF BookInv, BrokerTypeOK, CandleType
    <3>2. equity = cash + SignOf[d] * candle.close * position.quantity
      BY <1>3, <2>2 DEF MarkInv, Marked
    <3>3. CASE d = "long"
      <4>1. SignOf[d] = 1
        BY <3>3 DEF SignOf
      <4>2. equity = cash + candle.close * position.quantity
        BY <3>1, <3>2, <4>1
      <4> QED
        BY <2>2, <3>3, <4>2 DEF EquityIsMarked
    <3>4. CASE d # "long"
      <4>1. SignOf[d] = 0 - 1
        BY <3>1, <3>4 DEF SignOf, Directions
      <4>2. (0 - 1) * candle.close * position.quantity = 0 - candle.close * position.quantity
        BY <3>1
      <4>3. candle.close * position.quantity \in Int
        BY <3>1
      <4>4. equity = cash - candle.close * position.quantity
        BY <3>1, <3>2, <4>1, <4>2, <4>3
      <4> QED
        BY <2>2, <3>4, <4>4 DEF EquityIsMarked
    <3> QED
      BY <3>3, <3>4
  <2> QED
    BY <2>1, <2>2 DEF EquityIsMarked
<1> QED
  BY <1>1, <1>2, <1>3, BookInvariant, PTL DEF Spec

-----------------------------------------------------------------------------
(* The exit by time *)

TrackerType == [tracking : BOOLEAN, entry : Int, risk : Int, direction : Directions,
                candles : Nat, validated : BOOLEAN]

\* A trade that was closed by time was closed on time.
OnTime(t) ==
    t.reason = "time" => t.until - t.from = IF t.kind = "limit" THEN Window ELSE Window - 1
TimelyTrades == {t \in TradeType : OnTime(t)}

\* The candles of the position the exit by time has looked at: the one of a stop
\* entry's fill counts, that of a limit entry was over.
CandlesSeen ==
    (bar - position.since) + (IF position.setup.kind = "limit" THEN 0 ELSE 1)
      - (IF pc \in {"candle", "time"} THEN 1 ELSE 0)

\* The clock runs for the position that is open and has seen all its candles,
\* unless the position has no risk to measure it by.
TimeInv ==
    /\ closed \in Seq(TimelyTrades) /\ trades \in Seq(TimelyTrades)
    /\ timeExit \in TrackerType
    /\ pending # None => pending.setup.kind = "stop"
    /\ timeExit.tracking => Timed /\ (position # None \/ pc = "time")
    /\ timeExit.tracking /\ ~ timeExit.validated => timeExit.candles < Window
    /\ Timed /\ position # None =>
         IF timeExit.tracking THEN timeExit.candles = CandlesSeen
         ELSE position.entry = position.setup.stop \/ CandlesSeen = 0

\* Times and kinds are what they say.
LEMMA PositionTimes ==
    ASSUME BookInv, NEW p \in PositionType
    PROVE  /\ p.since \in Bars /\ p.since \in Int /\ p.setup.kind \in Kinds /\ p.order \in Nat
           /\ p.entry \in Int /\ p.setup.stop \in Int /\ bar \in Int
<1>1. p.since \in Bars /\ p.setup \in Setups /\ p.order \in Nat /\ p.entry \in FillPrices
  OBVIOUS
<1> QED
  BY <1>1, BarsAreNumbers, FillPricesAreIntegers, BrokerAssumption DEF SetupType, BookInv

\* The net of a trade is an amount.
LEMMA NetType ==
    ASSUME NEW dir \in Directions, NEW q \in Nat, NEW entry \in Int, NEW exit \in Int
    PROVE  NetPnl(dir, q, entry, exit) \in Int
<1>1. \A a, b \in Int : a + b \in Int
  OBVIOUS
<1>2. /\ EntryFlow(dir, entry, q) \in Int /\ ExitFlow(dir, exit, q) \in Int
      /\ EntryFlow(dir, entry, q) + ExitFlow(dir, exit, q) = NetPnl(dir, q, entry, exit)
  BY LegsGiveNet
<1> QED
  BY <1>1, <1>2

\* The trade a position becomes, on time unless it says otherwise.
LEMMA TradeIsTimely ==
    ASSUME BookInv, NEW p \in PositionType, NEW price \in FillPrices,
           NEW reason \in {"stop", "target", "time", "end_of_day"},
           reason = "time" =>
             bar - p.since = IF p.setup.kind = "limit" THEN Window ELSE Window - 1
    PROVE  TradeOf(p, price, reason, bar) \in TimelyTrades
<1> DEFINE net == NetPnl(p.setup.direction, p.quantity, p.entry, price)
           t == TradeOf(p, price, reason, bar)
<1>1. net \in Int
  <2>1. price \in Int
    BY FillPricesAreIntegers
  <2>2. p.setup.direction \in Directions /\ p.quantity \in Nat /\ p.entry \in Int
    BY LedgerTrade
  <2> QED
    BY <2>1, <2>2, NetType
<1>2. t = [order |-> p.order, kind |-> p.setup.kind, reason |-> reason,
           from |-> p.since, until |-> bar, net |-> net]
  BY DEF TradeOf
<1> HIDE DEF net, t
<1>3. t \in TradeType
  BY <1>1, <1>2, PositionTimes DEF TradeType, BookInv
<1>4. OnTime(t)
  BY <1>2 DEF OnTime
<1> QED
  BY <1>3, <1>4 DEF TimelyTrades, t

\* A close adds one to the trades.
LEMMA TimelyClose ==
    ASSUME BookInv, closed \in Seq(TimelyTrades), NEW p \in PositionType, NEW money,
           NEW price \in FillPrices, NEW reason \in {"stop", "target", "time", "end_of_day"},
           Settle(p, money, price, reason, bar),
           reason = "time" =>
             bar - p.since = IF p.setup.kind = "limit" THEN Window ELSE Window - 1
    PROVE  closed' \in Seq(TimelyTrades) /\ position' = None
<1>1. TradeOf(p, price, reason, bar) \in TimelyTrades
  BY TradeIsTimely
<1>2. closed' = Append(closed, TradeOf(p, price, reason, bar)) /\ position' = None
  BY DEF Settle
<1> QED
  BY <1>1, <1>2

\* So does a close at market.
LEMMA TimelyMarketClose ==
    ASSUME BookInv, closed \in Seq(TimelyTrades), NEW reason \in {"time", "end_of_day"},
           ClosePositionAtMarket(candle.close, reason, bar),
           reason = "time" =>
             bar - position.since = IF position.setup.kind = "limit" THEN Window ELSE Window - 1
    PROVE  closed' \in Seq(TimelyTrades) /\ position' = None /\ UNCHANGED pending
<1> DEFINE price == Slipped(candle.close, position.setup.direction, FALSE, Slippage)
<1>1. position \in PositionType /\ pending' = pending
  BY DEF ClosePositionAtMarket, BookInv, BrokerTypeOK
<1>2. price \in FillPrices
  BY <1>1, ExecutionPrices DEF BookInv
<1>3. Settle(position, cash, price, reason, bar)
  BY DEF ClosePositionAtMarket
<1> HIDE DEF price
<1> QED
  BY <1>1, <1>2, <1>3, TimelyClose

\* A clock with one candle more.
LEMMA ClockCounts ==
    ASSUME NEW t \in TrackerType, NEW v \in BOOLEAN, NEW c,
           c = [t EXCEPT !.candles = t.candles + 1, !.validated = v]
    PROVE  /\ c \in TrackerType /\ c.tracking = t.tracking
           /\ c.candles = t.candles + 1 /\ c.validated = v
<1> USE DEF TrackerType
<1>1. /\ t.tracking \in BOOLEAN /\ t.entry \in Int /\ t.risk \in Int /\ t.direction \in Directions
      /\ t.candles \in Nat
      /\ DOMAIN t = {"tracking", "entry", "risk", "direction", "candles", "validated"}
  OBVIOUS
<1>2. c = [tracking |-> t.tracking, entry |-> t.entry, risk |-> t.risk, direction |-> t.direction,
           candles |-> t.candles + 1, validated |-> v]
  BY <1>1
<1> QED
  BY <1>1, <1>2

\* The clock of the position after the candle at hand.
LEMMA ClockAtClose ==
    ASSUME BookInv, TimeInv, pc = "time", Timed, position # None
    PROVE  /\ AfterClose \in TrackerType
           /\ IF AfterClose.tracking
              THEN /\ AfterClose.candles = CandlesSeen + 1
                   /\ ~ AfterClose.validated => AfterClose.candles <= Window
              ELSE position.entry = position.setup.stop
<1>1. position \in PositionType
  BY DEF BookInv, BrokerTypeOK
<1>2. /\ timeExit \in TrackerType
      /\ IF timeExit.tracking THEN timeExit.candles = CandlesSeen
         ELSE position.entry = position.setup.stop \/ CandlesSeen = 0
      /\ timeExit.tracking /\ ~ timeExit.validated => timeExit.candles < Window
  BY DEF TimeInv
<1>3. Window \in Nat \ {0}
  BY BacktestAssumption
<1>4. CASE ~ Armed.tracking
  <2>1. Armed = timeExit /\ AfterClose = timeExit
    BY <1>4 DEF Armed, AfterClose
  <2>2. timeExit.tracking \/ position.entry = position.setup.stop
    <3>1. CASE timeExit.tracking \/ position.entry = position.setup.stop
      BY <3>1
    <3>2. CASE ~ (timeExit.tracking \/ position.entry = position.setup.stop)
      BY <1>4, <3>2 DEF Armed
    <3> QED
      BY <3>1, <3>2
  <2> QED
    BY <1>2, <1>4, <2>1, <2>2
<1>5. CASE Armed.tracking
  <2>1. /\ Armed \in TrackerType /\ Armed.candles = CandlesSeen
        /\ ~ Armed.validated => Armed.candles < Window
    <3>1. CASE timeExit.tracking
      BY <1>2, <3>1 DEF Armed
    <3>2. CASE ~ timeExit.tracking /\ position.entry # position.setup.stop
      <4> DEFINE r == AbsOf(position.entry - position.setup.stop)
      <4>1. r \in Int /\ position.entry \in Int /\ position.setup.direction \in Directions
        <5>1. position.entry \in Int /\ position.setup.stop \in Int
          BY <1>1, PositionTimes
        <5>2. position.setup.direction \in Directions
          BY <1>1, LedgerTrade
        <5>3. \A n \in Int : AbsOf(n) \in Int
          BY DEF AbsOf
        <5>4. position.entry - position.setup.stop \in Int
          BY <5>1
        <5> QED
          BY <5>1, <5>2, <5>3, <5>4
      <4>2. Armed = [tracking |-> TRUE, entry |-> position.entry, risk |-> r,
                     direction |-> position.setup.direction, candles |-> 0, validated |-> FALSE]
        BY <3>2 DEF Armed
      <4> HIDE DEF r
      <4>3. Armed \in TrackerType
        BY <4>1, <4>2 DEF TrackerType
      <4>4. Armed.candles = 0 /\ CandlesSeen = 0
        BY <1>2, <3>2, <4>2
      <4> QED
        BY <1>3, <4>3, <4>4
    <3>3. CASE ~ timeExit.tracking /\ position.entry = position.setup.stop
      BY <1>5, <3>3 DEF Armed
    <3> QED
      BY <3>1, <3>2, <3>3
  <2> DEFINE v == Armed.validated \/ Floating(Armed) * 100 >= MinR * Armed.risk
  <2>2. v \in BOOLEAN
    OBVIOUS
  <2>3. AfterClose = [Armed EXCEPT !.candles = Armed.candles + 1, !.validated = v]
    BY <1>5, Zenon DEF AfterClose, Counted
  <2>4. ~ v => ~ Armed.validated
    BY Zenon
  <2> HIDE DEF v
  <2>5. /\ AfterClose \in TrackerType /\ AfterClose.tracking = Armed.tracking
        /\ AfterClose.candles = Armed.candles + 1 /\ AfterClose.validated = v
    BY ONLY <2>1, <2>2, <2>3, ClockCounts DEF TrackerType
  <2>6. Armed.candles \in Nat
    BY <2>1 DEF TrackerType
  <2> QED
    BY <1>3, <1>5, <2>1, <2>4, <2>5, <2>6
<1> QED
  BY <1>4, <1>5

LEMMA TimeMarket ==
    ASSUME BookInv, TimeInv, Market
    PROVE  TimeInv'
<1> USE DEF TimeInv
<1>1. /\ pc = "candle" /\ pc' = "time" /\ SetMarketCandle(candle, bar)
      /\ UNCHANGED <<bar, candle, timeExit, trades>>
  BY DEF Market, Go
<1> DEFINE p == PositionAt(candle, bar)
<1>2. pending' # None => pending'.setup.kind = "stop"
  <2>1. CASE pending = None \/ Triggered(candle) \/ Expires(candle)
    BY <1>1, <2>1 DEF SetMarketCandle, PendingAfter
  <2>2. CASE pending # None /\ ~ Triggered(candle) /\ ~ Expires(candle)
    <3>1. pending' = [pending EXCEPT !.waiting = @ + 1] /\ pending \in BracketType
      BY <1>1, <2>2 DEF SetMarketCandle, PendingAfter, BookInv, BrokerTypeOK
    <3>2. pending'.setup = pending.setup
      BY <3>1
    <3> QED
      BY <2>2, <3>2
  <2> QED
    BY <2>1, <2>2
<1>3. CASE ExitPosition(candle, bar)
  <2>1. p \in PositionType
    BY <1>3, EntryOutcome DEF ExitPosition, Exits
  <2>2. ExitPrice(p, candle) \in FillPrices
    BY <2>1, ExecutionPrices DEF BookInv
  <2>3. Settle(p, CashAfterEntry(candle), ExitPrice(p, candle), ExitReason(p, candle), bar)
    BY <1>3 DEF ExitPosition
  <2>4. ExitReason(p, candle) \in {"stop", "target"}
    BY DEF ExitReason
  <2>5. closed' \in Seq(TimelyTrades) /\ position' = None
    BY <2>1, <2>2, <2>3, <2>4, TimelyClose
  <2> QED
    BY <1>1, <1>2, <2>5
<1>4. CASE KeepPosition(candle, bar)
  <2>1. position' = p /\ closed' = closed
    BY <1>4 DEF KeepPosition
  <2>2. CASE ~ Fills(candle)
    <3>1. position' = position
      BY <2>1, <2>2, EntryOutcome
    <3>2. CandlesSeen' = CandlesSeen
      BY <1>1, <3>1 DEF CandlesSeen
    <3> QED
      BY <1>1, <1>2, <2>1, <3>1, <3>2
  <2>3. CASE Fills(candle)
    <3>1. position = None /\ pending # None /\ pending.setup.kind = "stop"
      BY <2>3, EntryOutcome DEF Fills, Triggered
    <3>2. p = Opened(pending, FillPrice(pending.setup, candle), bar)
      BY <2>3 DEF PositionAt
    <3>3. p.since = bar /\ p.setup.kind = "stop"
      BY <3>1, <3>2 DEF Opened
    <3>4. bar \in Int
      BY BarsAreNumbers DEF BookInv
    <3>5. CandlesSeen' = 0
      BY <1>1, <2>1, <3>3, <3>4 DEF CandlesSeen
    <3>6. ~ timeExit.tracking
      BY <1>1, <3>1
    <3> QED
      BY <1>1, <1>2, <2>1, <3>5, <3>6
  <2> QED
    BY <2>2, <2>3
<1> QED
  BY <1>1, <1>3, <1>4 DEF SetMarketCandle

LEMMA TimeExits ==
    ASSUME BookInv, TimeInv, TimeExit
    PROVE  TimeInv'
<1> USE DEF TimeInv
<1>1. pc = "time" /\ pc' = "flatten" /\ UNCHANGED <<bar, trades>>
  BY DEF TimeExit, TimeDisarmed, TimeCounted, TimeCloses, Go
<1>2. NotTracking \in TrackerType /\ ~ NotTracking.tracking
  BY DEF NotTracking, TrackerType, Directions
<1>3. CASE TimeDisarmed
  <2>1. /\ UNCHANGED <<position, pending, closed>> /\ timeExit' = NotTracking
        /\ ~ Timed \/ position = None
    BY <1>3 DEF TimeDisarmed, brokerVars
  <2> QED
    BY <1>1, <1>2, <2>1
<1>4. ASSUME Timed, position # None
      PROVE  /\ CandlesSeen \in Int /\ position \in PositionType
             /\ bar - position.since
                  = CandlesSeen + 1 - (IF position.setup.kind = "limit" THEN 0 ELSE 1)
  <2>1. position \in PositionType
    BY <1>4 DEF BookInv, BrokerTypeOK
  <2> QED
    BY <1>1, <2>1, PositionTimes DEF CandlesSeen
<1>5. CASE TimeCounted
  <2>1. /\ UNCHANGED <<position, pending, closed>> /\ timeExit' = AfterClose
        /\ Timed /\ position # None /\ ~ Fires(AfterClose)
    BY <1>5 DEF TimeCounted, brokerVars
  <2>2. CandlesSeen' = CandlesSeen + 1
    BY <1>1, <1>4, <2>1, PositionTimes DEF CandlesSeen
  <2>3. AfterClose.tracking /\ ~ AfterClose.validated => AfterClose.candles < Window
    <3>1. AfterClose.candles \in Nat /\ Window \in Nat
      BY <1>1, <2>1, ClockAtClose, BacktestAssumption DEF TrackerType
    <3> QED
      BY <2>1, <3>1 DEF Fires
  <2> QED
    BY <1>1, <2>1, <2>2, <2>3, ClockAtClose
<1>6. CASE TimeCloses
  <2>1. /\ Timed /\ position # None /\ Fires(AfterClose)
        /\ ClosePositionAtMarket(candle.close, "time", bar) /\ timeExit' = NotTracking
    BY <1>6 DEF TimeCloses
  <2>2. CandlesSeen + 1 = Window
    BY <1>1, <1>4, <2>1, ClockAtClose, BacktestAssumption DEF Fires
  <2>3. bar - position.since = IF position.setup.kind = "limit" THEN Window ELSE Window - 1
    BY <1>4, <2>1, <2>2, BacktestAssumption
  <2>4. closed' \in Seq(TimelyTrades) /\ position' = None /\ UNCHANGED pending
    BY <2>1, <2>3, TimelyMarketClose
  <2> QED
    BY <1>1, <1>2, <2>1, <2>4
<1> QED
  BY <1>3, <1>5, <1>6 DEF TimeExit

\* Between two candles a step that leaves the position and its clock alone.
LEMMA TimeQuiet ==
    ASSUME TimeInv, UNCHANGED <<position, closed, trades, timeExit, bar>>,
           pending' = pending \/ pending' = None,
           UNCHANGED pc \/ (pc \notin {"candle", "time"} /\ pc' \notin {"candle", "time"})
    PROVE  TimeInv'
<1>1. CandlesSeen' = CandlesSeen
  BY DEF CandlesSeen
<1> QED
  BY <1>1 DEF TimeInv

LEMMA TimeStep ==
    ASSUME BookInv, TimeInv, [Next]_vars
    PROVE  TimeInv'
<1>1. CASE Market
  BY <1>1, TimeMarket
<1>2. CASE TimeExit
  BY <1>2, TimeExits
<1>3. CASE FlattenSession
  <2>1. CASE FlattenSkipped \/ FlattenEntry
    BY <2>1, TimeQuiet DEF FlattenSkipped, FlattenEntry, CancelOrder, Go, brokerVars
  <2>2. CASE FlattenPosition
    <3>1. /\ ClosePositionAtMarket(candle.close, "end_of_day", bar) /\ timeExit' = NotTracking
          /\ UNCHANGED trades
      BY <2>2 DEF FlattenPosition
    <3>2. closed' \in Seq(TimelyTrades) /\ position' = None /\ UNCHANGED pending
      BY <3>1, TimelyMarketClose DEF TimeInv
    <3>3. NotTracking \in TrackerType /\ ~ NotTracking.tracking
      BY DEF NotTracking, TrackerType, Directions
    <3> QED
      BY <3>1, <3>2, <3>3 DEF TimeInv
  <2> QED
    BY <1>3, <2>1, <2>2 DEF FlattenSession
<1>4. CASE Sync
  <2>1. /\ trades' = trades \o closed /\ closed' = << >> /\ pc = "sync" /\ pc' \in {"signal", "next"}
        /\ UNCHANGED <<pending, position, bar, timeExit>>
    BY <1>4 DEF Sync, ClearClosedTrades, Go
  <2>2. trades' \in Seq(TimelyTrades) /\ closed' \in Seq(TimelyTrades)
    BY <2>1 DEF TimeInv
  <2>3. CandlesSeen' = CandlesSeen
    BY <2>1 DEF CandlesSeen
  <2> QED
    BY <2>1, <2>2, <2>3 DEF TimeInv
<1>5. CASE Enter
  <2>1. PICK s \in Setups, q \in Quantities : PlaceOrder(s, q, bar)
    BY <1>5 DEF Enter
  <2>2. /\ pc = "signal" /\ pc' = "cancel" /\ UNCHANGED <<bar, timeExit, trades, closed>>
        /\ position = None /\ pending = None
    BY <1>5, <2>1 DEF Enter, Go, PlaceOrder
  <2>3. ~ timeExit.tracking /\ s.kind \in Kinds
    BY <2>2, BrokerAssumption DEF TimeInv, SetupType
  <2>4. CASE s.kind = "stop"
    <3>1. position' = None /\ pending'.setup.kind = "stop"
      BY <2>1, <2>2, <2>4 DEF PlaceOrder
    <3> QED
      BY <2>2, <2>3, <3>1 DEF TimeInv
  <2>5. CASE s.kind = "limit"
    <3>1. pending' = None /\ position'.since = bar /\ position'.setup.kind = "limit"
      BY <2>1, <2>2, <2>5 DEF PlaceOrder, Opened
    <3>2. bar \in Int
      BY BarsAreNumbers DEF BookInv
    <3>3. CandlesSeen' = 0
      <4>1. bar' = bar /\ pc' = "cancel" /\ position'.since = bar /\ position'.setup.kind = "limit"
        BY <2>2, <3>1
      <4>2. bar' - position'.since = 0
        BY ONLY <3>2, <4>1
      <4>3. (IF position'.setup.kind = "limit" THEN 0 ELSE 1) = 0
        BY ONLY <4>1
      <4>4. (IF pc' \in {"candle", "time"} THEN 1 ELSE 0) = 0
        BY ONLY <4>1
      <4>5. CandlesSeen' = 0 + 0 - 0
        BY ONLY <4>2, <4>3, <4>4, Zenon DEF CandlesSeen
      <4> QED
        BY ONLY <4>5
    <3> QED
      BY <2>2, <2>3, <3>1, <3>3 DEF TimeInv
  <2> QED
    BY <2>3, <2>4, <2>5 DEF Kinds
<1>6. CASE NoEntry \/ CancelLast
  BY <1>6, TimeQuiet DEF NoEntry, CancelLast, CancelOrder, Go, brokerVars
<1>7. CASE NextCandle
  <2>1. /\ pc = "next" /\ pc' = "candle" /\ bar' = bar + 1
        /\ UNCHANGED <<pending, position, closed, trades, timeExit>>
    BY <1>7 DEF NextCandle, Go, brokerVars
  <2>2. position # None => CandlesSeen' = CandlesSeen
    <3>1. position # None => position \in PositionType
      BY DEF BookInv, BrokerTypeOK
    <3> QED
      BY <2>1, <3>1, PositionTimes DEF CandlesSeen
  <2> QED
    BY <2>1, <2>2 DEF TimeInv
<1>8. CASE UNCHANGED vars
  BY <1>8, TimeQuiet DEF vars, engineVars, brokerVars
<1> QED
  BY <1>1, <1>2, <1>3, <1>4, <1>5, <1>6, <1>7, <1>8 DEF Next, Signal

\* So it holds throughout a run.
LEMMA TimeInvariant == Spec => []TimeInv
<1>1. ASSUME Init PROVE TimeInv
  <2>1. /\ closed = << >> /\ trades = << >> /\ pending = None /\ position = None
        /\ timeExit = NotTracking
    BY <1>1 DEF Init, BrokerInit
  <2>2. NotTracking \in TrackerType /\ ~ NotTracking.tracking
    BY DEF NotTracking, TrackerType, Directions
  <2>3. << >> \in Seq(TimelyTrades)
    OBVIOUS
  <2> QED
    BY <2>1, <2>2, <2>3 DEF TimeInv
<1>2. BookInv /\ TimeInv /\ [Next]_vars => TimeInv'
  BY TimeStep
<1> QED
  BY <1>1, <1>2, BookInvariant, PTL DEF Spec

\* The exit by time closes the position it counted after its window of candles
\* and not one more, for every window and every series.
THEOREM TimeSafe == Spec => []TimedOutOnTime
<1>1. ASSUME TimeInv PROVE TimedOutOnTime
  <2>1. \A n \in 1 .. Len(trades) : trades[n] \in TimelyTrades
    BY <1>1 DEF TimeInv
  <2> QED
    BY <2>1 DEF TimelyTrades, OnTime, TimedOutOnTime
<1> QED
  BY <1>1, TimeInvariant, PTL

-----------------------------------------------------------------------------
(* The limits of the day *)

\* The orders that were sent today, and what each trade earned.
SentToday == {o \in 1 .. Len(orders) : DayOf(orders[o].sent) = DayOf(bar)}
NetOf == [n \in 1 .. Len(trades) |-> trades[n].net]

\* What the limits look at is of the day.
RiskOfDay ==
    /\ risk.daily_pnl = SumOver(NetOf, Today(trades))
    /\ risk.consecutive_losses = Cardinality(LossRun)
    /\ risk.daily_trades = Cardinality(SentToday)

\* What was closed and sent lies behind the candle, or in it once it is over.
Dated ==
    /\ \A n \in 1 .. Len(trades) :
         trades[n].until <= bar /\ (pc = "candle" => trades[n].until < bar)
    /\ \A o \in 1 .. Len(orders) :
         orders[o].sent <= bar /\ (pc = "candle" => orders[o].sent < bar)

\* A candle closes one trade at most: there is one position, and no entry before
\* the trade is counted.
OneClosed ==
    closed # << >> =>
      /\ pc \in {"time", "flatten", "sync"} /\ position = None
      /\ Len(closed) = 1 /\ closed[1].until = bar

LimitsInv ==
    /\ risk \in [daily_pnl : Int, daily_trades : Nat, consecutive_losses : Nat]
    /\ Dated /\ OneClosed
    /\ RiskOfDay \/ (pc = "candle" /\ NewDay)

\* The days are counted by the sessions that ended.
LEMMA DayGrows ==
    ASSUME NEW b \in Nat
    PROVE  /\ DayOf(b) \in Nat
           /\ DayOf(b + 1) = DayOf(b) + (IF b \in SessionEnds THEN 1 ELSE 0)
<1> DEFINE past == {e \in SessionEnds : e < b}
<1>1. \A e \in SessionEnds : e \in Nat
  BY BacktestAssumption, BrokerAssumption
<1>2. IsFiniteSet(past) /\ Cardinality(past) \in Nat
  <2>1. past \subseteq 0 .. b
    BY <1>1
  <2>2. IsFiniteSet(0 .. b)
    BY FS_Interval
  <2>3. IsFiniteSet(past)
    BY <2>1, <2>2, FS_Subset
  <2> QED BY <2>3, FS_CardinalityType
<1>3. {e \in SessionEnds : e < b + 1} = IF b \in SessionEnds THEN past \cup {b} ELSE past
  BY <1>1
<1>4. b \notin past
  OBVIOUS
<1>5. Cardinality(past \cup {b}) = Cardinality(past) + 1
  BY <1>2, <1>4, FS_AddElement
<1> HIDE DEF past
<1>6. DayOf(b) = Cardinality(past)
  BY DEF DayOf, past
<1>7. DayOf(b + 1) = Cardinality(IF b \in SessionEnds THEN past \cup {b} ELSE past)
  BY <1>3 DEF DayOf
<1> QED
  BY <1>2, <1>5, <1>6, <1>7

\* They never go back.
LEMMA DaysInOrder ==
    ASSUME NEW a \in Nat, NEW b \in Nat, a <= b
    PROVE  DayOf(a) <= DayOf(b)
<1>1. \A e \in SessionEnds : e \in Nat
  BY BacktestAssumption, BrokerAssumption
<1>2. IsFiniteSet({e \in SessionEnds : e < b})
  <2>1. {e \in SessionEnds : e < b} \subseteq 0 .. b
    BY <1>1
  <2>2. IsFiniteSet(0 .. b)
    BY FS_Interval
  <2> QED BY <2>1, <2>2, FS_Subset
<1>3. {e \in SessionEnds : e < a} \subseteq {e \in SessionEnds : e < b}
  BY <1>1
<1> QED
  BY <1>2, <1>3, FS_Subset DEF DayOf

\* A day that begins is another day than all before.
LEMMA DayBegins ==
    ASSUME NEW a \in Nat, NEW b \in Nat, a < b, b - 1 \in SessionEnds
    PROVE  DayOf(a) # DayOf(b)
<1>1. b - 1 \in Nat /\ a <= b - 1 /\ (b - 1) + 1 = b
  OBVIOUS
<1>2. DayOf(b) = DayOf(b - 1) + 1 /\ DayOf(b - 1) \in Nat /\ DayOf(a) \in Nat
  BY <1>1, DayGrows
<1>3. DayOf(a) <= DayOf(b - 1)
  BY <1>1, DaysInOrder
<1> QED
  BY <1>2, <1>3

\* Counting what the candle closed is counting the one trade, or none.
LEMMA CountsOne ==
    ASSUME NEW S, closed \in Seq(S), Len(closed) <= 1
    PROVE  FoldLeft(Count, risk, closed) = IF closed = << >> THEN risk ELSE Count(risk, closed[1])
<1> DEFINE D == DOMAIN closed
           Folds(g) == g = [s \in SUBSET D |->
                             IF s = {} THEN risk ELSE Count(g[s \ {Max(s)}], closed[Max(s)])]
           h == CHOOSE g : Folds(g)
           one == [s \in SUBSET D |-> IF s = {} THEN risk ELSE Count(risk, closed[1])]
<1>1. FoldLeft(Count, risk, closed) = h[D]
  BY Zenon DEF FoldLeft, MapThenFoldSet
<1>2. /\ D = {} \/ D = {1}
      /\ D = {} <=> closed = << >>
  <2>1. D = 1 .. Len(closed) /\ (Len(closed) = 0 \/ Len(closed) = 1)
    <3>1. DOMAIN closed = 1 .. Len(closed) /\ Len(closed) \in Nat
      OBVIOUS
    <3>2. \A n \in Nat : n <= 1 => n = 0 \/ n = 1
      OBVIOUS
    <3> QED BY <3>1, <3>2
  <2>2. CASE Len(closed) = 0
    <3>1. closed = << >> /\ D = {}
      BY <2>1, <2>2
    <3> QED BY <3>1
  <2>3. CASE Len(closed) = 1
    <3>1. D = 1 .. 1 /\ closed # << >>
      BY <2>1, <2>3
    <3>2. 1 .. 1 = {1}
      OBVIOUS
    <3> QED BY <3>1, <3>2
  <2> QED BY <2>1, <2>2, <2>3
<1>3. Max({1}) = 1
  BY DEF Max
<1>4. \A s \in SUBSET D : s # {} => s = {1} /\ Max(s) = 1 /\ s \ {Max(s)} = {}
  BY <1>2, <1>3
<1>5. Folds(one)
  <2>1. one[{}] = risk
    OBVIOUS
  <2> QED BY <1>4, <2>1
<1>6. Folds(h)
  <2> HIDE DEF Folds
  <2> QED BY <1>5
<1>7. h[{}] = risk
  BY <1>6
<1>8. D = {1} => h[D] = Count(h[{}], closed[1])
  <2> SUFFICES ASSUME D = {1} PROVE h[D] = Count(h[{}], closed[1])
    OBVIOUS
  <2>1. D \in SUBSET D /\ D # {}
    OBVIOUS
  <2>2. Max(D) = 1 /\ D \ {Max(D)} = {}
    BY <1>4, <2>1
  <2> HIDE DEF h, D
  <2>3. h[D] = IF D = {} THEN risk ELSE Count(h[D \ {Max(D)}], closed[Max(D)])
    BY <1>6, <2>1
  <2> QED BY <2>1, <2>2, <2>3
<1> HIDE DEF h, D
<1> QED
  BY <1>1, <1>2, <1>7, <1>8

\* The sum of LimitsAreOfTheDay is that of the function NetOf.
LEMMA DaySum ==
    ASSUME trades \in Seq(TimelyTrades)
    PROVE  MapThenSumSet(LAMBDA n : trades[n].net, Today(trades)) = SumOver(NetOf, Today(trades))
<1> DEFINE T == Today(trades)
           Sums(g) == g = [s \in SUBSET T |->
                            IF s = {} THEN 0 ELSE trades[First(s)].net + g[s \ {First(s)}]]
           h == CHOOSE g : Sums(g)
<1>1. MapThenSumSet(LAMBDA n : trades[n].net, T) = h[T]
  BY Zenon DEF MapThenSumSet, MapThenFoldSet, First
<1>2. \A s \in SUBSET T : s # {} => trades[First(s)].net = NetOf[First(s)]
  BY FirstIn DEF Today, NetOf
<1>3. IsFiniteSet(T)
  <2>1. T \subseteq 1 .. Len(trades) /\ Len(trades) \in Nat
    BY DEF Today
  <2>2. IsFiniteSet(1 .. Len(trades))
    BY <2>1, FS_Interval
  <2> QED BY <2>1, <2>2, FS_Subset
<1> HIDE DEF T
<1>4. ASSUME NEW g PROVE Sums(g) <=> Adds(g, NetOf, T)
  <2>1. [s \in SUBSET T |->
           IF s = {} THEN 0 ELSE trades[First(s)].net + g[s \ {First(s)}]]
        = [s \in SUBSET T |->
           IF s = {} THEN 0 ELSE NetOf[First(s)] + g[s \ {First(s)}]]
    <3>1. \A s \in SUBSET T :
            (IF s = {} THEN 0 ELSE trades[First(s)].net + g[s \ {First(s)}])
            = IF s = {} THEN 0 ELSE NetOf[First(s)] + g[s \ {First(s)}]
      BY <1>2
    <3> QED BY <3>1
  <2> QED BY <2>1, Zenon DEF Adds
<1>5. \E g : Sums(g)
  BY <1>3, <1>4, AddsExists
<1> HIDE DEF Sums
<1>6. Adds(h, NetOf, T)
  BY <1>4, <1>5
<1> HIDE DEF h
<1>7. SumOver(NetOf, T) = h[T]
  BY <1>3, <1>6, TotalAdds
<1> QED
  BY <1>1, <1>7 DEF T

-----------------------------------------------------------------------------
\* An order that ends was sent when it was.
LEMMA SentStays ==
    ASSUME BookInv, SetMarketCandle(candle, bar) \/ (\E n \in 1 .. Len(orders) : CancelOrder(n, bar))
    PROVE  Len(orders') = Len(orders) /\ \A o \in 1 .. Len(orders) : orders'[o].sent = orders[o].sent
<1>1. orders' = orders \/ \E n \in 1 .. Len(orders), status \in Statuses : orders' = Ends(n, status, bar)
  <2>1. CASE SetMarketCandle(candle, bar)
    <3>1. pending # None => pending.order \in 1 .. Len(orders)
      BY DEF BookInv, BookMatchesPending
    <3> QED
      BY <2>1, <3>1 DEF SetMarketCandle, OrdersAfter, Fills, Invalidated, Expires, Triggered, Statuses
  <2>2. CASE \E n \in 1 .. Len(orders) : CancelOrder(n, bar)
    BY <2>2 DEF CancelOrder, Statuses
  <2> QED BY <2>1, <2>2
<1> QED
  BY <1>1, OrderEnds DEF BookInv, BrokerTypeOK

\* So what was sent today does not change.
LEMMA SentSame ==
    ASSUME UNCHANGED bar, Len(orders') = Len(orders),
           \A o \in 1 .. Len(orders) : orders'[o].sent = orders[o].sent
    PROVE  SentToday' = SentToday
<1>1. SentToday' = {o \in 1 .. Len(orders) : DayOf(orders'[o].sent) = DayOf(bar)}
  BY Zenon DEF SentToday, DayOf
<1>2. \A o \in 1 .. Len(orders) : DayOf(orders'[o].sent) = DayOf(orders[o].sent)
  OBVIOUS
<1> QED
  BY <1>1, <1>2 DEF SentToday

\* A step within the candle that counts no trade and sends no order.
LEMMA DayStays ==
    ASSUME LimitsInv, UNCHANGED <<bar, trades, risk>>, Len(orders') = Len(orders),
           \A o \in 1 .. Len(orders) : orders'[o].sent = orders[o].sent,
           pc # "candle", pc' # "candle", OneClosed'
    PROVE  LimitsInv'
<1>1. /\ NetOf' = NetOf /\ Today(trades)' = Today(trades) /\ LossRun' = LossRun
  BY DEF NetOf, Today, LossRun, DayOf
<1>2. SentToday' = SentToday
  BY SentSame
<1>3. RiskOfDay'
  BY <1>1, <1>2 DEF LimitsInv, RiskOfDay
<1>4. Dated'
  BY DEF LimitsInv, Dated
<1> QED
  BY <1>3, <1>4 DEF LimitsInv

\* Nothing is of the day that begins.
LEMMA NothingToday ==
    ASSUME BookInv, TimeInv, LimitsInv, pc = "candle", NewDay
    PROVE  Today(trades) = {} /\ LossRun = {} /\ SentToday = {}
<1>1. bar \in Nat /\ bar - 1 \in SessionEnds
  BY BrokerAssumption DEF BookInv, NewDay
<1>2. \A n \in 1 .. Len(trades) : trades[n].until \in Nat /\ trades[n].until < bar
  <2>1. ASSUME NEW n \in 1 .. Len(trades) PROVE trades[n] \in TradeType
    BY DEF TimeInv, TimelyTrades
  <2>2. ASSUME NEW n \in 1 .. Len(trades) PROVE trades[n].until \in Bars
    BY <2>1 DEF TradeType
  <2> QED BY <2>2, BrokerAssumption DEF LimitsInv, Dated
<1>3. \A o \in 1 .. Len(orders) : orders[o].sent \in Nat /\ orders[o].sent < bar
  <2>1. ASSUME NEW o \in 1 .. Len(orders) PROVE orders[o] \in OrderType
    BY DEF BookInv, BrokerTypeOK
  <2>2. ASSUME NEW o \in 1 .. Len(orders) PROVE orders[o].sent \in Bars
    BY <2>1 DEF OrderType
  <2> QED BY <2>2, BrokerAssumption DEF LimitsInv, Dated
<1>4. Today(trades) = {}
  BY <1>1, <1>2, DayBegins DEF Today
<1>5. SentToday = {}
  BY <1>1, <1>3, DayBegins DEF SentToday
<1> QED
  BY <1>4, <1>5 DEF LossRun

\* The candle starts the day, and closes one trade at most.
LEMMA LimitsMarket ==
    ASSUME BookInv, TimeInv, LimitsInv, Market, ~ Replay
    PROVE  LimitsInv'
<1>1. /\ pc = "candle" /\ pc' = "time" /\ risk' = (IF NewDay THEN NoRisk ELSE risk)
      /\ SetMarketCandle(candle, bar) /\ UNCHANGED <<bar, trades>>
  BY DEF Market, Go, Rollover
<1>2. Len(orders') = Len(orders) /\ \A o \in 1 .. Len(orders) : orders'[o].sent = orders[o].sent
  BY <1>1, SentStays
<1>3. OneClosed'
  <2>1. closed = << >>
    BY <1>1 DEF LimitsInv, OneClosed
  <2>2. CASE KeepPosition(candle, bar)
    BY <2>1, <2>2 DEF KeepPosition, OneClosed
  <2>3. CASE ExitPosition(candle, bar)
    <3>1. PICK t : closed' = Append(closed, t) /\ t.until = bar /\ position' = None
      BY <2>3 DEF ExitPosition, Settle, TradeOf
    <3> QED BY <1>1, <2>1, <3>1 DEF OneClosed
  <2> QED BY <1>1, <2>2, <2>3 DEF SetMarketCandle
<1>4. /\ NetOf' = NetOf /\ Today(trades)' = Today(trades) /\ LossRun' = LossRun
  BY <1>1 DEF NetOf, Today, LossRun, DayOf
<1>5. SentToday' = SentToday
  BY <1>1, <1>2, SentSame
<1>6. Dated'
  BY <1>1, <1>2 DEF LimitsInv, Dated
<1>7. CASE NewDay
  <2>1. risk' = [daily_pnl |-> 0, daily_trades |-> 0, consecutive_losses |-> 0]
    BY <1>1, <1>7 DEF NoRisk
  <2>2. Today(trades) = {} /\ LossRun = {} /\ SentToday = {}
    BY <1>1, <1>7, NothingToday
  <2>3. RiskOfDay'
    BY <1>4, <1>5, <2>1, <2>2, TotalEmpty, FS_EmptySet DEF RiskOfDay
  <2> QED BY <1>3, <1>6, <2>1, <2>3 DEF LimitsInv
<1>8. CASE ~ NewDay
  <2>1. RiskOfDay'
    BY <1>1, <1>4, <1>5, <1>8 DEF LimitsInv, RiskOfDay
  <2> QED BY <1>1, <1>3, <1>6, <1>8, <2>1 DEF LimitsInv
<1> QED
  BY <1>7, <1>8

\* A close in the candle is its only one.
LEMMA ClosesOne ==
    ASSUME LimitsInv, pc \in {"time", "flatten"}, pc' \in {"flatten", "sync"}, UNCHANGED bar,
           NEW reason, ClosePositionAtMarket(candle.close, reason, bar)
    PROVE  OneClosed' /\ UNCHANGED orders
<1>1. position # None /\ UNCHANGED orders
  BY DEF ClosePositionAtMarket
<1>2. closed = << >>
  BY <1>1 DEF LimitsInv, OneClosed
<1>3. PICK t : closed' = Append(closed, t) /\ t.until = bar /\ position' = None
  BY DEF ClosePositionAtMarket, Settle, TradeOf
<1> QED
  BY <1>1, <1>2, <1>3 DEF OneClosed

\* The trade that was closed is one more of the day.
LEMMA LimitsSync ==
    ASSUME BookInv, TimeInv, LimitsInv, Sync
    PROVE  LimitsInv'
<1>1. /\ pc = "sync" /\ pc' \in {"signal", "next"} /\ risk' = FoldLeft(Count, risk, closed)
      /\ trades' = trades \o closed /\ closed' = << >> /\ UNCHANGED <<bar, orders, position>>
  BY DEF Sync, ClearClosedTrades, Go
<1>2. OneClosed'
  BY <1>1 DEF OneClosed
<1>3. closed \in Seq(TimelyTrades) /\ trades \in Seq(TimelyTrades) /\ bar \in Int
  BY BarsAreNumbers DEF TimeInv, BookInv
<1>4. Len(closed) <= 1
  <2>1. closed # << >> => Len(closed) = 1
    BY DEF LimitsInv, OneClosed
  <2>2. closed = << >> => Len(closed) = 0
    OBVIOUS
  <2>3. Len(closed) = 0 \/ Len(closed) = 1
    BY <2>1, <2>2, Zenon
  <2>4. 0 <= 1 /\ 1 <= 1
    OBVIOUS
  <2> QED BY <2>3, <2>4
<1>5. risk' = IF closed = << >> THEN risk ELSE Count(risk, closed[1])
  BY <1>1, <1>3, <1>4, CountsOne
<1>6. CASE closed = << >>
  <2>1. trades' = trades /\ risk' = risk
    BY <1>1, <1>3, <1>5, <1>6
  <2> QED BY <1>1, <1>2, <2>1, DayStays
<1>7. CASE closed # << >>
  <2> DEFINE t == closed[1]
             k == Len(trades) + 1
  <2>1. Len(closed) = 1 /\ t.until = bar /\ t \in TimelyTrades
    BY <1>3, <1>7 DEF LimitsInv, OneClosed
  <2>2. t.net \in Int
    BY <2>1 DEF TimelyTrades, TradeType
  <2>3. /\ Len(trades') = k /\ trades'[k] = t /\ Len(trades) \in Nat
        /\ \A n \in 1 .. Len(trades) : trades'[n] = trades[n]
    <3>1. Len(trades') = Len(trades) + Len(closed) /\ Len(trades) \in Nat
      BY <1>1, <1>3
    <3>2. \A n \in 1 .. Len(trades) : trades'[n] = trades[n]
      BY <1>1, <1>3
    <3>3. trades'[k] = closed[k - Len(trades)]
      BY <1>1, <1>3, <2>1, <3>1
    <3>4. k - Len(trades) = 1
      BY <3>1
    <3> QED BY <2>1, <3>1, <3>2, <3>3, <3>4
  <2> HIDE DEF t
  <2>4. Today(trades)' = Today(trades) \cup {k}
    <3>1. Today(trades)' = {n \in 1 .. Len(trades') : DayOf(trades'[n].until) = DayOf(bar)}
      BY <1>1, Zenon DEF Today, DayOf
    <3>2. 1 .. Len(trades') = (1 .. Len(trades)) \cup {k}
      BY <2>3
    <3>3. DayOf(trades'[k].until) = DayOf(bar)
      BY <2>1, <2>3
    <3>4. \A n \in 1 .. Len(trades) : DayOf(trades'[n].until) = DayOf(trades[n].until)
      BY <2>3
    <3> HIDE DEF k
    <3> QED BY <3>1, <3>2, <3>3, <3>4 DEF Today
  <2>5. IsFiniteSet(Today(trades)) /\ k \notin Today(trades)
    <3>1. Today(trades) \subseteq 1 .. Len(trades)
      BY DEF Today
    <3>2. IsFiniteSet(1 .. Len(trades))
      BY <2>3, FS_Interval
    <3>3. k \notin 1 .. Len(trades)
      BY <2>3
    <3> HIDE DEF k
    <3> QED BY <3>1, <3>2, <3>3, FS_Subset
  <2>6. SumOver(NetOf', Today(trades)') = SumOver(NetOf, Today(trades)) + t.net
    <3>1. \A n \in Today(trades) : NetOf'[n] = NetOf[n] /\ NetOf'[n] \in Int
      <4>1. ASSUME NEW n \in 1 .. Len(trades) PROVE trades[n] \in TimelyTrades
        BY <1>3
      <4>2. ASSUME NEW n \in 1 .. Len(trades) PROVE trades[n].net \in Int
        BY <4>1 DEF TimelyTrades, TradeType
      <4>3. ASSUME NEW n \in Today(trades) PROVE n \in 1 .. Len(trades) /\ n \in 1 .. Len(trades')
        BY <2>3 DEF Today
      <4> QED BY <2>3, <4>2, <4>3 DEF NetOf
    <3>2. NetOf'[k] = t.net
      BY <2>3 DEF NetOf
    <3>3. SumOver(NetOf', Today(trades) \cup {k}) = SumOver(NetOf', Today(trades)) + NetOf'[k]
      BY <2>2, <2>5, <3>1, <3>2, TotalPlus
    <3>4. SumOver(NetOf', Today(trades)) = SumOver(NetOf, Today(trades))
      BY <2>5, <3>1, TotalSame
    <3> QED BY <2>4, <3>2, <3>3, <3>4
  <2>7. LossRun' = IF t.net < 0 THEN LossRun \cup {k} ELSE {}
    <3>1. LossRun' = {n \in Today(trades) \cup {k} :
                        \A m \in Today(trades) \cup {k} : m >= n => trades'[m].net < 0}
      BY <2>4 DEF LossRun
    <3>2. \A n \in Today(trades) : n < k /\ n \in Int /\ trades'[n] = trades[n]
      BY <2>3 DEF Today
    <3>3. CASE t.net < 0
      BY <2>3, <3>1, <3>2, <3>3 DEF LossRun
    <3>4. CASE ~ (t.net < 0)
      BY <2>3, <3>1, <3>2, <3>4
    <3> QED BY <3>3, <3>4
  <2>8. Cardinality(LossRun') = IF t.net < 0 THEN Cardinality(LossRun) + 1 ELSE 0
    <3>1. IsFiniteSet(LossRun) /\ k \notin LossRun
      BY <2>5, FS_Subset DEF LossRun
    <3> QED BY <2>7, <3>1, FS_AddElement, FS_EmptySet
  <2>9. SentToday' = SentToday
    BY <1>1 DEF SentToday, DayOf
  <2>10. RiskOfDay
    BY <1>1 DEF LimitsInv
  <2>11. risk' = [risk EXCEPT !.daily_pnl = risk.daily_pnl + t.net,
                              !.consecutive_losses = IF t.net < 0 THEN risk.consecutive_losses + 1 ELSE 0]
    BY <1>5, <1>7 DEF Count, t
  <2>12. risk \in [daily_pnl : Int, daily_trades : Nat, consecutive_losses : Nat]
    BY DEF LimitsInv
  <2>13. /\ risk'.daily_pnl = risk.daily_pnl + t.net
         /\ risk'.consecutive_losses = IF t.net < 0 THEN risk.consecutive_losses + 1 ELSE 0
         /\ risk'.daily_trades = risk.daily_trades
         /\ risk' \in [daily_pnl : Int, daily_trades : Nat, consecutive_losses : Nat]
    <3> DEFINE run == IF t.net < 0 THEN risk.consecutive_losses + 1 ELSE 0
               earned == risk.daily_pnl + t.net
    <3>1. run \in Nat /\ earned \in Int
      BY <2>2, <2>12
    <3>2. risk' = [risk EXCEPT !.daily_pnl = earned, !.consecutive_losses = run]
      BY <2>11
    <3> HIDE DEF run, earned
    <3>3. /\ risk'.daily_pnl = earned /\ risk'.consecutive_losses = run
          /\ risk'.daily_trades = risk.daily_trades
          /\ risk' \in [daily_pnl : Int, daily_trades : Nat, consecutive_losses : Nat]
      BY <2>12, <3>1, <3>2
    <3> QED BY <3>3 DEF run, earned
  <2>14. RiskOfDay'
    BY <2>6, <2>8, <2>9, <2>10, <2>13 DEF RiskOfDay
  <2>15. Dated'
    BY <1>1, <1>3, <2>1, <2>3 DEF LimitsInv, Dated
  <2> QED BY <1>2, <2>13, <2>14, <2>15 DEF LimitsInv
<1> QED
  BY <1>6, <1>7

\* The order that is sent is one more of the day.
LEMMA LimitsEnter ==
    ASSUME BookInv, TimeInv, LimitsInv, Enter
    PROVE  LimitsInv'
<1>1. PICK s \in Setups, q \in Quantities : PlaceOrder(s, q, bar)
  BY DEF Enter
<1>2. /\ pc = "signal" /\ pc' = "cancel" /\ UNCHANGED <<bar, trades, closed>>
      /\ risk' = [risk EXCEPT !.daily_trades = risk.daily_trades + 1]
  BY <1>1 DEF Enter, Go, PlaceOrder
<1> DEFINE id == Len(orders) + 1
<1>3. orders \in Seq(OrderType) /\ bar \in Int
  BY BarsAreNumbers DEF BookInv, BrokerTypeOK
<1>4. PICK status, end :
        orders' = Append(orders, [status |-> status, kind |-> s.kind, sent |-> bar, ended |-> end])
  BY <1>1 DEF PlaceOrder
<1>5. /\ Len(orders') = id /\ orders'[id].sent = bar /\ Len(orders) \in Nat
      /\ \A o \in 1 .. Len(orders) : orders'[o] = orders[o]
  BY <1>3, <1>4
<1>6. SentToday' = SentToday \cup {id}
  <2>1. SentToday' = {o \in 1 .. Len(orders') : DayOf(orders'[o].sent) = DayOf(bar)}
    BY <1>2, Zenon DEF SentToday, DayOf
  <2>2. 1 .. Len(orders') = (1 .. Len(orders)) \cup {id}
    BY <1>5
  <2>3. DayOf(orders'[id].sent) = DayOf(bar)
    BY <1>5
  <2>4. \A o \in 1 .. Len(orders) : DayOf(orders'[o].sent) = DayOf(orders[o].sent)
    BY <1>5
  <2> HIDE DEF id
  <2> QED BY <2>1, <2>2, <2>3, <2>4 DEF SentToday
<1>7. Cardinality(SentToday') = Cardinality(SentToday) + 1
  <2>1. SentToday \subseteq 1 .. Len(orders)
    BY DEF SentToday
  <2>2. IsFiniteSet(SentToday) /\ id \notin SentToday
    <3>1. IsFiniteSet(1 .. Len(orders))
      BY <1>5, FS_Interval
    <3>2. id \notin 1 .. Len(orders)
      BY <1>5
    <3> HIDE DEF id
    <3> QED BY <2>1, <3>1, <3>2, FS_Subset
  <2> QED BY <1>6, <2>2, FS_AddElement
<1>8. /\ NetOf' = NetOf /\ Today(trades)' = Today(trades) /\ LossRun' = LossRun
  BY <1>2 DEF NetOf, Today, LossRun, DayOf
<1>9. risk \in [daily_pnl : Int, daily_trades : Nat, consecutive_losses : Nat]
  BY DEF LimitsInv
<1>10. /\ risk'.daily_pnl = risk.daily_pnl
       /\ risk'.consecutive_losses = risk.consecutive_losses
       /\ risk'.daily_trades = risk.daily_trades + 1
       /\ risk' \in [daily_pnl : Int, daily_trades : Nat, consecutive_losses : Nat]
  BY <1>2, <1>9
<1>11. RiskOfDay'
  BY <1>2, <1>7, <1>8, <1>10 DEF LimitsInv, RiskOfDay
<1>12. Dated'
  BY <1>2, <1>3, <1>5 DEF LimitsInv, Dated
<1>13. OneClosed'
  BY <1>2 DEF LimitsInv, OneClosed
<1> QED
  BY <1>10, <1>11, <1>12, <1>13 DEF LimitsInv

\* The next candle is of the same day, or the first of the next.
LEMMA LimitsNextCandle ==
    ASSUME BookInv, TimeInv, LimitsInv, NextCandle
    PROVE  LimitsInv'
<1>1. /\ pc = "next" /\ pc' = "candle" /\ bar' = bar + 1
      /\ UNCHANGED <<orders, closed, trades, risk>>
  BY DEF NextCandle, Go, brokerVars
<1>2. bar \in Nat
  BY BrokerAssumption DEF BookInv
<1>3. OneClosed'
  BY <1>1 DEF LimitsInv, OneClosed
<1>4. Dated'
  <2>1. ASSUME NEW n \in 1 .. Len(trades) PROVE trades[n].until \in Int
    <3>1. trades[n] \in TradeType
      BY DEF TimeInv, TimelyTrades
    <3> QED BY <3>1, BarsAreNumbers DEF TradeType
  <2>2. ASSUME NEW o \in 1 .. Len(orders) PROVE orders[o].sent \in Int
    <3>1. orders[o] \in OrderType
      BY DEF BookInv, BrokerTypeOK
    <3> QED BY <3>1, BarsAreNumbers DEF OrderType
  <2> QED BY <1>1, <1>2, <2>1, <2>2 DEF LimitsInv, Dated
<1>5. CASE bar \in SessionEnds
  <2>1. NewDay'
    BY <1>1, <1>2, <1>5 DEF NewDay
  <2> QED BY <1>1, <1>3, <1>4, <2>1 DEF LimitsInv
<1>6. CASE bar \notin SessionEnds
  <2>1. DayOf(bar') = DayOf(bar)
    BY <1>1, <1>2, <1>6, DayGrows
  <2>2. Today(trades)' = Today(trades)
    BY <1>1, <2>1 DEF Today, DayOf
  <2>3. NetOf' = NetOf /\ LossRun' = LossRun
    BY <1>1, <2>2 DEF NetOf, LossRun
  <2>4. SentToday' = SentToday
    BY <1>1, <2>1 DEF SentToday, DayOf
  <2>5. RiskOfDay'
    BY <1>1, <2>2, <2>3, <2>4 DEF LimitsInv, RiskOfDay
  <2> QED BY <1>1, <1>3, <1>4, <2>5 DEF LimitsInv
<1> QED
  BY <1>5, <1>6

\* Every step is one of those.
LEMMA LimitsStep ==
    ASSUME BookInv, TimeInv, LimitsInv, [Next]_vars, ~ Replay
    PROVE  LimitsInv'
<1>1. CASE Market
  BY <1>1, LimitsMarket
<1>2. CASE TimeExit
  <2>1. pc = "time" /\ pc' = "flatten" /\ UNCHANGED <<bar, trades, risk>>
    BY <1>2 DEF TimeExit, TimeDisarmed, TimeCounted, TimeCloses, Go
  <2>2. OneClosed' /\ UNCHANGED orders
    <3>1. CASE TimeCloses
      BY <2>1, <3>1, ClosesOne DEF TimeCloses
    <3>2. CASE TimeDisarmed \/ TimeCounted
      BY <2>1, <3>2 DEF TimeDisarmed, TimeCounted, brokerVars, LimitsInv, OneClosed
    <3> QED BY <1>2, <3>1, <3>2 DEF TimeExit
  <2> QED BY <2>1, <2>2, DayStays
<1>3. CASE FlattenSession
  <2>1. pc = "flatten" /\ pc' \in {"flatten", "sync"} /\ UNCHANGED <<bar, trades, risk>>
    BY <1>3 DEF FlattenSession, FlattenSkipped, FlattenEntry, FlattenPosition, Go
  <2>2. CASE FlattenSkipped
    BY <2>1, <2>2, DayStays DEF FlattenSkipped, brokerVars, LimitsInv, OneClosed
  <2>3. CASE FlattenEntry
    <3>1. pending.order \in 1 .. Len(orders) /\ CancelOrder(pending.order, bar)
      BY <2>3 DEF FlattenEntry, BookInv, BookMatchesPending
    <3>2. OneClosed'
      BY <2>1, <3>1 DEF CancelOrder, LimitsInv, OneClosed
    <3> QED BY <2>1, <3>1, <3>2, SentStays, DayStays
  <2>4. CASE FlattenPosition
    BY <2>1, <2>4, ClosesOne, DayStays DEF FlattenPosition
  <2> QED BY <1>3, <2>2, <2>3, <2>4 DEF FlattenSession
<1>4. CASE Sync
  BY <1>4, LimitsSync
<1>5. CASE Enter
  BY <1>5, LimitsEnter
<1>6. CASE NoEntry
  BY <1>6, DayStays DEF NoEntry, Go, brokerVars, LimitsInv, OneClosed
<1>7. CASE CancelLast
  <2>1. pc = "cancel" /\ pc' = "next" /\ UNCHANGED <<bar, trades, risk>>
    BY <1>7 DEF CancelLast, Go
  <2>2. CASE UNCHANGED brokerVars
    BY <2>1, <2>2, DayStays DEF brokerVars, LimitsInv, OneClosed
  <2>3. CASE pending # None /\ CancelOrder(pending.order, bar)
    <3>1. pending.order \in 1 .. Len(orders)
      BY <2>3 DEF BookInv, BookMatchesPending
    <3>2. OneClosed'
      BY <2>1, <2>3 DEF CancelOrder, LimitsInv, OneClosed
    <3> QED BY <2>1, <2>3, <3>1, <3>2, SentStays, DayStays
  <2> QED BY <1>7, <2>2, <2>3 DEF CancelLast
<1>8. CASE NextCandle
  BY <1>8, LimitsNextCandle
<1>9. CASE UNCHANGED vars
  <2>1. UNCHANGED <<pc, bar, risk, trades, orders, closed, position>>
    BY <1>9 DEF vars, engineVars, brokerVars
  <2>2. /\ NetOf' = NetOf /\ Today(trades)' = Today(trades) /\ LossRun' = LossRun
        /\ SentToday' = SentToday
    BY <2>1 DEF NetOf, Today, LossRun, DayOf, SentToday
  <2> QED BY <2>1, <2>2 DEF LimitsInv, RiskOfDay, Dated, OneClosed, NewDay
<1> QED
  BY <1>1, <1>2, <1>3, <1>4, <1>5, <1>6, <1>7, <1>8, <1>9 DEF Next, Signal

\* In the backtest a signal is judged by the result, the losses in a row and the
\* orders of its day, all of them and none of another, wherever the sessions end.
THEOREM LimitsSafe == ~ Replay /\ Spec => []LimitsAreOfTheDay
<1> SUFFICES ASSUME ~ Replay PROVE Spec => []LimitsAreOfTheDay
  OBVIOUS
<1>1. Init => LimitsInv
  <2> SUFFICES ASSUME Init PROVE LimitsInv
    OBVIOUS
  <2>1. /\ orders = << >> /\ trades = << >> /\ closed = << >>
        /\ risk = [daily_pnl |-> 0, daily_trades |-> 0, consecutive_losses |-> 0]
    BY DEF Init, BrokerInit, NoRisk
  <2>2. Today(trades) = {} /\ SentToday = {}
    BY <2>1 DEF Today, SentToday
  <2>3. RiskOfDay
    BY <2>1, <2>2, TotalEmpty, FS_EmptySet DEF RiskOfDay, LossRun
  <2> QED BY <2>1, <2>3 DEF LimitsInv, Dated, OneClosed
<1>2. BookInv /\ TimeInv /\ LimitsInv /\ [Next]_vars => LimitsInv'
  BY LimitsStep
<1>3. ASSUME TimeInv, LimitsInv PROVE LimitsAreOfTheDay
  <2> SUFFICES ASSUME pc = "signal" PROVE closed = << >> /\ RiskOfDay
    <3>1. MapThenSumSet(LAMBDA n : trades[n].net, Today(trades)) = SumOver(NetOf, Today(trades))
      BY <1>3, DaySum DEF TimeInv
    <3> QED BY <3>1 DEF LimitsAreOfTheDay, RiskOfDay, SentToday
  <2> QED BY <1>3 DEF LimitsInv, OneClosed
<1> QED
  BY <1>1, <1>2, <1>3, BookInvariant, TimeInvariant, PTL DEF Spec
=============================================================================
