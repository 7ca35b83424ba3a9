------------------------------- MODULE Costs -------------------------------
(***************************************************************************)
(* What an execution costs and what a trade earns, as the simulated broker *)
(* computes them (crates/trader-adapters/src/simulated/broker.rs).  Prices *)
(* and money are integers; slippage, a fraction of the price in the code,  *)
(* is a number of price units: what matters is the side it is paid on.     *)
(***************************************************************************)
EXTENDS Integers

CONSTANTS
    PerShare,     \* commission per share
    MinPerOrder,  \* its floor
    CapDivisor,   \* its cap is the notional divided by this
    Slippage,     \* slippage_pct
    Haircut       \* limit_fill_haircut_pct

ASSUME CostsAssumption ==
    /\ PerShare \in Nat /\ MinPerOrder \in Nat /\ CapDivisor \in Nat \ {0}
    /\ Slippage \in Nat /\ Haircut \in Nat

Directions == {"long", "short"}
SignOf == [long |-> 1, short |-> 0 - 1]
Smaller(a, b) == IF a <= b THEN a ELSE b
Larger(a, b) == IF a >= b THEN a ELSE b

\* CommissionModel::for_execution, the table per share.
Gross(q) == Larger(PerShare * q, MinPerOrder)
Cap(q, p) == (p * q) \div CapDivisor
Commission(q, p) ==
    IF q = 0 THEN 0
    ELSE IF Cap(q, p) > 0 THEN Smaller(Gross(q), Cap(q, p)) ELSE Gross(q)

\* apply_slippage: whoever buys pays more, whoever sells gets less.
Buys(dir, entering) == (dir = "long") = entering
Slipped(p, dir, entering, by) == IF Buys(dir, entering) THEN p + by ELSE p - by

\* What the account is paid for the two legs, and what the position is worth.
EntryFlow(dir, p, q) == (0 - SignOf[dir]) * p * q - Commission(q, p)
ExitGross(dir, p, q) == SignOf[dir] * p * q     \* mutant: the second leg is free
ExitFlow(dir, p, q) == SignOf[dir] * p * q - Commission(q, p)
MarkedLong(money, dir, p, q) == money + p * q     \* mutant: a short is an asset
Marked(money, dir, p, q) == money + SignOf[dir] * p * q

\* close_position_to_trade: what the trade says it earned.
NetPnl(dir, q, entry, exit) ==
    (exit - entry) * q * SignOf[dir] - (Commission(q, entry) + Commission(q, exit))
=============================================================================
