--------------------------- MODULE AccountLimits ---------------------------
(***************************************************************************)
(* The limits of the account (C2, ADR-017) as the processes that share it  *)
(* keep them: analyze_and_execute with portfolio_limit_hit and             *)
(* exposure_limit_hit (crates/trader-cli/src/commands/paper.rs).  Every    *)
(* process reads the equity, then the positions, then the trades of the    *)
(* day, then asks the strategy and sends: four awaits between which all    *)
(* the others do the same.  The size is the risk manager's.                *)
(*                                                                         *)
(* Each process has a symbol of its own (LiveOrders has two on one), and   *)
(* an entry fills whole and at its price.  What list_today_account answers *)
(* is left open: the loss of the day may stop any process at any time.     *)
(***************************************************************************)
EXTENDS RiskManager, FiniteSetsExt

CONSTANTS
    Bots,            \* the processes on the account
    Config,          \* the RiskConfig of each
    MaxPositions,    \* max_concurrent_positions
    MaxNotionalPct,  \* max_portfolio_notional_pct
    Equities,        \* what get_account_summary may answer; 0 when the tag is missing
    Signals,         \* what the strategies may ask for
    Context, Quote, State, Candles   \* what else validate is given

ASSUME AccountAssumption ==
    /\ IsFiniteSet(Bots) /\ MaxPositions \in Nat \ {0}
    /\ MaxNotionalPct \in Nat /\ Equities \subseteq Nat
    /\ \A b \in Bots : ValidConfig(Config[b])

\* The amounts are numbers, and a share costs something: validate divides by the
\* entry (risk/mod.rs:403) without a check, as by a price of the exchange.
ASSUME AmountsAssumption ==
    /\ \A b \in Bots :
         /\ Config[b].capital_fraction \in Int /\ Config[b].risk_per_trade_pct \in Int
         /\ Config[b].max_notional_multiple \in Int
         /\ Config[b].max_notional_usd \in Int \cup {Off}
         /\ Config[b].max_pct_of_median_bar_notional \in Int \cup {Off}
         /\ Config[b].liquidity_lookback_bars \in Nat
    /\ \A signal \in Signals :
         /\ signal.entry \in (Nat \ {0}) \cup {Off}
         /\ signal.stop \in Int \cup {Off} /\ signal.target \in Int \cup {Off}
    /\ Candles \in Seq([close : Int, volume : Int])

VARIABLES
    step,       \* where each process stands
    equity,     \* summary.equity of its last look
    entry,      \* its bracket: the notional, or zero
    peak        \* history: the most entries ever decided or working at once

limitsVars == <<step, equity, entry, peak>>

LimitsInit ==
    /\ step = [b \in Bots |-> "idle"]
    /\ equity = [b \in Bots |-> 0]
    /\ entry = [b \in Bots |-> 0]
    /\ peak = 0

\* A process between the look at the positions and the end of its entry, and
\* one with a position.
Deciding == {b \in Bots : step[b] \in {"trades", "signal", "working"}}
Holding == {b \in Bots : step[b] = "open"}
Notional(bots) == MapThenSumSet(LAMBDA b : entry[b], bots)

\* The prospective notional: the cap of the instance, without the liquidity.
Prospective(b) == TetoDeNotional(Config[b], equity[b], Off).cap

\* exposure_limit_hit: the count, then what is open, then that and what the
\* process may add.  An equity of zero knows no notional.
NotionalHit(notional, worth, prospective) ==
    LET teto == worth * MaxNotionalPct * 2      \* in two-hundredths
    IN  worth > 0 /\ (notional * Scale >= teto \/ notional * Scale + prospective > teto)
OneMore(count, notional, worth, prospective) ==       \* mutant: > for >=
    count > MaxPositions \/ NotionalHit(notional, worth, prospective)
NoProspect(count, notional, worth, prospective) ==    \* mutant: as before ADR-020
    count >= MaxPositions \/ NotionalHit(notional, worth, 0)
ExposureLimitHit(count, notional, worth, prospective) ==
    count >= MaxPositions \/ NotionalHit(notional, worth, prospective)

-----------------------------------------------------------------------------
ReadSummary(b) ==
    /\ step[b] = "idle"
    /\ \E e \in Equities : equity' = [equity EXCEPT ![b] = e]
    /\ step' = [step EXCEPT ![b] = "positions"]
    /\ UNCHANGED <<entry, peak>>

\* get_positions; its own position is none, since it has no tracked order.
ReadPositions(b) ==
    /\ step[b] = "positions"
    /\ IF ExposureLimitHit(Cardinality(Holding), Notional(Holding), equity[b], Prospective(b))
       THEN /\ step' = [step EXCEPT ![b] = "idle"]
            /\ UNCHANGED peak
       ELSE /\ step' = [step EXCEPT ![b] = "trades"]
            /\ peak' = IF Cardinality(Deciding') > peak THEN Cardinality(Deciding') ELSE peak
    /\ UNCHANGED <<equity, entry>>

\* list_today_account: past the loss of the day, or without an answer, no entry.
ReadTrades(b) ==
    /\ step[b] = "trades"
    /\ \E next \in {"idle", "signal"} : step' = [step EXCEPT ![b] = next]
    /\ UNCHANGED <<equity, entry, peak>>

\* The strategy gives nothing, or the broker refuses, or the send failed.
NoOrder(b) ==
    /\ step[b] = "signal"
    /\ step' = [step EXCEPT ![b] = "idle"]
    /\ UNCHANGED <<equity, entry, peak>>

\* process_signal: validated and sized with the equity read at the start.
SendEntry(b) ==
    /\ step[b] = "signal"
    /\ \E signal \in Signals :
         LET check == Validate(Config[b], signal, Context, Quote, State, equity[b], Candles)
         IN  /\ check.approved
             /\ entry' = [entry EXCEPT ![b] = check.position_size * signal.entry]
    /\ step' = [step EXCEPT ![b] = "working"]
    /\ UNCHANGED <<equity, peak>>

EntryFills(b) ==
    /\ step[b] = "working"
    /\ step' = [step EXCEPT ![b] = "open"]
    /\ UNCHANGED <<equity, entry, peak>>

EntryExpires(b) ==
    /\ step[b] = "working"
    /\ step' = [step EXCEPT ![b] = "idle"]
    /\ entry' = [entry EXCEPT ![b] = 0]
    /\ UNCHANGED <<equity, peak>>

PositionCloses(b) ==
    /\ step[b] = "open"
    /\ step' = [step EXCEPT ![b] = "idle"]
    /\ entry' = [entry EXCEPT ![b] = 0]
    /\ UNCHANGED <<equity, peak>>

LimitsNext == \E b \in Bots :
    \/ ReadSummary(b) \/ ReadPositions(b) \/ ReadTrades(b)
    \/ NoOrder(b) \/ SendEntry(b) \/ EntryFills(b) \/ EntryExpires(b)
    \/ PositionCloses(b)

LimitsSpec == LimitsInit /\ [][LimitsNext]_limitsVars

-----------------------------------------------------------------------------
\* Processes pass the same check together, so the account may hold more than
\* MaxPositions.  By how much is bounded by how many ever decided at once: with
\* one at a time the limit is exact.  (ADR-017; paper.rs:1616.)
OvershootBounded ==
    Cardinality(Holding \cup Deciding) <= IF peak = 0 THEN 0 ELSE MaxPositions + peak - 1

\* While processes decided one at a time, a position that opens leaves the
\* account under the ceiling of the equity the process read: the look counts
\* what the process may add, whatever size it then gets (ADR-020, section 4).
NotionalKeptAlone ==
    [][\A b \in Bots : peak = 1 /\ step[b] = "working" /\ step'[b] = "open" =>
          Notional(Holding') * 100 <= equity[b] * MaxNotionalPct]_limitsVars

\* What a size must keep: the budget of risk and every cap that is on.
Keeps(config, capital, signal, size) ==
    LET slice == CapitalEfetivo(config, capital)
        pct   == config.max_pct_of_median_bar_notional
    IN  /\ size * RiskDistance(signal) * 100 <= slice * config.risk_per_trade_pct
        /\ size * signal.entry <= slice * config.max_notional_multiple
        /\ config.max_notional_usd # Off => size * signal.entry <= config.max_notional_usd
        /\ pct # Off => size * signal.entry * Scale <=
              pct * MedianBarNotional(Candles, config.liquidity_lookback_bars)

\* An approved signal gets at least one share, keeps the budget and every cap
\* with the size it gets, and would break one of them with one share more.
SizesFit ==
    \A b \in Bots : step[b] = "signal" => \A signal \in Signals :
        LET check == Validate(Config[b], signal, Context, Quote, State, equity[b], Candles)
        IN  check.approved =>
              /\ check.position_size >= 1
              /\ Keeps(Config[b], equity[b], signal, check.position_size)
              /\ ~ Keeps(Config[b], equity[b], signal, check.position_size + 1)
=============================================================================
