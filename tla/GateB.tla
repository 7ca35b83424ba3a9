--------------------------------- MODULE GateB ---------------------------------
(***************************************************************************)
(* The runs of the walkforward and backtest commands that are kept in      *)
(* backtest_runs, the gates on what may be asked of them (ADR-019,         *)
(* ADR-020), and the analyze command that picks one of them as the         *)
(* baseline paper trading is measured against (gate B).                    *)
(*                                                                         *)
(* A strategy's TOML is a version of it; config_hash tells versions apart, *)
(* and an override is a version of its own.                                *)
(***************************************************************************)
EXTENDS Metrics

CONSTANTS
    Pairs,         \* symbols of one strategy
    Costs,         \* arguments about cost: [legacy, slippage, haircut], in bp, Off when not given
    ProductionBps, \* [slippage, haircut] of SimulatedBrokerConfig::default
    Backtested,    \* the trades of a run
    Samples,       \* what paper may have traded by the time of an analysis
    MinTrades,     \* PAPER_MIN_TRADES
    TolerancePct,  \* PAPER_TOLERANCE_PCT
    MaxRuns, MaxVersions

VARIABLES
    version,       \* version of the canonical TOML
    runs,          \* backtest_runs, in order of created_at
    analysis       \* what the last analyze compared with and said, or Off
gateVars == <<version, runs, analysis>>

GateInit == version = 1 /\ runs = << >> /\ analysis = Off

-----------------------------------------------------------------------------
\* strategy_source::resolve: where the configuration comes from.  A --set may leave the
\* canonical value, and a file given by --strategy-config may hold the canonical content.
Sources == {"canonical", "set", "set to the same", "other file", "copy of the file"}

IsExperimental(source) == source # "canonical"
HashOf(source) ==
    IF source \in {"set", "other file"} THEN <<version, "changed">> ELSE <<version, "as is">>

\* The gates of walkforward::run, in the order they are met.
Admitted(a) ==
    /\ a.sizing => a.label
    /\ IsExperimental(a.source) =>
        /\ a.label
        /\ a.source \in {"set", "set to the same"} => HashOf(a.source) # HashOf("canonical")
        /\ ~a.holdout

\* A plausible slip: an override of the sizing is no experiment.
ConfigOnly(source, sizing) == IsExperimental(source)

\* resolvido.is_experimental || !sizing.vazio()
Experimental(source, sizing) == IsExperimental(source) \/ sizing

CommissionLabel(legacy) == IF legacy THEN "fixed-0.35" ELSE "ibkr-fixed-us"

HaircutBps(cost) ==
    IF cost.haircut # Off THEN cost.haircut
    ELSE IF cost.legacy THEN 0 ELSE ProductionBps.haircut

SlippageBps(cost) == IF cost.slippage # Off THEN cost.slippage ELSE ProductionBps.slippage

\* BacktestRunRecord with the metrics as enriched.
Record(pair, source, sizing, cost) ==
    [pair         |-> pair,
     hash         |-> HashOf(source),
     experimental |-> Experimental(source, sizing),
     overrides    |-> source \in {"set", "set to the same"},
     sizing       |-> IF sizing THEN "overridden" ELSE "of the config",
     commission   |-> CommissionLabel(cost.legacy),
     slippage     |-> SlippageBps(cost),
     haircut      |-> HaircutBps(cost),
     figures      |-> FromTrades(Backtested, 0)]

\* SqlxBacktestRunRepository::save; a run that cannot be saved is only warned about.
Save(record) == runs' \in {runs, Append(runs, record)}

Walkforward ==
    /\ Len(runs) < MaxRuns
    /\ \E pair \in Pairs, source \in Sources, cost \in Costs,
          sizing, label, holdout \in BOOLEAN :
        /\ Admitted([source |-> source, sizing |-> sizing, label |-> label,
                     holdout |-> holdout])
        /\ Save(Record(pair, source, sizing, cost))
    /\ UNCHANGED <<version, analysis>>

\* The backtest command has no --set, no --strategy-config and asks for no label.
BacktestRun ==
    /\ Len(runs) < MaxRuns
    /\ \E pair \in Pairs, cost \in Costs, sizing \in BOOLEAN :
        Save(Record(pair, "canonical", sizing, cost))
    /\ UNCHANGED <<version, analysis>>

\* The canonical TOML is edited.
EditConfig ==
    /\ version < MaxVersions
    /\ version' = version + 1
    /\ UNCHANGED <<runs, analysis>>

-----------------------------------------------------------------------------
\* SqlxBacktestRunRepository::latest_for with regua_de_producao.
Eligible(run, pair) ==
    /\ run.pair = pair
    /\ run.hash = HashOf("canonical")
    /\ ~run.experimental
    /\ run.commission = CommissionLabel(FALSE)
    /\ run.slippage = ProductionBps.slippage
    /\ run.haircut = ProductionBps.haircut

\* ORDER BY created_at DESC LIMIT 1.
Newest(i, pair) ==
    /\ Eligible(runs[i], pair)
    /\ \A j \in DOMAIN runs : Eligible(runs[j], pair) => j <= i

LatestFor(pair) ==
    IF \E i \in DOMAIN runs : Newest(i, pair)
    THEN runs[CHOOSE i \in DOMAIN runs : Newest(i, pair)]
    ELSE Off

\* within_tolerance, of two ratios with positive denominators.
WithinTolerance(live, reference) ==
    LET l == live[1] * reference[2]
        r == reference[1] * live[2]
    IN  IF r = 0 THEN l = 0 ELSE 100 * Abs(l - r) <= TolerancePct * Abs(r)

Rate(figures) == IF figures.total = 0 THEN <<0, 1>> ELSE <<figures.wins, figures.total>>
AverageR(figures) == IF figures.total = 0 THEN <<0, 1>> ELSE figures.averageR

\* evaluate_paper: all of the criteria.
PaperAccepted(live, backtest) ==
    /\ live.total >= MinTrades
    /\ WithinTolerance(Rate(live), Rate(backtest))
    /\ \/ live.profitFactor = Off /\ backtest.profitFactor = Off
       \/ /\ live.profitFactor # Off /\ backtest.profitFactor # Off
          /\ WithinTolerance(live.profitFactor, backtest.profitFactor)
    /\ WithinTolerance(AverageR(live), AverageR(backtest))
    /\ live.net > 0

\* The live side is filtered by strategy and config_hash and leaves the artefacts out.
Analyze ==
    \E pair \in Pairs, sample \in Samples :
        LET baseline == LatestFor(pair)
            live     == FromTrades(sample, 0)
        IN  /\ analysis' = [pair     |-> pair,
                            hash     |-> HashOf("canonical"),
                            baseline |-> baseline,
                            accepted |-> /\ baseline # Off
                                         /\ PaperAccepted(live, baseline.figures)]
            /\ UNCHANGED <<version, runs>>

GateNext == Walkforward \/ BacktestRun \/ EditConfig \/ Analyze
GateSpec == GateInit /\ [][GateNext]_gateVars

-----------------------------------------------------------------------------
\* What paper is measured against is no experiment: a run of that pair with the configuration
\* that was canonical when analyze ran, with no override of a parameter or of the sizing and
\* at the costs of production, however many ablations, edits and sensitivity runs were saved
\* before and after it.  Without one nothing is accepted.  The timeframe, a run that did not
\* flatten and one on synthetic candles are not told apart, neither here nor by latest_for.
BaselineIsNoAblation ==
    analysis # Off =>
        /\ analysis.accepted => analysis.baseline # Off
        /\ analysis.baseline # Off =>
            LET run == analysis.baseline
            IN  /\ run.pair = analysis.pair /\ run.hash = analysis.hash
                /\ ~run.overrides /\ run.sizing = "of the config"
                /\ <<run.commission, run.slippage, run.haircut>>
                    = <<"ibkr-fixed-us", ProductionBps.slippage, ProductionBps.haircut>>
=============================================================================
