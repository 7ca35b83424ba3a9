------------------------------ MODULE WalkForward ------------------------------
(***************************************************************************)
(* trader-backtest/src/walkforward.rs and the holdout of the walkforward   *)
(* command: the anchored split, one run of the engine for each window over *)
(* the prefix that ends with its test block, and the sample that counts.   *)
(*                                                                         *)
(* The engine is what walk-forward needs of it (module Backtest models it): *)
(* a pass that holds one position at a time, looks one candle ahead for    *)
(* the end of the session, and leaves the position of the last candle      *)
(* open.  What the market and the strategy do is a series of candles; what *)
(* a trade left at a candle came to is read from Exits, or from Flattened  *)
(* when it was the end of the session that closed it.                      *)
(***************************************************************************)
EXTENDS Metrics

CONSTANTS
    Exits,       \* Exits[i]: pnl, r, cost, reason and direction of a trade left at candle i
    Flattened,   \* the same of one that the end of the session closes there
    Stamps,      \* Stamps[i]: day and month in New York, and hour, of candle i
    Markets,     \* the candles a series is made of
    MaxWindows,  \* the most test blocks asked for
    Capital      \* base of the drawdown

ASSUME WalkAssumption ==
    /\ Len(Exits) \in Nat
    /\ \A i \in 1 .. Len(Exits) :
         /\ Exits[i].pnl \in Int /\ Exits[i].reason # "end_of_day"
         /\ Flattened[i].pnl \in Int /\ Flattened[i].reason = "end_of_day"
    /\ Markets \subseteq [fills : BOOLEAN, leaves : BOOLEAN, asks : {"nothing", "stop", "limit"}]
    /\ MaxWindows \in Nat /\ Capital \in Int

NoRun == [pending |-> FALSE, open |-> 0, trades |-> << >>]

\* What is recorded of a position entered at one candle and left at another.
Trade(in, out, left) ==
    [entry |-> in, exit |-> out, pnl |-> left.pnl, r |-> left.r, cost |-> left.cost,
     reason |-> left.reason, direction |-> left.direction,
     hour |-> Stamps[in].hour, day |-> Stamps[out].day, month |-> Stamps[out].month]

Close(run, i, left) ==
    [run EXCEPT !.open = 0, !.trades = Append(@, Trade(run.open, i, left))]

\* set_market_candle and the exit by time: the pending entry fills, then the open position
\* is left.  An entry that expires is one that was not asked for.
SetMarketCandle(run, candle, i) ==
    LET filled == IF run.pending /\ candle.fills
                  THEN [run EXCEPT !.pending = FALSE, !.open = i] ELSE run
    IN  IF filled.open # 0 /\ candle.leaves THEN Close(filled, i, Exits[i]) ELSE filled

CancelPendingEntry(run) == [run EXCEPT !.pending = FALSE]

FlattenSession(run, i) ==
    LET alone == CancelPendingEntry(run)
    IN  IF alone.open # 0 THEN Close(alone, i, Flattened[i]) ELSE alone

\* A stop entry waits for a later candle, a limit entry fills at once; the broker takes
\* neither behind a position or a pending entry.
Signal(run, candle, i) ==
    IF run.open # 0 \/ run.pending THEN run
    ELSE [run EXCEPT !.pending = candle.asks = "stop",
                     !.open = IF candle.asks = "limit" THEN i ELSE 0]

\* The phantom of the engine's comment: the end of the slice taken for that of a session.
EndsWithSeries(i, n, flattens) ==
    flattens /\ (i = n \/ Stamps[i + 1].day # Stamps[i].day)

\* is_last_bar_of_session: it looks at the next candle of the n it was given, and the end
\* of those is not the end of a session.
LastOfSession(i, n, flattens) == flattens /\ i < n /\ Stamps[i + 1].day # Stamps[i].day

\* One candle of the engine, the last of its session or not.
Pass(run, candle, i, last) ==
    LET marked == SetMarketCandle(run, candle, i)
        synced == IF last THEN FlattenSession(marked, i) ELSE marked
        signalled == Signal(synced, candle, i)
    IN  IF last THEN CancelPendingEntry(signalled) ELSE signalled

\* BacktestEngine::run over the first n candles: the closed trades.
EngineRun(candles, n, flattens) ==
    LET runs[i \in 0 .. n] ==
            IF i = 0 THEN NoRun
            ELSE Pass(runs[i - 1], candles[i], i, LastOfSession(i, n, flattens))
    IN  runs[n].trades

\* split_windows: window w trains on candles 1 .. w * block and tests on the block after.
TooShort(len, windows) == windows = 0 \/ len < (windows + 1) * 2
Block(len, windows) == len \div (windows + 1)
TestStart(len, windows, w) == w * Block(len, windows) + 1
TestEnd(len, windows, w) == (w + 1) * Block(len, windows)

VARIABLES
    series,      \* what get_range returned
    asked,       \* the arguments: windows, the candle --holdout-from falls on (or Off), and
                 \* whether sessions are flattened (no --no-flatten)
    window,      \* the window being run
    results,     \* WalkForwardResult.windows
    oos,         \* oos_trades
    report       \* what is printed and persisted, or Off
walkVars == <<series, asked, window, results, oos, report>>

WalkInit ==
    /\ series \in UNION {[1 .. n -> Markets] : n \in 1 .. Len(Exits)}
    /\ asked = Off /\ window = 0
    /\ results = << >> /\ oos = << >>
    /\ report = Off

\* &candles[..idx]: what is left for the selection once the holdout is cut off.
Selection == IF asked.cut = Off THEN Len(series) ELSE asked.cut - 1

\* The arguments; a cut at the first candle, or after the last one, is refused.
Ask ==
    /\ asked = Off
    /\ \E windows \in 0 .. MaxWindows, cut \in (2 .. Len(series)) \cup {Off}, flatten \in BOOLEAN :
        asked' = [windows |-> windows, cut |-> cut, flatten |-> flatten]
    /\ window' = 1
    /\ UNCHANGED <<series, results, oos, report>>

RefuseSeries ==
    /\ asked # Off /\ report = Off
    /\ TooShort(Selection, asked.windows)
    /\ report' = [refused |-> TRUE]
    /\ UNCHANGED <<series, asked, window, results, oos>>

EnteredFrom(trades, start) == {t \in ToSet(trades) : t.entry >= start}

\* run_candles.
RunLength(w) == TestEnd(Selection, asked.windows, w)

RunWindow ==
    /\ asked # Off /\ report = Off
    /\ ~TooShort(Selection, asked.windows)
    /\ window <= asked.windows
    /\ LET start  == TestStart(Selection, asked.windows, window)
           trades == EngineRun(series, RunLength(window), asked.flatten)
           before == TradesIn(trades, ToSet(trades) \ EnteredFrom(trades, start))
           after  == TradesIn(trades, EnteredFrom(trades, start))
       IN  /\ results' = Append(results,
                [inSample    |-> FromTrades(before, Capital),
                 outOfSample |-> FromTrades(after, Capital)])
           /\ oos' = oos \o after
    /\ window' = window + 1
    /\ UNCHANGED <<series, asked, report>>

\* The holdout is one run over the whole series, of which the trades entered past the cut
\* count; the calendar is the days of the test blocks.
Holdout ==
    IF asked.cut = Off THEN << >>
    ELSE LET all == EngineRun(series, Len(series), asked.flatten)
         IN  TradesIn(all, EnteredFrom(all, asked.cut))
Calendar ==
    {Stamps[i].day : i \in TestStart(Selection, asked.windows, 1)
                            .. TestEnd(Selection, asked.windows, asked.windows)}

Finish ==
    /\ asked # Off /\ report = Off
    /\ ~TooShort(Selection, asked.windows)
    /\ window > asked.windows
    /\ report' = [figures  |-> FromTrades(oos, Capital),
                  sessions |-> Calendar,
                  holdout  |-> Holdout]
    /\ UNCHANGED <<series, asked, window, results, oos>>

WalkNext == Ask \/ RefuseSeries \/ RunWindow \/ Finish

WalkSpec == WalkInit /\ [][WalkNext]_walkVars

-----------------------------------------------------------------------------
\* The block a candle of the selection is tested in, 0 for the training block.
BlockOf(i) == (i - 1) \div Block(Selection, asked.windows)

Reported == report # Off /\ "figures" \in DOMAIN report

\* The trade that the end of a session closes exists only where the engine is given the
\* candle after it.
Seen(t) == t.reason = "end_of_day" => BlockOf(t.exit + 1) = BlockOf(t.exit)

\* The sample of the windows, put together from one run for each of them, is what a single
\* run says: each trade it enters and leaves inside one test block, once and in order, and
\* nothing of the training block, of the candles left over or of the holdout; no trade is
\* made up where a block cuts a session short (ADR-018), and the one that the end of a
\* session closes on the last candle of a block, for the run of that block still open,
\* counts nowhere.  The holdout is the trades entered past the cut, no day of a counted
\* trade is missing from the calendar, the figures of the whole are those of its trades,
\* and the trades counted window by window add up to it.
SampleKept ==
    Reported =>
        LET single == EngineRun(series, Len(series), asked.flatten)
            kept   == TradesIn(single, {t \in ToSet(single) :
                        /\ BlockOf(t.entry) \in 1 .. asked.windows
                        /\ BlockOf(t.exit) = BlockOf(t.entry)
                        /\ Seen(t)})
        IN  /\ oos = kept
            /\ FiguresAgree(report.figures, oos, Capital)
            /\ report.figures.total
                = Total([w \in DOMAIN results |-> results[w].outOfSample.total])
            /\ \A t \in ToSet(oos) : {Stamps[t.entry].day, t.day} \subseteq report.sessions
            /\ ToSet(report.holdout) \cap ToSet(oos) = {}
            /\ asked.cut # Off =>
                \A t \in ToSet(single) : t.entry >= asked.cut <=> t \in ToSet(report.holdout)
=============================================================================
