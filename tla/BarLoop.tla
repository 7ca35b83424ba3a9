------------------------------ MODULE BarLoop ------------------------------
(***************************************************************************)
(* The bar side of the live loop (run_live in                              *)
(* crates/trader-cli/src/commands/paper.rs): the cursor over closed bars,  *)
(* the guard that waits for a bar to settle, what is counted in bars (the  *)
(* validity of a stop entry, the exit by time of                           *)
(* trader-core/src/execution/time_exit.rs) and the circuit breaker.        *)
(*                                                                         *)
(* One process and one lot.  LiveOrders has the order lifecycle in full;   *)
(* here an order is an entry, then a position, then nothing.               *)
(***************************************************************************)
EXTENDS Integers, Sequences, FiniteSets

CONSTANTS
    MaxBars,      \* bound: bars of the session
    MaxLag,       \* bound: closed bars the loop has still to take
    MaxSettle,    \* MAX_BAR_SETTLE_POLLS
    MaxFailures,  \* LIVE_MAX_CONSECUTIVE_FAILURES
    Validity,     \* entry_validity_candles of the strategy
    Candles,      \* TimeExitConfig.candles
    MaxEntries,   \* bound: brackets sent
    Faults,       \* calls that fail now and then
    Outages       \* services that may go away for good

ASSUME BarLoopAssumption ==
    /\ MaxBars \in Nat /\ MaxLag \in Nat \ {0} /\ MaxSettle \in Nat
    /\ MaxFailures \in Nat \ {0} /\ Validity \in Nat \ {0} /\ Candles \in Nat \ {0}
    /\ MaxEntries \in Nat
    /\ Faults \subseteq {"feed", "query", "cancel", "close"}
    /\ Outages \subseteq {"feed", "broker"}

Bars == 1 .. MaxBars
\* A bar that closed comes as one print, then with part of its minutes, then
\* whole; it may stay at any of them.
Versions == {"flat", "partial", "whole"}
Rank == [v \in Versions |-> CASE v = "flat" -> 0 [] v = "partial" -> 1 [] OTHER -> 2]

VARIABLES
    \* the feed and the broker
    clock,        \* closed bars the feed lists
    feed,         \* the version it has of each
    good,         \* the close of the bar is min_r or more in favour
    trade,        \* at the broker: none, entry, position
    entries,      \* brackets sent; the last one is the trade
    news,         \* executions not drained yet
    outage,       \* the service that went away
    \* the loop
    pc, stopped,
    cursor,       \* last_processed; NoCursor before the first fetch
    i,            \* the bar under evaluation
    pending,      \* PendingBar
    failures,     \* consecutive_failures
    order, waited,        \* open_order is Some, its candles_waited
    open,                 \* the FillTracker is open
    te, byTime,           \* the TimeExitTracker, time_exit_triggered
    \* what happened, for the properties
    looks, seenAs,        \* polls that looked at bar i (up to MaxSettle + 1), the last version seen
    analyzed,             \* the last bar handed to the strategy
    waitedBars, heldBars  \* bars the pending entry and the position were alive at

feedVars  == <<clock, feed, good>>
tradeVars == <<trade, entries>>
fillVars  == <<order, waited, open>>
barVars   == <<cursor, i, pending>>
lookVars  == <<looks, seenAs>>
exitVars  == <<te, byTime>>
countVars == <<waitedBars, heldBars>>
vars == <<feedVars, tradeVars, news, outage, pc, stopped, barVars, failures,
          fillVars, exitVars, lookVars, analyzed, countVars>>

NoCursor == 0 - 1
NoPending == [bar |-> 0, version |-> "flat", polls |-> 0]
Idle == [tracking |-> FALSE, of |-> 0, candles |-> 0, validated |-> FALSE]

Init ==
    /\ clock = 0 /\ feed = [t \in Bars |-> "flat"] /\ good = [t \in Bars |-> FALSE]
    /\ trade \in {"none", "position"} /\ entries = 0 /\ news = <<>> /\ outage = "none"
    /\ pc = "idle" /\ stopped = FALSE
    /\ cursor = NoCursor /\ i = 0
    /\ pending = NoPending /\ failures = 0
    /\ order = FALSE /\ waited = 0 /\ open = FALSE /\ te = Idle /\ byTime = FALSE
    /\ looks = 0 /\ seenAs = "flat" /\ analyzed = 0 /\ waitedBars = {} /\ heldBars = {}

Up(service) == outage # service
May(fault) == fault \in Faults

-----------------------------------------------------------------------------
(* The feed and the broker.  The candles are fetched once a tick: what the  *)
(* feed does during a tick is for the next one, so it moves between them.   *)

CloseBar ==
    /\ pc = "idle"
    /\ clock < MaxBars /\ clock < cursor + MaxLag
    /\ clock' = clock + 1
    /\ \E v \in Versions, g \in BOOLEAN :
          /\ feed' = [feed EXCEPT ![clock + 1] = v]
          /\ good' = [good EXCEPT ![clock + 1] = g]
    /\ UNCHANGED tradeVars /\ UNCHANGED <<news, outage>>

\* A bar fills up.  What it does behind the cursor is not looked at.
Consolidate(t) ==
    /\ pc = "idle"
    /\ cursor < t /\ t <= clock
    /\ \E v \in Versions : Rank[v] > Rank[feed[t]] /\ feed' = [feed EXCEPT ![t] = v]
    /\ UNCHANGED <<clock, good, tradeVars, news, outage>>

FillEntry ==
    /\ trade = "entry"
    /\ trade' = "position"
    /\ news' = Append(news, "in")
    /\ UNCHANGED <<feedVars, entries, outage>>

\* The entry is rejected after it was accepted, and nothing says so.
RejectEntry ==
    /\ trade = "entry"
    /\ trade' = "none"
    /\ UNCHANGED <<feedVars, entries, news, outage>>

\* The stop, the target or a market close.
FillExit ==
    /\ trade = "position"
    /\ trade' = "none"
    /\ news' = Append(news, "out")
    /\ UNCHANGED <<feedVars, entries, outage>>

GoAway ==
    /\ outage = "none"
    /\ outage' \in Outages
    /\ UNCHANGED <<feedVars, tradeVars, news>>

Market ==
    /\ \/ CloseBar \/ \E t \in Bars : Consolidate(t)
       \/ FillEntry \/ RejectEntry \/ FillExit
       \/ GoAway
    /\ UNCHANGED <<pc, stopped, barVars, failures, fillVars, exitVars, lookVars, analyzed, countVars>>

-----------------------------------------------------------------------------
(* The top of the tick *)

\* drain_order_events: with an order tracked the executions of one lot open
\* and close the tracker in turn, and the one that closes it drops the order.
Drain ==
    /\ pc = "idle" /\ ~ stopped /\ news # <<>>
    /\ news' = Tail(news)
    /\ open' = (order /\ ~ open)
    /\ IF order /\ open
       THEN order' = FALSE /\ waited' = 0 /\ byTime' = FALSE
       ELSE UNCHANGED <<order, waited, byTime>>
    /\ waitedBars' = {}
    /\ heldBars' = {}
    /\ UNCHANGED <<feedVars, tradeVars, outage, pc, stopped, barVars, failures, te,
                   lookVars, analyzed>>

\* A failure is counted and the breaker checked: true when the loop ends.
Trips == failures + 1 >= MaxFailures
CountFailure(next) ==
    /\ failures' = failures + 1
    /\ stopped' = Trips
    /\ pc' = IF Trips THEN "idle" ELSE next

FailureForgotten ==                 \* mutant: a failed fetch is not counted
    /\ pc = "idle" /\ ~ stopped
    /\ ~ Up("feed") \/ May("feed")
    /\ UNCHANGED vars

FetchFails ==
    /\ pc = "idle" /\ ~ stopped
    /\ ~ Up("feed") \/ May("feed")
    /\ CountFailure("idle")
    /\ UNCHANGED <<feedVars, tradeVars, news, outage, barVars, fillVars, exitVars, lookVars,
                   analyzed, countVars>>

\* The first fetch only takes the cursor to the last closed bar.  What happened
\* before the tick has been drained (LiveOrders has the lag of the poll).
Fetch ==
    /\ pc = "idle" /\ ~ stopped /\ news = <<>>
    /\ Up("feed")
    /\ failures' = 0
    /\ IF cursor = NoCursor
       THEN cursor' = clock /\ UNCHANGED <<i, pc>>
       ELSE /\ i' = cursor + 1
            /\ pc' = IF cursor < clock THEN "bar" ELSE "idle"
            /\ UNCHANGED cursor
    /\ UNCHANGED <<feedVars, tradeVars, news, outage, stopped, pending, fillVars, exitVars,
                   lookVars, analyzed, countVars>>

-----------------------------------------------------------------------------
(* One bar *)

\* last_processed = bar, then the next bar of the fetch or the next tick.
Advance ==
    /\ cursor' = i
    /\ i' = i + 1
    /\ pc' = IF i < clock THEN "bar" ELSE "idle"
    /\ looks' = 0 /\ seenAs' = "flat"

SameAsPending == pending.bar = i /\ pending.version = feed[i]
NoPolls == 0        \* mutant: a poll is not counted
PollsOf == IF pending.bar = i THEN pending.polls + 1 ELSE 0

\* The guard lets a bar through when two polls saw the same of it, or when it
\* waited long enough; one print is never enough.
SettledOnce == feed[i] # "flat"     \* mutant: the first version is good enough
Settled == feed[i] # "flat" /\ (SameAsPending \/ PollsOf > MaxSettle)

WaitForBar ==
    /\ pc = "bar"
    /\ ~ Settled /\ ~ (feed[i] = "flat" /\ PollsOf > MaxSettle)
    /\ pending' = [bar |-> i, version |-> feed[i], polls |-> PollsOf]
    /\ looks' = (IF looks > MaxSettle THEN looks ELSE looks + 1) /\ seenAs' = feed[i]
    /\ pc' = "idle"
    /\ UNCHANGED <<feedVars, tradeVars, news, outage, stopped, cursor, i,
                   failures, fillVars, exitVars, analyzed, countVars>>

\* It never consolidated: the bar is given up.
AbandonBar ==
    /\ pc = "bar"
    /\ feed[i] = "flat" /\ PollsOf > MaxSettle
    /\ pending' = NoPending
    /\ Advance
    /\ UNCHANGED <<feedVars, tradeVars, news, outage, stopped, failures, fillVars, exitVars,
                   analyzed, countVars>>

TakeBar ==
    /\ pc = "bar"
    /\ Settled
    /\ pending' = NoPending
    /\ pc' = "expire"
    /\ UNCHANGED <<feedVars, tradeVars, news, outage, stopped, cursor, i,
                   failures, fillVars, exitVars, lookVars, analyzed, countVars>>

\* expire_stale_stop_entry.  waited is only compared with Validity: it counts
\* no further.
KeepEntry ==
    /\ pc = "expire"
    /\ IF open \/ ~ order
       THEN UNCHANGED <<waited, waitedBars>>
       ELSE /\ waited' = IF waited < Validity THEN waited + 1 ELSE waited
            /\ waitedBars' = waitedBars \cup {i}
            /\ \/ waited' < Validity
               \/ trade # "entry" \/ ~ Up("broker") \/ May("cancel")   \* the cancel failed
    /\ pc' = "position"
    /\ UNCHANGED <<feedVars, tradeVars, news, outage, stopped, barVars, failures, order,
                   open, exitVars, lookVars, analyzed, heldBars>>

ExpireEntry ==
    /\ pc = "expire"
    /\ order /\ ~ open
    /\ waited + 1 >= Validity
    /\ trade = "entry" /\ Up("broker")
    /\ trade' = "none"
    /\ order' = FALSE /\ waited' = 0
    /\ waitedBars' = {}
    /\ Advance
    /\ UNCHANGED <<feedVars, entries, news, outage, stopped, pending, failures, open, exitVars,
                   analyzed, heldBars>>

\* ensure_tracking and on_candle_close of the TimeExitTracker.
Armed == IF te.tracking THEN te
         ELSE [tracking |-> TRUE, of |-> entries, candles |-> 0, validated |-> FALSE]
Counted == [Armed EXCEPT !.candles = @ + 1, !.validated = @ \/ good[i]]
FiresAnyway(t) == t.candles >= Candles        \* mutant: the validation is forgotten
Fires(t) == ~ t.validated /\ t.candles >= Candles

\* get_position failed: the exit by time is skipped, the bar goes on.
PositionFails ==
    /\ pc = "position"
    /\ ~ Up("broker") \/ May("query")
    /\ CountFailure("exposure")
    /\ UNCHANGED <<feedVars, tradeVars, news, outage, barVars, fillVars, exitVars, lookVars,
                   analyzed, countVars>>

\* No position, or one that is not tracked: the exit by time is disarmed.
Disarm ==
    /\ pc = "position" /\ Up("broker")
    /\ trade # "position" \/ ~ open
    /\ te' = Idle
    /\ pc' = "exposure"
    /\ UNCHANGED <<feedVars, tradeVars, news, outage, stopped, barVars, failures, fillVars, byTime,
                   lookVars, analyzed, countVars>>

CountCandle ==
    /\ pc = "position" /\ Up("broker")
    /\ trade = "position" /\ open
    /\ ~ Fires(Counted)
    /\ te' = Counted
    /\ heldBars' = heldBars \cup {i}
    /\ pc' = "exposure"
    /\ UNCHANGED <<feedVars, tradeVars, news, outage, stopped, barVars, failures, fillVars, byTime,
                   lookVars, analyzed, waitedBars>>

\* close_position_at_market: sent, or the failure is counted and te stays.
CloseByTime ==
    /\ pc = "position" /\ Up("broker")
    /\ trade = "position" /\ open
    /\ Fires(Counted)
    /\ heldBars' = heldBars \cup {i}
    /\ \/ te' = Idle /\ byTime' = TRUE /\ pc' = "exposure" /\ UNCHANGED <<failures, stopped>>
       \/ May("close") /\ te' = Counted /\ UNCHANGED byTime /\ CountFailure("exposure")
    /\ UNCHANGED <<feedVars, tradeVars, news, outage, barVars, fillVars, lookVars, analyzed,
                   waitedBars>>

\* find_exposure failed: the tick ends and the cursor stays.
ExposureFails ==
    /\ pc = "exposure"
    /\ ~ Up("broker") \/ May("query")
    /\ CountFailure("idle")
    /\ looks' = 0 /\ seenAs' = "flat"
    /\ UNCHANGED <<feedVars, tradeVars, news, outage, barVars, fillVars, exitVars, analyzed,
                   countVars>>

\* An exposure ends the tick, with the bar done.
Exposed ==
    /\ pc = "exposure" /\ Up("broker")
    /\ trade # "none"
    /\ cursor' = i
    /\ pc' = "idle"
    /\ looks' = 0 /\ seenAs' = "flat"
    /\ UNCHANGED <<feedVars, tradeVars, news, outage, stopped, i, pending,
                   failures, fillVars, exitVars, analyzed, countVars>>

NotExposed ==
    /\ pc = "exposure" /\ Up("broker")
    /\ trade = "none"
    /\ pc' = "analyze"
    /\ UNCHANGED <<feedVars, tradeVars, news, outage, stopped, barVars, failures, fillVars,
                   exitVars, lookVars, analyzed, countVars>>

\* analyze_and_execute: no setup, a refusal or an error, or a bracket; the bar
\* is done in every case.
AnalyzeAgain ==                     \* mutant: the cursor stays when nothing was sent
    /\ pc = "analyze"
    /\ analyzed' = i
    /\ pc' = "idle"
    /\ looks' = 0 /\ seenAs' = "flat"
    /\ UNCHANGED <<feedVars, tradeVars, news, outage, stopped, barVars, failures, fillVars,
                   exitVars, countVars>>

NoEntry ==
    /\ pc = "analyze"
    /\ analyzed' = i
    /\ Advance
    /\ UNCHANGED <<feedVars, tradeVars, news, outage, stopped, pending, failures, fillVars,
                   exitVars, countVars>>

SendKeepsCount ==                   \* mutant: candles_waited goes over to the new order
    /\ pc = "analyze" /\ Up("broker") /\ entries < MaxEntries /\ trade = "none"
    /\ analyzed' = i
    /\ trade' = "entry" /\ entries' = entries + 1
    /\ order' = TRUE
    /\ waitedBars' = {}
    /\ Advance
    /\ UNCHANGED <<feedVars, news, outage, stopped, pending, failures, open, exitVars, waited,
                   heldBars>>

SendEntry ==
    /\ pc = "analyze" /\ Up("broker") /\ entries < MaxEntries /\ trade = "none"
    /\ analyzed' = i
    /\ trade' = "entry" /\ entries' = entries + 1
    /\ order' = TRUE /\ waited' = 0
    /\ waitedBars' = {}
    /\ Advance
    /\ UNCHANGED <<feedVars, news, outage, stopped, pending, failures, open, exitVars, heldBars>>

-----------------------------------------------------------------------------
Guard == WaitForBar \/ AbandonBar \/ TakeBar
Manage == KeepEntry \/ ExpireEntry \/ PositionFails \/ Disarm \/ CountCandle \/ CloseByTime
Decide == ExposureFails \/ Exposed \/ NotExposed \/ NoEntry \/ SendEntry

Tick == Drain \/ FetchFails \/ Fetch \/ Guard \/ Manage \/ Decide

Next == Market \/ Tick

Spec == Init /\ [][Next]_vars

\* The loop goes on as long as it has not stopped itself.
FairSpec == Spec /\ WF_vars(Tick)

-----------------------------------------------------------------------------
(* Properties *)

TypeOK ==
    /\ clock \in 0 .. MaxBars /\ feed \in [Bars -> Versions] /\ good \in [Bars -> BOOLEAN]
    /\ trade \in {"none", "entry", "position"} /\ entries \in 0 .. MaxEntries
    /\ news \in Seq({"in", "out"}) /\ outage \in {"none", "feed", "broker"}
    /\ pc \in {"idle", "bar", "expire", "position", "exposure", "analyze"}
    /\ stopped \in BOOLEAN
    /\ cursor \in NoCursor .. clock /\ i \in 0 .. MaxBars + 1 
    /\ pending \in [bar : 0 .. MaxBars, version : Versions, polls : 0 .. MaxSettle]
    /\ failures \in 0 .. MaxFailures
    /\ order \in BOOLEAN /\ waited \in 0 .. Validity /\ open \in BOOLEAN
    /\ te \in [tracking : BOOLEAN, of : 0 .. MaxEntries, candles : Nat, validated : BOOLEAN]
    /\ byTime \in BOOLEAN
    /\ looks \in 0 .. MaxSettle + 1 /\ seenAs \in Versions
    /\ analyzed \in 0 .. MaxBars /\ waitedBars \subseteq Bars /\ heldBars \subseteq Bars

\* "so e operada quando os valores param de mudar entre duas polls": a bar that
\* counts or is traded is not a single print, and the poll before saw the same
\* of it or the loop waited for it as long as it waits for any.
SettledBeforeUse ==
    [][pc = "bar" /\ pc' = "expire" =>
          feed[i] # "flat" /\ ((looks > 0 /\ seenAs = feed[i]) \/ looks > MaxSettle)]_vars

\* The strategy sees every bar at most once and in order, whichever call fails:
\* the same setup is never sent twice.
EvaluatedOnce ==
    [][pc = "analyze" /\ pc' # pc => analyzed < i]_vars

\* A stop entry is cancelled only after as many bars as its validity went by.
EntryLivesItsCandles ==
    [][trade = "entry" /\ trade' = "none" /\ pc = "expire" /\ pc' # pc =>
          Cardinality(waitedBars \cup {i}) >= Validity]_vars

\* The exit by time closes the position it was armed for, after as many bars as
\* its window and with none of them min_r in favour.
ExitsByItsOwnClock ==
    [][byTime' /\ ~ byTime =>
          /\ Armed.of = entries
          /\ Cardinality(heldBars') >= Candles
          /\ \A t \in heldBars' : ~ good[t]]_vars

\* The loop catches up with the bars of the feed again and again, or it has
\* stopped; a broker that is gone holds it at its bar.
BarsConsumed == []<>(cursor = clock \/ stopped \/ ~ Up("broker"))

\* "o live encerra com erro em vez de ficar morto em silencio": a loop whose
\* data, or whose reconciliation, goes on failing stops itself.
FeedFails == pc = "idle" /\ ~ Up("feed")
ReconciliationFails == pc = "exposure" /\ ~ Up("broker")
DataBreakerTrips == []<>FeedFails => <>stopped
BrokerBreakerTrips == []<>ReconciliationFails => <>stopped
=============================================================================
