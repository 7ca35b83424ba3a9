----------------------------- MODULE LiveOrders -----------------------------
(***************************************************************************)
(* The order lifecycle of the live loop of `trader paper --broker ibkr`    *)
(* (crates/trader-cli/src/commands/paper.rs), for one symbol and one       *)
(* trading day: the processes that trade it (some symbols have two), the   *)
(* account at IBKR they share and the Postgres database they share.        *)
(*                                                                         *)
(* Every await of the loop that reads or writes shared state is an action  *)
(* of its own, so fills, the executions poll, the other process and a      *)
(* crash may come between any two of them.  Setups are long (the code is   *)
(* symmetric in the side); shares are counted in lots, one per execution.  *)
(***************************************************************************)
EXTENDS Integers, Sequences, FiniteSets, FiniteSetsExt

CONSTANTS
    Bots,        \* the processes (containers) that trade the symbol
    NoBot,       \* nobody: the owner of a bracket that was not sent
    MaxOrders,   \* bound: brackets sent in the day
    Qty,         \* lots of a bracket
    MaxExecs,    \* bound: executions of the day
    MaxMarket,   \* bound: lots of closes a process sent and was told failed
    MaxBars,     \* bound: bars a process evaluates
    MaxCrashes,  \* bound: restarts of a process
    Validity,    \* entry_validity_candles of the strategy
    MaxTrades,   \* max_trades_per_day of the risk section
    ActiveExit,  \* the strategy closes positions by time
    Faults       \* which calls may fail in the run

FaultKinds == {"db", "poll", "send", "cancel", "query", "reject"}

ASSUME LiveOrdersAssumption ==
    /\ NoBot \notin Bots
    /\ MaxOrders \in Nat \ {0} /\ Qty \in Nat \ {0} /\ MaxExecs \in Nat /\ MaxMarket \in Nat
    /\ MaxBars \in Nat /\ MaxCrashes \in Nat
    /\ Validity \in Nat \ {0} /\ MaxTrades \in Nat
    /\ ActiveExit \in BOOLEAN
    /\ Faults \subseteq FaultKinds

Orders == 1 .. MaxOrders
None == 0                       \* no bracket
Sides == {"buy", "sell"}

VARIABLES
    \* the account at the broker
    owner,          \* the process whose client id sent the bracket
    bracket,        \* where the bracket stands
    held,           \* lots the bracket bought and its legs have not sold
    mkt,            \* lots of the working market closes of each process
    stop,           \* lots of the stops the watchdog of each process put back
    pos,            \* net position of the account in the symbol
    execs,          \* executions of the day, oldest first
    phase,          \* the session: open, the flatten window, closed
    \* the database
    dbOrder,        \* status of the row of the bracket in orders
    dbFill,         \* the orders row the execution was saved under
    dbTrades,       \* rows of trades, each the executions it aggregates
    late,           \* history: orders an execution was saved under after a later one
    dbSignals,      \* executed signals of the day
    \* the memory of each process: LiveFillState, RiskState and the tick
    pc,
    open_order, waited,
    direction, lots,    \* the FillTracker: the executions of the open trade
    pend,               \* those of the trade that finalize_live_trade is saving
    degraded,
    counted,        \* trades in daily_pnl and consecutive_losses
    daily_trades,
    flattened,      \* flattened_on = today
    alerted,        \* the event untracked_position was raised
    unprotected,    \* unprotected_streak
    rq, att, why,   \* the position that was read; locals of close_position_at_market
    placing, sig,   \* locals of analyze_and_execute after the send
    seen, chan,     \* the executions poll and its channel
    bars, crashes   \* counters of the bounds

brokerVars == <<owner, bracket, held, mkt, stop, pos, execs, phase>>
dbVars     == <<dbOrder, dbFill, dbTrades, late, dbSignals>>
trackVars  == <<open_order, waited, direction, lots, pend>>
riskVars   == <<counted, daily_trades>>
flagVars   == <<flattened, alerted, unprotected>>
closeVars  == <<rq, att, why>>
sendVars   == <<placing, sig>>
feedVars   == <<seen, chan>>
boundVars  == <<bars, crashes>>
vars == <<brokerVars, dbVars, trackVars, riskVars, degraded, flagVars,
          closeVars, sendVars, feedVars, boundVars, pc>>

Steps == {"down", "drain", "saveTrade", "closeOrder", "flatten", "flatPos",
          "close", "recheck", "cancelLegs", "probe", "bar", "expire",
          "markExpired", "position", "watch", "restop", "exposure", "orders", "analyze",
          "signal", "place", "saveSignal", "saveOrder"}

BracketStates == {"unsent", "entry", "parent", "legs", "bare", "dead"}
EntryWorking == {"entry", "parent"}     \* the buy is at the broker
LegsListed   == {"entry", "legs"}       \* the sells are at the broker
Working      == EntryWorking \cup LegsListed

-----------------------------------------------------------------------------
(* Reading the broker and the tracker *)

Own(b) == {o \in Orders : owner[o] = b}

\* mutant: the entry that waits is no order of a position yet
LegsOnly(b) == {o \in Own(b) : bracket[o] \in LegsListed /\ held[o] > 0}

\* collect_open_orders: a client id sees only its own working orders.
OpenOrders(b) == {o \in Own(b) : bracket[o] \in Working}
ClosesOnly(b) == \E s \in Sides : mkt[b][s] > 0     \* mutant: brackets overlooked
HasOpenOrder(b) == OpenOrders(b) # {} \/ \E s \in Sides : mkt[b][s] > 0 \/ stop[b][s] > 0

ExitSide(n) == IF n > 0 THEN "sell" ELSE "buy"
Shares(n) == IF n > 0 THEN n ELSE 0 - n

\* The process's own brackets with a working order on side s.
OnSide(b, s) ==
    {o \in Own(b) : bracket[o] \in IF s = "sell" THEN LegsListed
                                                 ELSE EntryWorking}

\* What a bracket becomes when its entry is cancelled: the legs go with it.
EntryCancelled(o) == IF held[o] > 0 THEN "bare" ELSE "dead"

\* What a bracket becomes when its exit-side orders are cancelled.
ExitCancelled(o, s) ==
    IF s = "buy" THEN EntryCancelled(o)
    ELSE IF bracket[o] = "entry" THEN "parent" ELSE "bare"

\* FillTracker: the first fill gives the direction; the trade closes when
\* the fills of the other side cover those of that side.
LotsOn(L, s) == Cardinality({e \in L : execs[e].side = s})
OtherSide(s) == IF s = "buy" THEN "sell" ELSE "buy"
Closes(L, d) == LotsOn(L, OtherSide(d)) >= LotsOn(L, d)
IsOpen(b) == direction[b] # "none"

\* recover_open_order feeds the saved fills of the order, oldest first, to an
\* empty tracker and drops the trades that close: what is left is what comes
\* after the last fill at which they balance.
SavedFills(o) == {e \in 1 .. Len(execs) : dbFill[e] = o}
Balanced(L) == LotsOn(L, "buy") = LotsOn(L, "sell")
ReplayAll(o) == SavedFills(o)       \* mutant: what has closed is not dropped
Replay(o) ==
    LET S == SavedFills(o)
        flat == {e \in S : Balanced({f \in S : f <= e})}
    IN  {e \in S : \A f \in flat : e > f}
ReplayDirection(o) == IF Replay(o) = {} THEN "none" ELSE execs[Min(Replay(o))].side

-----------------------------------------------------------------------------
Init ==
    /\ owner = [o \in Orders |-> NoBot]
    /\ bracket = [o \in Orders |-> "unsent"]
    /\ held = [o \in Orders |-> 0]
    /\ mkt = [b \in Bots |-> [s \in Sides |-> 0]]
    /\ stop = [b \in Bots |-> [s \in Sides |-> 0]]
    /\ pos = 0 /\ execs = <<>> /\ phase = "open"
    /\ dbOrder = [o \in Orders |-> "none"]
    /\ dbFill = [e \in 1 .. MaxExecs |-> None]
    /\ dbTrades = {} /\ late = {} /\ dbSignals = 0
    /\ pc = [b \in Bots |-> "down"]
    /\ open_order = [b \in Bots |-> None]
    /\ waited = [b \in Bots |-> 0]
    /\ direction = [b \in Bots |-> "none"]
    /\ lots = [b \in Bots |-> {}]
    /\ pend = [b \in Bots |-> {}]
    /\ degraded = [b \in Bots |-> FALSE]
    /\ counted = [b \in Bots |-> {}]
    /\ daily_trades = [b \in Bots |-> 0]
    /\ flattened = [b \in Bots |-> FALSE]
    /\ alerted = [b \in Bots |-> FALSE]
    /\ unprotected = [b \in Bots |-> 0]
    /\ rq = [b \in Bots |-> 0]
    /\ att = [b \in Bots |-> 0]
    /\ why = [b \in Bots |-> "none"]
    /\ placing = [b \in Bots |-> None]
    /\ sig = [b \in Bots |-> FALSE]
    /\ seen = [b \in Bots |-> 0]
    /\ chan = [b \in Bots |-> <<>>]
    /\ bars = [b \in Bots |-> 0]
    /\ crashes = [b \in Bots |-> 0]

At(b, step) == pc[b] = step
Go(b, step) == pc' = [pc EXCEPT ![b] = step]
Fault(kind) == kind \in Faults

-----------------------------------------------------------------------------
(* The broker: what the account does on its own *)

Execute(b, o, s) ==
    /\ phase # "closed"
    /\ Len(execs) < MaxExecs
    /\ execs' = Append(execs, [by |-> b, ord |-> o, side |-> s])
    /\ pos' = IF s = "buy" THEN pos + 1 ELSE pos - 1

\* The market trades through the stop entry, one lot at a time.
FillEntry(o) ==
    /\ bracket[o] \in EntryWorking
    /\ Execute(owner[o], o, "buy")
    /\ held' = [held EXCEPT ![o] = @ + 1]
    /\ bracket' = [bracket EXCEPT ![o] =
                     IF held[o] + 1 < Qty THEN @
                     ELSE IF @ = "entry" THEN "legs" ELSE "bare"]
    /\ UNCHANGED <<owner, mkt, stop, phase>>

\* The stop or the target trades; the leg left over goes with the last lot.
FillLeg(o) ==
    /\ bracket[o] = "legs"
    /\ Execute(owner[o], o, "sell")
    /\ held' = [held EXCEPT ![o] = @ - 1]
    /\ bracket' = [bracket EXCEPT ![o] = IF held[o] = 1 THEN "dead" ELSE @]
    /\ UNCHANGED <<owner, mkt, stop, phase>>

FillMarket(b, s) ==
    /\ mkt[b][s] > 0
    /\ Execute(b, None, s)
    /\ mkt' = [mkt EXCEPT ![b][s] = @ - 1]
    /\ UNCHANGED <<owner, bracket, held, stop, phase>>

FillStop(b, s) ==
    /\ stop[b][s] > 0
    /\ Execute(b, None, s)
    /\ stop' = [stop EXCEPT ![b][s] = @ - 1]
    /\ UNCHANGED <<owner, bracket, held, mkt, phase>>

\* An order that was accepted is rejected later, without a word to the bot.
RejectEntry(o) ==
    /\ Fault("reject")
    /\ bracket[o] \in EntryWorking /\ held[o] = 0
    /\ bracket' = [bracket EXCEPT ![o] = "dead"]
    /\ UNCHANGED <<owner, held, mkt, stop, pos, execs, phase>>

RejectLegs(o) ==
    /\ Fault("reject")
    /\ bracket[o] = "legs"
    /\ bracket' = [bracket EXCEPT ![o] = "bare"]
    /\ UNCHANGED <<owner, held, mkt, stop, pos, execs, phase>>

\* 15:55 in New York.  The strategies' windows end at 15:30 at the latest, so
\* no process is sending an entry.
OpenFlattenWindow ==
    /\ phase = "open"
    /\ \A b \in Bots : pc[b] \notin {"analyze", "signal", "place", "saveSignal", "saveOrder"}
    /\ phase' = "flatten"
    /\ UNCHANGED <<owner, bracket, held, mkt, stop, pos, execs>>

\* 16:00: brackets and stops are TIF Day and expire.  Five minutes are ten
\* ticks and more than a market order needs: each process that is up has
\* finished its flatten and the closes it sent have traded.
Bell ==
    /\ phase = "flatten"
    /\ \A b \in Bots : /\ At(b, "down") \/ flattened[b]
                       /\ \A s \in Sides : mkt[b][s] = 0
    /\ phase' = "closed"
    /\ bracket' = [o \in Orders |-> IF bracket[o] \in Working
                                    THEN EntryCancelled(o) ELSE bracket[o]]
    /\ stop' = [b \in Bots |-> [s \in Sides |-> 0]]
    /\ UNCHANGED <<owner, held, mkt, pos, execs>>

Broker ==
    /\ \/ \E o \in Orders : FillEntry(o) \/ FillLeg(o) \/ RejectEntry(o) \/ RejectLegs(o)
       \/ \E b \in Bots, s \in Sides : FillMarket(b, s) \/ FillStop(b, s)
       \/ OpenFlattenWindow
       \/ Bell
    /\ UNCHANGED <<dbVars, trackVars, riskVars, degraded, flagVars, closeVars,
                   sendVars, feedVars, boundVars, pc>>

-----------------------------------------------------------------------------
(* The executions poll: a task beside the loop, with a memory of its own *)

\* mutant: the poll ends with the session
PollInSession(b) ==
    /\ ~ At(b, "down") /\ phase # "closed"
    /\ seen[b] < Len(execs)
    /\ seen' = [seen EXCEPT ![b] = Len(execs)]
    /\ chan' = [chan EXCEPT ![b] = @ \o [i \in 1 .. Len(execs) - seen[b] |-> seen[b] + i]]
    /\ UNCHANGED <<brokerVars, dbVars, trackVars, riskVars, degraded, flagVars,
                   closeVars, sendVars, boundVars, pc>>

\* fetch_today_executions asks for the executions of the whole ACCOUNT.
Poll(b) ==
    /\ ~ At(b, "down")
    /\ seen[b] < Len(execs)
    /\ seen' = [seen EXCEPT ![b] = Len(execs)]
    /\ chan' = [chan EXCEPT ![b] = @ \o [i \in 1 .. Len(execs) - seen[b] |-> seen[b] + i]]
    /\ UNCHANGED <<brokerVars, dbVars, trackVars, riskVars, degraded, flagVars,
                   closeVars, sendVars, boundVars, pc>>

\* The stream breaks after n executions: they are in `seen`, the batch is lost.
PollBreaks(b) ==
    /\ Fault("poll")
    /\ ~ At(b, "down")
    /\ \E n \in seen[b] + 1 .. Len(execs) : seen' = [seen EXCEPT ![b] = n]
    /\ UNCHANGED <<brokerVars, dbVars, trackVars, riskVars, degraded, flagVars,
                   closeVars, sendVars, chan, boundVars, pc>>

-----------------------------------------------------------------------------
(* Boot and crash *)

OpenRows == {o \in Orders : dbOrder[o] \in {"open", "orphan"}}

\* list_open is newest first and the search is by symbol alone; a row without
\* its signal is not recoverable.
Recoverable == IF OpenRows # {} /\ dbOrder[Max(OpenRows)] = "open"
               THEN Max(OpenRows) ELSE None

\* rebuild_risk_state: a query that fails leaves its part of the state at zero.
ForgottenTrades == {{}}          \* mutant: the trades of the day are not read
RebuiltTrades == {dbTrades} \cup (IF Fault("db") THEN {{}} ELSE {})

ForgottenSignals == {0}          \* mutant: the signals of the day are not read
RebuiltSignals == {dbSignals} \cup (IF Fault("db") THEN {0} ELSE {})

\* Each of the three queries of the boot fails on its own, and the boot goes on.
Boot(b) ==
    /\ At(b, "down")
    /\ \E o \in {Recoverable} \cup (IF Fault("db") THEN {None} ELSE {}) :
          /\ open_order' = [open_order EXCEPT ![b] = o]
          /\ lots' = [lots EXCEPT ![b] = IF o = None THEN {} ELSE Replay(o)]
          /\ direction' = [direction EXCEPT ![b] =
                              IF o = None THEN "none" ELSE ReplayDirection(o)]
    /\ \E T \in RebuiltTrades : counted' = [counted EXCEPT ![b] = T]
    /\ \E n \in RebuiltSignals : daily_trades' = [daily_trades EXCEPT ![b] = n]
    /\ Go(b, "drain")
    /\ UNCHANGED <<brokerVars, dbVars, waited, pend, degraded, flagVars,
                   closeVars, sendVars, feedVars, boundVars>>

\* The process stops between any two of its calls, and forgets.
Crash(b) ==
    /\ ~ At(b, "down")
    /\ crashes[b] < MaxCrashes
    /\ crashes' = [crashes EXCEPT ![b] = @ + 1]
    /\ Go(b, "down")
    /\ open_order' = [open_order EXCEPT ![b] = None]
    /\ waited' = [waited EXCEPT ![b] = 0]
    /\ direction' = [direction EXCEPT ![b] = "none"]
    /\ lots' = [lots EXCEPT ![b] = {}]
    /\ pend' = [pend EXCEPT ![b] = {}]
    /\ degraded' = [degraded EXCEPT ![b] = FALSE]
    /\ counted' = [counted EXCEPT ![b] = {}]
    /\ daily_trades' = [daily_trades EXCEPT ![b] = 0]
    /\ flattened' = [flattened EXCEPT ![b] = FALSE]
    /\ rq' = [rq EXCEPT ![b] = 0]
    /\ att' = [att EXCEPT ![b] = 0]
    /\ why' = [why EXCEPT ![b] = "none"]
    /\ placing' = [placing EXCEPT ![b] = None]
    /\ sig' = [sig EXCEPT ![b] = FALSE]
    /\ seen' = [seen EXCEPT ![b] = 0]
    /\ chan' = [chan EXCEPT ![b] = <<>>]
    /\ unprotected' = [unprotected EXCEPT ![b] = 0]
    /\ UNCHANGED <<brokerVars, dbVars, alerted, bars>>

-----------------------------------------------------------------------------
(* The tick, part 1: drain_order_events and finalize_live_trade *)

NextFill(b, e) ==
    /\ At(b, "drain") /\ chan[b] # <<>>
    /\ e = Head(chan[b])
    /\ chan' = [chan EXCEPT ![b] = Tail(@)]

\* open_order without a row: order_db_id is None.
TrackedOrNot(b) == dbOrder[Max({1, open_order[b]})] # "none"   \* mutant: no order asked for
Tracked(b) == open_order[b] # None /\ dbOrder[open_order[b]] # "none"

DropFill(b) ==
    /\ \E e \in 1 .. MaxExecs : NextFill(b, e)
    /\ ~ Tracked(b)
    /\ UNCHANGED <<brokerVars, dbVars, trackVars, riskVars, degraded, flagVars,
                   closeVars, sendVars, seen, boundVars, pc>>

\* mutant: the fill that was not saved reaches the tracker
FeedUnsaved(b) ==
    /\ Fault("db")
    /\ \E e \in 1 .. MaxExecs :
          /\ NextFill(b, e)
          /\ lots' = [lots EXCEPT ![b] = @ \cup {e}]
    /\ Tracked(b)
    /\ degraded' = [degraded EXCEPT ![b] = TRUE]
    /\ UNCHANGED <<brokerVars, dbVars, open_order, waited, direction, pend, riskVars,
                   flagVars, closeVars, sendVars, seen, boundVars, pc>>

\* The insert fails: the fill is discarded and entries are suspended.
LoseFill(b) ==
    /\ Fault("db")
    /\ \E e \in 1 .. MaxExecs : NextFill(b, e)
    /\ Tracked(b)
    /\ degraded' = [degraded EXCEPT ![b] = TRUE]
    /\ UNCHANGED <<brokerVars, dbVars, trackVars, riskVars, flagVars, closeVars,
                   sendVars, seen, boundVars, pc>>

\* ON CONFLICT (broker_fill_id) DO NOTHING: a replay of the day.
SkipFill(b) ==
    /\ \E e \in 1 .. MaxExecs : NextFill(b, e) /\ dbFill[e] # None
    /\ Tracked(b)
    /\ UNCHANGED <<brokerVars, dbVars, trackVars, riskVars, degraded, flagVars,
                   closeVars, sendVars, seen, boundVars, pc>>

\* The fill is saved under the order that is tracked, whichever order it is of.
RecordFill(b) ==
    \E e \in 1 .. MaxExecs :
      LET L == lots[b] \cup {e}
          d == IF IsOpen(b) THEN direction[b] ELSE execs[e].side
      IN  /\ NextFill(b, e) /\ dbFill[e] = None
          /\ Tracked(b)
          /\ dbFill' = [dbFill EXCEPT ![e] = open_order[b]]
          /\ late' = late \cup {o \in {open_order[b]} : \E f \in SavedFills(o) : f > e}
          /\ IF Closes(L, d)
             THEN /\ direction' = [direction EXCEPT ![b] = "none"]
                  /\ lots' = [lots EXCEPT ![b] = {}]
                  /\ pend' = [pend EXCEPT ![b] = L]
                  /\ Go(b, "saveTrade")
             ELSE /\ direction' = [direction EXCEPT ![b] = d]
                  /\ lots' = [lots EXCEPT ![b] = L]
                  /\ UNCHANGED <<pend, pc>>
          /\ UNCHANGED <<brokerVars, dbOrder, dbTrades, dbSignals, open_order,
                         waited, riskVars, degraded, flagVars, closeVars,
                         sendVars, seen, boundVars>>

\* mutant: a trade that the flatten closed is not saved
SaveOwnExits(b) ==
    /\ At(b, "saveTrade")
    /\ dbTrades' = IF flattened[b] THEN dbTrades ELSE dbTrades \cup {pend[b]}
    /\ Go(b, "closeOrder")
    /\ UNCHANGED <<brokerVars, dbOrder, dbFill, late, dbSignals, trackVars, riskVars,
                   degraded, flagVars, closeVars, sendVars, feedVars, boundVars>>

SaveTrade(b) ==
    /\ At(b, "saveTrade")
    /\ \/ /\ dbTrades' = dbTrades \cup {pend[b]}
          /\ UNCHANGED degraded
       \/ /\ Fault("db")
          /\ degraded' = [degraded EXCEPT ![b] = TRUE]
          /\ UNCHANGED dbTrades
    /\ Go(b, "closeOrder")
    /\ UNCHANGED <<brokerVars, dbOrder, dbFill, late, dbSignals, trackVars, riskVars,
                   flagVars, closeVars, sendVars, feedVars, boundVars>>

Forget(b) ==
    /\ open_order' = [open_order EXCEPT ![b] = None]
    /\ waited' = [waited EXCEPT ![b] = 0]

\* mutant: the status is one that list_open takes for open
SetPartial(o, status) ==
    dbOrder' = IF o # None /\ dbOrder[o] # "none"
               THEN [dbOrder EXCEPT ![o] = "partially_filled"] ELSE dbOrder

\* update_status is best effort everywhere: a failure is only logged.
SetStatus(o, status) ==
    \/ dbOrder' = IF o # None /\ dbOrder[o] # "none"
                  THEN [dbOrder EXCEPT ![o] = status] ELSE dbOrder
    \/ Fault("db") /\ UNCHANGED dbOrder

CloseOrder(b) ==
    /\ At(b, "closeOrder")
    /\ SetStatus(open_order[b], "filled")
    /\ counted' = [counted EXCEPT ![b] = @ \cup {pend[b]}]
    /\ pend' = [pend EXCEPT ![b] = {}]
    /\ Forget(b)
    /\ Go(b, "drain")
    /\ UNCHANGED <<brokerVars, dbFill, dbTrades, late, dbSignals, direction, lots,
                   daily_trades,
                   degraded, flagVars, closeVars, sendVars, feedVars, boundVars>>

DrainDone(b) ==
    /\ At(b, "drain") /\ chan[b] = <<>>
    /\ Go(b, "flatten")
    /\ UNCHANGED <<brokerVars, dbVars, trackVars, riskVars, degraded, flagVars,
                   closeVars, sendVars, feedVars, boundVars>>

Drain(b) == \/ DropFill(b) \/ LoseFill(b) \/ SkipFill(b) \/ RecordFill(b)
            \/ SaveTrade(b) \/ CloseOrder(b) \/ DrainDone(b)

-----------------------------------------------------------------------------
(* Calls to the broker that change it *)

\* cancel_order of a bracket's entry, by the client id that sent it.
CancelOk(b, o) ==
    /\ owner[o] = b /\ bracket[o] \in EntryWorking
    /\ bracket' = [bracket EXCEPT ![o] = EntryCancelled(o)]

\* The order is no longer working, or the answer is late or lost.
CancelErr(b, o) ==
    \/ /\ ~ (owner[o] = b /\ bracket[o] \in EntryWorking) \/ Fault("cancel")
       /\ UNCHANGED bracket
    \/ Fault("cancel") /\ CancelOk(b, o)

-----------------------------------------------------------------------------
(* The tick, part 2: flatten_session and close_position_at_market *)

SkipFlatten(b) ==
    /\ At(b, "flatten")
    /\ phase # "flatten" \/ flattened[b]
    /\ Go(b, "probe")
    /\ UNCHANGED <<brokerVars, dbVars, trackVars, riskVars, degraded, flagVars,
                   closeVars, sendVars, feedVars, boundVars>>

FlattenEntry(b) ==
    /\ At(b, "flatten")
    /\ phase = "flatten" /\ ~ flattened[b]
    /\ \/ /\ IsOpen(b) \/ open_order[b] = None
          /\ UNCHANGED <<bracket, open_order, waited>>
       \/ /\ ~ IsOpen(b) /\ open_order[b] # None
          /\ \/ CancelOk(b, open_order[b]) /\ Forget(b)
             \/ CancelErr(b, open_order[b]) /\ UNCHANGED <<open_order, waited>>
    /\ Go(b, "flatPos")
    /\ UNCHANGED <<owner, held, mkt, stop, pos, execs, phase, dbVars, direction,
                   lots, pend, riskVars, degraded, flagVars, closeVars, sendVars, feedVars,
                   boundVars>>

\* mutant: the order before the audit's C1, legs first
CancelFirst(b, reason) ==
    /\ rq' = [rq EXCEPT ![b] = pos]
    /\ att' = [att EXCEPT ![b] = 1]
    /\ why' = [why EXCEPT ![b] = reason]
    /\ Go(b, "cancelLegs")

StartClose(b, reason) ==
    /\ rq' = [rq EXCEPT ![b] = pos]
    /\ att' = [att EXCEPT ![b] = 1]
    /\ why' = [why EXCEPT ![b] = reason]
    /\ Go(b, "close")

MarkTracked(b) ==           \* mutant: an alert leaves the day to be retried
    flattened' = [flattened EXCEPT ![b] = IsOpen(b) \/ pos = 0]
MarkDay(b) == flattened' = [flattened EXCEPT ![b] = TRUE]

FlattenPosition(b) ==
    /\ At(b, "flatPos")
    /\ \/ /\ pos = 0
          /\ MarkDay(b)
          /\ Go(b, "probe")
          /\ UNCHANGED <<alerted, unprotected, closeVars>>
       \/ /\ pos # 0 /\ ~ IsOpen(b)
          /\ MarkDay(b)
          /\ alerted' = [alerted EXCEPT ![b] = TRUE]
          /\ Go(b, "probe")
          /\ UNCHANGED <<unprotected, closeVars>>
       \/ /\ pos # 0 /\ IsOpen(b)
          /\ StartClose(b, "flatten")
          /\ UNCHANGED flagVars
       \/ /\ Fault("query")
          /\ Go(b, "probe")
          /\ UNCHANGED <<flagVars, closeVars>>
    /\ UNCHANGED <<brokerVars, dbVars, trackVars, riskVars, degraded, sendVars,
                   feedVars, boundVars>>

CloseAttempts == 3      \* CLOSE_ATTEMPTS

\* What the caller does with the result: flatten_session marks the day on Ok
\* alone; the exit by time skips the watchdog on Ok alone.
CloseReturns(b, ok) ==
    /\ Go(b, IF why[b] = "flatten" THEN "probe" ELSE IF ok THEN "exposure" ELSE "watch")
    /\ flattened' = [flattened EXCEPT ![b] = @ \/ (ok /\ why[b] = "flatten")]
    /\ rq' = [rq EXCEPT ![b] = IF ok \/ why[b] = "flatten" THEN 0 ELSE @]
    /\ att' = [att EXCEPT ![b] = 0]
    /\ why' = [why EXCEPT ![b] = "none"]

SendMarket(b) ==
    mkt' = [mkt EXCEPT ![b][ExitSide(rq[b])] = @ + Shares(rq[b])]

SendClose(b) ==
    /\ At(b, "close")
    /\ \/ SendMarket(b) /\ Go(b, "cancelLegs") /\ UNCHANGED <<flattened, closeVars>>
       \/ /\ Fault("send")          \* an error: sent all the same, or not
          /\ \/ SendMarket(b) /\ mkt'[b][ExitSide(rq[b])] <= MaxMarket
             \/ UNCHANGED mkt
          /\ IF att[b] < CloseAttempts
             THEN /\ att' = [att EXCEPT ![b] = @ + 1]
                  /\ Go(b, "recheck")
                  /\ UNCHANGED <<flattened, rq, why>>
             ELSE CloseReturns(b, FALSE)
    /\ UNCHANGED <<owner, bracket, held, stop, pos, execs, phase, dbVars, trackVars,
                   riskVars, degraded, alerted, unprotected, sendVars, feedVars, boundVars>>

\* Before a retry: any order of the symbol on the exit side counts as the
\* close of the attempt before.
RecheckClose(b) ==
    LET s == ExitSide(rq[b])
        there == OnSide(b, s) # {} \/ mkt[b][s] > 0 \/ stop[b][s] > 0
    IN  /\ At(b, "recheck")
        /\ \/ there /\ CloseReturns(b, TRUE)
           \/ ~ there /\ Go(b, "close") /\ UNCHANGED <<flattened, closeVars>>
           \/ Fault("query") /\ CloseReturns(b, FALSE)
        /\ UNCHANGED <<brokerVars, dbVars, trackVars, riskVars, degraded, alerted,
                       unprotected, sendVars, feedVars, boundVars>>

\* cancel_protection_legs: every order of the exit side; failures are only logged.
CancelLegs(b) ==
    LET s == ExitSide(rq[b])
        listed == OnSide(b, s)
    IN  /\ At(b, "cancelLegs")
        /\ \E gone \in SUBSET listed, left \in {0, stop[b][s]} :
              /\ \/ gone = listed /\ left = 0
                 \/ Fault("cancel")
                 \/ Fault("query") /\ gone = {} /\ left = stop[b][s]
              /\ stop' = [stop EXCEPT ![b][s] = left]
              /\ bracket' = [o \in Orders |-> IF o \in gone THEN ExitCancelled(o, s)
                                                         ELSE bracket[o]]
        /\ CloseReturns(b, TRUE)
        /\ UNCHANGED <<owner, held, mkt, pos, execs, phase, dbVars, trackVars, riskVars,
                       degraded, alerted, unprotected, sendVars, feedVars, boundVars>>

Flatten(b) == SkipFlatten(b) \/ FlattenEntry(b) \/ FlattenPosition(b)
Close(b) == SendClose(b) \/ RecheckClose(b) \/ CancelLegs(b)

-----------------------------------------------------------------------------
(* The tick, part 3: the bars *)

\* persistence_recovered writes a probe event.
Probe(b) ==
    /\ At(b, "probe")
    /\ \E d \in {FALSE} \cup (IF Fault("db") THEN {degraded[b]} ELSE {}) :
          degraded' = [degraded EXCEPT ![b] = d]
    /\ Go(b, "bar")
    /\ UNCHANGED <<brokerVars, dbVars, trackVars, riskVars, flagVars, closeVars,
                   sendVars, feedVars, boundVars>>

\* A closed and settled bar after the cursor, or none: the tick ends.
NextBar(b) ==
    /\ At(b, "bar")
    /\ \/ /\ bars[b] < MaxBars /\ phase # "closed"
          /\ bars' = [bars EXCEPT ![b] = @ + 1]
          /\ Go(b, "expire")
       \/ UNCHANGED bars /\ Go(b, "drain")
    /\ UNCHANGED <<brokerVars, dbVars, trackVars, riskVars, degraded, flagVars,
                   closeVars, sendVars, feedVars, crashes>>

\* expire_stale_stop_entry counts the bar and cancels at the validity.
Expire(b) ==
    /\ At(b, "expire")
    /\ \/ /\ IsOpen(b) \/ open_order[b] = None
          /\ UNCHANGED <<bracket, waited>>
          /\ Go(b, "position")
       \/ /\ ~ IsOpen(b) /\ open_order[b] # None
          /\ waited' = [waited EXCEPT ![b] = @ + 1]
          /\ \/ waited[b] + 1 < Validity /\ UNCHANGED bracket /\ Go(b, "position")
             \/ /\ waited[b] + 1 >= Validity
                /\ \/ CancelOk(b, open_order[b]) /\ Go(b, "markExpired")
                   \/ CancelErr(b, open_order[b]) /\ Go(b, "position")
    /\ UNCHANGED <<owner, held, mkt, stop, pos, execs, phase, dbVars, open_order,
                   direction, lots, pend, riskVars, degraded, flagVars, closeVars, sendVars,
                   feedVars, boundVars>>

MarkExpired(b) ==
    /\ At(b, "markExpired")
    /\ SetStatus(open_order[b], "cancelled")
    /\ Forget(b)
    /\ Go(b, "bar")
    /\ UNCHANGED <<brokerVars, dbFill, dbTrades, late, dbSignals, direction, lots, pend, riskVars,
                   degraded, flagVars, closeVars, sendVars, feedVars, boundVars>>

\* get_position: the exit by time of a position that did not validate, else the
\* watchdog; without a position its streak ends.
CheckPosition(b) ==
    /\ At(b, "position")
    /\ \/ ActiveExit /\ pos # 0 /\ IsOpen(b) /\ StartClose(b, "time") /\ UNCHANGED unprotected
       \/ /\ pos # 0
          /\ rq' = [rq EXCEPT ![b] = pos]
          /\ Go(b, "watch")
          /\ UNCHANGED <<att, why, unprotected>>
       \/ /\ pos = 0
          /\ unprotected' = [unprotected EXCEPT ![b] = 0]
          /\ Go(b, "exposure")
          /\ UNCHANGED closeVars
       \/ /\ Fault("query")
          /\ Go(b, "exposure")
          /\ UNCHANGED <<unprotected, closeVars>>
    /\ UNCHANGED <<brokerVars, dbVars, trackVars, riskVars, degraded, flattened, alerted,
                   sendVars, feedVars, boundVars>>

WatchEnds(b) ==
    /\ Go(b, "exposure")
    /\ rq' = [rq EXCEPT ![b] = 0]

\* ensure_stop_protection: a stop of the process on the exit side protects the
\* position.  The second time it is missed, it is put back if it is known.
Watch(b) ==
    LET s == ExitSide(rq[b])
        protected == OnSide(b, s) # {} \/ stop[b][s] > 0
    IN  /\ At(b, "watch")
        /\ \/ /\ protected
              /\ unprotected' = [unprotected EXCEPT ![b] = 0]
              /\ WatchEnds(b)
           \/ /\ ~ protected
              /\ unprotected' = [unprotected EXCEPT ![b] = IF @ < 2 THEN @ + 1 ELSE 2]
              /\ IF unprotected[b] >= 1 /\ open_order[b] # None
                 THEN Go(b, "restop") /\ UNCHANGED rq
                 ELSE WatchEnds(b)
           \/ Fault("query") /\ WatchEnds(b) /\ UNCHANGED unprotected
        /\ UNCHANGED <<brokerVars, dbVars, trackVars, riskVars, degraded, flattened, alerted,
                       att, why, sendVars, feedVars, boundVars>>

SendStop(b) ==
    stop' = [stop EXCEPT ![b][ExitSide(rq[b])] = @ + Shares(rq[b])]

Restop(b) ==
    /\ At(b, "restop")
    /\ \/ SendStop(b) /\ unprotected' = [unprotected EXCEPT ![b] = 0]
       \/ /\ Fault("send")          \* an error: sent all the same, or not
          /\ \/ SendStop(b) /\ stop'[b][ExitSide(rq[b])] <= MaxMarket
             \/ UNCHANGED stop
          /\ UNCHANGED unprotected
    /\ WatchEnds(b)
    /\ UNCHANGED <<owner, bracket, held, mkt, pos, execs, phase, dbVars, trackVars, riskVars,
                   degraded, flattened, alerted, att, why, sendVars, feedVars, boundVars>>

Bar(b) == \/ Probe(b) \/ NextBar(b) \/ Expire(b) \/ MarkExpired(b)
          \/ CheckPosition(b) \/ Watch(b) \/ Restop(b)

-----------------------------------------------------------------------------
(* The tick, part 4: find_exposure, analyze_and_execute, process_signal *)

Stay == UNCHANGED <<brokerVars, dbVars, trackVars, riskVars, degraded, flagVars,
                    closeVars, sendVars, feedVars, boundVars>>

\* get_position; an exposure or an error ends the tick (`break`).
FindPosition(b) ==
    /\ At(b, "exposure")
    /\ \/ pos = 0 /\ Go(b, "orders")
       \/ (pos # 0 \/ Fault("query")) /\ Go(b, "drain")
    /\ Stay

\* mutant: the suspension is not looked at
FindOrdersOnly(b) ==
    /\ At(b, "orders")
    /\ \/ ~ HasOpenOrder(b) /\ Go(b, "analyze")
       \/ (HasOpenOrder(b) \/ Fault("query")) /\ Go(b, "drain")
    /\ Stay

\* get_open_orders, then the suspension of entries.
FindOrders(b) ==
    /\ At(b, "orders")
    /\ \/ ~ HasOpenOrder(b) /\ Go(b, IF degraded[b] THEN "bar" ELSE "analyze")
       \/ (HasOpenOrder(b) \/ Fault("query")) /\ Go(b, "drain")
    /\ Stay

\* get_positions once more; the strategies' windows end before the flatten's.
Analyze(b) ==
    /\ At(b, "analyze")
    /\ \/ pos = 0 /\ phase = "open" /\ Go(b, "signal")
       \/ Go(b, "bar")
    /\ Stay

\* process_signal: get_position, then the limits of the day.
ProcessSignal(b) ==
    /\ At(b, "signal")
    /\ \/ pos = 0 /\ daily_trades[b] < MaxTrades /\ Go(b, "place")
       \/ Go(b, "bar")
    /\ Stay

Unsent == {o \in Orders : bracket[o] = "unsent"}

Send(b) ==
    /\ Unsent # {}
    /\ bracket' = [bracket EXCEPT ![Min(Unsent)] = "entry"]
    /\ owner' = [owner EXCEPT ![Min(Unsent)] = b]

PlaceOrder(b) ==
    /\ At(b, "place")
    /\ \/ /\ Send(b)
          /\ placing' = [placing EXCEPT ![b] = Min(Unsent)]
          /\ Go(b, "saveSignal")
       \/ /\ Fault("send")          \* an error: sent all the same, or not
          /\ Send(b) \/ UNCHANGED <<bracket, owner>>
          /\ UNCHANGED placing
          /\ Go(b, "bar")
       \/ /\ Unsent = {}            \* the bound
          /\ UNCHANGED <<bracket, owner, placing>>
          /\ Go(b, "bar")
    /\ UNCHANGED <<held, mkt, stop, pos, execs, phase, dbVars, trackVars, riskVars,
                   degraded, flagVars, closeVars, sig, feedVars, boundVars>>

SaveSignal(b) ==
    /\ At(b, "saveSignal")
    /\ \/ /\ dbSignals' = dbSignals + 1
          /\ sig' = [sig EXCEPT ![b] = TRUE]
       \/ Fault("db") /\ UNCHANGED <<dbSignals, sig>>
    /\ Go(b, "saveOrder")
    /\ UNCHANGED <<brokerVars, dbOrder, dbFill, dbTrades, late, trackVars, riskVars,
                   degraded, flagVars, closeVars, placing, feedVars, boundVars>>

\* The row, then the memory: whatever was tracked before is overwritten.
SaveOrder(b) ==
    /\ At(b, "saveOrder")
    /\ \/ /\ dbOrder' = [dbOrder EXCEPT ![placing[b]] = IF sig[b] THEN "open" ELSE "orphan"]
          /\ UNCHANGED degraded
       \/ /\ Fault("db")
          /\ degraded' = [degraded EXCEPT ![b] = TRUE]
          /\ UNCHANGED dbOrder
    /\ open_order' = [open_order EXCEPT ![b] = placing[b]]
    /\ waited' = [waited EXCEPT ![b] = 0]
    /\ daily_trades' = [daily_trades EXCEPT ![b] = @ + 1]
    /\ placing' = [placing EXCEPT ![b] = None]
    /\ sig' = [sig EXCEPT ![b] = FALSE]
    /\ Go(b, "bar")
    /\ UNCHANGED <<brokerVars, dbFill, dbTrades, late, dbSignals, direction, lots, pend, counted,
                   flagVars, closeVars, feedVars, boundVars>>

Enter(b) == \/ FindPosition(b) \/ FindOrders(b) \/ Analyze(b) \/ ProcessSignal(b)
            \/ PlaceOrder(b) \/ SaveSignal(b) \/ SaveOrder(b)

-----------------------------------------------------------------------------
Tick(b) == Drain(b) \/ Flatten(b) \/ Close(b) \/ Bar(b) \/ Enter(b)

Process(b) == Boot(b) \/ Tick(b) \/ Poll(b) \/ PollBreaks(b) \/ Crash(b)

Next == Broker \/ \E b \in Bots : Process(b)

Spec == Init /\ [][Next]_vars

\* A container restarts when it stops, its loop goes on and its poll runs
\* every 15 seconds.  Nothing makes the market trade or a call fail.
Fairness == \A b \in Bots : WF_vars(Boot(b)) /\ WF_vars(Tick(b)) /\ WF_vars(Poll(b))

FairSpec == Spec /\ Fairness
-----------------------------------------------------------------------------
(* Properties *)

BrokerTypeOK ==
    /\ owner \in [Orders -> Bots \cup {NoBot}]
    /\ bracket \in [Orders -> BracketStates]
    /\ held \in [Orders -> Int]
    /\ mkt \in [Bots -> [Sides -> Int]] /\ stop \in [Bots -> [Sides -> Int]]
    /\ pos \in Int
    /\ execs \in Seq([by : Bots \cup {NoBot}, ord : 0 .. MaxOrders, side : Sides])
    /\ Len(execs) <= MaxExecs
    /\ phase \in {"open", "flatten", "closed"}

DbTypeOK ==
    /\ dbOrder \in [Orders -> {"none", "open", "orphan", "cancelled", "filled"}]
    /\ dbFill \in [1 .. MaxExecs -> 0 .. MaxOrders]
    /\ dbTrades \subseteq SUBSET (1 .. MaxExecs)
    /\ late \subseteq Orders
    /\ dbSignals \in Nat

TrackTypeOK ==
    /\ open_order \in [Bots -> 0 .. MaxOrders]
    /\ waited \in [Bots -> Nat]
    /\ direction \in [Bots -> Sides \cup {"none"}]
    /\ lots \in [Bots -> SUBSET (1 .. MaxExecs)]
    /\ pend \in [Bots -> SUBSET (1 .. MaxExecs)]

LoopTypeOK ==
    /\ pc \in [Bots -> Steps]
    /\ degraded \in [Bots -> BOOLEAN]
    /\ counted \in [Bots -> SUBSET SUBSET (1 .. MaxExecs)]
    /\ daily_trades \in [Bots -> Nat]
    /\ flattened \in [Bots -> BOOLEAN]
    /\ alerted \in [Bots -> BOOLEAN]
    /\ rq \in [Bots -> Int] /\ att \in [Bots -> Nat] /\ unprotected \in [Bots -> 0 .. 2]
    /\ why \in [Bots -> {"none", "flatten", "time"}]
    /\ placing \in [Bots -> 0 .. MaxOrders]
    /\ sig \in [Bots -> BOOLEAN]
    /\ bars \in [Bots -> Nat] /\ crashes \in [Bots -> Nat]

\* What the poll delivers are executions that happened.
FeedTypeOK ==
    /\ seen \in [Bots -> Nat] /\ \A b \in Bots : seen[b] <= Len(execs)
    /\ chan \in [Bots -> Seq(Nat)]
    /\ \A b \in Bots : \A i \in DOMAIN chan[b] : chan[b][i] \in 1 .. Len(execs)

\* Every variable stays in its type: in particular an order's row is only ever
\* in one of the states that list_open and the recovery know how to read.
TypeOK == BrokerTypeOK /\ DbTypeOK /\ TrackTypeOK /\ LoopTypeOK /\ FeedTypeOK

\* A process never has two brackets working at the broker, whatever fails and
\* whenever it restarts: find_exposure reads the broker, never the memory.
OneBracketPerClient ==
    \A b \in Bots : \A o, p \in OpenOrders(b) : o = p

\* What was bought without a bracket: a leg and a close that both trade leave the
\* account short, and closing that short twice leaves it long again.
BoughtBack == Cardinality({e \in DOMAIN execs : execs[e].ord = None /\ execs[e].side = "buy"})

\* The account never holds more than one bracket of the symbol: the checks of
\* the position and of the working orders leave no gap for a second entry.  What
\* closes bought back is apart, it is no entry.
PositionNotStacked == pos - BoughtBack <= Qty

\* An open tracker always has its order: the parts of the loop that drop
\* open_order (expiry, flatten, finalize) never do so under a position, or the
\* fills that close it would be ignored as "fill sem ordem rastreada".
TrackerHasOrder == \A b \in Bots : IsOpen(b) => open_order[b] # None

\* The tracker never runs ahead of the database: each fill it aggregates is
\* saved, so that the replay of a restart rebuilds it.
TrackedFillsPersisted ==
    \A b \in Bots : \A e \in lots[b] \cup pend[b] : dbFill[e] # None

\* C1 of the audit: while the session is open a long position has a sell at the
\* broker: the legs of its bracket, a market close or a stop put back.  The close is sent first
\* and the legs are cancelled after it was accepted.  A long that closes bought
\* back never had legs and is apart.
AlwaysProtected ==
    pos > BoughtBack /\ phase # "closed" =>
        \/ \E o \in Orders : bracket[o] \in LegsListed /\ held[o] > 0
        \/ \E b \in Bots : mkt[b]["sell"] > 0 \/ stop[b]["sell"] > 0

\* The risk state of a process that is up misses no trade of the day, across
\* restarts: what is in the table is counted, or is being counted right now.
RiskCoversDb ==
    \A b \in Bots : ~ At(b, "down") => dbTrades \subseteq counted[b] \cup {pend[b]}

\* The orders saved in the day stay within max_trades_per_day across restarts,
\* because the limit is rebuilt from the signals and those are saved first.
RecordedOrdersWithinLimit ==
    Cardinality({o \in Orders : dbOrder[o] # "none"}) <= MaxTrades

\* "nunca contam P&L em dobro" (drain_order_events), for trades whose fills were
\* saved under one order and in the order they were executed: neither the replay
\* of the day by the poll nor that of the recovery puts an execution in two of them.
OneOrder(t) == \A d, e \in t : dbFill[d] = dbFill[e]
Punctual(t) == \A e \in t : dbFill[e] \notin late
CountedOnce ==
    \A t, u \in {v \in dbTrades : OneOrder(v) /\ Punctual(v)} : t # u => t \cap u = {}

\* Entries stay suspended from the write that failed to the probe that worked
\* (C3 of the audit): no bracket reaches the broker from a process that is
\* degraded, though the flag is read several calls before the send.
EntriesSuspended ==
    [][\A o \in Orders : bracket[o] = "unsent" /\ bracket'[o] # "unsent" =>
                            ~ degraded[owner'[o]]]_vars

\* No fill that was saved is ever lost: it is in a saved trade, or in the memory
\* of a process that will make it part of one.
FillsConserved ==
    (\A b \in Bots : ~ At(b, "down")) =>
       \A e \in 1 .. MaxExecs : dbFill[e] # None =>
          \/ \E t \in dbTrades : e \in t
          \/ \E b \in Bots : e \in lots[b] \cup pend[b]

\* "Persiste o fill atrelado à ordem pai do bracket" (drain_order_events): an
\* execution of a bracket is saved under the row of that bracket.
FillsBelongToTheirOrder ==
    \A e \in DOMAIN execs :
       execs[e].ord # None /\ dbFill[e] # None => dbFill[e] = execs[e].ord

\* "Nenhuma posição atravessa o fechamento" (flatten_session).
NothingCrossesBell == phase = "closed" => pos = 0

\* Every execution of the day is taken from the channel in the end.
AllDrained == <>[](\A b \in Bots : seen[b] = Len(execs) /\ chan[b] = <<>>)

\* A process that is up in the flatten window marks the day as flattened: with
\* no call failing, neither a close in flight nor the other process blocks it.
FlattenCompletes ==
    \A b \in Bots : (phase = "flatten" /\ ~ At(b, "down")) ~> flattened[b]
=============================================================================
