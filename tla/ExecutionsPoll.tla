--------------------------- MODULE ExecutionsPoll ---------------------------
(***************************************************************************)
(* The way of an execution from the gateway to the books: the poll of the  *)
(* executions of the day (poll_executions_loop and fetch_today_executions  *)
(* in crates/trader-adapters/src/ibkr/broker.rs), the channel between its  *)
(* task and the live loop, and the FillTracker that turns fills into       *)
(* trades (crates/trader-core/src/execution/trade_tracker.rs).             *)
(*                                                                         *)
(* One process that does not restart, so that what is in `seen` stays      *)
(* there (LiveOrders has the restarts).  Money is in cents of one share.   *)
(***************************************************************************)
EXTENDS Integers, Sequences, FiniteSetsExt

CONSTANTS
    Scripts,        \* the executions a day may bring, in their order
    ChannelSize     \* the capacity of the channel of order events

ASSUME PollAssumption ==
    /\ ChannelSize \in Nat \ {0}
    /\ Scripts \subseteq Seq([side : {"buy", "sell"}, quantity : Nat \ {0},
                            price : Nat \ {0}, commission : Nat])

VARIABLES
    script, done,     \* the executions, and how many there were so far
    listed,           \* `seen`: the ids the poll has listed
    batch,            \* the events of the last fetch that are not sent yet
    channel,          \* order_events
    tracker,          \* the FillTracker
    net,              \* the sum of net_pnl over the trades it closed
    surplus,          \* the shares it forgot: exits beyond the entries
    saved,            \* the events saved in the database
    dropped, swallowed  \* ids the loop did not save, and ids no event was sent for

pollVars == <<script, done, listed, batch, channel, tracker, net, surplus,
              saved, dropped, swallowed>>

Untracked == [direction |-> "none", entry_qty |-> 0, entry_cost |-> 0,
              exit_qty |-> 0, exit_value |-> 0, commissions |-> 0]

PollInit ==
    /\ script \in Scripts /\ done = 0
    /\ listed = {} /\ batch = {} /\ channel = <<>>
    /\ tracker = Untracked /\ net = 0 /\ surplus = 0
    /\ saved = {} /\ dropped = {} /\ swallowed = {}

-----------------------------------------------------------------------------
(* The gateway and the poll *)

Execute ==
    /\ done < Len(script)
    /\ done' = done + 1
    /\ UNCHANGED <<script, listed, batch, channel, tracker, net, surplus, saved,
                   dropped, swallowed>>

\* The fills a stream brings that lists the first n executions, each with its
\* CommissionReport behind it; `late` when it ends before the last report.  A
\* report of an execution listed earlier finds no event of this batch.
Fresh(n) == (1 .. n) \ listed
EventsOf(n, late) == {[id |-> k, paid |-> ~ (late /\ k = n)] : k \in Fresh(n)}

\* fetch_today_executions; the stream ends, or twenty seconds do.
Fetch(n, late) ==
    /\ batch = {}
    /\ batch' = EventsOf(n, late)
    /\ listed' = listed \cup (1 .. n)
    /\ UNCHANGED <<script, done, channel, tracker, net, surplus, saved, dropped, swallowed>>

FetchWhole == Fetch(done, FALSE)
FetchCut == \E n \in 1 .. done, late \in BOOLEAN : Fetch(n, late)

\* The stream breaks with an error: the events go, their ids stay in `seen`.
FetchFails ==
    /\ batch = {}
    /\ \E n \in 1 .. done :
         /\ listed' = listed \cup (1 .. n)
         /\ swallowed' = swallowed \cup Fresh(n)
    /\ UNCHANGED <<script, done, batch, channel, tracker, net, surplus, saved, dropped>>

\* The events of a batch go in the order the gateway listed them.
Due == CHOOSE event \in batch : \A other \in batch : event.id <= other.id

\* tx.send, which waits for room; try_send would not.
TrySend ==      \* mutant: a full channel drops the event
    /\ batch # {}
    /\ channel' = IF Len(channel) < ChannelSize THEN Append(channel, Due) ELSE channel
    /\ batch' = batch \ {Due}
    /\ UNCHANGED <<script, done, listed, tracker, net, surplus, saved, dropped, swallowed>>
Send ==
    /\ batch # {}
    /\ Len(channel) < ChannelSize
    /\ channel' = Append(channel, Due)
    /\ batch' = batch \ {Due}
    /\ UNCHANGED <<script, done, listed, tracker, net, surplus, saved, dropped, swallowed>>

-----------------------------------------------------------------------------
(* FillTracker *)

Commission(event) == IF event.paid THEN script[event.id].commission ELSE 0

\* on_fill: the first fill gives the direction, the others enter or exit.
OnFill(t, event) ==
    LET fill == script[event.id]
        direction == IF t.direction # "none" THEN t.direction
                     ELSE IF fill.side = "buy" THEN "long" ELSE "short"
        charged == [t EXCEPT !.direction = direction, !.commissions = @ + Commission(event)]
    IN  IF direction = "long" <=> fill.side = "buy"
        THEN [charged EXCEPT !.entry_qty = @ + fill.quantity,
                             !.entry_cost = @ + fill.price * fill.quantity]
        ELSE [charged EXCEPT !.exit_qty = @ + fill.quantity,
                             !.exit_value = @ + fill.price * fill.quantity]

Covered(t) == t.exit_qty >= t.entry_qty

\* close: the average exit on the shares that were entered.
NetPnl(t) ==
    LET value == (t.exit_value * t.entry_qty) \div t.exit_qty
        gross == IF t.direction = "long" THEN value - t.entry_cost ELSE t.entry_cost - value
    IN  gross - t.commissions

KeepsCommissions ==      \* mutant: the next trade pays them again
    [Untracked EXCEPT !.commissions = tracker.commissions]
AfterTrade == Untracked

-----------------------------------------------------------------------------
(* drain_order_events *)

Register ==
    LET filled == OnFill(tracker, Head(channel))
    IN  /\ channel # <<>>
        /\ channel' = Tail(channel)
        /\ saved' = saved \cup {Head(channel)}
        /\ IF Covered(filled)
           THEN /\ net' = net + NetPnl(filled)
                /\ surplus' = surplus + filled.exit_qty - filled.entry_qty
                /\ tracker' = AfterTrade
           ELSE /\ tracker' = filled
                /\ UNCHANGED <<net, surplus>>
        /\ UNCHANGED <<script, done, listed, batch, dropped, swallowed>>

\* No tracked order, or the database does not take the fill.
Discard ==
    /\ channel # <<>>
    /\ channel' = Tail(channel)
    /\ dropped' = dropped \cup {Head(channel).id}
    /\ UNCHANGED <<script, done, listed, batch, tracker, net, surplus, saved, swallowed>>

Drained == Register \/ Discard

PollNext ==
    \/ Execute \/ FetchWhole \/ FetchCut \/ FetchFails \/ Send \/ Register \/ Discard

PollSpec == PollInit /\ [][PollNext]_pollVars

-----------------------------------------------------------------------------
\* The cash an event moved: its commission only if it came with its batch.
Cash(event) ==
    LET fill == script[event.id]
    IN  (IF fill.side = "sell" THEN 1 ELSE 0 - 1) * fill.price * fill.quantity - Commission(event)

\* Flat, and with no exit beyond its entry, the trades add up to the cash of the
\* saved fills to the cent, in whatever batches they came, over scale-ins,
\* partial exits and a later trade; what is missing are the commissions whose
\* report came after its batch (trade_tracker.rs:138; broker.rs:409).
BooksBalance ==
    tracker.direction = "none" /\ surplus = 0 => net = MapThenSumSet(Cash, saved)

\* Every execution is saved, refused by the loop, or of a fetch that broke: the
\* full channel holds the poll back and loses nothing (paper.rs:878).
Settled == {e.id : e \in saved} \cup dropped \cup swallowed
FillSettles == \A k \in 1 .. Max({Len(s) : s \in Scripts}) : k <= done ~> k \in Settled
=============================================================================
