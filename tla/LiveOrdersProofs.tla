-------------------------- MODULE LiveOrdersProofs --------------------------
(***************************************************************************)
(* Proofs about LiveOrders for every number of processes, orders, lots and *)
(* restarts and, where nothing else is said, every combination of failing  *)
(* calls: the type invariant, one lemma per part of TypeOK, and then parts *)
(* that have each an inductive invariant of their own, proved under it.    *)
(***************************************************************************)
EXTENDS LiveOrders, SetLemmas

-----------------------------------------------------------------------------
\* An execution is appended with its client, its bracket and its side.
Executions == Seq([by : Bots \cup {NoBot}, ord : 0 .. MaxOrders, side : Sides])

\* An execution keeps the list of executions and the position in their types.
LEMMA ExecuteTypes ==
    ASSUME BrokerTypeOK, NEW b \in Bots \cup {NoBot}, NEW o \in 0 .. MaxOrders,
           NEW s \in Sides, Execute(b, o, s)
    PROVE  execs' \in Executions /\ Len(execs') <= MaxExecs /\ Len(execs) <= Len(execs')
           /\ pos' \in Int
<1> DEFINE E == [by : Bots \cup {NoBot}, ord : 0 .. MaxOrders, side : Sides]
<1>1. execs \in Seq(E) /\ [by |-> b, ord |-> o, side |-> s] \in E
  BY DEF BrokerTypeOK
<1>2. execs' = Append(execs, [by |-> b, ord |-> o, side |-> s]) /\ Len(execs) < MaxExecs
  BY DEF Execute
<1>3. execs' \in Seq(E) /\ Len(execs') = Len(execs) + 1
  <2> HIDE DEF E
  <2> QED BY <1>1, <1>2
<1> QED
  BY <1>1, <1>2, <1>3, LiveOrdersAssumption DEF Executions, Execute, BrokerTypeOK

\* The broker: what the market, the sends and the cancels do to the account.
LEMMA BrokerTypes ==
    ASSUME TypeOK, [Next]_vars
    PROVE  BrokerTypeOK'
<1> USE DEF BrokerTypeOK, BracketStates, EntryCancelled, Sides
<1>0. BrokerTypeOK /\ LoopTypeOK
  BY DEF TypeOK
<1>1. CASE Broker
  <2>0. \A o \in Orders : o \in 0 .. MaxOrders
    BY LiveOrdersAssumption DEF Orders
  <2>1. ASSUME NEW o \in Orders, FillEntry(o) PROVE BrokerTypeOK'
    <3>1. owner[o] \in Bots \cup {NoBot} /\ Execute(owner[o], o, "buy")
      BY <1>0, <2>1 DEF FillEntry
    <3>2. execs' \in Executions /\ Len(execs') <= MaxExecs /\ pos' \in Int
      BY <1>0, <2>0, <3>1, ExecuteTypes
    <3> QED BY <1>0, <2>1, <3>2 DEF FillEntry, Executions
  <2>2. ASSUME NEW o \in Orders, FillLeg(o) PROVE BrokerTypeOK'
    <3>1. owner[o] \in Bots \cup {NoBot} /\ Execute(owner[o], o, "sell")
      BY <1>0, <2>2 DEF FillLeg
    <3>2. execs' \in Executions /\ Len(execs') <= MaxExecs /\ pos' \in Int
      BY <1>0, <2>0, <3>1, ExecuteTypes
    <3> QED BY <1>0, <2>2, <3>2 DEF FillLeg, Executions
  <2>3. ASSUME NEW o \in Orders, RejectEntry(o) \/ RejectLegs(o) PROVE BrokerTypeOK'
    BY <1>0, <2>3 DEF RejectEntry, RejectLegs
  <2>4. ASSUME NEW b \in Bots, NEW s \in Sides, FillMarket(b, s) PROVE BrokerTypeOK'
    <3>1. 0 \in 0 .. MaxOrders /\ Execute(b, 0, s)
      BY <2>4, LiveOrdersAssumption DEF FillMarket, None
    <3>2. execs' \in Executions /\ Len(execs') <= MaxExecs /\ pos' \in Int
      BY <1>0, <3>1, ExecuteTypes
    <3> QED BY <1>0, <2>4, <3>2 DEF FillMarket, Executions
  <2>5. ASSUME NEW b \in Bots, NEW s \in Sides, FillStop(b, s) PROVE BrokerTypeOK'
    <3>1. 0 \in 0 .. MaxOrders /\ Execute(b, 0, s)
      BY <2>5, LiveOrdersAssumption DEF FillStop, None
    <3>2. execs' \in Executions /\ Len(execs') <= MaxExecs /\ pos' \in Int
      BY <1>0, <3>1, ExecuteTypes
    <3> QED BY <1>0, <2>5, <3>2 DEF FillStop, Executions
  <2>6. CASE OpenFlattenWindow \/ Bell
    BY <1>0, <2>6 DEF OpenFlattenWindow, Bell
  <2> QED
    BY <1>1, <2>1, <2>2, <2>3, <2>4, <2>5, <2>6 DEF Broker
<1>2. ASSUME NEW b \in Bots, FlattenEntry(b) \/ Expire(b) PROVE BrokerTypeOK'
  BY <1>0, <1>2 DEF FlattenEntry, Expire, CancelOk, CancelErr
<1>3. ASSUME NEW b \in Bots, SendClose(b) PROVE BrokerTypeOK'
  <2>1. ExitSide(rq[b]) \in Sides /\ Shares(rq[b]) \in Int
    BY <1>0 DEF ExitSide, Shares, LoopTypeOK
  <2>2. CASE SendMarket(b)
    <3>1. \A k, n \in Int : k + n \in Int
      OBVIOUS
    <3>2. mkt' \in [Bots -> [Sides -> Int]]
      BY <1>0, <2>1, <2>2, <3>1 DEF SendMarket
    <3> QED BY <1>0, <1>3, <3>2 DEF SendClose
  <2>3. CASE UNCHANGED mkt
    BY <1>0, <1>3, <2>3 DEF SendClose
  <2> QED
    BY <1>3, <2>2, <2>3 DEF SendClose
<1>4. ASSUME NEW b \in Bots, CancelLegs(b) PROVE BrokerTypeOK'
  <2>1. stop' \in [Bots -> [Sides -> Int]]
    BY <1>0, <1>4 DEF CancelLegs, ExitSide
  <2>2. bracket' \in [Orders -> BracketStates]
    BY <1>0, <1>4 DEF CancelLegs, ExitCancelled
  <2> QED BY <1>0, <1>4, <2>1, <2>2 DEF CancelLegs
<1>8. ASSUME NEW b \in Bots, Restop(b) PROVE BrokerTypeOK'
  <2>1. ExitSide(rq[b]) \in Sides /\ Shares(rq[b]) \in Int
    BY <1>0 DEF ExitSide, Shares, LoopTypeOK
  <2>2. CASE SendStop(b)
    <3>1. \A k, n \in Int : k + n \in Int
      OBVIOUS
    <3>2. stop' \in [Bots -> [Sides -> Int]]
      BY <1>0, <2>1, <2>2, <3>1 DEF SendStop
    <3> QED BY <1>0, <1>8, <3>2 DEF Restop
  <2>3. CASE UNCHANGED stop
    BY <1>0, <1>8, <2>3 DEF Restop
  <2> QED
    BY <1>8, <2>2, <2>3 DEF Restop
<1>5. ASSUME NEW b \in Bots, PlaceOrder(b) PROVE BrokerTypeOK'
  BY <1>0, <1>5 DEF PlaceOrder, Send
<1>6. ASSUME NEW b \in Bots, Process(b),
             ~ (\/ FlattenEntry(b) \/ Expire(b) \/ SendClose(b) \/ CancelLegs(b)
                \/ Restop(b) \/ PlaceOrder(b))
      PROVE  UNCHANGED brokerVars
  BY <1>6 DEF Process, Tick, Boot, Crash, Poll, PollBreaks, Drain, DropFill, LoseFill,
     SkipFill, RecordFill, SaveTrade, CloseOrder, DrainDone, Flatten, SkipFlatten,
     FlattenPosition, Close, RecheckClose, Bar, Probe, NextBar, MarkExpired,
     CheckPosition, Watch, Enter, FindPosition, FindOrders, Analyze, ProcessSignal,
     SaveSignal, SaveOrder, Stay
<1>7. CASE UNCHANGED brokerVars
  BY <1>0, <1>7 DEF brokerVars
<1> QED
  BY <1>1, <1>2, <1>3, <1>4, <1>5, <1>6, <1>7, <1>8 DEF Next, vars

-----------------------------------------------------------------------------
\* The rows a restart recovers from and the saved fills it replays.
LEMMA ExecutionSide ==
    ASSUME BrokerTypeOK, NEW e \in 1 .. Len(execs)
    PROVE  execs[e].side \in Sides
<1> DEFINE E == [by : Bots \cup {NoBot}, ord : 0 .. MaxOrders, side : Sides]
<1>1. execs \in Seq(E)
  BY DEF BrokerTypeOK
<1>2. execs[e] \in E
  <2> HIDE DEF E
  <2> QED BY <1>1
<1> QED
  BY <1>2

\* What recover_open_order replays are executions of the day.
LEMMA ReplayTypes ==
    ASSUME BrokerTypeOK, NEW o \in Orders
    PROVE  Replay(o) \in SUBSET (1 .. MaxExecs) /\ ReplayDirection(o) \in Sides \cup {"none"}
<1>1. Len(execs) \in Nat /\ Len(execs) <= MaxExecs /\ MaxExecs \in Nat
      /\ \A e \in 1 .. Len(execs) : execs[e].side \in Sides
  BY ExecutionSide, LiveOrdersAssumption DEF BrokerTypeOK
<1>2. Replay(o) \subseteq 1 .. Len(execs)
  BY DEF Replay, SavedFills
<1>3. CASE Replay(o) # {}
  <2>1. Min(Replay(o)) \in Replay(o)
    <3>1. Replay(o) \in SUBSET Nat
      BY <1>1, <1>2
    <3> QED BY <1>3, <3>1, MinIn
  <2> QED
    BY <1>1, <1>2, <1>3, <2>1 DEF ReplayDirection
<1> QED
  BY <1>1, <1>2, <1>3 DEF ReplayDirection

\* The order that recover_open_order takes is a bracket, or none.
LEMMA RecoverableType ==
    ASSUME TRUE
    PROVE  Recoverable \in 0 .. MaxOrders
<1>1. CASE OpenRows # {}
  <2>1. OpenRows \in SUBSET (0 .. MaxOrders) /\ MaxOrders \in Nat
    BY LiveOrdersAssumption DEF OpenRows, Orders
  <2>2. Max(OpenRows) \in 0 .. MaxOrders
    BY <1>1, <2>1, MaxIn
  <2> QED
    BY <2>2, LiveOrdersAssumption DEF Recoverable, None
<1> QED
  BY <1>1, LiveOrdersAssumption DEF Recoverable, None

\* The database: only six steps of the loop write to it.
LEMMA DbTypes ==
    ASSUME TypeOK, [Next]_vars
    PROVE  DbTypeOK'
<1> USE DEF DbTypeOK
<1>0. DbTypeOK /\ TrackTypeOK /\ LoopTypeOK
  BY DEF TypeOK
<1>1. ASSUME NEW b \in Bots, RecordFill(b) PROVE DbTypeOK'
  <2>1. PICK e \in 1 .. MaxExecs : dbFill' = [dbFill EXCEPT ![e] = open_order[b]]
    BY <1>1 DEF RecordFill
  <2>2. /\ UNCHANGED <<dbOrder, dbTrades, dbSignals>>
        /\ open_order[b] # None /\ late' \subseteq late \cup {open_order[b]}
    BY <1>1 DEF RecordFill, Tracked
  <2>3. open_order[b] \in 0 .. MaxOrders /\ open_order[b] \in Orders
    BY <1>0, <2>2, LiveOrdersAssumption DEF TrackTypeOK, Orders, None
  <2>4. late' \subseteq Orders
    BY <1>0, <2>2, <2>3
  <2> QED
    BY <1>0, <2>1, <2>2, <2>3, <2>4
<1>2. ASSUME NEW b \in Bots, SaveTrade(b) \/ SaveSignal(b) PROVE DbTypeOK'
  <2>1. UNCHANGED <<dbOrder, dbFill, late>>
    BY <1>2 DEF SaveTrade, SaveSignal
  <2>2. dbTrades' \in {dbTrades, dbTrades \cup {pend[b]}}
    BY <1>2 DEF SaveTrade, SaveSignal
  <2>3. dbSignals' \in {dbSignals, dbSignals + 1}
    BY <1>2 DEF SaveTrade, SaveSignal
  <2>4. pend[b] \in SUBSET (1 .. MaxExecs)
    BY <1>0 DEF TrackTypeOK
  <2>5. dbTrades' \subseteq SUBSET (1 .. MaxExecs)
    BY <1>0, <2>2, <2>4
  <2> QED
    BY <1>0, <2>1, <2>3, <2>5
<1>3. ASSUME NEW b \in Bots, CloseOrder(b) \/ MarkExpired(b) PROVE DbTypeOK'
  BY <1>0, <1>3 DEF CloseOrder, MarkExpired, SetStatus
<1>4. ASSUME NEW b \in Bots, SaveOrder(b) PROVE DbTypeOK'
  BY <1>0, <1>4 DEF SaveOrder
<1>5. ASSUME NEW b \in Bots, Process(b),
             ~ (RecordFill(b) \/ SaveTrade(b) \/ SaveSignal(b) \/ CloseOrder(b)
                \/ MarkExpired(b) \/ SaveOrder(b))
      PROVE  UNCHANGED dbVars
  BY <1>5 DEF Process, Tick, Boot, Crash, Poll, PollBreaks, Drain, DropFill, LoseFill,
     SkipFill, DrainDone, Flatten, SkipFlatten, FlattenEntry, FlattenPosition, Close,
     SendClose, RecheckClose, CancelLegs, Bar, Probe, NextBar, Expire, CheckPosition, Watch, Restop, WatchEnds,
     Enter, FindPosition, FindOrders, Analyze, ProcessSignal, PlaceOrder, Stay
<1>6. CASE Broker
  BY <1>0, <1>6 DEF Broker, dbVars
<1>7. CASE UNCHANGED dbVars
  BY <1>0, <1>7 DEF dbVars
<1> QED
  BY <1>1, <1>2, <1>3, <1>4, <1>5, <1>6, <1>7 DEF Next, vars

\* The tracker: written at boot, by the drain, the expiry, the flatten and the
\* save of a new order.
LEMMA TrackTypes ==
    ASSUME TypeOK, [Next]_vars
    PROVE  TrackTypeOK'
<1> USE DEF TrackTypeOK
<1>0. BrokerTypeOK /\ DbTypeOK /\ TrackTypeOK /\ LoopTypeOK
  BY DEF TypeOK
<1>1. ASSUME NEW b \in Bots, Boot(b) PROVE TrackTypeOK'
  <2>1. PICK o \in {Recoverable} \cup (IF Fault("db") THEN {None} ELSE {}) :
          /\ open_order' = [open_order EXCEPT ![b] = o]
          /\ lots' = [lots EXCEPT ![b] = IF o = None THEN {} ELSE Replay(o)]
          /\ direction' = [direction EXCEPT ![b] =
                              IF o = None THEN "none" ELSE ReplayDirection(o)]
    BY <1>1 DEF Boot
  <2>2. o \in 0 .. MaxOrders
    BY RecoverableType, LiveOrdersAssumption DEF None
  <2>3. o # None => o \in Orders
    BY <2>2, LiveOrdersAssumption DEF None, Orders
  <2>4. o # None => Replay(o) \in SUBSET (1 .. MaxExecs)
                    /\ ReplayDirection(o) \in Sides \cup {"none"}
    BY <1>0, <2>3, ReplayTypes
  <2> QED
    BY <1>0, <1>1, <2>1, <2>2, <2>4 DEF Boot
<1>2. ASSUME NEW b \in Bots, Crash(b) \/ CloseOrder(b) \/ FlattenEntry(b) \/ MarkExpired(b)
      PROVE  TrackTypeOK'
  <2>1. 0 \in 0 .. MaxOrders /\ 0 \in Nat
    BY LiveOrdersAssumption
  <2>2. CASE Crash(b)
    BY <1>0, <2>1, <2>2 DEF Crash, None
  <2>3. CASE CloseOrder(b)
    BY <1>0, <2>1, <2>3 DEF CloseOrder, Forget, None
  <2>4. CASE FlattenEntry(b) \/ MarkExpired(b)
    BY <1>0, <2>1, <2>4 DEF FlattenEntry, MarkExpired, Forget, None
  <2> QED
    BY <1>2, <2>2, <2>3, <2>4
<1>3. ASSUME NEW b \in Bots, RecordFill(b) PROVE TrackTypeOK'
  <2>1. PICK e \in 1 .. MaxExecs :
          /\ NextFill(b, e)
          /\ direction' = [direction EXCEPT ![b] = "none"]
             \/ direction' = [direction EXCEPT ![b] = IF IsOpen(b) THEN direction[b]
                                                                   ELSE execs[e].side]
          /\ lots' = [lots EXCEPT ![b] = {}] \/ lots' = [lots EXCEPT ![b] = lots[b] \cup {e}]
          /\ pend' = pend \/ pend' = [pend EXCEPT ![b] = lots[b] \cup {e}]
          /\ UNCHANGED <<open_order, waited>>
    BY <1>3 DEF RecordFill
  <2>2. e \in 1 .. Len(execs)
    BY <2>1 DEF NextFill, TypeOK, FeedTypeOK
  <2>3. execs[e].side \in Sides
    BY <1>0, <2>2, ExecutionSide
  <2> QED
    BY <1>0, <2>1, <2>3
<1>4. ASSUME NEW b \in Bots, Expire(b) PROVE TrackTypeOK'
  BY <1>0, <1>4 DEF Expire
<1>5. ASSUME NEW b \in Bots, SaveOrder(b) PROVE TrackTypeOK'
  BY <1>0, <1>5 DEF SaveOrder, LoopTypeOK
<1>6. ASSUME NEW b \in Bots, Process(b),
             ~ (Boot(b) \/ Crash(b) \/ CloseOrder(b) \/ FlattenEntry(b) \/ MarkExpired(b)
                \/ RecordFill(b) \/ Expire(b) \/ SaveOrder(b))
      PROVE  UNCHANGED trackVars
  BY <1>6 DEF Process, Tick, Poll, PollBreaks, Drain, DropFill, LoseFill, SkipFill,
     SaveTrade, DrainDone, Flatten, SkipFlatten, FlattenPosition, Close, SendClose,
     RecheckClose, CancelLegs, Bar, Probe, NextBar, CheckPosition, Watch, Restop, WatchEnds, Enter,
     FindPosition, FindOrders, Analyze, ProcessSignal, PlaceOrder, SaveSignal, Stay
<1>7. CASE Broker
  BY <1>0, <1>7 DEF Broker, trackVars
<1>8. CASE UNCHANGED trackVars
  BY <1>0, <1>8 DEF trackVars
<1> QED
  BY <1>1, <1>2, <1>3, <1>4, <1>5, <1>6, <1>7, <1>8 DEF Next, vars

-----------------------------------------------------------------------------
\* The rest of the memory of a process.
LEMMA BootLoopTypes ==
    ASSUME TypeOK, NEW b \in Bots, Boot(b)
    PROVE  LoopTypeOK'
<1>0. LoopTypeOK /\ DbTypeOK
  BY DEF TypeOK
<1>1. PICK T \in RebuiltTrades, n \in RebuiltSignals :
         counted' = [counted EXCEPT ![b] = T] /\ daily_trades' = [daily_trades EXCEPT ![b] = n]
  BY DEF Boot
<1>2. T \in SUBSET SUBSET (1 .. MaxExecs) /\ n \in Nat
  BY <1>0, <1>1 DEF RebuiltTrades, RebuiltSignals, DbTypeOK
<1> QED
  BY <1>0, <1>1, <1>2 DEF Boot, LoopTypeOK, Go, Steps, flagVars, closeVars, sendVars, boundVars

\* The return of close_position_at_market keeps the locals of the close and the
\* mark of the day in their types.
LEMMA CloseLoopTypes ==
    ASSUME TypeOK, NEW b \in Bots, NEW ok \in BOOLEAN, CloseReturns(b, ok)
    PROVE  /\ pc' \in [Bots -> Steps]
           /\ flattened' \in [Bots -> BOOLEAN]
           /\ rq' \in [Bots -> Int] /\ att' \in [Bots -> Nat]
           /\ why' \in [Bots -> {"none", "flatten", "time"}]
BY DEF CloseReturns, Go, Steps, TypeOK, LoopTypeOK

\* Every step keeps the program counter, the flags and the counters of each
\* process in their types.
LEMMA LoopTypes ==
    ASSUME TypeOK, [Next]_vars
    PROVE  LoopTypeOK'
<1> USE DEF LoopTypeOK, Go, Steps
<1>0. BrokerTypeOK /\ DbTypeOK /\ TrackTypeOK /\ LoopTypeOK
  BY DEF TypeOK
<1>1. ASSUME NEW b \in Bots, Process(b) PROVE LoopTypeOK'
  <2> USE DEF flagVars, closeVars, sendVars, boundVars, riskVars
  <2>1. CASE Boot(b)
    BY <2>1, BootLoopTypes
  <2>2. CASE Crash(b)
    <3>1. crashes' = [crashes EXCEPT ![b] = crashes[b] + 1]
          /\ counted' = [counted EXCEPT ![b] = {}] /\ daily_trades' = [daily_trades EXCEPT ![b] = 0]
      BY <2>2 DEF Crash
    <3>2. crashes' \in [Bots -> Nat] /\ counted' \in [Bots -> SUBSET SUBSET (1 .. MaxExecs)]
          /\ daily_trades' \in [Bots -> Nat]
      BY <1>0, <3>1
    <3> QED
      BY <1>0, <2>2, <3>2, LiveOrdersAssumption DEF Crash, None
  <2>3. CASE Poll(b) \/ PollBreaks(b)
    BY <1>0, <2>3 DEF Poll, PollBreaks
  <2>4. CASE DropFill(b) \/ LoseFill(b) \/ SkipFill(b) \/ SaveTrade(b) \/ DrainDone(b)
    BY <1>0, <2>4 DEF DropFill, LoseFill, SkipFill, SaveTrade, DrainDone
  <2>5. CASE RecordFill(b)
    <3>1. UNCHANGED <<riskVars, degraded, flagVars, closeVars, sendVars, boundVars>>
      BY <2>5 DEF RecordFill
    <3>2. pc' = pc \/ Go(b, "saveTrade")
      BY <2>5 DEF RecordFill
    <3> QED BY <1>0, <3>1, <3>2
  <2>6. CASE CloseOrder(b)
    <3>1. counted' = [counted EXCEPT ![b] = counted[b] \cup {pend[b]}]
      BY <2>6 DEF CloseOrder
    <3>2. counted[b] \cup {pend[b]} \in SUBSET SUBSET (1 .. MaxExecs)
      BY <1>0 DEF TrackTypeOK
    <3>3. counted' \in [Bots -> SUBSET SUBSET (1 .. MaxExecs)]
      BY <1>0, <3>1, <3>2
    <3> QED BY <1>0, <2>6, <3>3 DEF CloseOrder
  <2>7. CASE SkipFlatten(b) \/ FlattenEntry(b)
    BY <1>0, <2>7 DEF SkipFlatten, FlattenEntry
  <2>0. pos \in Int
    BY <1>0 DEF BrokerTypeOK
  <2>8. CASE FlattenPosition(b)
    <3>1. \/ StartClose(b, "flatten") /\ UNCHANGED flagVars
          \/ Go(b, "probe") /\ UNCHANGED closeVars /\ UNCHANGED flagVars
          \/ Go(b, "probe") /\ UNCHANGED closeVars /\ MarkDay(b)
             /\ alerted' \in {alerted, [alerted EXCEPT ![b] = TRUE]} /\ UNCHANGED unprotected
      BY <2>8 DEF FlattenPosition
    <3>2. UNCHANGED <<riskVars, degraded, sendVars, boundVars>>
      BY <2>8 DEF FlattenPosition
    <3>3. CASE StartClose(b, "flatten") /\ UNCHANGED flagVars
      BY <1>0, <2>0, <3>2, <3>3 DEF StartClose
    <3>4. CASE Go(b, "probe") /\ UNCHANGED closeVars /\ UNCHANGED flagVars
      BY <1>0, <3>2, <3>4
    <3>5. CASE Go(b, "probe") /\ UNCHANGED closeVars /\ MarkDay(b)
               /\ alerted' \in {alerted, [alerted EXCEPT ![b] = TRUE]} /\ UNCHANGED unprotected
      BY <1>0, <3>2, <3>5 DEF MarkDay
    <3> QED BY <3>1, <3>3, <3>4, <3>5
  <2>9. CASE SendClose(b)
    <3>1. UNCHANGED <<riskVars, degraded, alerted, unprotected, sendVars, boundVars>>
      BY <2>9 DEF SendClose
    <3>2. \/ Go(b, "cancelLegs") /\ UNCHANGED <<flattened, closeVars>>
          \/ Go(b, "recheck") /\ att' = [att EXCEPT ![b] = @ + 1]
             /\ UNCHANGED <<flattened, rq, why>>
          \/ CloseReturns(b, FALSE)
      BY <2>9 DEF SendClose
    <3>3. CASE CloseReturns(b, FALSE)
      BY <1>0, <3>1, <3>3, CloseLoopTypes
    <3>4. CASE Go(b, "cancelLegs") /\ UNCHANGED <<flattened, closeVars>>
      BY <1>0, <3>1, <3>4
    <3>5. CASE Go(b, "recheck") /\ att' = [att EXCEPT ![b] = @ + 1]
               /\ UNCHANGED <<flattened, rq, why>>
      BY <1>0, <3>1, <3>5
    <3> QED BY <3>2, <3>3, <3>4, <3>5
  <2>10. CASE RecheckClose(b)
    BY <1>0, <2>10, CloseLoopTypes DEF RecheckClose
  <2>11. CASE CancelLegs(b)
    BY <1>0, <2>11, CloseLoopTypes DEF CancelLegs
  <2>12. CASE Probe(b) \/ NextBar(b) \/ Expire(b) \/ MarkExpired(b)
    <3>1. CASE Probe(b)
      BY <1>0, <3>1 DEF Probe
    <3>2. CASE NextBar(b)
      BY <1>0, <3>2 DEF NextBar
    <3>3. CASE Expire(b)
      <4>1. \E step \in Steps : Go(b, step)
        BY <3>3 DEF Expire
      <4> QED BY <1>0, <3>3, <4>1 DEF Expire
    <3>4. CASE MarkExpired(b)
      BY <1>0, <3>4 DEF MarkExpired
    <3> QED BY <2>12, <3>1, <3>2, <3>3, <3>4
  <2>13. CASE CheckPosition(b) \/ Watch(b) \/ Restop(b)
    <3>1. CASE CheckPosition(b)
      BY <1>0, <2>0, <3>1 DEF CheckPosition, StartClose
    <3>2. CASE Watch(b)
      <4>1. unprotected' \in [Bots -> 0 .. 2]
        BY <1>0, <3>2 DEF Watch
      <4> QED BY <1>0, <3>2, <4>1 DEF Watch, WatchEnds
    <3>3. CASE Restop(b)
      BY <1>0, <3>3 DEF Restop, WatchEnds
    <3> QED BY <2>13, <3>1, <3>2, <3>3
  <2>14. CASE FindPosition(b) \/ FindOrders(b) \/ Analyze(b) \/ ProcessSignal(b)
    BY <1>0, <2>14 DEF FindPosition, FindOrders, Analyze, ProcessSignal, Stay
  <2>15. CASE PlaceOrder(b)
    <3>1. CASE placing' = placing
      BY <1>0, <2>15, <3>1 DEF PlaceOrder
    <3>2. CASE Send(b) /\ placing' = [placing EXCEPT ![b] = Min(Unsent)]
      <4>1. Unsent \in SUBSET Nat /\ Unsent # {}
        BY <3>2, LiveOrdersAssumption DEF Send, Unsent, Orders
      <4>2. Min(Unsent) \in 0 .. MaxOrders
        BY <4>1, MinIn, LiveOrdersAssumption DEF Unsent, Orders
      <4> QED BY <1>0, <2>15, <3>2, <4>2 DEF PlaceOrder
    <3> QED BY <2>15, <3>1, <3>2 DEF PlaceOrder
  <2>16. CASE SaveSignal(b)
    BY <1>0, <2>16 DEF SaveSignal
  <2>17. CASE SaveOrder(b)
    <3>1. /\ daily_trades' = [daily_trades EXCEPT ![b] = @ + 1]
          /\ placing' = [placing EXCEPT ![b] = 0]
          /\ sig' = [sig EXCEPT ![b] = FALSE]
          /\ degraded' \in {degraded, [degraded EXCEPT ![b] = TRUE]}
          /\ Go(b, "bar")
          /\ UNCHANGED <<counted, flagVars, closeVars, boundVars>>
      BY <2>17 DEF SaveOrder, None
    <3>2. placing' \in [Bots -> 0 .. MaxOrders]
      BY <1>0, <3>1, LiveOrdersAssumption
    <3>3. daily_trades' \in [Bots -> Nat]
      BY <1>0, <3>1
    <3>4. sig' \in [Bots -> BOOLEAN] /\ degraded' \in [Bots -> BOOLEAN]
      BY <1>0, <3>1
    <3> QED BY <1>0, <3>1, <3>2, <3>3, <3>4
  <2> QED
    BY <1>1, <2>1, <2>2, <2>3, <2>4, <2>5, <2>6, <2>7, <2>8, <2>9, <2>10, <2>11,
       <2>12, <2>13, <2>14, <2>15, <2>16, <2>17
    DEF Process, Tick, Drain, Flatten, Close, Bar, Enter
<1>2. CASE Broker
  BY <1>0, <1>2 DEF Broker, flagVars, closeVars, sendVars, boundVars, riskVars
<1>3. CASE UNCHANGED vars
  BY <1>0, <1>3 DEF vars, flagVars, closeVars, sendVars, boundVars, riskVars
<1> QED
  BY <1>1, <1>2, <1>3 DEF Next

-----------------------------------------------------------------------------
\* The poll and its channel: executions are only ever appended.
LEMMA ExecutionsGrow ==
    ASSUME TypeOK, [Next]_vars
    PROVE  /\ Len(execs) \in Nat /\ Len(execs') \in Nat /\ Len(execs) <= Len(execs')
           /\ \A e \in 1 .. Len(execs) : execs'[e] = execs[e]
<1>0. BrokerTypeOK /\ Len(execs) \in Nat
  BY DEF TypeOK, BrokerTypeOK
<1>1. ASSUME NEW c, NEW o, NEW s, Execute(c, o, s)
      PROVE  /\ Len(execs') = Len(execs) + 1
             /\ \A e \in 1 .. Len(execs) : execs'[e] = execs[e]
  BY <1>0, <1>1 DEF Execute, BrokerTypeOK
<1>2. ASSUME ~ UNCHANGED execs PROVE \E c, o, s : Execute(c, o, s)
  <2>1. CASE Broker
    <3>1. \/ \E o \in Orders : Execute(owner[o], o, "buy") \/ Execute(owner[o], o, "sell")
          \/ \E b \in Bots, s \in Sides : Execute(b, None, s)
      BY <1>2, <2>1 DEF Broker, FillEntry, FillLeg, FillMarket, FillStop, RejectEntry, RejectLegs,
         OpenFlattenWindow, Bell
    <3> QED BY <3>1
  <2>2. ASSUME NEW b \in Bots, Process(b) PROVE UNCHANGED execs
    BY <2>2 DEF Process, Tick, Boot, Crash, Poll, PollBreaks, Drain, DropFill, LoseFill,
     SkipFill, RecordFill, SaveTrade, CloseOrder, DrainDone, Flatten, SkipFlatten,
     FlattenEntry, FlattenPosition, Close, SendClose, RecheckClose, CancelLegs, Bar,
     Probe, NextBar, Expire, MarkExpired, CheckPosition, Watch, Restop, WatchEnds, Enter, FindPosition,
     FindOrders, Analyze, ProcessSignal, PlaceOrder, SaveSignal, SaveOrder, Stay, brokerVars
  <2> QED
    BY <1>2, <2>1, <2>2 DEF Next, vars, brokerVars
<1> QED
  BY <1>0, <1>1, <1>2

\* The poll and the drain keep the channel a list of executions that happened.
LEMMA FeedTypes ==
    ASSUME TypeOK, [Next]_vars
    PROVE  FeedTypeOK'
<1> USE DEF FeedTypeOK
<1>0. FeedTypeOK /\ Len(execs) \in Nat
  BY DEF TypeOK, BrokerTypeOK
<1>1. Len(execs) \in Nat /\ Len(execs') \in Nat /\ Len(execs) <= Len(execs')
  BY ExecutionsGrow
<1>2. ASSUME NEW b \in Bots, Poll(b) PROVE FeedTypeOK'
  <2> DEFINE batch == [i \in 1 .. Len(execs) - seen[b] |-> seen[b] + i]
             n == Len(execs) - seen[b]
  <2>1. UNCHANGED execs /\ seen' = [seen EXCEPT ![b] = Len(execs)]
        /\ chan' = [chan EXCEPT ![b] = chan[b] \o batch]
    BY <1>2 DEF Poll, brokerVars
  <2>2. n \in Nat /\ seen[b] \in Nat
    BY <1>0
  <2>3. batch \in Seq(Nat) /\ Len(batch) = n
        /\ \A i \in 1 .. n : batch[i] \in 1 .. Len(execs)
    <3>1. \A i \in 1 .. n : seen[b] + i \in 1 .. Len(execs) /\ seen[b] + i \in Nat
      BY <1>0, <2>2
    <3>2. batch \in [1 .. n -> Nat]
      BY <3>1
    <3>3. \A i \in 1 .. n : batch[i] = seen[b] + i
      OBVIOUS
    <3> HIDE DEF batch, n
    <3>4. batch \in Seq(Nat) /\ Len(batch) = n
      BY <2>2, <3>2
    <3> QED BY <3>1, <3>3, <3>4
  <2>4. chan[b] \o batch \in Seq(Nat)
        /\ \A i \in DOMAIN (chan[b] \o batch) : (chan[b] \o batch)[i] \in 1 .. Len(execs)
    <3> HIDE DEF batch, n
    <3> QED BY <1>0, <2>2, <2>3
  <2> HIDE DEF batch
  <2> QED BY <1>0, <2>1, <2>4
<1>3. ASSUME NEW b \in Bots, PollBreaks(b) PROVE FeedTypeOK'
  <2>1. PICK n \in seen[b] + 1 .. Len(execs) : seen' = [seen EXCEPT ![b] = n]
    BY <1>3 DEF PollBreaks
  <2>2. n \in Nat /\ n <= Len(execs)
    BY <1>0, <2>1
  <2> QED BY <1>0, <1>3, <2>1, <2>2 DEF PollBreaks, brokerVars
<1>4. ASSUME NEW b \in Bots, \E e \in 1 .. MaxExecs : NextFill(b, e),
             UNCHANGED <<seen, execs>>
      PROVE  FeedTypeOK'
  <2>1. chan[b] # <<>> /\ chan' = [chan EXCEPT ![b] = Tail(chan[b])]
    BY <1>4 DEF NextFill
  <2>2. Tail(chan[b]) \in Seq(Nat)
        /\ \A i \in DOMAIN Tail(chan[b]) : Tail(chan[b])[i] \in 1 .. Len(execs)
    BY <1>0, <2>1
  <2> QED BY <1>0, <1>4, <2>1, <2>2
<1>5. ASSUME NEW b \in Bots, Crash(b) PROVE FeedTypeOK'
  <2>1. <<>> \in Seq(Nat) /\ DOMAIN <<>> = {}
    OBVIOUS
  <2> QED BY <1>0, <1>1, <1>5, <2>1 DEF Crash, brokerVars
<1>6. ASSUME UNCHANGED <<seen, chan>> PROVE FeedTypeOK'
  <2>1. \A m \in Nat : m <= Len(execs) => m <= Len(execs')
    BY <1>1
  <2>2. \A m \in 1 .. Len(execs) : m \in 1 .. Len(execs')
    BY <1>1
  <2> QED BY <1>0, <1>6, <2>1, <2>2
<1>7. ASSUME NEW b \in Bots, Process(b),
             ~ (Poll(b) \/ PollBreaks(b) \/ DropFill(b) \/ LoseFill(b) \/ SkipFill(b)
                \/ RecordFill(b) \/ Crash(b))
      PROVE  UNCHANGED feedVars
  BY <1>7 DEF Process, Tick, Boot, Drain, SaveTrade, CloseOrder, DrainDone, Flatten,
     SkipFlatten, FlattenEntry, FlattenPosition, Close, SendClose, RecheckClose,
     CancelLegs, Bar, Probe, NextBar, Expire, MarkExpired, CheckPosition, Watch, Restop, WatchEnds, Enter,
     FindPosition, FindOrders, Analyze, ProcessSignal, PlaceOrder, SaveSignal,
     SaveOrder, Stay
<1>8. ASSUME NEW b \in Bots, DropFill(b) \/ LoseFill(b) \/ SkipFill(b) \/ RecordFill(b)
      PROVE  (\E e \in 1 .. MaxExecs : NextFill(b, e)) /\ UNCHANGED <<seen, execs>>
  BY <1>8 DEF DropFill, LoseFill, SkipFill, RecordFill, brokerVars
<1> QED
  BY <1>2, <1>3, <1>4, <1>5, <1>6, <1>7, <1>8 DEF Next, Broker, vars, feedVars

-----------------------------------------------------------------------------

\* The type invariant holds at the start of the day.
LEMMA TypesInit == Init => TypeOK
<1> SUFFICES ASSUME Init PROVE TypeOK
  OBVIOUS
<1>1. 0 \in 0 .. MaxOrders /\ Len(<<>>) = 0 /\ DOMAIN <<>> = {}
  BY LiveOrdersAssumption
<1>2. BrokerTypeOK /\ DbTypeOK
  BY <1>1, LiveOrdersAssumption DEF Init, BrokerTypeOK, DbTypeOK, BracketStates, None
<1>3. TrackTypeOK /\ LoopTypeOK
  BY <1>1 DEF Init, TrackTypeOK, LoopTypeOK, Steps, None
<1>4. FeedTypeOK
  BY <1>1 DEF Init, FeedTypeOK
<1> QED
  BY <1>2, <1>3, <1>4 DEF TypeOK

\* Every variable of the model stays in its type for every number of processes,
\* brackets, lots and restarts: a restart never recovers an order that does not
\* exist, and no fill is drained that did not happen.
THEOREM TypeCorrect == Spec => []TypeOK
<1>1. TypeOK /\ [Next]_vars => TypeOK'
  BY BrokerTypes, DbTypes, TrackTypes, LoopTypes, FeedTypes DEF TypeOK
<1> QED
  BY <1>1, TypesInit, PTL DEF Spec


-----------------------------------------------------------------------------
(* One bracket per process *)

\* From the reconciliation that found nothing to the send, the process has no
\* bracket working: only the process itself could add one.
Deciding == {"analyze", "signal", "place"}

ClearToSend == \A b \in Bots : pc[b] \in Deciding => OpenOrders(b) = {}

BrokerType == /\ owner \in [Orders -> Bots \cup {NoBot}]
              /\ bracket \in [Orders -> BracketStates]
              /\ pc \in [Bots -> Steps]

BracketInv == BrokerType /\ OneBracketPerClient /\ ClearToSend

-----------------------------------------------------------------------------
\* A step that leaves the owners alone and brings no bracket to work keeps the
\* brackets of each client within what they were.
LEMMA FewerWorking ==
    ASSUME BrokerType, BrokerType', UNCHANGED owner,
           \A o \in Orders : bracket'[o] \in Working => bracket[o] \in Working
    PROVE  \A b \in Bots : OpenOrders(b)' \subseteq OpenOrders(b)
BY DEF OpenOrders, Own, Orders

\* Such a step keeps the invariant when no process comes to a decision by it,
\* except one that found no order.
LEMMA KeepsBracketInv ==
    ASSUME BracketInv, BrokerType', UNCHANGED owner,
           \A o \in Orders : bracket'[o] \in Working => bracket[o] \in Working,
           \A b \in Bots : pc'[b] \in Deciding => pc[b] \in Deciding \/ OpenOrders(b) = {}
    PROVE  BracketInv'
BY FewerWorking DEF BracketInv, OneBracketPerClient, ClearToSend

-----------------------------------------------------------------------------
\* The steps of a process that neither send nor cancel a bracket.
LEMMA QuietStep ==
    ASSUME BracketInv, BrokerType', UNCHANGED <<owner, bracket>>,
           \A b \in Bots : pc'[b] \in Deciding => pc[b] \in Deciding \/ OpenOrders(b) = {}
    PROVE  BracketInv'
BY KeepsBracketInv

\* A process sends a bracket only when it has none working, and then has one.
LEMMA PlaceOrderStep ==
    ASSUME NEW b \in Bots, BracketInv, BrokerType', PlaceOrder(b)
    PROVE  BracketInv'
<1>1. OpenOrders(b) = {}
  BY DEF PlaceOrder, At, BracketInv, ClearToSend, Deciding
<1>2. \A c \in Bots : pc'[c] \in Deciding => c # b /\ pc[c] \in Deciding
  BY DEF PlaceOrder, Go, BracketInv, BrokerType, Deciding
<1>3. CASE Send(b)
  <2> DEFINE new == Min(Unsent)
  <2>1. OpenOrders(b)' \subseteq {new}
    BY <1>1, <1>3 DEF Send, OpenOrders, Own, BracketInv, BrokerType
  <2>2. \A c \in Bots \ {b} : OpenOrders(c)' \subseteq OpenOrders(c)
    BY <1>3 DEF Send, OpenOrders, Own, BracketInv, BrokerType
  <2> QED
    BY <1>2, <2>1, <2>2 DEF BracketInv, OneBracketPerClient, ClearToSend
<1>4. CASE UNCHANGED <<bracket, owner>>
  BY <1>2, <1>4, QuietStep
<1> QED
  BY <1>3, <1>4 DEF PlaceOrder

\* The market, the rejections and the bell only take brackets out of work.
LEMMA BrokerStep ==
    ASSUME BracketInv, BrokerType', Broker
    PROVE  BracketInv'
<1>1. UNCHANGED <<owner, pc>>
  BY DEF Broker, FillEntry, FillLeg, FillMarket, FillStop, RejectEntry, RejectLegs,
         OpenFlattenWindow, Bell
<1>2. ASSUME NEW o \in Orders, bracket'[o] \in Working PROVE bracket[o] \in Working
  BY <1>2 DEF Broker, FillEntry, FillLeg, FillMarket, FillStop, RejectEntry, RejectLegs,
              OpenFlattenWindow, Bell, EntryCancelled, Working, EntryWorking,
              LegsListed, BracketInv, BrokerType, BracketStates
<1> QED
  BY <1>1, <1>2, KeepsBracketInv

\* The cancels only take brackets out of work.
LEMMA CancelStep ==
    ASSUME NEW b \in Bots, BracketInv, BrokerType',
           FlattenEntry(b) \/ Expire(b) \/ CancelLegs(b)
    PROVE  BracketInv'
<1>1. UNCHANGED owner
  BY DEF FlattenEntry, Expire, CancelLegs
<1>2. \A c \in Bots : pc'[c] \in Deciding => pc[c] \in Deciding
  BY DEF FlattenEntry, Expire, CancelLegs, CloseReturns, Go, BracketInv, BrokerType, Deciding
<1>3. ASSUME NEW o \in Orders, bracket'[o] \in Working PROVE bracket[o] \in Working
  <2> USE <1>3 DEF EntryCancelled, Working, EntryWorking, LegsListed, BracketInv, BrokerType
  <2>1. CASE FlattenEntry(b) \/ Expire(b)
    BY <2>1 DEF FlattenEntry, Expire, CancelOk, CancelErr
  <2>2. CASE CancelLegs(b)
    BY <2>2 DEF CancelLegs, ExitCancelled
  <2> QED
    BY <2>1, <2>2
<1> QED
  BY <1>1, <1>2, <1>3, KeepsBracketInv

\* The other steps of a process leave every bracket alone.
LEMMA OtherStep ==
    ASSUME NEW b \in Bots, BracketInv, BrokerType', Process(b),
           ~ (FlattenEntry(b) \/ Expire(b) \/ CancelLegs(b) \/ PlaceOrder(b))
    PROVE  BracketInv'
<1> USE DEF brokerVars, Go, BracketInv, BrokerType, Deciding
<1> DEFINE Quiet == /\ UNCHANGED <<owner, bracket>>
                    /\ \A c \in Bots : pc'[c] \in Deciding =>
                                          pc[c] \in Deciding \/ OpenOrders(c) = {}
<1>1. CASE Boot(b) \/ Crash(b)
  <2>1. Quiet
    BY <1>1 DEF Boot, Crash
  <2> QED BY <2>1, QuietStep
<1>2. CASE Poll(b) \/ PollBreaks(b)
  <2>1. Quiet
    BY <1>2 DEF Poll, PollBreaks
  <2> QED BY <2>1, QuietStep
<1>3. CASE Drain(b)
  <2>1. Quiet
    BY <1>3 DEF Drain, DropFill, LoseFill, SkipFill, RecordFill, SaveTrade,
                CloseOrder, DrainDone
  <2> QED BY <2>1, QuietStep
<1>4. CASE SkipFlatten(b) \/ FlattenPosition(b) \/ SendClose(b) \/ RecheckClose(b)
  <2>1. Quiet
    BY <1>4 DEF SkipFlatten, FlattenPosition, StartClose, SendClose, RecheckClose,
                CloseReturns
  <2> QED BY <2>1, QuietStep
<1>5. CASE Probe(b) \/ NextBar(b) \/ MarkExpired(b) \/ CheckPosition(b) \/ Watch(b) \/ Restop(b)
  <2>1. Quiet
    BY <1>5 DEF Probe, NextBar, MarkExpired, CheckPosition, Watch, Restop, WatchEnds, StartClose
  <2> QED BY <2>1, QuietStep
<1>6. CASE FindPosition(b) \/ Analyze(b) \/ ProcessSignal(b)
  <2>1. Quiet
    BY <1>6 DEF FindPosition, Analyze, ProcessSignal, At, Stay
  <2> QED BY <2>1, QuietStep
<1>7. CASE FindOrders(b)
  <2>1. Quiet
    BY <1>7 DEF FindOrders, HasOpenOrder, Stay
  <2> QED BY <2>1, QuietStep
<1>8. CASE SaveSignal(b) \/ SaveOrder(b)
  <2>1. Quiet
    BY <1>8 DEF SaveSignal, SaveOrder
  <2> QED BY <2>1, QuietStep
<1> QED
  BY <1>1, <1>2, <1>3, <1>4, <1>5, <1>6, <1>7, <1>8
  DEF Process, Tick, Flatten, Close, Bar, Enter

-----------------------------------------------------------------------------

\* No bracket was sent at the start of the day.
LEMMA BracketInvInit == Init => BracketInv
BY DEF Init, BracketInv, BrokerType, BracketStates, Steps, OneBracketPerClient,
       ClearToSend, OpenOrders, Own, Working, EntryWorking, LegsListed, Deciding

\* Every step keeps BracketInv: one that sends does so from "place", which only
\* a process with no working bracket reaches.
LEMMA BracketInvNext == TypeOK' /\ BracketInv /\ [Next]_vars => BracketInv'
<1> SUFFICES ASSUME TypeOK', BracketInv, [Next]_vars PROVE BracketInv'
  OBVIOUS
<1>0. BrokerType'
  BY DEF TypeOK, BrokerTypeOK, LoopTypeOK, BrokerType
<1>1. CASE Broker
  BY <1>0, <1>1, BrokerStep
<1>2. ASSUME NEW b \in Bots, Process(b) PROVE BracketInv'
  BY <1>0, <1>2, PlaceOrderStep, CancelStep, OtherStep
<1>3. CASE UNCHANGED vars
  BY <1>0, <1>3, QuietStep DEF vars, brokerVars
<1> QED
  BY <1>1, <1>2, <1>3 DEF Next

\* No process ever has two brackets working, for every number of processes,
\* whatever calls fail and wherever they crash: the reconciliation of
\* find_exposure is what forbids it, and the memory of the process has no part.
THEOREM OneBracketSafe == Spec => []OneBracketPerClient
<1>1. BracketInv => OneBracketPerClient
  BY DEF BracketInv
<1> QED
  BY <1>1, BracketInvInit, BracketInvNext, TypeCorrect, PTL DEF Spec

-----------------------------------------------------------------------------
(* The tracker and its order *)

\* The steps that drop the order are taken with the tracker closed, and a bracket
\* that was sent is on its way to the tracker.
Dropping == {"saveTrade", "closeOrder", "markExpired"}
Saving == {"saveSignal", "saveOrder"}

TrackerInv ==
    /\ TrackerHasOrder
    /\ \A b \in Bots : pc[b] \in Dropping => ~ IsOpen(b)
    /\ \A b \in Bots : pc[b] \in Saving => placing[b] # None

\* A step of the process itself that touches neither the tracker nor placing and
\* comes to no new point where the order is dropped or saved.
LEMMA TrackerQuiet ==
    ASSUME TrackerInv, UNCHANGED <<direction, open_order, placing>>,
           \A c \in Bots : /\ pc'[c] \in Dropping => pc[c] \in Dropping
                           /\ pc'[c] \in Saving => pc[c] \in Saving
    PROVE  TrackerInv'
BY DEF TrackerInv, TrackerHasOrder, IsOpen

\* Every step of a process keeps TrackerInv.
LEMMA TrackerInvProcess ==
    ASSUME TypeOK, TypeOK', TrackerInv, NEW b \in Bots, Process(b)
    PROVE  TrackerInv'
<1>0. TrackTypeOK /\ LoopTypeOK /\ TrackTypeOK' /\ LoopTypeOK'
  BY DEF TypeOK
<1> USE DEF TrackTypeOK, LoopTypeOK, Go, At, Dropping, Saving
<1> DEFINE Quiet == /\ UNCHANGED <<direction, open_order, placing>>
                    /\ \A c \in Bots : /\ pc'[c] \in Dropping => pc[c] \in Dropping
                                       /\ pc'[c] \in Saving => pc[c] \in Saving
<1>1. CASE Boot(b)
  BY <1>0, <1>1 DEF Boot, TrackerInv, TrackerHasOrder, IsOpen, sendVars
<1>2. CASE Crash(b)
  BY <1>0, <1>2 DEF Crash, TrackerInv, TrackerHasOrder, IsOpen
<1>3. CASE RecordFill(b)
  <2>1. /\ open_order[b] # None /\ pc[b] = "drain"
        /\ UNCHANGED <<open_order, placing>>
    BY <1>3 DEF RecordFill, NextFill, Tracked, sendVars
  <2>2. \/ \E d : direction' = [direction EXCEPT ![b] = d] /\ pc' = pc
        \/ direction' = [direction EXCEPT ![b] = "none"] /\ Go(b, "saveTrade")
    BY <1>3 DEF RecordFill
  <2>3. CASE pc' = pc
    BY <1>0, <2>1, <2>2, <2>3 DEF TrackerInv, TrackerHasOrder, IsOpen
  <2>4. CASE direction' = [direction EXCEPT ![b] = "none"] /\ Go(b, "saveTrade")
    BY <1>0, <2>1, <2>4 DEF TrackerInv, TrackerHasOrder, IsOpen
  <2> QED BY <2>2, <2>3, <2>4
<1>4. CASE SaveTrade(b) \/ CloseOrder(b) \/ MarkExpired(b)
  BY <1>0, <1>4 DEF SaveTrade, CloseOrder, MarkExpired, Forget, TrackerInv,
     TrackerHasOrder, IsOpen, trackVars, sendVars
<1>5. CASE FlattenEntry(b)
  BY <1>0, <1>5 DEF FlattenEntry, Forget, TrackerInv, TrackerHasOrder, IsOpen, sendVars
<1>6. CASE Expire(b)
  BY <1>0, <1>6 DEF Expire, TrackerInv, TrackerHasOrder, IsOpen, sendVars
<1>7. CASE PlaceOrder(b)
  <2>1. placing' = [placing EXCEPT ![b] = Min(Unsent)] /\ Unsent # {} => Min(Unsent) # None
    BY MinIn, LiveOrdersAssumption DEF Unsent, Orders, None
  <2>2. UNCHANGED <<direction, open_order>>
    BY <1>7 DEF PlaceOrder, trackVars
  <2>3. \/ Go(b, "bar") /\ UNCHANGED placing
        \/ Go(b, "saveSignal") /\ placing'[b] # None /\ \A c \in Bots : c # b => placing'[c] = placing[c]
    BY <1>0, <1>7, <2>1 DEF PlaceOrder, Send
  <2>4. TrackerHasOrder'
    BY <2>2 DEF TrackerInv, TrackerHasOrder, IsOpen
  <2>5. CASE Go(b, "bar") /\ UNCHANGED placing
    BY <1>0, <2>2, <2>4, <2>5 DEF TrackerInv, IsOpen
  <2>6. CASE Go(b, "saveSignal") /\ placing'[b] # None
             /\ \A c \in Bots : c # b => placing'[c] = placing[c]
    BY <1>0, <2>2, <2>4, <2>6 DEF TrackerInv, IsOpen
  <2> QED
    BY <2>3, <2>5, <2>6
<1>8. CASE SaveSignal(b)
  <2>1. /\ pc[b] \in Saving /\ Go(b, "saveOrder")
        /\ UNCHANGED <<direction, open_order, placing>>
    BY <1>8 DEF SaveSignal, trackVars
  <2> QED BY <1>0, <2>1 DEF TrackerInv, TrackerHasOrder, IsOpen
<1>13. CASE SaveOrder(b)
  <2>1. /\ pc[b] \in Saving /\ Go(b, "bar")
        /\ open_order' = [open_order EXCEPT ![b] = placing[b]]
        /\ placing' = [placing EXCEPT ![b] = None]
        /\ UNCHANGED direction
    BY <1>13 DEF SaveOrder
  <2> QED BY <1>0, <2>1 DEF TrackerInv, TrackerHasOrder, IsOpen
<1>9. CASE Poll(b) \/ PollBreaks(b) \/ DropFill(b) \/ LoseFill(b) \/ SkipFill(b) \/ DrainDone(b)
  <2>1. Quiet
    <3>1. CASE Poll(b) \/ PollBreaks(b)
      BY <1>0, <3>1 DEF Poll, PollBreaks, trackVars, sendVars
    <3>2. CASE DropFill(b) \/ LoseFill(b) \/ SkipFill(b)
      BY <1>0, <3>2 DEF DropFill, LoseFill, SkipFill, trackVars, sendVars
    <3>3. CASE DrainDone(b)
      BY <1>0, <3>3 DEF DrainDone, trackVars, sendVars
    <3> QED BY <1>9, <3>1, <3>2, <3>3
  <2> QED BY <2>1, TrackerQuiet
<1>10. CASE SkipFlatten(b) \/ FlattenPosition(b) \/ SendClose(b) \/ RecheckClose(b) \/ CancelLegs(b)
  <2>1. Quiet
    BY <1>0, <1>10 DEF SkipFlatten, FlattenPosition, StartClose, SendClose, RecheckClose,
       CancelLegs, CloseReturns, trackVars, sendVars
  <2> QED BY <2>1, TrackerQuiet
<1>11. CASE Probe(b) \/ NextBar(b) \/ CheckPosition(b) \/ Watch(b) \/ Restop(b)
  <2>1. Quiet
    <3>1. CASE Probe(b)
      BY <1>0, <3>1 DEF Probe, trackVars, sendVars
    <3>2. CASE NextBar(b)
      BY <1>0, <3>2 DEF NextBar, trackVars, sendVars
    <3>3. CASE CheckPosition(b) \/ Watch(b) \/ Restop(b)
      BY <1>0, <3>3 DEF CheckPosition, Watch, Restop, WatchEnds, StartClose, trackVars, sendVars
    <3> QED BY <1>11, <3>1, <3>2, <3>3
  <2> QED BY <2>1, TrackerQuiet
<1>12. CASE FindPosition(b) \/ FindOrders(b) \/ Analyze(b) \/ ProcessSignal(b)
  <2>1. Quiet
    BY <1>0, <1>12 DEF FindPosition, FindOrders, Analyze, ProcessSignal, Stay,
       trackVars, sendVars
  <2> QED BY <2>1, TrackerQuiet
<1> QED
  BY <1>1, <1>2, <1>3, <1>4, <1>5, <1>6, <1>7, <1>8, <1>9, <1>10, <1>11, <1>12, <1>13
  DEF Process, Tick, Drain, Flatten, Close, Bar, Enter

\* So does every step: the broker has no part in it.
LEMMA TrackerInvNext == TypeOK /\ TypeOK' /\ TrackerInv /\ [Next]_vars => TrackerInv'
<1> SUFFICES ASSUME TypeOK, TypeOK', TrackerInv, [Next]_vars PROVE TrackerInv'
  OBVIOUS
<1>1. CASE Broker
  BY <1>1, TrackerQuiet DEF Broker, trackVars, sendVars
<1>2. CASE UNCHANGED vars
  BY <1>2, TrackerQuiet DEF vars, trackVars, sendVars
<1> QED
  BY <1>1, <1>2, TrackerInvProcess DEF Next

\* An open tracker never loses its order, wherever the process crashes and
\* whichever calls fail.
THEOREM TrackerSafe == Spec => []TrackerHasOrder
<1>1. Init => TrackerInv
  BY DEF Init, TrackerInv, TrackerHasOrder, IsOpen, Dropping, Saving
<1>2. TrackerInv => TrackerHasOrder
  BY DEF TrackerInv
<1> QED
  BY <1>1, <1>2, TrackerInvNext, TypeCorrect, PTL DEF Spec

-----------------------------------------------------------------------------
(* The tracker and the database *)

\* A saved fill stays saved, under some order.
LEMMA FillsStaySaved ==
    ASSUME TypeOK, [Next]_vars, NEW e \in 1 .. MaxExecs, dbFill[e] # None
    PROVE  dbFill'[e] # None
<1>1. CASE Broker
  BY <1>1 DEF Broker, dbVars
<1>2. ASSUME NEW b \in Bots, RecordFill(b) PROVE dbFill'[e] # None
  BY <1>2 DEF RecordFill, Tracked, TypeOK, DbTypeOK
<1>3. ASSUME NEW b \in Bots, Process(b), ~ RecordFill(b) PROVE UNCHANGED dbFill
  BY <1>3 DEF Process, Tick, Boot, Crash, Poll, PollBreaks, Drain, DropFill, LoseFill,
     SkipFill, SaveTrade, CloseOrder, DrainDone, Flatten, SkipFlatten, FlattenEntry,
     FlattenPosition, Close, SendClose, RecheckClose, CancelLegs, Bar, Probe, NextBar,
     Expire, MarkExpired, CheckPosition, Watch, Restop, WatchEnds, Enter, FindPosition, FindOrders, Analyze,
     ProcessSignal, PlaceOrder, SaveSignal, SaveOrder, Stay, dbVars
<1> QED
  BY <1>1, <1>2, <1>3 DEF Next, vars, dbVars

\* The tracker of a process that did not boot, crash, record or finalize is what
\* it was.
LEMMA TrackedFillsStep ==
    ASSUME TypeOK, TypeOK', TrackedFillsPersisted, [Next]_vars
    PROVE  TrackedFillsPersisted'
<1>0. TrackTypeOK /\ DbTypeOK /\ TrackTypeOK' /\ DbTypeOK'
  BY DEF TypeOK
<1> USE DEF TrackedFillsPersisted
<1>1. \A e \in 1 .. MaxExecs : dbFill[e] # None => dbFill'[e] # None
  BY FillsStaySaved
<1>2. ASSUME NEW c \in Bots, NEW e \in lots'[c] \cup pend'[c], e \in lots[c] \cup pend[c]
      PROVE  dbFill'[e] # None
  BY <1>0, <1>1, <1>2 DEF TrackTypeOK
<1>3. ASSUME NEW b \in Bots, Boot(b), NEW c \in Bots, NEW e \in lots'[c] \cup pend'[c]
      PROVE  dbFill'[e] # None
  <2>1. PICK o : lots' = [lots EXCEPT ![b] = IF o = None THEN {} ELSE Replay(o)]
    BY <1>3 DEF Boot
  <2>2. UNCHANGED <<pend, dbFill>>
    BY <1>3 DEF Boot, dbVars
  <2>3. \A f \in Replay(o) : dbFill[f] = o
    BY DEF Replay, SavedFills
  <2> QED
    BY <1>0, <1>2, <1>3, <2>1, <2>2, <2>3 DEF TrackTypeOK
<1>4. ASSUME NEW b \in Bots, RecordFill(b), NEW c \in Bots, NEW e \in lots'[c] \cup pend'[c]
      PROVE  dbFill'[e] # None
  <2>1. PICK f \in 1 .. MaxExecs :
          /\ dbFill' = [dbFill EXCEPT ![f] = open_order[b]]
          /\ open_order[b] # None
          /\ lots' = [lots EXCEPT ![b] = {}] \/ lots' = [lots EXCEPT ![b] = lots[b] \cup {f}]
          /\ pend' = pend \/ pend' = [pend EXCEPT ![b] = lots[b] \cup {f}]
    BY <1>4 DEF RecordFill, Tracked
  <2>2. e \in lots[c] \cup pend[c] \/ e = f
    BY <1>0, <1>4, <2>1 DEF TrackTypeOK
  <2>3. dbFill'[f] # None
    BY <1>0, <2>1 DEF DbTypeOK
  <2> QED
    BY <1>2, <1>4, <2>2, <2>3
<1>5. ASSUME NEW b \in Bots, Process(b), ~ Boot(b), ~ RecordFill(b)
      PROVE  /\ \/ UNCHANGED lots
                \/ lots' = [lots EXCEPT ![b] = {}]
             /\ \/ UNCHANGED pend
                \/ pend' = [pend EXCEPT ![b] = {}]
  BY <1>5 DEF Process, Tick, Crash, Poll, PollBreaks, Drain, DropFill, LoseFill,
     SkipFill, SaveTrade, CloseOrder, DrainDone, Flatten, SkipFlatten, FlattenEntry,
     FlattenPosition, Close, SendClose, RecheckClose, CancelLegs, Bar, Probe, NextBar,
     Expire, MarkExpired, CheckPosition, Watch, Restop, WatchEnds, Enter, FindPosition, FindOrders, Analyze,
     ProcessSignal, PlaceOrder, SaveSignal, SaveOrder, Stay, trackVars
<1>6. ASSUME NEW b \in Bots, Process(b), ~ Boot(b), ~ RecordFill(b),
             NEW c \in Bots, NEW e \in lots'[c] \cup pend'[c]
      PROVE  dbFill'[e] # None
  <2>1. e \in lots[c] \cup pend[c]
    BY <1>0, <1>5, <1>6 DEF TrackTypeOK
  <2> QED BY <1>2, <1>6, <2>1
<1>7. CASE UNCHANGED trackVars
  BY <1>2, <1>7 DEF trackVars
<1> QED
  BY <1>3, <1>4, <1>6, <1>7 DEF Next, Broker, vars

\* Whatever the tracker holds is in the database, for every number of processes
\* and crashes: a fill that failed to be saved never reaches the tracker.
THEOREM TrackedFillsSafe == Spec => []TrackedFillsPersisted
<1>1. Init => TrackedFillsPersisted
  BY DEF Init, TrackedFillsPersisted
<1>2. TypeOK /\ TypeOK' /\ TrackedFillsPersisted /\ [Next]_vars => TrackedFillsPersisted'
  BY TrackedFillsStep
<1> QED
  BY <1>1, <1>2, TypeCorrect, PTL DEF Spec

-----------------------------------------------------------------------------
(* Suspended entries *)

\* From the check of the suspension to the send nothing of the process itself
\* can fail to be written, so the flag that was read is still right.
CheckedInv == \A b \in Bots : pc[b] \in Deciding => ~ degraded[b]

\* A step of a process keeps CheckedInv: what sets the flag is the drain and the
\* save of the order, and neither leads to the analysis.
LEMMA CheckedProcess ==
    ASSUME TypeOK, TypeOK', CheckedInv, NEW b \in Bots, Process(b)
    PROVE  CheckedInv'
<1>0. LoopTypeOK /\ LoopTypeOK'
  BY DEF TypeOK
<1> USE DEF CheckedInv, Deciding, LoopTypeOK, Go, At
<1>1. CASE Boot(b) \/ Crash(b) \/ Poll(b) \/ PollBreaks(b)
  <2>1. CASE Boot(b)
    <3>1. Go(b, "drain") /\ UNCHANGED degraded
      BY <2>1 DEF Boot
    <3> QED BY <1>0, <3>1
  <2>2. CASE Crash(b)
    <3>1. Go(b, "down") /\ degraded' = [degraded EXCEPT ![b] = FALSE]
      BY <2>2 DEF Crash
    <3> QED BY <1>0, <3>1
  <2>3. CASE Poll(b) \/ PollBreaks(b)
    <3>1. UNCHANGED <<pc, degraded>>
      BY <2>3 DEF Poll, PollBreaks
    <3> QED BY <3>1
  <2> QED BY <1>1, <2>1, <2>2, <2>3
<1>2. CASE Drain(b)
  <2>1. CASE DropFill(b) \/ LoseFill(b) \/ SkipFill(b)
    <3>1. /\ pc[b] = "drain" /\ UNCHANGED pc
          /\ degraded' = degraded \/ degraded' = [degraded EXCEPT ![b] = TRUE]
      BY <2>1 DEF DropFill, LoseFill, SkipFill, NextFill
    <3> QED BY <1>0, <3>1
  <2>2. CASE RecordFill(b)
    <3>1. /\ pc[b] = "drain" /\ (pc' = pc \/ Go(b, "saveTrade"))
          /\ UNCHANGED degraded
      BY <2>2 DEF RecordFill, NextFill
    <3> QED BY <1>0, <3>1
  <2>3. CASE SaveTrade(b) \/ CloseOrder(b) \/ DrainDone(b)
    <3>1. /\ Go(b, "closeOrder") \/ Go(b, "drain") \/ Go(b, "flatten")
          /\ degraded' = degraded \/ degraded' = [degraded EXCEPT ![b] = TRUE]
      BY <2>3 DEF SaveTrade, CloseOrder, DrainDone
    <3> QED BY <1>0, <3>1
  <2> QED BY <1>2, <2>1, <2>2, <2>3 DEF Drain
<1>3. CASE Flatten(b)
  BY <1>0, <1>3 DEF Flatten, SkipFlatten, FlattenEntry, FlattenPosition, StartClose
<1>4. CASE Close(b)
  BY <1>0, <1>4 DEF Close, SendClose, RecheckClose, CancelLegs, CloseReturns
<1>5. CASE Bar(b)
  <2>1. CASE Probe(b)
    <3>1. pc' = [pc EXCEPT ![b] = "bar"] /\ \E d : degraded' = [degraded EXCEPT ![b] = d]
      BY <2>1 DEF Probe
    <3> QED BY <1>0, <3>1
  <2>2. CASE NextBar(b)
    BY <1>0, <2>2 DEF NextBar
  <2>3. CASE Expire(b) \/ MarkExpired(b) \/ CheckPosition(b) \/ Watch(b) \/ Restop(b)
    BY <1>0, <2>3 DEF Expire, MarkExpired, CheckPosition, Watch, Restop, WatchEnds, StartClose
  <2> QED BY <1>5, <2>1, <2>2, <2>3 DEF Bar
<1>6. CASE FindPosition(b) \/ FindOrders(b) \/ Analyze(b) \/ ProcessSignal(b)
  BY <1>0, <1>6 DEF FindPosition, FindOrders, Analyze, ProcessSignal, Stay
<1>7. CASE PlaceOrder(b)
  BY <1>0, <1>7 DEF PlaceOrder
<1>8. CASE SaveSignal(b) \/ SaveOrder(b)
  BY <1>0, <1>8 DEF SaveSignal, SaveOrder
<1> QED
  BY <1>1, <1>2, <1>3, <1>4, <1>5, <1>6, <1>7, <1>8 DEF Process, Tick, Enter

\* Every step keeps CheckedInv.
LEMMA CheckedNext == TypeOK /\ TypeOK' /\ CheckedInv /\ [Next]_vars => CheckedInv'
<1> SUFFICES ASSUME TypeOK, TypeOK', CheckedInv, [Next]_vars PROVE CheckedInv'
  OBVIOUS
<1>1. CASE UNCHANGED <<pc, degraded>>
  BY <1>1 DEF CheckedInv
<1> QED
  BY <1>1, CheckedProcess DEF Next, Broker, vars

\* A bracket leaves the process by place_order alone.
LEMMA OnlyPlaceSends ==
    ASSUME TypeOK, Next, NEW o \in Orders, bracket[o] = "unsent", bracket'[o] # "unsent"
    PROVE  \E b \in Bots : At(b, "place") /\ owner'[o] = b
<1>0. owner \in [Orders -> Bots \cup {NoBot}] /\ bracket \in [Orders -> BracketStates]
  BY DEF TypeOK, BrokerTypeOK
<1>1. CASE Broker
  BY <1>0, <1>1 DEF Broker, FillEntry, FillLeg, FillMarket, FillStop, RejectEntry, RejectLegs,
     OpenFlattenWindow, Bell, EntryWorking, LegsListed, Working
<1>2. ASSUME NEW b \in Bots, PlaceOrder(b) PROVE At(b, "place") /\ owner'[o] = b
  BY <1>0, <1>2 DEF PlaceOrder, Send
<1>3. ASSUME NEW b \in Bots, FlattenEntry(b) \/ Expire(b) PROVE FALSE
  BY <1>0, <1>3 DEF FlattenEntry, Expire, CancelOk, CancelErr, EntryWorking
<1>4. ASSUME NEW b \in Bots, CancelLegs(b) PROVE FALSE
  BY <1>0, <1>4 DEF CancelLegs, OnSide, EntryWorking, LegsListed
<1>5. ASSUME NEW b \in Bots, Process(b),
             ~ (PlaceOrder(b) \/ FlattenEntry(b) \/ Expire(b) \/ CancelLegs(b))
      PROVE  UNCHANGED bracket
  BY <1>5 DEF Process, Tick, Boot, Crash, Poll, PollBreaks, Drain, DropFill, LoseFill,
     SkipFill, RecordFill, SaveTrade, CloseOrder, DrainDone, Flatten, SkipFlatten,
     FlattenPosition, Close, SendClose, RecheckClose, Bar, Probe, NextBar, MarkExpired,
     CheckPosition, Watch, Restop, WatchEnds, Enter, FindPosition, FindOrders, Analyze, ProcessSignal,
     SaveSignal, SaveOrder, Stay, brokerVars
<1> QED
  BY <1>1, <1>2, <1>3, <1>4, <1>5 DEF Next

\* No process ever sends a bracket with its entries suspended, for every number
\* of processes and whatever fails between the check and the send.
THEOREM EntriesSuspendedSafe == Spec => EntriesSuspended
<1>1. Init => CheckedInv
  BY DEF Init, CheckedInv, Deciding
<1>2. TypeOK /\ CheckedInv /\ [Next]_vars =>
        [\A o \in Orders : bracket[o] = "unsent" /\ bracket'[o] # "unsent" =>
                               ~ degraded[owner'[o]]]_vars
  BY OnlyPlaceSends DEF CheckedInv, Deciding, At
<1> QED
  BY <1>1, <1>2, CheckedNext, TypeCorrect, PTL DEF Spec, EntriesSuspended

-----------------------------------------------------------------------------
(* The risk state across restarts *)

\* With one process and a database that answers, the trades of the table are
\* those it counts, but for the one it is finalizing.
RiskInv ==
    \A b \in Bots : pc[b] # "down" =>
        dbTrades \subseteq counted[b] \cup (IF pc[b] = "closeOrder" THEN {pend[b]} ELSE {})

\* With the database answering, a step of the only process keeps RiskInv.
LEMMA RiskProcess ==
    ASSUME TypeOK, TypeOK', RiskInv, "db" \notin Faults, \A c, d \in Bots : c = d,
           NEW b \in Bots, Process(b)
    PROVE  RiskInv'
<1>0. LoopTypeOK /\ LoopTypeOK' /\ TrackTypeOK
  BY DEF TypeOK
<1>1. Bots = {b}
  OBVIOUS
<1> USE DEF RiskInv, LoopTypeOK, Go, At
<1>2. CASE Boot(b)
  BY <1>0, <1>1, <1>2 DEF Boot, RebuiltTrades, Fault, dbVars
<1>3. CASE Crash(b)
  BY <1>0, <1>1, <1>3 DEF Crash
<1>4. CASE SaveTrade(b)
  BY <1>0, <1>1, <1>4 DEF SaveTrade, Fault, riskVars, trackVars
<1>5. CASE CloseOrder(b)
  BY <1>0, <1>1, <1>5 DEF CloseOrder
<1>6. CASE RecordFill(b)
  <2>1. UNCHANGED <<dbTrades, counted>> /\ pc[b] = "drain" /\ (pc' = pc \/ pc'[b] = "saveTrade")
    BY <1>0, <1>6 DEF RecordFill, NextFill, riskVars
  <2> QED BY <1>0, <1>1, <2>1
<1>7. ASSUME UNCHANGED <<dbTrades, counted, pend>>, pc[b] # "down",
             pc'[b] = "closeOrder" <=> pc[b] = "closeOrder"
      PROVE  RiskInv'
  BY <1>0, <1>1, <1>7
<1>8. CASE Poll(b) \/ PollBreaks(b)
  BY <1>0, <1>7, <1>8 DEF Poll, PollBreaks, dbVars, riskVars, trackVars
<1>9. CASE DropFill(b) \/ LoseFill(b) \/ SkipFill(b) \/ DrainDone(b)
  BY <1>0, <1>7, <1>9 DEF DropFill, LoseFill, SkipFill, DrainDone, NextFill, dbVars,
     riskVars, trackVars
<1>10. CASE Flatten(b)
  BY <1>0, <1>7, <1>10 DEF Flatten, SkipFlatten, FlattenEntry, FlattenPosition, StartClose,
     dbVars, riskVars, trackVars
<1>11. CASE Close(b)
  BY <1>0, <1>7, <1>11 DEF Close, SendClose, RecheckClose, CancelLegs, CloseReturns,
     dbVars, riskVars, trackVars
<1>12. CASE Probe(b) \/ NextBar(b) \/ Expire(b) \/ MarkExpired(b)
  BY <1>0, <1>7, <1>12 DEF Probe, NextBar, Expire, MarkExpired, dbVars, riskVars, trackVars
<1>13. CASE CheckPosition(b) \/ Watch(b) \/ Restop(b)
  BY <1>0, <1>7, <1>13 DEF CheckPosition, Watch, Restop, WatchEnds, StartClose, dbVars, riskVars, trackVars
<1>14. CASE FindPosition(b) \/ FindOrders(b) \/ Analyze(b) \/ ProcessSignal(b)
  BY <1>0, <1>7, <1>14 DEF FindPosition, FindOrders, Analyze, ProcessSignal, Stay, dbVars,
     riskVars, trackVars
<1>15. CASE PlaceOrder(b) \/ SaveSignal(b) \/ SaveOrder(b)
  BY <1>0, <1>7, <1>15 DEF PlaceOrder, SaveSignal, SaveOrder, dbVars, riskVars, trackVars
<1> QED
  BY <1>2, <1>3, <1>4, <1>5, <1>6, <1>8, <1>9, <1>10, <1>11, <1>12, <1>13, <1>14, <1>15
  DEF Process, Tick, Drain, Bar, Enter

\* Every step keeps RiskInv.
LEMMA RiskNext ==
    ASSUME "db" \notin Faults, \A c, d \in Bots : c = d
    PROVE  TypeOK /\ TypeOK' /\ RiskInv /\ [Next]_vars => RiskInv'
<1> SUFFICES ASSUME TypeOK, TypeOK', RiskInv, [Next]_vars PROVE RiskInv'
  OBVIOUS
<1>1. CASE UNCHANGED <<pc, dbTrades, counted, pend>>
  BY <1>1 DEF RiskInv
<1> QED
  BY <1>1, RiskProcess DEF Next, Broker, vars, dbVars, riskVars, trackVars

\* "Garante que um restart do processo não zere os limites diários"
\* (rebuild_risk_state): one process, a database that answers, any number of
\* crashes between any two steps.
THEOREM RiskCoversDbSafe ==
    ASSUME "db" \notin Faults, \A c, d \in Bots : c = d
    PROVE  Spec => []RiskCoversDb
<1>1. Init => RiskInv
  BY DEF Init, RiskInv
<1>2. RiskInv => RiskCoversDb
  BY DEF RiskInv, RiskCoversDb, At
<1> QED
  BY <1>1, <1>2, RiskNext, TypeCorrect, PTL DEF Spec

-----------------------------------------------------------------------------
(* The limit of the day *)

\* The brackets that have a row, whatever became of them.
Recorded == {o \in Orders : dbOrder[o] # "none"}

\* The signal is saved before the row, so there are never more rows than
\* signals, and a process that is up has counted every signal whose bracket has
\* had its chance of a row.
Sending == {"place", "saveSignal", "saveOrder"}
Owed(b) == IF pc[b] = "saveOrder" THEN 1 ELSE 0
LimitInv ==
    /\ Cardinality(Recorded) <= MaxTrades
    /\ \A b \in Bots :
         /\ Cardinality(Recorded) + Owed(b) <= dbSignals
         /\ pc[b] # "down" => daily_trades[b] + Owed(b) = dbSignals
         /\ pc[b] \in Sending => daily_trades[b] < MaxTrades

\* The rows are finitely many, and a row more is at most one more.
LEMMA RecordedOneMore ==
    /\ Cardinality(Recorded) \in Nat
    /\ \A o : Cardinality(Recorded \cup {o}) \in Nat
              /\ Cardinality(Recorded \cup {o}) <= Cardinality(Recorded) + 1
<1>1. IsFiniteSet(Orders)
  BY FS_Interval, LiveOrdersAssumption DEF Orders
<1>2. IsFiniteSet(Recorded)
  BY <1>1, FS_Subset DEF Recorded
<1>3. Cardinality(Recorded) \in Nat
  BY <1>2, FS_CardinalityType
<1>4. ASSUME NEW o
      PROVE  Cardinality(Recorded \cup {o}) \in {Cardinality(Recorded), Cardinality(Recorded) + 1}
  BY <1>2, FS_AddElement
<1>5. \A n \in Nat : \A m \in {n, n + 1} : m \in Nat /\ m <= n + 1
  OBVIOUS
<1> QED
  BY <1>3, <1>4, <1>5

\* A step that touches neither rows nor signals and brings no process nearer to
\* a send, or only one that is within its limit.
LEMMA LimitQuiet ==
    ASSUME LimitInv, UNCHANGED <<dbOrder, dbSignals, daily_trades>>,
           \A c \in Bots :
             /\ pc'[c] = "saveOrder" <=> pc[c] = "saveOrder"
             /\ pc[c] = "down" => pc'[c] = "down"
             /\ pc'[c] \in Sending => pc[c] \in Sending \/ daily_trades[c] < MaxTrades
    PROVE  LimitInv'
<1>1. Recorded' = Recorded /\ \A c \in Bots : Owed(c)' = Owed(c)
  BY DEF Recorded, Owed
<1> QED
  BY <1>1 DEF LimitInv

\* The status of a row that is there changes; none appears.
LEMMA StatusKeepsRows ==
    ASSUME TypeOK, NEW o \in 0 .. MaxOrders, NEW status \in {"filled", "cancelled"}, SetStatus(o, status)
    PROVE  Recorded' = Recorded
<1>1. dbOrder \in [Orders -> {"none", "open", "orphan", "cancelled", "filled"}]
  BY DEF TypeOK, DbTypeOK
<1>2. CASE dbOrder' = dbOrder
  BY <1>2 DEF Recorded
<1>3. CASE dbOrder' = [dbOrder EXCEPT ![o] = status] /\ o # None /\ dbOrder[o] # "none"
  BY <1>1, <1>3 DEF Recorded
<1> QED
  BY <1>2, <1>3 DEF SetStatus

\* With the database answering, a step of the only process keeps LimitInv.
LEMMA LimitProcess ==
    ASSUME TypeOK, TypeOK', LimitInv, "db" \notin Faults, \A c, d \in Bots : c = d,
           NEW b \in Bots, Process(b)
    PROVE  LimitInv'
<1>0. LoopTypeOK /\ LoopTypeOK' /\ TrackTypeOK
  BY DEF TypeOK
<1>1. Bots = {b}
  OBVIOUS
<1>2. Cardinality(Recorded) \in Nat /\ dbSignals \in Nat /\ daily_trades[b] \in Nat /\ MaxTrades \in Nat
  BY <1>0, RecordedOneMore, LiveOrdersAssumption DEF TypeOK, DbTypeOK, LoopTypeOK
<1> USE DEF LoopTypeOK, Go, At, Sending
<1>3. CASE Boot(b)
  <2>1. /\ dbOrder' = dbOrder /\ dbSignals' = dbSignals /\ daily_trades'[b] = dbSignals
        /\ pc[b] = "down" /\ pc'[b] = "drain"
    BY <1>0, <1>3 DEF Boot, RebuiltSignals, Fault, dbVars
  <2>2. Recorded' = Recorded /\ Owed(b) = 0 /\ Owed(b)' = 0
    BY <2>1 DEF Recorded, Owed
  <2> QED
    BY <1>1, <1>2, <2>1, <2>2 DEF LimitInv
<1>4. CASE Crash(b)
  <2>1. dbOrder' = dbOrder /\ dbSignals' = dbSignals /\ pc'[b] = "down"
    BY <1>0, <1>4 DEF Crash, dbVars
  <2>2. Recorded' = Recorded /\ Owed(b) \in {0, 1} /\ Owed(b)' = 0
    BY <2>1 DEF Recorded, Owed
  <2> QED
    BY <1>1, <1>2, <2>1, <2>2 DEF LimitInv
<1>5. CASE SaveSignal(b)
  <2>1. /\ dbOrder' = dbOrder /\ dbSignals' = dbSignals + 1 /\ daily_trades' = daily_trades
        /\ pc[b] = "saveSignal" /\ pc'[b] = "saveOrder"
    BY <1>0, <1>5 DEF SaveSignal, Fault, riskVars
  <2>2. Recorded' = Recorded /\ Owed(b) = 0 /\ Owed(b)' = 1
    BY <2>1 DEF Recorded, Owed
  <2> QED
    BY <1>1, <1>2, <2>1, <2>2 DEF LimitInv
<1>6. CASE SaveOrder(b)
  <2>1. /\ dbSignals' = dbSignals /\ daily_trades'[b] = daily_trades[b] + 1
        /\ pc[b] = "saveOrder" /\ pc'[b] = "bar"
        /\ dbOrder' = [dbOrder EXCEPT ![placing[b]] = IF sig[b] THEN "open" ELSE "orphan"]
    BY <1>0, <1>6 DEF SaveOrder, Fault
  <2>2. Recorded' = Recorded \/ Recorded' = Recorded \cup {placing[b]}
    BY <2>1 DEF Recorded, TypeOK, DbTypeOK
  <2>3. Cardinality(Recorded') \in Nat /\ Cardinality(Recorded') <= Cardinality(Recorded) + 1
    <3>1. Cardinality(Recorded) <= Cardinality(Recorded) + 1
      BY <1>2
    <3>2. CASE Recorded' = Recorded
      BY <1>2, <3>1, <3>2
    <3>3. CASE Recorded' = Recorded \cup {placing[b]}
      BY <3>3, RecordedOneMore
    <3> QED
      BY <2>2, <3>2, <3>3
  <2>4. Owed(b) = 1 /\ Owed(b)' = 0
    BY <2>1 DEF Owed
  <2>5. Cardinality(Recorded) + 1 <= dbSignals /\ daily_trades[b] + 1 = dbSignals
        /\ daily_trades[b] < MaxTrades
    BY <2>1, <2>4 DEF LimitInv
  <2> QED
    BY <1>1, <1>2, <2>1, <2>3, <2>4, <2>5 DEF LimitInv
<1>7. CASE CloseOrder(b) \/ MarkExpired(b)
  <2>1. /\ dbSignals' = dbSignals /\ daily_trades' = daily_trades
        /\ pc[b] \in {"closeOrder", "markExpired"} /\ pc'[b] \in {"drain", "bar"}
    BY <1>0, <1>7 DEF CloseOrder, MarkExpired, riskVars
  <2>2. Recorded' = Recorded
    BY <1>0, <1>7, StatusKeepsRows DEF CloseOrder, MarkExpired, TrackTypeOK
  <2>3. Owed(b) = 0 /\ Owed(b)' = 0
    BY <2>1 DEF Owed
  <2> QED
    BY <1>1, <1>2, <2>1, <2>2, <2>3 DEF LimitInv
<1> DEFINE Quiet == /\ UNCHANGED <<dbOrder, dbSignals, daily_trades>>
                    /\ pc[b] # "down"
                    /\ pc'[b] = "saveOrder" <=> pc[b] = "saveOrder"
                    /\ pc'[b] \in Sending => pc[b] \in Sending \/ daily_trades[b] < MaxTrades
<1>8. ASSUME Quiet PROVE LimitInv'
  BY <1>1, <1>8, LimitQuiet
<1>9. CASE Poll(b) \/ PollBreaks(b)
  BY <1>0, <1>8, <1>9 DEF Poll, PollBreaks, dbVars, riskVars
<1>10. CASE DropFill(b) \/ LoseFill(b) \/ SkipFill(b) \/ DrainDone(b) \/ SaveTrade(b)
  BY <1>0, <1>8, <1>10 DEF DropFill, LoseFill, SkipFill, DrainDone, SaveTrade, NextFill, dbVars,
     riskVars
<1>11. CASE RecordFill(b)
  <2>1. /\ UNCHANGED <<dbOrder, dbSignals, daily_trades>> /\ pc[b] = "drain"
        /\ pc' = pc \/ pc'[b] = "saveTrade"
    BY <1>0, <1>11 DEF RecordFill, NextFill, riskVars
  <2> QED
    BY <1>8, <2>1
<1>12. CASE Flatten(b)
  BY <1>0, <1>8, <1>12 DEF Flatten, SkipFlatten, FlattenEntry, FlattenPosition, StartClose,
     dbVars, riskVars
<1>13. CASE Close(b)
  BY <1>0, <1>8, <1>13 DEF Close, SendClose, RecheckClose, CancelLegs, CloseReturns, dbVars, riskVars
<1>14. CASE Probe(b) \/ NextBar(b) \/ Expire(b)
  <2>1. UNCHANGED <<dbOrder, dbSignals, daily_trades>>
    BY <1>14 DEF Probe, NextBar, Expire, dbVars, riskVars
  <2>2. /\ pc[b] \in {"probe", "bar", "expire"}
        /\ \/ Go(b, "bar") \/ Go(b, "expire") \/ Go(b, "drain")
           \/ Go(b, "position") \/ Go(b, "markExpired")
    BY <1>14 DEF Probe, NextBar, Expire
  <2> QED
    BY <1>0, <1>8, <2>1, <2>2
<1>15. CASE CheckPosition(b) \/ Watch(b) \/ Restop(b)
  <2>1. UNCHANGED <<dbOrder, dbSignals, daily_trades>>
    BY <1>15 DEF CheckPosition, Watch, Restop, dbVars, riskVars
  <2>2. /\ pc[b] \in {"position", "watch", "restop"}
        /\ pc'[b] \in {"watch", "restop", "exposure", "close"}
    <3>1. CASE CheckPosition(b)
      BY <1>0, <3>1 DEF CheckPosition, StartClose
    <3>2. CASE Watch(b)
      <4>1. pc[b] = "watch" /\ (Go(b, "exposure") \/ Go(b, "restop"))
        BY <3>2 DEF Watch, WatchEnds
      <4> QED
        BY <1>0, <4>1
    <3>3. CASE Restop(b)
      BY <1>0, <3>3 DEF Restop, WatchEnds
    <3> QED
      BY <1>15, <3>1, <3>2, <3>3
  <2> QED
    BY <1>8, <2>1, <2>2
<1>16. CASE FindPosition(b) \/ FindOrders(b) \/ Analyze(b) \/ ProcessSignal(b)
  <2>1. UNCHANGED <<dbOrder, dbSignals, daily_trades>>
    BY <1>16 DEF FindPosition, FindOrders, Analyze, ProcessSignal, Stay, dbVars, riskVars
  <2>2. CASE FindPosition(b) \/ FindOrders(b) \/ Analyze(b)
    BY <1>0, <1>8, <2>1, <2>2 DEF FindPosition, FindOrders, Analyze
  <2>3. CASE ProcessSignal(b)
    BY <1>0, <1>8, <2>1, <2>3 DEF ProcessSignal
  <2> QED
    BY <1>16, <2>2, <2>3
<1>17. CASE PlaceOrder(b)
  BY <1>0, <1>8, <1>17 DEF PlaceOrder, dbVars, riskVars
<1> QED
  BY <1>3, <1>4, <1>5, <1>6, <1>7, <1>9, <1>10, <1>11, <1>12, <1>13, <1>14, <1>15, <1>16, <1>17
  DEF Process, Tick, Drain, Bar, Enter

\* The orders saved in a day stay within max_trades_per_day across any number of
\* restarts, because rebuild_risk_state counts the signals and a signal is saved
\* before its order: one process, a database that answers.
THEOREM OrdersWithinLimitSafe ==
    ASSUME "db" \notin Faults, \A c, d \in Bots : c = d
    PROVE  Spec => []RecordedOrdersWithinLimit
<1>1. ASSUME Init PROVE LimitInv
  <2>1. Recorded = {}
    BY <1>1 DEF Init, Recorded
  <2>2. Cardinality(Recorded) = 0
    BY <2>1, FS_EmptySet
  <2> QED
    BY <1>1, <2>2, LiveOrdersAssumption DEF Init, LimitInv, Owed, Sending
<1>2. ASSUME TypeOK, TypeOK', LimitInv, [Next]_vars PROVE LimitInv'
  <2>1. CASE UNCHANGED <<pc, dbOrder, dbSignals, daily_trades>>
    BY <1>2, <2>1, LimitQuiet
  <2> QED
    BY <1>2, <2>1, LimitProcess DEF Next, Broker, vars, dbVars, riskVars
<1>3. LimitInv => RecordedOrdersWithinLimit
  BY DEF LimitInv, Recorded, RecordedOrdersWithinLimit
<1> QED
  BY <1>1, <1>2, <1>3, TypeCorrect, PTL DEF Spec

-----------------------------------------------------------------------------
(* The position of the account: what entries raise it to and what protects *)
(* it, for the one process of a symbol.                                    *)

\* The position less what closes bought back: only the fill of an entry raises it.
Net == pos - BoughtBack

-----------------------------------------------------------------------------
(* Executions and the net position *)

\* The lots bought back are counted, and an execution adds one or none.
LEMMA BoughtBackType == /\ BrokerTypeOK => BoughtBack \in Nat
                        /\ BrokerTypeOK' => BoughtBack' \in Nat
<1>1. ASSUME NEW S, NEW ex \in Seq(S)
      PROVE  Cardinality({e \in DOMAIN ex : ex[e].ord = None /\ ex[e].side = "buy"}) \in Nat
  <2>1. Len(ex) \in Nat /\ DOMAIN ex = 1 .. Len(ex)
    OBVIOUS
  <2>2. IsFiniteSet(DOMAIN ex)
    BY <2>1, FS_Interval
  <2> QED
    BY <2>2, FS_Subset, FS_CardinalityType
<1> QED
  BY <1>1 DEF BrokerTypeOK, BoughtBack

\* What an execution does to the net position.
LEMMA NetStep ==
    ASSUME BrokerTypeOK, NEW c \in Bots \cup {NoBot}, NEW o \in 0 .. MaxOrders,
           NEW s \in Sides, Execute(c, o, s)
    PROVE  /\ Net \in Int /\ Net' \in Int
           /\ o # None /\ s = "buy" => Net' = Net + 1
           /\ o = None /\ s = "buy" => Net' = Net
           /\ s = "sell" => Net' = Net - 1
<1> DEFINE B == {e \in DOMAIN execs : execs[e].ord = None /\ execs[e].side = "buy"}
           n == Len(execs) + 1
           x == [by |-> c, ord |-> o, side |-> s]
<1>1. /\ execs' = Append(execs, x)
      /\ pos' = IF s = "buy" THEN pos + 1 ELSE pos - 1
      /\ pos \in Int /\ Len(execs) \in Nat
      /\ execs \in Executions /\ x.ord = o /\ x.side = s
  BY DEF Execute, BrokerTypeOK, Executions
<1>2. /\ DOMAIN execs = 1 .. Len(execs) /\ DOMAIN execs' = 1 .. n
      /\ execs'[n] = x /\ \A e \in DOMAIN execs : execs'[e] = execs[e]
  <2> HIDE DEF x
  <2> QED BY <1>1 DEF Executions
<1>3. B' = IF o = None /\ s = "buy" THEN B \cup {n} ELSE B
  <2>1. DOMAIN execs' = DOMAIN execs \cup {n} /\ n \notin DOMAIN execs
    BY <1>1, <1>2
  <2>2. execs'[n].ord = o /\ execs'[n].side = s
    BY <1>1, <1>2
  <2> HIDE DEF n, x
  <2> QED BY <1>2, <2>1, <2>2
<1>4. IsFiniteSet(B) /\ Cardinality(B) \in Nat /\ n \notin B
  <2>1. n \notin DOMAIN execs /\ IsFiniteSet(DOMAIN execs)
    BY <1>1, <1>2, FS_Interval
  <2> HIDE DEF n
  <2> QED BY <2>1, FS_Subset, FS_CardinalityType
<1>5. Cardinality(B \cup {n}) = Cardinality(B) + 1
  <2> HIDE DEF B, n
  <2> QED BY <1>4, FS_AddElement
<1>6. BoughtBack = Cardinality(B) /\ BoughtBack' = Cardinality(B')
  BY DEF BoughtBack
<1>7. /\ BoughtBack \in Nat
      /\ o = None /\ s = "buy" => BoughtBack' = BoughtBack + 1
      /\ ~ (o = None /\ s = "buy") => BoughtBack' = BoughtBack
  <2> HIDE DEF B, n
  <2> QED BY <1>3, <1>4, <1>5, <1>6
<1> HIDE DEF B, n, x
<1>8. s = "buy" \/ s = "sell"
  BY DEF Sides
<1> QED
  BY <1>1, <1>7, <1>8 DEF Net

\* A process executes nothing.
LEMMA ProcessesTradeNothing ==
    ASSUME NEW b \in Bots, Process(b)
    PROVE  UNCHANGED <<held, pos, execs, phase>> /\ Net' = Net
<1>1. UNCHANGED <<held, pos, execs, phase>>
  BY DEF Process, Tick, Boot, Crash, Poll, PollBreaks, Drain, DropFill, LoseFill,
     SkipFill, RecordFill, SaveTrade, CloseOrder, DrainDone, Flatten, SkipFlatten,
     FlattenEntry, FlattenPosition, Close, SendClose, RecheckClose, CancelLegs, Bar,
     Probe, NextBar, Expire, MarkExpired, CheckPosition, Watch, Restop, WatchEnds, Enter, FindPosition,
     FindOrders, Analyze, ProcessSignal, PlaceOrder, SaveSignal, SaveOrder, Stay, brokerVars
<1> QED
  BY <1>1 DEF Net, BoughtBack

\* The steps of a process that are not a call that changes the broker.
LEMMA BrokerUntouched ==
    ASSUME NEW b \in Bots, Process(b),
           ~ (FlattenEntry(b) \/ Expire(b) \/ CancelLegs(b) \/ SendClose(b) \/ Restop(b)
              \/ PlaceOrder(b))
    PROVE  UNCHANGED brokerVars
BY DEF Process, Tick, Boot, Crash, Poll, PollBreaks, Drain, DropFill, LoseFill,
     SkipFill, RecordFill, SaveTrade, CloseOrder, DrainDone, Flatten, SkipFlatten,
     FlattenPosition, Close, RecheckClose, Bar, Probe, NextBar, MarkExpired,
     CheckPosition, Watch, WatchEnds, Enter, FindPosition, FindOrders, Analyze, ProcessSignal,
     SaveSignal, SaveOrder, Stay, brokerVars

\* A process comes to its send from the last look at the position alone.
LEMMA ComesToPlace ==
    ASSUME TypeOK, NEW b \in Bots, Process(b), NEW c \in Bots, pc'[c] = "place"
    PROVE  pc[c] = "place" \/ pos = 0
<1>1. LoopTypeOK
  BY DEF TypeOK
<1> USE DEF LoopTypeOK, Go
<1>2. CASE UNCHANGED pc
  BY <1>2
<1>3. CASE ProcessSignal(b)
  BY <1>1, <1>3 DEF ProcessSignal
<1>4. CASE Boot(b) \/ Crash(b) \/ Poll(b) \/ PollBreaks(b) \/ Drain(b)
  BY <1>1, <1>4 DEF Boot, Crash, Poll, PollBreaks, Drain, DropFill, LoseFill, SkipFill, RecordFill,
     SaveTrade, CloseOrder, DrainDone
<1>5. CASE Flatten(b) \/ Close(b)
  BY <1>1, <1>5 DEF Flatten, SkipFlatten, FlattenEntry, FlattenPosition, StartClose, Close,
     SendClose, RecheckClose, CancelLegs, CloseReturns
<1>6. CASE Bar(b)
  BY <1>1, <1>6 DEF Bar, Probe, NextBar, Expire, MarkExpired, CheckPosition, Watch, Restop,
     WatchEnds, StartClose
<1>7. CASE Enter(b) /\ ~ ProcessSignal(b)
  BY <1>1, <1>7 DEF Enter, FindPosition, FindOrders, Analyze, PlaceOrder, SaveSignal, SaveOrder
<1> QED
  BY <1>3, <1>4, <1>5, <1>6, <1>7 DEF Process, Tick

-----------------------------------------------------------------------------
(* One bracket at most in the position *)

\* While an entry works, what was bought on balance is at most what it bought,
\* and a process about to send one is not long: this is what the look at the
\* position and the look at the orders say together.
PositionInv ==
    /\ \A o \in Orders : bracket[o] = "unsent" => held[o] = 0
    /\ \A o \in Orders : bracket[o] # "unsent" => owner[o] \in Bots
    /\ \A o \in Orders : bracket[o] \in EntryWorking => Net <= held[o] /\ held[o] < Qty
    /\ \A b \in Bots : pc[b] = "place" => Net <= 0
    /\ PositionNotStacked

\* With one process there is one working bracket in the symbol.
LEMMA OneWorking ==
    ASSUME BracketInv, PositionInv, \A c, d \in Bots : c = d,
           NEW o \in Orders, NEW p \in Orders, bracket[o] \in Working, bracket[p] \in Working
    PROVE  o = p /\ \A b \in Bots : o \in OpenOrders(b) /\ pc[b] \notin Deciding
<1>1. bracket[o] # "unsent" /\ bracket[p] # "unsent"
  BY DEF Working, EntryWorking, LegsListed
<1>2. \A b \in Bots : o \in OpenOrders(b) /\ p \in OpenOrders(b)
  BY <1>1 DEF PositionInv, OpenOrders, Own
<1>3. owner[o] \in Bots
  BY <1>1 DEF PositionInv
<1> QED
  BY <1>2, <1>3 DEF BracketInv, OneBracketPerClient, ClearToSend

\* The broker: only the fill of an entry buys, and the entry is the only one.
LEMMA PositionBroker ==
    ASSUME TypeOK, BracketInv, PositionInv, \A c, d \in Bots : c = d, Broker
    PROVE  PositionInv'
<1>0. /\ BrokerTypeOK /\ Net \in Int /\ Qty \in Nat /\ UNCHANGED pc
      /\ Net <= Qty
  BY BoughtBackType, LiveOrdersAssumption
  DEF Broker, TypeOK, BrokerTypeOK, Net, PositionInv, PositionNotStacked
<1>1. \A o \in Orders : o \in 0 .. MaxOrders /\ o # None
  BY LiveOrdersAssumption DEF Orders, None
<1> USE DEF BrokerTypeOK, Working, EntryWorking, LegsListed
<1>2. ASSUME NEW o \in Orders, FillEntry(o) PROVE PositionInv'
  <2>1. /\ bracket[o] \in EntryWorking /\ Execute(owner[o], o, "buy")
        /\ held' = [held EXCEPT ![o] = held[o] + 1] /\ UNCHANGED owner
    BY <1>2 DEF FillEntry
  <2>2. Net <= held[o] /\ held[o] < Qty /\ owner[o] \in Bots /\ held[o] \in Int
    BY <1>0, <2>1 DEF PositionInv
  <2>3. Net' = Net + 1
    BY <1>0, <1>1, <2>1, <2>2, NetStep DEF Sides
  <2>4. /\ bracket'[o] \in EntryWorking => held[o] + 1 < Qty
        /\ bracket'[o] # "unsent"
        /\ \A p \in Orders : p # o => bracket'[p] = bracket[p]
    BY <1>0, <1>2 DEF FillEntry
  <2>5. \A p \in Orders : bracket'[p] \in EntryWorking => p = o
    <3>1. \A p \in Orders : bracket[p] \in EntryWorking => bracket[p] \in Working
      OBVIOUS
    <3> QED BY <2>1, <2>4, <3>1, OneWorking
  <2>6. \A b \in Bots : pc[b] # "place"
    BY <2>1, OneWorking DEF Deciding
  <2>7. PositionNotStacked'
    BY <1>0, <2>2, <2>3 DEF Net, PositionNotStacked
  <2>8. held'[o] = held[o] + 1 /\ \A p \in Orders : p # o => held'[p] = held[p]
    BY <1>0, <2>1
  <2> QED
    BY <1>0, <2>1, <2>2, <2>3, <2>4, <2>5, <2>6, <2>7, <2>8 DEF PositionInv
\* Steps that buy nothing on balance and bring no entry to work.
<1>3. ASSUME UNCHANGED owner, Net' \in Int, Net' <= Net,
             \A o \in Orders : /\ bracket'[o] = "unsent" <=> bracket[o] = "unsent"
                               /\ bracket'[o] \in EntryWorking => bracket[o] \in EntryWorking
                               /\ held'[o] = held[o] \/ bracket[o] \notin EntryWorking \cup {"unsent"}
      PROVE  PositionInv'
  <2>1. PositionNotStacked'
    BY <1>0, <1>3 DEF Net, PositionNotStacked
  <2>2. ASSUME NEW o \in Orders, bracket'[o] \in EntryWorking
        PROVE  Net' <= held'[o] /\ held'[o] < Qty
    <3>1. held'[o] = held[o] /\ Net <= held[o] /\ held[o] < Qty /\ held[o] \in Int
      BY <1>0, <1>3, <2>2 DEF PositionInv
    <3> QED BY <1>0, <1>3, <3>1
  <2>3. ASSUME NEW b \in Bots, pc'[b] = "place" PROVE Net' <= 0
    <3>1. Net <= 0
      BY <1>0, <2>3 DEF PositionInv
    <3> QED BY <1>0, <1>3, <3>1
  <2>4. /\ \A o \in Orders : bracket'[o] = "unsent" => held'[o] = 0
        /\ \A o \in Orders : bracket'[o] # "unsent" => owner'[o] \in Bots
    BY <1>3 DEF PositionInv
  <2> QED BY <2>1, <2>2, <2>3, <2>4 DEF PositionInv
<1>4. ASSUME NEW o \in Orders, FillLeg(o) PROVE PositionInv'
  <2>1. bracket[o] = "legs" /\ Execute(owner[o], o, "sell") /\ UNCHANGED owner
    BY <1>4 DEF FillLeg
  <2>2. Net' = Net - 1 /\ Net' \in Int
    BY <1>0, <1>1, <2>1, NetStep DEF Sides
  <2>3. /\ bracket'[o] \in {"dead", "legs"}
        /\ \A p \in Orders : p # o => bracket'[p] = bracket[p] /\ held'[p] = held[p]
    BY <1>0, <1>4 DEF FillLeg
  <2>4. Net' <= Net
    BY <1>0, <2>2
  <2> QED BY <1>3, <2>1, <2>2, <2>3, <2>4
<1>5. ASSUME NEW b \in Bots, NEW s \in Sides, FillMarket(b, s) \/ FillStop(b, s) PROVE PositionInv'
  <2>1. Execute(b, None, s) /\ UNCHANGED <<owner, bracket, held>>
    BY <1>5 DEF FillMarket, FillStop
  <2>2. Net' \in Int /\ (Net' = Net \/ Net' = Net - 1)
    BY <1>0, <2>1, NetStep, LiveOrdersAssumption DEF Sides, None
  <2>3. Net' <= Net
    BY <1>0, <2>2
  <2> QED BY <1>3, <2>1, <2>2, <2>3
<1>6. ASSUME NEW o \in Orders, RejectEntry(o) \/ RejectLegs(o) PROVE PositionInv'
  <2>1. UNCHANGED <<owner, held, pos, execs>>
    BY <1>6 DEF RejectEntry, RejectLegs
  <2>2. Net' = Net
    BY <2>1 DEF Net, BoughtBack
  <2>3. /\ bracket[o] # "unsent" /\ bracket'[o] \in {"dead", "bare"}
        /\ \A p \in Orders : p # o => bracket'[p] = bracket[p]
    BY <1>0, <1>6 DEF RejectEntry, RejectLegs
  <2> QED BY <1>0, <1>3, <2>1, <2>2, <2>3
<1>7. CASE OpenFlattenWindow \/ Bell
  <2>1. UNCHANGED <<owner, held, pos, execs>>
    BY <1>7 DEF OpenFlattenWindow, Bell
  <2>2. Net' = Net
    BY <2>1 DEF Net, BoughtBack
  <2>3. ASSUME NEW p \in Orders
        PROVE  \/ bracket'[p] = bracket[p]
               \/ bracket[p] # "unsent" /\ bracket'[p] \in {"dead", "bare"}
    <3>1. CASE OpenFlattenWindow
      BY <3>1 DEF OpenFlattenWindow
    <3>2. CASE Bell
      <4>1. bracket'[p] = IF bracket[p] \in Working THEN EntryCancelled(p) ELSE bracket[p]
        BY <3>2 DEF Bell
      <4> QED BY <4>1 DEF EntryCancelled
    <3> QED BY <1>7, <3>1, <3>2
  <2>4. ASSUME NEW p \in Orders
        PROVE  /\ bracket'[p] = "unsent" <=> bracket[p] = "unsent"
               /\ bracket'[p] \in EntryWorking => bracket[p] \in EntryWorking
    BY <2>3
  <2>5. Net' \in Int /\ Net' <= Net
    BY <1>0, <2>2
  <2> QED BY <1>3, <2>1, <2>4, <2>5
<1> QED
  BY <1>2, <1>4, <1>5, <1>6, <1>7 DEF Broker

\* A process: it sends an entry when it is not long, and cancels otherwise.
LEMMA PositionProcess ==
    ASSUME TypeOK, BracketInv, PositionInv, \A c, d \in Bots : c = d,
           NEW b \in Bots, Process(b)
    PROVE  PositionInv'
<1>0. /\ BrokerTypeOK /\ LoopTypeOK /\ Net \in Int /\ Net' = Net /\ UNCHANGED <<held, pos>>
      /\ BoughtBack \in Nat
  BY BoughtBackType, ProcessesTradeNothing DEF TypeOK, BrokerTypeOK, Net
<1>1. \A c \in Bots : pc'[c] = "place" => Net <= 0
  <2>1. ASSUME pos = 0 PROVE Net <= 0
    BY <1>0, <2>1 DEF Net
  <2> QED BY <2>1, ComesToPlace DEF PositionInv
<1>2. PositionNotStacked'
  BY <1>0 DEF PositionInv, PositionNotStacked, Net
<1> USE DEF BrokerTypeOK, Working, EntryWorking, LegsListed
<1>3. ASSUME UNCHANGED owner,
             \A o \in Orders : \/ bracket'[o] = bracket[o]
                               \/ /\ bracket[o] # "unsent" /\ bracket'[o] # "unsent"
                                  /\ bracket'[o] \in EntryWorking => bracket[o] \in EntryWorking
      PROVE  PositionInv'
  BY <1>0, <1>1, <1>2, <1>3 DEF PositionInv
<1>4. CASE PlaceOrder(b)
  <2>1. CASE UNCHANGED <<bracket, owner>>
    BY <1>3, <2>1
  <2>2. CASE Send(b)
    <3> DEFINE new == Min(Unsent)
    <3>1. /\ bracket' = [bracket EXCEPT ![new] = "entry"] /\ owner' = [owner EXCEPT ![new] = b]
          /\ Unsent # {}
      BY <2>2 DEF Send
    <3>2. new \in Orders /\ bracket[new] = "unsent"
      BY <3>1, MinIn DEF Unsent, Orders
    <3>3. Net <= 0 /\ held[new] = 0 /\ 0 < Qty
      BY <1>4, <3>2, LiveOrdersAssumption DEF PlaceOrder, At, PositionInv
    <3>4. \A p \in Orders : p # new => bracket'[p] = bracket[p] /\ owner'[p] = owner[p]
      BY <1>0, <3>1
    <3>5. bracket'[new] = "entry" /\ owner'[new] = b
      BY <1>0, <3>1, <3>2
    <3> HIDE DEF new
    <3> QED BY <1>0, <1>1, <1>2, <3>3, <3>4, <3>5 DEF PositionInv
  <2> QED BY <1>4, <2>1, <2>2 DEF PlaceOrder
<1>5. CASE FlattenEntry(b) \/ Expire(b)
  <2>1. UNCHANGED owner
    BY <1>5 DEF FlattenEntry, Expire
  <2>2. \A o \in Orders : \/ bracket'[o] = bracket[o]
                          \/ bracket[o] \in EntryWorking /\ bracket'[o] \in {"dead", "bare"}
    BY <1>0, <1>5 DEF FlattenEntry, Expire, CancelOk, CancelErr, EntryCancelled
  <2> QED BY <1>3, <2>1, <2>2
<1>6. CASE CancelLegs(b)
  <2>1. UNCHANGED owner
    BY <1>6 DEF CancelLegs
  <2>2. PICK s \in Sides : \E gone \in SUBSET OnSide(b, s) :
          bracket' = [o \in Orders |-> IF o \in gone THEN ExitCancelled(o, s) ELSE bracket[o]]
    BY <1>6 DEF CancelLegs, ExitSide, Sides
  <2>3. \A o \in Orders : \/ bracket'[o] = bracket[o]
                          \/ /\ bracket[o] \in Working
                             /\ bracket'[o] \in {"dead", "bare", "parent"}
                             /\ bracket'[o] = "parent" => bracket[o] = "entry"
    BY <1>0, <2>2 DEF OnSide, ExitCancelled, EntryCancelled
  <2> QED BY <1>3, <2>1, <2>3
<1>7. CASE SendClose(b) \/ Restop(b)
  <2>1. UNCHANGED <<owner, bracket>>
    BY <1>7 DEF SendClose, Restop
  <2> QED BY <1>3, <2>1
<1> QED
  BY <1>3, <1>4, <1>5, <1>6, <1>7, BrokerUntouched DEF brokerVars

LEMMA PositionInit == Init => PositionInv
<1> SUFFICES ASSUME Init PROVE PositionInv
  OBVIOUS
<1>1. {e \in DOMAIN execs : execs[e].ord = None /\ execs[e].side = "buy"} = {}
  BY DEF Init
<1>2. BoughtBack = 0
  BY <1>1, FS_EmptySet DEF BoughtBack
<1> QED
  BY <1>2, LiveOrdersAssumption DEF Init, PositionInv, PositionNotStacked, Net, EntryWorking

LEMMA PositionNext ==
    ASSUME \A c, d \in Bots : c = d
    PROVE  TypeOK /\ BracketInv /\ PositionInv /\ [Next]_vars => PositionInv'
<1> SUFFICES ASSUME TypeOK, BracketInv, PositionInv, [Next]_vars PROVE PositionInv'
  OBVIOUS
<1>1. CASE UNCHANGED vars
  BY <1>1 DEF vars, brokerVars, PositionInv, PositionNotStacked, Net, BoughtBack
<1> QED
  BY <1>1, PositionBroker, PositionProcess DEF Next

\* One process never stacks a second entry on its position, whatever calls fail,
\* wherever it restarts and however many lots a bracket has.  The two processes
\* of a symbol do.
THEOREM PositionSafe ==
    ASSUME \A c, d \in Bots : c = d
    PROVE  Spec => []PositionNotStacked
<1>1. PositionInv => PositionNotStacked
  BY DEF PositionInv
<1> QED
  BY <1>1, PositionInit, PositionNext, BracketInvInit, BracketInvNext, TypeCorrect, PTL DEF Spec

-----------------------------------------------------------------------------
(* A long position is protected *)

\* A process in these steps has read a position that was not zero.
Closing == {"close", "recheck", "cancelLegs", "watch", "restop"}

\* Nothing but a bracket that waits for its entry is at the broker.
Flat == /\ pos = 0
        /\ \A b \in Bots, s \in Sides : mkt[b][s] = 0 /\ stop[b][s] <= 0

\* While an entry of one lot waits, the account is flat and no process is closing;
\* so the legs that a close takes away are those of a position already sold.
ProtectedInv ==
    /\ \A b \in Bots, s \in Sides : mkt[b][s] >= 0
    /\ \A o \in Orders : bracket[o] # "parent"
    /\ \A b \in Bots : pc[b] \in Deciding => ~ HasOpenOrder(b)
    /\ \A b \in Bots : pc[b] = "place" => pos = 0
    /\ \A o \in Orders : bracket[o] = "entry" =>
          Flat /\ held[o] = 0 /\ \A b \in Bots : pc[b] \notin Closing
    /\ \A b \in Bots : pc[b] = "cancelLegs" /\ rq[b] > 0 => Net <= 0 \/ mkt[b]["sell"] > 0
    /\ AlwaysProtected

\* Where the steps of a process lead: to a decision from the look at the orders
\* that found none, to a send from the look at the position that found none, to a
\* close from the one that found some.
LEMMA Leads ==
    ASSUME TypeOK, NEW b \in Bots, Process(b), NEW c \in Bots
    PROVE  /\ pc'[c] \in Deciding => pc[c] \in Deciding \/ ~ HasOpenOrder(c)
           /\ pc'[c] \in Closing => pc[c] \in Closing \/ pos # 0
           /\ pc'[c] = "cancelLegs" => pc[c] = "cancelLegs" \/ (c = b /\ SendClose(b))
           /\ pc'[c] = "cancelLegs" => rq'[c] = rq[c]
<1>1. LoopTypeOK
  BY DEF TypeOK
<1> USE DEF LoopTypeOK, Go, At, Deciding, Closing
<1>2. ASSUME NEW step \in Steps \ (Deciding \cup Closing), Go(b, step), c # b => rq'[c] = rq[c]
      PROVE  /\ pc'[c] \in Deciding => pc[c] \in Deciding \/ ~ HasOpenOrder(c)
             /\ pc'[c] \in Closing => pc[c] \in Closing \/ pos # 0
             /\ pc'[c] = "cancelLegs" => pc[c] = "cancelLegs" \/ (c = b /\ SendClose(b))
             /\ pc'[c] = "cancelLegs" => rq'[c] = rq[c]
  BY <1>1, <1>2
<1>3. CASE UNCHANGED <<pc, rq>>
  BY <1>3
<1>4. CASE Boot(b) \/ Crash(b) \/ Drain(b) \/ Poll(b) \/ PollBreaks(b)
  <2>1. \/ UNCHANGED <<pc, rq>>
        \/ /\ \E step \in Steps \ (Deciding \cup Closing) : Go(b, step)
           /\ c # b => rq'[c] = rq[c]
    BY <1>1, <1>4 DEF Boot, Crash, Poll, PollBreaks, Drain, DropFill, LoseFill, SkipFill, RecordFill,
       SaveTrade, CloseOrder, DrainDone, closeVars, Steps
  <2> QED BY <1>2, <1>3, <2>1
<1>5. CASE Flatten(b)
  BY <1>1, <1>5 DEF Flatten, SkipFlatten, FlattenEntry, FlattenPosition, StartClose, closeVars
<1>6. CASE Close(b)
  BY <1>1, <1>6 DEF Close, SendClose, RecheckClose, CancelLegs, CloseReturns, closeVars
<1>7. CASE Bar(b)
  <2>1. CASE Probe(b) \/ NextBar(b) \/ Expire(b) \/ MarkExpired(b)
    <3>1. /\ \E step \in {"bar", "expire", "drain", "position", "markExpired"} : Go(b, step)
          /\ UNCHANGED rq
      BY <2>1 DEF Probe, NextBar, Expire, MarkExpired, closeVars
    <3> QED BY <1>2, <3>1 DEF Steps
  <2>2. CASE CheckPosition(b)
    <3>1. \/ pos # 0 /\ (Go(b, "close") \/ Go(b, "watch")) /\ \E n : rq' = [rq EXCEPT ![b] = n]
          \/ Go(b, "exposure") /\ UNCHANGED rq
      BY <2>2 DEF CheckPosition, StartClose, closeVars
    <3> QED BY <1>1, <3>1
  <2>3. CASE Watch(b) \/ Restop(b)
    <3>1. /\ pc[b] \in {"watch", "restop"}
          /\ Go(b, "restop") \/ Go(b, "exposure")
          /\ UNCHANGED rq \/ rq' = [rq EXCEPT ![b] = 0]
      BY <2>3 DEF Watch, Restop, WatchEnds
    <3> QED BY <1>1, <3>1
  <2> QED BY <1>7, <2>1, <2>2, <2>3 DEF Bar
<1>8. CASE Enter(b)
  BY <1>1, <1>8 DEF Enter, FindPosition, FindOrders, Analyze, ProcessSignal, PlaceOrder, SaveSignal,
     SaveOrder, closeVars, Stay
<1> QED
  BY <1>4, <1>5, <1>6, <1>7, <1>8 DEF Process, Tick

\* Only the look at the orders that found none leads to a decision.
LEMMA ToDeciding ==
    ASSUME TypeOK, NEW b \in Bots, Process(b), pc'[b] \in Deciding
    PROVE  pc[b] \in Deciding \/ FindOrders(b)
<1>1. LoopTypeOK
  BY DEF TypeOK
<1> USE DEF LoopTypeOK, Go, At, Deciding
<1>2. CASE Boot(b) \/ Crash(b) \/ Drain(b) \/ Poll(b) \/ PollBreaks(b)
  BY <1>1, <1>2 DEF Boot, Crash, Poll, PollBreaks, Drain, DropFill, LoseFill, SkipFill, RecordFill,
     SaveTrade, CloseOrder, DrainDone
<1>3. CASE Flatten(b) \/ Close(b)
  BY <1>1, <1>3 DEF Flatten, SkipFlatten, FlattenEntry, FlattenPosition, StartClose, Close,
     SendClose, RecheckClose, CancelLegs, CloseReturns
<1>4. CASE Bar(b)
  BY <1>1, <1>4 DEF Bar, Probe, NextBar, Expire, MarkExpired, CheckPosition, Watch, Restop,
     WatchEnds, StartClose
<1>5. CASE Enter(b) /\ ~ FindOrders(b)
  BY <1>1, <1>5 DEF Enter, FindPosition, Analyze, ProcessSignal, PlaceOrder, SaveSignal, SaveOrder
<1> QED
  BY <1>2, <1>3, <1>4, <1>5 DEF Process, Tick

\* A process that saw no order still sees none when the broker has no more of them.
LEMMA StillNoOrder ==
    ASSUME NEW b \in Bots, ~ HasOpenOrder(b), UNCHANGED owner,
           \A o \in Orders : bracket'[o] \in Working => bracket[o] \in Working,
           \A s \in Sides : mkt'[b][s] > 0 => mkt[b][s] > 0,
           \A s \in Sides : stop'[b][s] > 0 => stop[b][s] > 0
    PROVE  ~ HasOpenOrder(b)'
BY DEF HasOpenOrder, OpenOrders, Own

\* Nothing trades without an order at the broker.
LEMMA NoOrderNoTrade ==
    ASSUME PositionInv, \A c, d \in Bots : c = d, NEW b \in Bots, ~ HasOpenOrder(b), Broker
    PROVE  UNCHANGED pos
<1> USE DEF Working, EntryWorking, LegsListed
<1>1. ASSUME NEW o \in Orders, bracket[o] \in Working PROVE FALSE
  <2>1. owner[o] = b
    BY <1>1 DEF PositionInv
  <2> QED BY <1>1, <2>1 DEF HasOpenOrder, OpenOrders, Own
<1>2. ASSUME NEW o \in Orders, FillEntry(o) \/ FillLeg(o) PROVE FALSE
  BY <1>1, <1>2 DEF FillEntry, FillLeg
<1>3. ASSUME NEW c \in Bots, NEW s \in Sides, FillMarket(c, s) \/ FillStop(c, s) PROVE FALSE
  BY <1>3 DEF FillMarket, FillStop, HasOpenOrder
<1> QED
  BY <1>2, <1>3 DEF Broker, RejectEntry, RejectLegs, OpenFlattenWindow, Bell

\* What the broker can do to a protected account: an entry of one lot that trades
\* becomes its legs at once, and every sale leaves nothing to protect.
LEMMA ProtectedBroker ==
    ASSUME TypeOK, BracketInv, PositionInv, ProtectedInv, \A c, d \in Bots : c = d,
           Qty = 1, "reject" \notin Faults, Broker
    PROVE  ProtectedInv'
<1>0. /\ BrokerTypeOK /\ Net \in Int /\ UNCHANGED <<pc, rq, owner>>
      /\ Net <= 1 /\ BoughtBack \in Nat /\ BoughtBack' \in Nat
  <2>1. BrokerTypeOK /\ BrokerTypeOK'
    BY BrokerTypes DEF Next, TypeOK
  <2>2. UNCHANGED <<pc, rq, owner>>
    BY DEF Broker, closeVars, FillEntry, FillLeg, FillMarket, FillStop, RejectEntry, RejectLegs,
       OpenFlattenWindow, Bell
  <2> QED
    BY <2>1, <2>2, BoughtBackType DEF BrokerTypeOK, Net, PositionInv, PositionNotStacked
<1>00. BrokerTypeOK'
  BY BrokerTypes DEF Next, TypeOK
<1>01. pos \in Int /\ pos' \in Int /\ BoughtBack \in Int /\ BoughtBack' \in Int
  BY <1>0, <1>00 DEF BrokerTypeOK
<1>1. \A o \in Orders : o \in 0 .. MaxOrders /\ o # None
  BY LiveOrdersAssumption DEF Orders, None
<1> USE DEF BrokerTypeOK, Working, EntryWorking, LegsListed
<1>2. \/ \E o \in Orders : FillEntry(o) \/ FillLeg(o)
      \/ \E b \in Bots, s \in Sides : FillMarket(b, s) \/ FillStop(b, s)
      \/ OpenFlattenWindow \/ Bell
  BY DEF Broker, RejectEntry, RejectLegs, Fault
\* Each of them lets the invariant stand in what is left of the orders.
<1>3. ASSUME \A o \in Orders : bracket'[o] \in Working => bracket[o] \in Working,
             \A o \in Orders : bracket'[o] # "parent",
             \A b \in Bots, s \in Sides : mkt'[b][s] >= 0 /\ mkt'[b][s] <= mkt[b][s],
             \A b \in Bots, s \in Sides : stop'[b][s] > 0 => stop[b][s] > 0,
             \A o \in Orders : bracket'[o] = "entry" =>
                bracket[o] = "entry" /\ UNCHANGED <<pos, held>>,
             \A b \in Bots : pc[b] = "cancelLegs" /\ rq[b] > 0 =>
                Net' <= 0 \/ mkt'[b]["sell"] > 0,
             AlwaysProtected'
      PROVE  ProtectedInv'
  <2>0. /\ \A b \in Bots, s \in Sides : mkt[b][s] \in Int /\ mkt[b][s] >= 0
        /\ \A b \in Bots, s \in Sides : stop[b][s] \in Int
    BY <1>0 DEF ProtectedInv
  <2>00. \A b \in Bots, s \in Sides : mkt'[b][s] \in Int /\ stop'[b][s] \in Int
    BY <1>00
  <2>1. ASSUME NEW b \in Bots, pc'[b] \in Deciding
        PROVE  ~ HasOpenOrder(b)' /\ (pc'[b] = "place" => pos' = 0)
    <3>1. ~ HasOpenOrder(b)
      BY <1>0, <2>1 DEF ProtectedInv
    <3>2. \A s \in Sides : mkt'[b][s] > 0 => mkt[b][s] > 0
      BY <1>3, <2>0, <2>00
    <3>3. ~ HasOpenOrder(b)'
      BY <1>0, <1>3, <3>1, <3>2, StillNoOrder
    <3>4. UNCHANGED pos
      BY <3>1, NoOrderNoTrade
    <3> QED BY <1>0, <3>3, <3>4 DEF ProtectedInv
  <2>2. ASSUME NEW o \in Orders, bracket'[o] = "entry"
        PROVE  Flat' /\ held'[o] = 0 /\ \A b \in Bots : pc'[b] \notin Closing
    <3>1. /\ Flat /\ held[o] = 0 /\ \A b \in Bots : pc[b] \notin Closing
          /\ UNCHANGED <<pos, held>>
      BY <1>3, <2>2 DEF ProtectedInv
    <3>2. ASSUME NEW b \in Bots, NEW s \in Sides PROVE mkt'[b][s] = 0 /\ stop'[b][s] <= 0
      <4>1. mkt[b][s] = 0 /\ stop[b][s] <= 0 /\ mkt'[b][s] >= 0 /\ mkt'[b][s] <= mkt[b][s]
            /\ (stop'[b][s] > 0 => stop[b][s] > 0)
        BY <1>3, <3>1 DEF Flat
      <4> QED BY <2>0, <2>00, <4>1
    <3> QED BY <1>0, <3>1, <3>2 DEF Flat
  <2>3. \A b \in Bots : pc'[b] = "place" => pc'[b] \in Deciding
    BY DEF Deciding
  <2> QED BY <1>0, <1>3, <2>1, <2>2, <2>3 DEF ProtectedInv
\* A sale leaves nothing to protect.
<1>4. ASSUME Net' = Net - 1
      PROVE  /\ \A b \in Bots : pc[b] = "cancelLegs" /\ rq[b] > 0 =>
                   Net' <= 0 \/ mkt'[b]["sell"] > 0
             /\ AlwaysProtected'
  <2>1. Net' <= 0
    BY <1>0, <1>4
  <2>2. ~ (pos' > BoughtBack')
    <3>1. pos' - BoughtBack' <= 0
      BY <2>1 DEF Net
    <3>2. \A x, y \in Int : x - y <= 0 => ~ (x > y)
      OBVIOUS
    <3> QED BY <1>01, <3>1, <3>2
  <2> QED BY <2>1, <2>2 DEF AlwaysProtected
<1>5. ASSUME NEW o \in Orders, FillEntry(o) PROVE ProtectedInv'
  <2>1. /\ bracket[o] = "entry" /\ held[o] = 0 /\ \A b \in Bots : pc[b] \notin Closing
    BY <1>5 DEF FillEntry, ProtectedInv
  <2>2. /\ bracket' = [bracket EXCEPT ![o] = "legs"] /\ held' = [held EXCEPT ![o] = 1]
        /\ UNCHANGED <<mkt, stop>>
    BY <1>5, <2>1 DEF FillEntry
  <2>3. \A p \in Orders : bracket'[p] # "entry"
    <3>1. \A p \in Orders : bracket[p] = "entry" => p = o
      BY <2>1, OneWorking
    <3> QED BY <1>0, <2>2, <3>1
  <2>4. bracket'[o] = "legs" /\ held'[o] > 0
    BY <1>0, <2>2
  <2>5. AlwaysProtected'
    BY <2>4 DEF AlwaysProtected
  <2>6. \A b \in Bots : pc[b] # "cancelLegs"
    BY <2>1 DEF Closing
  <2>7. \A p \in Orders : bracket'[p] # "parent" /\ (bracket'[p] \in Working => bracket[p] \in Working)
    BY <1>0, <2>1, <2>2 DEF ProtectedInv
  <2>8. \A b \in Bots, s \in Sides : mkt'[b][s] >= 0 /\ mkt'[b][s] <= mkt[b][s]
    BY <1>0, <2>2 DEF ProtectedInv
  <2> QED BY <1>3, <2>2, <2>3, <2>5, <2>6, <2>7, <2>8
<1>6. ASSUME NEW o \in Orders, FillLeg(o) PROVE ProtectedInv'
  <2>1. bracket[o] = "legs" /\ Execute(owner[o], o, "sell") /\ UNCHANGED <<mkt, stop>>
    BY <1>6 DEF FillLeg
  <2>2. Net' = Net - 1
    BY <1>0, <1>1, <2>1, NetStep DEF Sides
  <2>3. /\ bracket'[o] \in {"legs", "dead"}
        /\ \A p \in Orders : p # o => bracket'[p] = bracket[p]
    BY <1>0, <1>6 DEF FillLeg
  <2>4. \A p \in Orders : bracket'[p] # "entry"
    <3>1. \A p \in Orders : bracket[p] = "entry" => p = o
      BY <2>1, OneWorking
    <3> QED BY <2>1, <2>3, <3>1
  <2>5. \A p \in Orders : bracket'[p] # "parent" /\ (bracket'[p] \in Working => bracket[p] \in Working)
    BY <1>0, <2>1, <2>3 DEF ProtectedInv
  <2>6. \A b \in Bots, s \in Sides : mkt'[b][s] >= 0 /\ mkt'[b][s] <= mkt[b][s]
    BY <1>0, <2>1 DEF ProtectedInv
  <2> QED BY <1>3, <1>4, <2>1, <2>2, <2>4, <2>5, <2>6
<1>7. ASSUME NEW b \in Bots, NEW s \in Sides, FillMarket(b, s) \/ FillStop(b, s) PROVE ProtectedInv'
  <2>1. Execute(b, None, s) /\ UNCHANGED <<owner, bracket, held, phase>>
    BY <1>7 DEF FillMarket, FillStop
  <2>2. /\ s = "sell" => Net' = Net - 1
        /\ s = "buy" => Net' = Net
    BY <1>0, <2>1, NetStep, LiveOrdersAssumption DEF None
  <2>3. /\ mkt[b][s] > 0 \/ stop[b][s] > 0
        /\ \A c \in Bots, r \in Sides :
             /\ mkt'[c][r] >= 0 /\ mkt'[c][r] <= mkt[c][r]
             /\ stop'[c][r] > 0 => stop[c][r] > 0
             /\ r # s => mkt'[c][r] = mkt[c][r] /\ stop'[c][r] = stop[c][r]
    <3>1. /\ \A c \in Bots : mkt[c] \in [Sides -> Int] /\ stop[c] \in [Sides -> Int]
          /\ \A c \in Bots, r \in Sides : mkt[c][r] \in Int /\ stop[c][r] \in Int /\ mkt[c][r] >= 0
      BY <1>0 DEF ProtectedInv
    <3>2. CASE FillMarket(b, s)
      BY <1>0, <3>1, <3>2 DEF FillMarket
    <3>3. CASE FillStop(b, s)
      BY <1>0, <3>1, <3>3 DEF FillStop
    <3> QED BY <1>7, <3>2, <3>3
  <2>4. \A o \in Orders : bracket[o] # "entry"
    <3>1. mkt[b][s] \in Int /\ stop[b][s] \in Int
      BY <1>0
    <3>2. ~ (mkt[b][s] = 0 /\ stop[b][s] <= 0)
      BY <2>3, <3>1
    <3> QED BY <3>2 DEF ProtectedInv, Flat
  <2>5. \A o \in Orders : bracket'[o] # "parent" /\ bracket'[o] # "entry"
    BY <2>1, <2>4 DEF ProtectedInv
  <2>6. CASE s = "sell"
    BY <1>3, <1>4, <2>1, <2>2, <2>3, <2>5, <2>6
  <2>7. CASE s = "buy"
    <3>1. /\ Net' = Net
          /\ \A c \in Bots : mkt'[c]["sell"] = mkt[c]["sell"] /\ stop'[c]["sell"] = stop[c]["sell"]
      BY <2>2, <2>3, <2>7 DEF Sides
    <3>2. pos' > BoughtBack' <=> pos > BoughtBack
      <4>1. pos' - BoughtBack' = pos - BoughtBack
        BY <3>1 DEF Net
      <4>2. \A x, y, u, v \in Int : x - y = u - v => (x > y <=> u > v)
        OBVIOUS
      <4> QED BY <1>01, <4>1, <4>2
    <3>3. AlwaysProtected'
      BY <2>1, <3>1, <3>2 DEF ProtectedInv, AlwaysProtected
    <3>4. \A c \in Bots : pc[c] = "cancelLegs" /\ rq[c] > 0 => Net' <= 0 \/ mkt'[c]["sell"] > 0
      BY <3>1 DEF ProtectedInv
    <3> QED BY <1>3, <2>1, <2>3, <2>5, <3>3, <3>4
  <2> QED BY <2>6, <2>7 DEF Sides
<1>8. ASSUME OpenFlattenWindow \/ Bell PROVE ProtectedInv'
  <2>1. UNCHANGED <<held, mkt, pos, execs>> /\ Net' = Net /\ BoughtBack' = BoughtBack
    BY <1>8 DEF OpenFlattenWindow, Bell, Net, BoughtBack
  <2>2. \A o \in Orders : bracket'[o] = bracket[o] \/ bracket'[o] \in {"dead", "bare"}
    BY <1>8 DEF OpenFlattenWindow, Bell, EntryCancelled
  <2>3. (UNCHANGED <<bracket, stop>> /\ phase # "closed") \/ phase' = "closed"
    BY <1>8 DEF OpenFlattenWindow, Bell
  <2>4. AlwaysProtected'
    BY <2>1, <2>3 DEF ProtectedInv, AlwaysProtected
  <2>5. \A b \in Bots, s \in Sides : stop'[b][s] > 0 => stop[b][s] > 0
    BY <1>8 DEF OpenFlattenWindow, Bell
  <2>6. \A o \in Orders : /\ bracket'[o] # "parent"
                          /\ bracket'[o] = "entry" => bracket[o] = "entry"
                          /\ bracket'[o] \in Working => bracket[o] \in Working
    BY <2>2 DEF ProtectedInv
  <2>7. \A b \in Bots, s \in Sides : mkt'[b][s] >= 0 /\ mkt'[b][s] <= mkt[b][s]
    BY <1>0, <2>1 DEF ProtectedInv
  <2>8. \A b \in Bots : pc[b] = "cancelLegs" /\ rq[b] > 0 => Net' <= 0 \/ mkt'[b]["sell"] > 0
    BY <2>1 DEF ProtectedInv
  <2> QED BY <1>3, <2>1, <2>4, <2>5, <2>6, <2>7, <2>8
<1> QED
  BY <1>2, <1>5, <1>6, <1>7, <1>8

\* What a process can do to a protected account: it sends an entry only when it saw
\* nothing else at the broker, and takes legs away only after the close it sent.
LEMMA ProtectedProcess ==
    ASSUME TypeOK, PositionInv, ProtectedInv, \A c, d \in Bots : c = d, NEW b \in Bots, Process(b)
    PROVE  ProtectedInv'
<1>0. /\ BrokerTypeOK /\ LoopTypeOK /\ Net \in Int /\ Net' = Net
      /\ UNCHANGED <<held, pos, execs, phase>> /\ BoughtBack' = BoughtBack
  <2>1. BoughtBack \in Nat /\ BrokerTypeOK /\ LoopTypeOK
    BY BoughtBackType DEF TypeOK
  <2>2. UNCHANGED <<held, pos, execs, phase>> /\ Net' = Net
    BY ProcessesTradeNothing
  <2> QED BY <2>1, <2>2 DEF BrokerTypeOK, Net, BoughtBack
<1>1. Bots = {b}
  OBVIOUS
<1>2. /\ pc'[b] \in Deciding => pc[b] \in Deciding \/ ~ HasOpenOrder(b)
      /\ pc'[b] \in Closing => pc[b] \in Closing \/ pos # 0
      /\ pc'[b] = "cancelLegs" => pc[b] = "cancelLegs" \/ SendClose(b)
      /\ pc'[b] = "cancelLegs" => rq'[b] = rq[b]
      /\ pc'[b] = "place" => pc[b] = "place" \/ pos = 0
  BY <1>1, Leads, ComesToPlace
<1>2a. pos > BoughtBack <=> ~ (Net <= 0)
  <2>1. pos \in Int /\ BoughtBack \in Int
    BY <1>0, BoughtBackType DEF BrokerTypeOK
  <2>2. \A x, y \in Int : x > y <=> ~ (x - y <= 0)
    OBVIOUS
  <2> QED BY <2>1, <2>2 DEF Net
<1> USE DEF BrokerTypeOK, Working, EntryWorking, LegsListed
\* The process at a decision has nothing at the broker; that stays so when the step
\* adds nothing.
<1>3. ASSUME UNCHANGED owner,
             \A o \in Orders : /\ bracket'[o] \in Working => bracket[o] \in Working
                               /\ bracket'[o] # "parent"
                               /\ bracket'[o] = "entry" => bracket[o] = "entry",
             \A s \in Sides : mkt'[b][s] >= 0,
             pc[b] \in Closing \/ \A s \in Sides : mkt'[b][s] = mkt[b][s] /\ stop'[b][s] = stop[b][s],
             pc'[b] = "cancelLegs" /\ rq'[b] > 0 => Net <= 0 \/ mkt'[b]["sell"] > 0,
             AlwaysProtected'
      PROVE  ProtectedInv'
  <2>1. pc[b] \in Closing => pc'[b] \notin Deciding
    <3>1. pc[b] \in Closing => pc[b] \notin Deciding
      BY DEF Closing, Deciding
    <3>2. pc[b] \in Closing => ~ FindOrders(b)
      BY DEF Closing, FindOrders, At
    <3>3. pc'[b] \in Deciding => pc[b] \in Deciding \/ FindOrders(b)
      BY ToDeciding
    <3> QED BY <3>1, <3>2, <3>3
  <2>2. pc'[b] \in Deciding => ~ HasOpenOrder(b)'
    <3>1. ASSUME pc'[b] \in Deciding PROVE ~ HasOpenOrder(b)'
      <4>1. ~ HasOpenOrder(b)
        BY <1>2, <3>1 DEF ProtectedInv
      <4>2. \A s \in Sides : mkt'[b][s] = mkt[b][s] /\ stop'[b][s] = stop[b][s]
        BY <1>3, <2>1, <3>1
      <4> QED BY <1>3, <4>1, <4>2, StillNoOrder
    <3> QED BY <3>1
  <2>3. ASSUME NEW o \in Orders, bracket'[o] = "entry"
        PROVE  Flat' /\ held'[o] = 0 /\ pc'[b] \notin Closing
    <3>1. Flat /\ held[o] = 0 /\ pc[b] \notin Closing
      BY <1>3, <2>3 DEF ProtectedInv
    <3>2. \A s \in Sides : mkt'[b][s] = mkt[b][s] /\ stop'[b][s] = stop[b][s]
      BY <1>3, <3>1
    <3>3. Flat'
      BY <1>0, <1>1, <3>1, <3>2 DEF Flat
    <3>4. pc'[b] \notin Closing
      BY <1>2, <3>1 DEF Flat
    <3> QED BY <1>0, <3>1, <3>3, <3>4
  <2>4. pc'[b] = "place" => pos' = 0
    BY <1>0, <1>2 DEF ProtectedInv
  <2> QED BY <1>0, <1>1, <1>3, <2>2, <2>3, <2>4 DEF ProtectedInv
\* The same for a step that leaves closes and stops alone and no leg behind.
<1>4. ASSUME UNCHANGED <<owner, mkt, stop>>, ~ SendClose(b),
             \A o \in Orders : \/ bracket'[o] = bracket[o]
                               \/ /\ bracket[o] = "entry"
                                  /\ bracket'[o] \in {"dead", "bare"}
      PROVE  ProtectedInv'
  <2>1. \A o \in Orders : bracket[o] \in LegsListed /\ held[o] > 0 => bracket'[o] = bracket[o]
    <3>1. \A o \in Orders : bracket[o] = "entry" => held[o] = 0
      BY DEF ProtectedInv
    <3> QED BY <1>4, <3>1
  <2>2. AlwaysProtected'
    BY <1>0, <1>4, <2>1 DEF ProtectedInv, AlwaysProtected
  <2>3. pc'[b] = "cancelLegs" /\ rq'[b] > 0 => Net <= 0 \/ mkt'[b]["sell"] > 0
    BY <1>2, <1>4 DEF ProtectedInv
  <2>4. \A s \in Sides : mkt'[b][s] >= 0 /\ mkt'[b][s] = mkt[b][s] /\ stop'[b][s] = stop[b][s]
    BY <1>4 DEF ProtectedInv
  <2>5. \A o \in Orders : /\ bracket'[o] \in Working => bracket[o] \in Working
                          /\ bracket'[o] # "parent"
                          /\ bracket'[o] = "entry" => bracket[o] = "entry"
    BY <1>4 DEF ProtectedInv
  <2> QED BY <1>3, <1>4, <2>2, <2>3, <2>4, <2>5
<1>5. CASE PlaceOrder(b)
  <2>0. ~ SendClose(b) /\ UNCHANGED <<mkt, stop>> /\ pc'[b] \in {"saveSignal", "bar"}
        /\ pos = 0 /\ ~ HasOpenOrder(b)
    BY <1>0, <1>5 DEF PlaceOrder, SendClose, At, Go, LoopTypeOK, ProtectedInv, Deciding
  <2>1. CASE UNCHANGED <<bracket, owner>>
    BY <1>4, <2>0, <2>1
  <2>2. CASE Send(b)
    <3> DEFINE new == Min(Unsent)
    <3>1. bracket' = [bracket EXCEPT ![new] = "entry"] /\ Unsent # {}
      BY <2>2 DEF Send
    <3>2. new \in Orders /\ bracket[new] = "unsent"
      BY <3>1, MinIn DEF Unsent, Orders
    <3>3. \A o \in Orders : /\ bracket'[o] # "parent"
                            /\ bracket'[o] = "entry" => held'[o] = 0
      <4> HIDE DEF new
      <4> QED BY <1>0, <3>1, <3>2 DEF ProtectedInv, PositionInv
    <3>4. ASSUME NEW s \in Sides PROVE mkt[b][s] = 0 /\ stop[b][s] <= 0
      <4>1. mkt[b][s] \in Int /\ stop[b][s] \in Int /\ mkt[b][s] >= 0
        BY <1>0 DEF ProtectedInv
      <4>2. ~ (mkt[b][s] > 0) /\ ~ (stop[b][s] > 0)
        BY <2>0 DEF HasOpenOrder
      <4> QED BY <4>1, <4>2
    <3>5. Flat'
      BY <1>0, <1>1, <2>0, <3>4 DEF Flat
    <3>6. pc'[b] \notin Closing /\ pc'[b] \notin Deciding /\ pc'[b] # "place" /\ pc'[b] # "cancelLegs"
      BY <2>0 DEF Closing, Deciding
    <3>7. AlwaysProtected'
      <4>1. BoughtBack \in Nat
        BY <1>0, BoughtBackType
      <4>2. ~ (0 > BoughtBack)
        BY <4>1
      <4> QED BY <1>0, <2>0, <4>2 DEF AlwaysProtected
    <3>8. \A s \in Sides : mkt'[b][s] >= 0
      BY <2>0 DEF ProtectedInv
    <3> QED BY <1>1, <3>3, <3>5, <3>6, <3>7, <3>8 DEF ProtectedInv
  <2> QED BY <1>5, <2>1, <2>2 DEF PlaceOrder
<1>6. CASE FlattenEntry(b) \/ Expire(b)
  <2>1. UNCHANGED <<owner, mkt, stop>> /\ ~ SendClose(b)
    BY <1>6 DEF FlattenEntry, Expire, SendClose, At
  <2>2. \A o \in Orders : \/ bracket'[o] = bracket[o]
                          \/ bracket[o] = "entry" /\ bracket'[o] \in {"dead", "bare"}
    BY <1>0, <1>6 DEF FlattenEntry, Expire, CancelOk, CancelErr, EntryCancelled, ProtectedInv
  <2> QED BY <1>4, <2>1, <2>2
<1>7. CASE SendClose(b)
  <2>1. /\ pc[b] \in Closing /\ UNCHANGED <<owner, bracket, stop>>
        /\ SendMarket(b) \/ (UNCHANGED mkt /\ pc'[b] # "cancelLegs")
    BY <1>0, <1>7 DEF SendClose, At, Closing, CloseReturns, Go, LoopTypeOK
  <2>2. rq[b] \in Int /\ Shares(rq[b]) \in Int /\ Shares(rq[b]) >= 0
        /\ (rq[b] > 0 => Shares(rq[b]) > 0 /\ ExitSide(rq[b]) = "sell")
    <3>1. rq[b] \in Int
      BY <1>0 DEF LoopTypeOK
    <3> QED BY <3>1 DEF Shares, ExitSide
  <2>3. ASSUME NEW s \in Sides
        PROVE  /\ mkt[b][s] \in Int /\ mkt'[b][s] \in Int /\ mkt[b][s] >= 0 /\ mkt'[b][s] >= mkt[b][s]
               /\ pc'[b] = "cancelLegs" /\ rq[b] > 0 /\ s = "sell" => mkt'[b][s] > 0
    <3>1. mkt[b] \in [Sides -> Int] /\ mkt[b][s] \in Int /\ mkt[b][s] >= 0
      BY <1>0 DEF ProtectedInv
    <3>2. CASE UNCHANGED mkt /\ pc'[b] # "cancelLegs"
      BY <3>1, <3>2
    <3>3. CASE SendMarket(b)
      <4>1. mkt'[b][s] = IF s = ExitSide(rq[b]) THEN mkt[b][s] + Shares(rq[b]) ELSE mkt[b][s]
        BY <1>0, <3>1, <3>3 DEF SendMarket
      <4> QED BY <2>2, <3>1, <4>1
    <3> QED BY <2>1, <3>2, <3>3
  <2>4. mkt'[b]["sell"] >= mkt[b]["sell"] /\ mkt[b]["sell"] \in Int /\ mkt'[b]["sell"] \in Int
    BY <2>3 DEF Sides
  <2>5. mkt[b]["sell"] > 0 => mkt'[b]["sell"] > 0
    BY <2>4
  <2>6. AlwaysProtected'
    BY <1>0, <1>1, <2>1, <2>5 DEF ProtectedInv, AlwaysProtected
  <2>7. pc'[b] = "cancelLegs" /\ rq'[b] > 0 => mkt'[b]["sell"] > 0
    BY <1>2, <2>3 DEF Sides
  <2>8. \A s \in Sides : mkt'[b][s] >= 0
    <3>1. \A x, y \in Int : x >= 0 /\ y >= x => y >= 0
      OBVIOUS
    <3> QED BY <2>3, <3>1
  <2>9. \A o \in Orders : bracket[o] # "parent"
    BY DEF ProtectedInv
  <2> QED BY <1>3, <2>1, <2>6, <2>7, <2>8, <2>9
<1>8. CASE CancelLegs(b)
  <2>1. /\ pc[b] = "cancelLegs" /\ pc'[b] # "cancelLegs" /\ UNCHANGED <<owner, mkt>>
        /\ \A o \in Orders : bracket[o] \notin EntryWorking
    BY <1>0, <1>8 DEF CancelLegs, CloseReturns, At, Go, Closing, LoopTypeOK, ProtectedInv
  <2>2. rq[b] \in Int
    BY <1>0 DEF LoopTypeOK
  <2>3. \A o \in Orders : bracket'[o] = bracket[o] \/ bracket'[o] \in {"dead", "bare"}
    BY <1>0, <1>8, <2>1 DEF CancelLegs, ExitCancelled, EntryCancelled
  <2>4. ASSUME rq[b] > 0 PROVE AlwaysProtected'
    <3>1. Net <= 0 \/ mkt'[b]["sell"] > 0
      BY <2>1, <2>4 DEF ProtectedInv
    <3>2. AlwaysProtected'
      BY <1>0, <1>2a, <3>1 DEF AlwaysProtected
    <3> QED BY <3>2
  <2>5. ASSUME ~ (rq[b] > 0) PROVE AlwaysProtected'
    <3>1. ExitSide(rq[b]) = "buy"
      BY <2>5 DEF ExitSide
    <3>2. UNCHANGED bracket /\ stop'[b]["sell"] = stop[b]["sell"]
      <4>1. OnSide(b, "buy") = {}
        BY <2>1 DEF OnSide, Own
      <4>2. /\ \E left : stop' = [stop EXCEPT ![b]["buy"] = left]
            /\ bracket' = [o \in Orders |-> bracket[o]]
        BY <1>8, <3>1, <4>1 DEF CancelLegs
      <4>3. stop[b] \in [Sides -> Int] /\ stop \in [Bots -> [Sides -> Int]]
        BY <1>0
      <4> QED BY <1>0, <4>2, <4>3 DEF Sides
    <3>3. AlwaysProtected'
      BY <1>0, <1>1, <2>1, <3>2 DEF ProtectedInv, AlwaysProtected
    <3> QED BY <3>3
  <2>6. \A s \in Sides : mkt'[b][s] >= 0
    BY <2>1 DEF ProtectedInv
  <2>7. pc[b] \in Closing /\ \A o \in Orders : bracket[o] # "parent"
    BY <2>1 DEF Closing
  <2> QED BY <1>3, <2>1, <2>3, <2>4, <2>5, <2>6, <2>7
<1>9. CASE Restop(b)
  <2>1. /\ pc[b] \in Closing /\ pc'[b] # "cancelLegs" /\ UNCHANGED <<owner, bracket, mkt>>
        /\ SendStop(b) \/ UNCHANGED stop
    BY <1>0, <1>9 DEF Restop, WatchEnds, At, Closing, Go, LoopTypeOK
  <2>2. rq[b] \in Int /\ Shares(rq[b]) \in Int /\ Shares(rq[b]) >= 0
    <3>1. rq[b] \in Int
      BY <1>0 DEF LoopTypeOK
    <3> QED BY <3>1 DEF Shares
  <2>3. stop[b]["sell"] > 0 => stop'[b]["sell"] > 0
    <3>1. stop[b] \in [Sides -> Int] /\ stop[b]["sell"] \in Int
      BY <1>0 DEF Sides
    <3>2. CASE SendStop(b)
      <4>1. stop'[b]["sell"] = IF ExitSide(rq[b]) = "sell" THEN stop[b]["sell"] + Shares(rq[b])
                                                        ELSE stop[b]["sell"]
        BY <1>0, <3>1, <3>2 DEF SendStop, Sides
      <4> QED BY <2>2, <3>1, <4>1
    <3> QED BY <2>1, <3>2
  <2>4. AlwaysProtected'
    BY <1>0, <1>1, <2>1, <2>3 DEF ProtectedInv, AlwaysProtected
  <2>5. /\ \A s \in Sides : mkt'[b][s] >= 0
        /\ \A o \in Orders : bracket[o] # "parent"
    BY <2>1 DEF ProtectedInv
  <2> QED BY <1>3, <2>1, <2>4, <2>5
<1>10. ASSUME UNCHANGED brokerVars, ~ SendClose(b) PROVE ProtectedInv'
  BY <1>4, <1>10 DEF brokerVars
<1> QED
  BY <1>5, <1>6, <1>7, <1>8, <1>9, <1>10, BrokerUntouched

\* Nothing is held at the start of the day.
LEMMA ProtectedInit == Init => ProtectedInv
<1> SUFFICES ASSUME Init PROVE ProtectedInv
  OBVIOUS
<1>1. BoughtBack \in Nat
  BY TypesInit, BoughtBackType DEF TypeOK
<1>2. ~ (0 > BoughtBack)
  BY <1>1
<1> QED
  BY <1>2 DEF Init, ProtectedInv, AlwaysProtected, Deciding

\* With brackets of one lot that the broker does not reject, an open long of the
\* only process of a symbol has a sell at the broker until the session closes:
\* whatever send, cancel, query, poll or write fails, wherever the process
\* restarts, a close takes the legs away only after it was accepted.
THEOREM ProtectedSafe ==
    ASSUME \A c, d \in Bots : c = d, Qty = 1, "reject" \notin Faults
    PROVE  Spec => []AlwaysProtected
<1>1. ASSUME TypeOK, BracketInv, PositionInv, ProtectedInv, [Next]_vars PROVE ProtectedInv'
  <2>1. CASE UNCHANGED vars
    BY <1>1, <2>1 DEF vars, brokerVars, closeVars, ProtectedInv, AlwaysProtected, Net, BoughtBack, Flat,
       HasOpenOrder, OpenOrders, Own
  <2> QED
    BY <1>1, <2>1, ProtectedBroker, ProtectedProcess DEF Next
<1>2. ProtectedInv => AlwaysProtected
  BY DEF ProtectedInv
<1> QED
  BY <1>1, <1>2, ProtectedInit, PositionInit, PositionNext, BracketInvInit, BracketInvNext, TypeCorrect,
     PTL DEF Spec
=============================================================================
