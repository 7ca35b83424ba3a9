---------------------------- MODULE BarLoopProofs ----------------------------
(***************************************************************************)
(* The safety properties of BarLoop for any number of bars and entries,    *)
(* any lag of the feed and any limits.  The two about the clocks need a    *)
(* loop whose queries do not fail now and then: after one that does, the   *)
(* bar is taken again and counts twice.                                    *)
(***************************************************************************)
EXTENDS BarLoop, FiniteSetTheorems, TLAPS

Steps == {"idle", "bar", "expire", "position", "exposure", "analyze"}
Early == {"idle", "bar"}

LoopTypeOK ==
    /\ clock \in 0 .. MaxBars /\ cursor \in NoCursor .. clock /\ i \in Int
    /\ pc \in Steps /\ looks \in Nat /\ analyzed \in Nat
    /\ pending.bar \in Nat /\ pending.polls \in Nat

\* A loop at work has taken the cursor and is at the bar after it.
AtBar ==
    pc # "idle" => ~ stopped /\ 0 <= cursor /\ cursor < clock /\ i = cursor + 1

\* The strategy has seen no bar beyond the cursor.
SeenInOrder == analyzed > 0 => analyzed <= cursor

\* What is pending is the bar after the cursor as the last poll saw it, and
\* every poll was counted; behind the guard nothing is.
Watched ==
    \/ stopped
    \/ pending = NoPending /\ (pc \in Early => looks = 0)
    \/ /\ pc \in Early
       /\ pending.bar = cursor + 1 /\ pending.bar > 0
       /\ seenAs = pending.version /\ looks = pending.polls + 1 /\ pending.polls <= MaxSettle

GuardInv == LoopTypeOK /\ AtBar /\ SeenInOrder /\ Watched

-----------------------------------------------------------------------------
\* A query fails only with the broker gone for good, which ends every clock.
Reachable == outage # "broker" /\ ~ stopped

\* The validity counts no bar twice.
Lived ==
    Reachable =>
      /\ waited \in Nat /\ IsFiniteSet(waitedBars)
      /\ \A t \in waitedBars :
            t \in Int /\ t <= IF pc \in Early \cup {"expire"} THEN cursor ELSE i
      /\ order /\ ~ open => waited <= Cardinality(waitedBars)

\* The bars the position was alive at are behind the one at hand, and there is
\* one only while the position, or the fill that closed it, is still to come.
Held ==
    /\ IsFiniteSet(heldBars) /\ good \in [Bars -> BOOLEAN]
    /\ news \in Seq({"in", "out"}) /\ entries \in Nat
    /\ order \in BOOLEAN /\ open \in BOOLEAN /\ byTime \in BOOLEAN
    /\ te \in [tracking : BOOLEAN, of : Int, candles : Nat, validated : BOOLEAN]
    /\ open => order
    /\ heldBars # {} => open /\ (trade = "position" \/ news # << >>)
    /\ Reachable =>
        \A t \in heldBars : t \in Bars /\
            t <= IF pc \in Early \cup {"expire", "position"} THEN cursor ELSE i

NoneGood == \A t \in heldBars : ~ good[t]

\* The clock runs for the position that is tracked.
Running ==
    /\ open /\ te.of = entries
    /\ te.candles \in Nat \ {0} /\ te.candles <= Cardinality(heldBars)
    /\ te.validated \/ NoneGood

\* A fill is due that closes the tracker before another bar is counted.
Closing ==
    /\ open /\ news # << >>
    /\ pc \in {"exposure", "analyze", "idle"} \/ (pc = "bar" /\ pending = NoPending)

\* The clock of a position that is gone stands until the next bar disarms it.
Standing == ~ open /\ ~ order /\ pc \notin {"exposure", "analyze"}

Clocked ==
    Reachable =>
      IF te.tracking THEN Running \/ Closing \/ Standing ELSE NoneGood \/ Closing

ClockInv == Held /\ Clocked

-----------------------------------------------------------------------------
(* The guard *)

\* What the market does, it does to the feed and the account.
LEMMA GuardMarket == GuardInv /\ Market => GuardInv'
<1> SUFFICES ASSUME GuardInv, Market PROVE GuardInv'
  OBVIOUS
<1> USE DEF GuardInv
<1>1. UNCHANGED <<pc, stopped, barVars, lookVars, analyzed>>
  BY DEF Market
<1>2. clock' \in 0 .. MaxBars /\ clock <= clock'
  BY BarLoopAssumption DEF Market, CloseBar, Consolidate, FillEntry, RejectEntry, FillExit, GoAway,
     feedVars, LoopTypeOK, Bars
<1> QED
  BY <1>1, <1>2, BarLoopAssumption DEF LoopTypeOK, AtBar, SeenInOrder, Watched, barVars, lookVars,
     NoCursor

\* A poll that looks at the bar, and leaves it, gives it up or lets it through.
LEMMA GuardLook == GuardInv /\ Guard => GuardInv'
<1> SUFFICES ASSUME GuardInv, Guard PROVE GuardInv'
  OBVIOUS
<1> USE BarLoopAssumption DEF GuardInv, LoopTypeOK, AtBar, SeenInOrder, Watched, feedVars, Early,
        NoPending, NoCursor, Steps, PollsOf
<1>1. CASE WaitForBar
  <2>1. PollsOf <= MaxSettle /\ PollsOf \in Nat
    BY <1>1 DEF WaitForBar, Settled
  <2>2. looks' = PollsOf + 1
    BY <1>1, <2>1 DEF WaitForBar
  <2> QED
    BY <1>1, <2>1, <2>2 DEF WaitForBar
<1>2. CASE AbandonBar
  BY <1>2 DEF AbandonBar, Advance
<1>3. CASE TakeBar
  BY <1>3 DEF TakeBar, lookVars
<1> QED
  BY <1>1, <1>2, <1>3 DEF Guard

\* Behind the guard nothing is pending, and every way on starts the next bar.
LEMMA GuardOn == GuardInv /\ (Manage \/ Decide) => GuardInv'
<1> SUFFICES ASSUME GuardInv, Manage \/ Decide PROVE GuardInv'
  OBVIOUS
<1> USE BarLoopAssumption DEF GuardInv, LoopTypeOK, AtBar, SeenInOrder, Watched, feedVars, barVars,
        lookVars, tradeVars, Early, NoCursor, Steps, NoPending
<1>1. CASE KeepEntry
  BY <1>1 DEF KeepEntry
<1>2. CASE ExpireEntry
  BY <1>2 DEF ExpireEntry, Advance
<1>3. CASE PositionFails
  BY <1>3 DEF PositionFails, CountFailure
<1>4. CASE Disarm \/ CountCandle
  BY <1>4 DEF Disarm, CountCandle
<1>5. CASE CloseByTime
  BY <1>5 DEF CloseByTime, CountFailure
<1>6. CASE ExposureFails
  BY <1>6 DEF ExposureFails, CountFailure
<1>7. CASE Exposed \/ NotExposed
  BY <1>7 DEF Exposed, NotExposed
<1>8. CASE NoEntry \/ SendEntry
  BY <1>8 DEF NoEntry, SendEntry, Advance
<1> QED
  BY <1>1, <1>2, <1>3, <1>4, <1>5, <1>6, <1>7, <1>8 DEF Manage, Decide

LEMMA GuardStep == GuardInv /\ [Next]_vars => GuardInv'
<1> SUFFICES ASSUME GuardInv, [Next]_vars PROVE GuardInv'
  OBVIOUS
<1>1. CASE Drain
  BY <1>1 DEF Drain, GuardInv, LoopTypeOK, AtBar, SeenInOrder, Watched, feedVars, barVars, lookVars
<1>2. CASE FetchFails
  BY <1>2 DEF FetchFails, CountFailure, GuardInv, LoopTypeOK, AtBar, SeenInOrder, Watched, feedVars,
     barVars, lookVars, Steps
<1>3. CASE Fetch
  BY <1>3, BarLoopAssumption DEF Fetch, GuardInv, LoopTypeOK, AtBar, SeenInOrder, Watched, feedVars,
     lookVars, Steps, NoCursor, NoPending, Early
<1>4. CASE UNCHANGED vars
  BY <1>4 DEF vars, GuardInv, LoopTypeOK, AtBar, SeenInOrder, Watched, feedVars, barVars, lookVars
<1> QED
  BY <1>1, <1>2, <1>3, <1>4, GuardMarket, GuardLook, GuardOn DEF Next, Tick

LEMMA GuardInvariant == Spec => []GuardInv
<1>1. Init => GuardInv
  BY BarLoopAssumption DEF Init, GuardInv, LoopTypeOK, AtBar, SeenInOrder, Watched, NoPending,
     NoCursor, Steps
<1> QED
  BY <1>1, GuardStep, PTL DEF Spec

\* The strategy sees every bar at most once and in order, however many bars the
\* feed brings and whichever calls fail.
THEOREM EvaluatedOnceSafe == Spec => EvaluatedOnce
<1>1. GuardInv /\ [Next]_vars => [pc = "analyze" /\ pc' # pc => analyzed < i]_vars
  BY DEF GuardInv, LoopTypeOK, AtBar, SeenInOrder
<1> QED
  BY <1>1, GuardInvariant, PTL DEF Spec, EvaluatedOnce

\* A bar that is used was seen twice the same, or waited for as long as any.
THEOREM SettledSafe == Spec => SettledBeforeUse
<1> DEFINE Sure == pc = "bar" /\ pc' = "expire" =>
              feed[i] # "flat" /\ ((looks > 0 /\ seenAs = feed[i]) \/ looks > MaxSettle)
<1>1. ASSUME GuardInv, [Next]_vars PROVE [Sure]_vars
  <2>1. SUFFICES ASSUME pc = "bar", pc' = "expire" PROVE Sure
    OBVIOUS
  <2>2. TakeBar
    BY <1>1, <2>1 DEF Next, Market, Tick, Drain, FetchFails, Fetch, Guard, WaitForBar, AbandonBar, Advance,
       Manage, KeepEntry, ExpireEntry, PositionFails, Disarm, CountCandle, CloseByTime, Decide,
       ExposureFails, Exposed, NotExposed, NoEntry, SendEntry, vars
  <2> QED
    BY <1>1, <2>1, <2>2, BarLoopAssumption DEF TakeBar, Settled, SameAsPending, PollsOf, GuardInv,
       LoopTypeOK, AtBar, Watched, NoPending, Early
<1> QED
  BY <1>1, GuardInvariant, PTL DEF Spec, SettledBeforeUse

-----------------------------------------------------------------------------
(* The validity of an entry *)

\* One bar more, behind the ones counted.
LEMMA OneMoreBar ==
    ASSUME NEW S, IsFiniteSet(S), NEW b \in Int, NEW c \in Int, c < b,
           \A t \in S : t \in Int /\ t <= c
    PROVE  /\ IsFiniteSet(S \cup {b}) /\ Cardinality(S) \in Nat
           /\ Cardinality(S \cup {b}) = Cardinality(S) + 1
           /\ \A t \in S \cup {b} : t \in Int /\ t <= b
<1>1. b \notin S
  OBVIOUS
<1> QED
  BY <1>1, FS_AddElement, FS_CardinalityType

\* A loop at work is at a bar behind the cursor.
LEMMA BarAhead == GuardInv /\ pc # "idle" => i \in Int /\ cursor \in Int /\ cursor < i
BY BarLoopAssumption DEF GuardInv, LoopTypeOK, AtBar, NoCursor

\* The broker does not come back and the loop does not start again.
LEMMA ReachableBefore ==
    ASSUME GuardInv, [Next]_vars, Reachable'
    PROVE  Reachable
BY DEF Reachable, GuardInv, AtBar, Next, Market, CloseBar, Consolidate, FillEntry, RejectEntry,
   FillExit, GoAway, Tick, Drain, FetchFails, Fetch, Guard, WaitForBar, AbandonBar, TakeBar, Manage,
   KeepEntry, ExpireEntry, PositionFails, Disarm, CountCandle, CloseByTime, Decide, ExposureFails,
   Exposed, NotExposed, NoEntry, SendEntry, CountFailure, vars

LEMMA LivedStep ==
    ASSUME "query" \notin Faults, GuardInv, Lived, [Next]_vars
    PROVE  Lived'
<1> SUFFICES ASSUME Reachable' PROVE Lived'
  BY DEF Lived
<1>1. Reachable
  BY ReachableBefore
<1> USE <1>1 DEF Lived, GuardInv, LoopTypeOK, AtBar, Early, fillVars, barVars, countVars
<1>2. CASE Market
  BY <1>2 DEF Market
<1>3. CASE Drain
  <2>1. ~ (order' /\ ~ open')
    <3>1. CASE order /\ open
      BY <1>3, <3>1, Zenon DEF Drain
    <3>2. CASE ~ (order /\ open)
      BY <1>3, <3>2, Zenon DEF Drain
    <3> QED
      BY <3>1, <3>2, Zenon
  <2>2. waitedBars' = {} /\ waited' \in Nat
    BY <1>3 DEF Drain
  <2> QED
    BY <2>1, <2>2, FS_EmptySet
<1>4. CASE FetchFails \/ Fetch
  BY <1>4, BarLoopAssumption DEF FetchFails, Fetch, CountFailure, NoCursor
<1>5. CASE Guard
  BY <1>5 DEF Guard, WaitForBar, AbandonBar, TakeBar, Advance
<1>6. CASE KeepEntry
  <2>1. CASE open \/ ~ order
    BY <1>6, <2>1 DEF KeepEntry
  <2>2. CASE order /\ ~ open
    <3>1. /\ IsFiniteSet(waitedBars \cup {i}) /\ Cardinality(waitedBars) \in Nat
          /\ Cardinality(waitedBars \cup {i}) = Cardinality(waitedBars) + 1
          /\ \A t \in waitedBars \cup {i} : t \in Int /\ t <= i
      <4>1. i \in Int /\ cursor \in Int /\ cursor < i
        BY <1>6, BarAhead DEF KeepEntry
      <4>2. IsFiniteSet(waitedBars) /\ \A t \in waitedBars : t \in Int /\ t <= cursor
        BY <1>6 DEF KeepEntry
      <4> QED
        BY ONLY <4>1, <4>2, OneMoreBar
    <3>2. waited' \in Nat /\ waited' <= waited + 1
      BY <1>6, <2>2, BarLoopAssumption DEF KeepEntry
    <3> QED
      BY <1>6, <2>2, <3>1, <3>2 DEF KeepEntry
  <2> QED
    BY <2>1, <2>2
<1>7. CASE ExpireEntry
  BY <1>7, FS_EmptySet DEF ExpireEntry, Advance
<1>8. CASE Disarm \/ CountCandle
  BY <1>8 DEF Disarm, CountCandle
<1>9. CASE CloseByTime
  BY <1>9 DEF CloseByTime, CountFailure, Reachable
<1>10. ~ PositionFails /\ ~ ExposureFails
  BY DEF PositionFails, ExposureFails, Up, May, Reachable
<1>11. CASE Exposed \/ NotExposed \/ NoEntry
  BY <1>11 DEF Exposed, NotExposed, NoEntry, Advance
<1>12. CASE SendEntry
  BY <1>12, FS_EmptySet DEF SendEntry, Advance
<1>13. CASE UNCHANGED vars
  BY <1>13 DEF vars
<1> QED
  BY <1>2, <1>3, <1>4, <1>5, <1>6, <1>7, <1>8, <1>9, <1>10, <1>11, <1>12, <1>13
     DEF Next, Tick, Manage, Decide

\* A stop entry is cancelled only after as many bars as its validity went by,
\* by a loop whose queries do not fail now and then.
THEOREM EntryLivesSafe ==
    ASSUME "query" \notin Faults
    PROVE  Spec => EntryLivesItsCandles
<1> DEFINE Old == trade = "entry" /\ trade' = "none" /\ pc = "expire" /\ pc' # pc =>
              Cardinality(waitedBars \cup {i}) >= Validity
<1>1. Init => Lived
  BY FS_EmptySet DEF Init, Lived
<1>2. GuardInv /\ Lived /\ [Next]_vars => Lived'
  BY LivedStep
<1>3. ASSUME GuardInv, Lived, [Next]_vars PROVE [Old]_vars
  <2>1. SUFFICES ASSUME trade = "entry", trade' = "none", pc = "expire", pc' # pc
                 PROVE  Cardinality(waitedBars \cup {i}) >= Validity
    OBVIOUS
  <2>2. ExpireEntry
    BY <1>3, <2>1 DEF Next, Market, Tick, Drain, FetchFails, Fetch, Guard, WaitForBar, AbandonBar,
       TakeBar, Manage, KeepEntry, PositionFails, Disarm, CountCandle, CloseByTime, Decide,
       ExposureFails, Exposed, NotExposed, NoEntry, SendEntry, vars, tradeVars
  <2>3. Reachable /\ waited + 1 >= Validity /\ order /\ ~ open
    BY <1>3, <2>1, <2>2 DEF ExpireEntry, Reachable, Up, GuardInv, AtBar
  <2>4. Cardinality(waitedBars) \in Nat
        /\ Cardinality(waitedBars \cup {i}) = Cardinality(waitedBars) + 1
    <3>1. i \in Int /\ cursor \in Int /\ cursor < i
      BY <1>3, <2>1, BarAhead
    <3>2. IsFiniteSet(waitedBars) /\ \A t \in waitedBars : t \in Int /\ t <= cursor
      BY <1>3, <2>1, <2>3 DEF Lived
    <3> QED
      BY ONLY <3>1, <3>2, OneMoreBar
  <2> QED
    BY <1>3, <2>3, <2>4, BarLoopAssumption DEF Lived
<1> QED
  BY <1>1, <1>2, <1>3, GuardInvariant, PTL DEF Spec, EntryLivesItsCandles

-----------------------------------------------------------------------------
(* The exit by time *)

\* At the step that counts a bar, the bar is one more.
LEMMA HeldBar ==
    ASSUME GuardInv, Held, Reachable, pc = "position"
    PROVE  /\ i \in Bars /\ i \notin heldBars
           /\ IsFiniteSet(heldBars \cup {i}) /\ Cardinality(heldBars) \in Nat
           /\ Cardinality(heldBars \cup {i}) = Cardinality(heldBars) + 1
           /\ \A t \in heldBars \cup {i} : t \in Bars /\ t <= i
<1>1. i \in Int /\ cursor \in Int /\ cursor < i
  BY BarAhead
<1>2. IsFiniteSet(heldBars) /\ \A t \in heldBars : t \in Bars /\ t \in Int /\ t <= cursor
  BY BarLoopAssumption DEF Held, Bars
<1>3. i \in Bars
  BY BarLoopAssumption DEF GuardInv, LoopTypeOK, AtBar, Bars
<1>4. i \notin heldBars
  BY ONLY <1>1, <1>2
<1>5. /\ IsFiniteSet(heldBars \cup {i}) /\ Cardinality(heldBars) \in Nat
      /\ Cardinality(heldBars \cup {i}) = Cardinality(heldBars) + 1
      /\ \A t \in heldBars \cup {i} : t \in Int /\ t <= i
  BY ONLY <1>1, <1>2, OneMoreBar
<1> QED
  BY <1>2, <1>3, <1>4, <1>5

\* A clock with one candle more.
LEMMA OneMoreCandle ==
    ASSUME NEW t \in [tracking : BOOLEAN, of : Int, candles : Nat, validated : BOOLEAN],
           NEW v \in BOOLEAN, NEW c, c = [t EXCEPT !.candles = t.candles + 1, !.validated = v]
    PROVE  /\ c.tracking = t.tracking /\ c.of = t.of
           /\ c.candles = t.candles + 1 /\ c.validated = v
           /\ c \in [tracking : BOOLEAN, of : Int, candles : Nat, validated : BOOLEAN]
<1>1. /\ t.tracking \in BOOLEAN /\ t.of \in Int /\ t.candles \in Nat
      /\ DOMAIN t = {"tracking", "of", "candles", "validated"}
  OBVIOUS
<1>2. c = [f \in DOMAIN t |-> IF f = "candles" THEN t.candles + 1
                              ELSE IF f = "validated" THEN v ELSE t[f]]
  BY <1>1
<1>3. /\ c.tracking = t.tracking /\ c.of = t.of
      /\ c.candles = t.candles + 1 /\ c.validated = v
  BY <1>1, <1>2
<1>4. c = [tracking |-> t.tracking, of |-> t.of, candles |-> t.candles + 1, validated |-> v]
  BY <1>1, <1>2
<1> QED
  BY <1>1, <1>3, <1>4

\* What the bar counted leaves of the clock.
LEMMA CountedRuns ==
    ASSUME GuardInv, Held, Clocked, Reachable, pc = "position", trade = "position", open
    PROVE  /\ Counted \in [tracking : BOOLEAN, of : Int, candles : Nat, validated : BOOLEAN]
           /\ Counted.tracking /\ Counted.of = entries /\ Armed.of = entries
           /\ Counted.candles \in Nat \ {0}
           /\ Counted.candles <= Cardinality(heldBars \cup {i})
           /\ Counted.validated \/ \A t \in heldBars \cup {i} : ~ good[t]
<1>1. IF te.tracking THEN Running ELSE NoneGood
  BY DEF Clocked, Closing, Standing
<1>2. good[i] \in BOOLEAN
  BY HeldBar DEF Held
<1>3. /\ Armed \in [tracking : BOOLEAN, of : Int, candles : Nat, validated : BOOLEAN]
      /\ Armed.tracking /\ Armed.of = entries /\ Armed.candles <= Cardinality(heldBars)
      /\ Armed.validated \/ NoneGood
  BY <1>1, HeldBar DEF Armed, Running, Held
<1>4. /\ Counted.tracking = Armed.tracking /\ Counted.of = Armed.of
      /\ Counted.candles = Armed.candles + 1
      /\ Counted.validated = (Armed.validated \/ good[i])
      /\ Counted \in [tracking : BOOLEAN, of : Int, candles : Nat, validated : BOOLEAN]
  <2> DEFINE sure == Armed.validated \/ good[i]
  <2>1. sure \in BOOLEAN
    BY <1>2, <1>3, Zenon
  <2>2. Counted = [Armed EXCEPT !.candles = Armed.candles + 1, !.validated = sure]
    BY Zenon DEF Counted
  <2> HIDE DEF sure
  <2>3. /\ Counted.tracking = Armed.tracking /\ Counted.of = Armed.of
        /\ Counted.candles = Armed.candles + 1 /\ Counted.validated = sure
        /\ Counted \in [tracking : BOOLEAN, of : Int, candles : Nat, validated : BOOLEAN]
    BY ONLY <1>3, <2>1, <2>2, OneMoreCandle
  <2> USE DEF sure
  <2> QED
    BY ONLY <2>3, Zenon
<1> QED
  BY <1>3, <1>4, HeldBar DEF NoneGood

LEMMA HeldStep ==
    ASSUME "query" \notin Faults, GuardInv, Held, Clocked, [Next]_vars
    PROVE  Held'
<1> USE DEF Held
<1>1. Reachable' => Reachable
  BY ReachableBefore
<1>2. CASE Market
  <2>1. news' \in Seq({"in", "out"}) /\ (news' = news \/ news' # << >>)
    <3>1. news' = news \/ news' = Append(news, "in") \/ news' = Append(news, "out")
      BY <1>2 DEF Market, CloseBar, Consolidate, FillEntry, RejectEntry, FillExit, GoAway
    <3>2. news \in Seq({"in", "out"})
      OBVIOUS
    <3> QED
      BY ONLY <3>1, <3>2
  <2>2. good' \in [Bars -> BOOLEAN] /\ entries' = entries
    BY <1>2 DEF Market, CloseBar, Consolidate, FillEntry, RejectEntry, FillExit, GoAway, tradeVars,
       feedVars
  <2>3. heldBars # {} => trade' = "position" \/ news' # << >>
    BY <1>2 DEF Market, CloseBar, Consolidate, FillEntry, RejectEntry, FillExit, GoAway, tradeVars
  <2>4. UNCHANGED <<pc, cursor, i, order, open, byTime, te, heldBars>>
    BY <1>2 DEF Market, barVars, fillVars, exitVars, countVars
  <2> QED
    BY <1>1, <2>1, <2>2, <2>3, <2>4
<1>3. CASE Drain
  <2>1. /\ heldBars' = {} /\ news' \in Seq({"in", "out"})
        /\ UNCHANGED <<good, entries, te>>
    BY <1>3 DEF Drain, feedVars, tradeVars
  <2>2. order' \in BOOLEAN /\ open' \in BOOLEAN /\ byTime' \in BOOLEAN
    BY <1>3 DEF Drain
  <2>3. open' => order'
    BY <1>3, Zenon DEF Drain
  <2> QED
    BY <2>1, <2>2, <2>3, FS_EmptySet
<1>4. CASE FetchFails \/ Fetch
  <2>1. UNCHANGED <<good, trade, entries, news, order, open, te, byTime, heldBars>>
    BY <1>4 DEF FetchFails, Fetch, feedVars, tradeVars, fillVars, exitVars, countVars
  <2>2. pc = "idle" /\ pc' \in {"idle", "bar"}
    BY <1>4 DEF FetchFails, Fetch, CountFailure
  <2>3. cursor' = cursor \/ (cursor = NoCursor /\ cursor' = clock)
    BY <1>4 DEF FetchFails, Fetch, barVars
  <2>4. cursor \in Int /\ cursor' \in Int /\ cursor <= cursor'
    BY <2>3, BarLoopAssumption DEF GuardInv, LoopTypeOK, NoCursor
  <2>5. Reachable => \A t \in heldBars : t \in Bars /\ t \in Int /\ t <= cursor
    BY <2>2 DEF Early, Bars
  <2>6. Reachable => \A t \in heldBars : t \in Bars /\ t <= cursor'
    BY ONLY <2>4, <2>5
  <2> QED
    BY <1>1, <2>1, <2>2, <2>6 DEF Early
<1>5. CASE Guard
  <2>1. UNCHANGED <<good, trade, entries, news, order, open, te, byTime, heldBars>>
    BY <1>5 DEF Guard, WaitForBar, AbandonBar, TakeBar, feedVars, tradeVars, fillVars, exitVars,
       countVars
  <2>2. pc = "bar" /\ pc' \in {"idle", "bar", "expire"} /\ cursor' \in {cursor, i}
    BY <1>5 DEF Guard, WaitForBar, AbandonBar, TakeBar, Advance
  <2>3. Reachable => \A t \in heldBars : t \in Bars /\ t \in Int /\ t <= cursor
    BY <2>2 DEF Early, Bars
  <2>4. i \in Int /\ cursor \in Int /\ cursor < i
    BY <2>2, BarAhead
  <2>5. Reachable => \A t \in heldBars : t \in Bars /\ t <= cursor'
    BY ONLY <2>2, <2>3, <2>4
  <2> QED
    BY <1>1, <2>1, <2>2, <2>5 DEF Early
<1>6. CASE KeepEntry
  BY <1>1, <1>6 DEF KeepEntry, feedVars, tradeVars, barVars, exitVars, Early
<1>7. CASE ExpireEntry
  <2>1. heldBars = {}
    BY <1>7 DEF ExpireEntry
  <2> QED
    BY <1>7, <2>1 DEF ExpireEntry, feedVars, exitVars
<1>8. CASE Disarm
  <2>1. /\ UNCHANGED <<good, trade, entries, news, order, open, byTime, heldBars, cursor, i>>
        /\ te' = Idle /\ pc = "position" /\ pc' = "exposure"
    BY <1>8 DEF Disarm, feedVars, tradeVars, barVars, fillVars, countVars
  <2>2. Idle \in [tracking : BOOLEAN, of : Int, candles : Nat, validated : BOOLEAN]
    BY DEF Idle
  <2>3. Reachable => \A t \in heldBars \cup {i} : t \in Bars /\ t <= i
    BY <2>1, HeldBar
  <2> QED
    BY <1>1, <2>1, <2>2, <2>3 DEF Early
<1>9. CASE CountCandle \/ CloseByTime
  <2>1. pc = "position" /\ trade = "position" /\ open /\ Reachable
    BY <1>9 DEF CountCandle, CloseByTime, Up, Reachable, GuardInv, AtBar
  <2>2. heldBars' = heldBars \cup {i} /\ te' \in {Counted, Idle} /\ byTime' \in BOOLEAN
        /\ UNCHANGED <<feedVars, tradeVars, news, barVars, fillVars>>
    BY <1>9 DEF CountCandle, CloseByTime
  <2>3. pc' \in {"exposure", "idle"} /\ (pc' = "idle" => stopped')
    BY <1>9 DEF CountCandle, CloseByTime, CountFailure
  <2>4. te' \in [tracking : BOOLEAN, of : Int, candles : Nat, validated : BOOLEAN]
    <3>1. Idle \in [tracking : BOOLEAN, of : Int, candles : Nat, validated : BOOLEAN]
      BY DEF Idle
    <3>2. Counted \in [tracking : BOOLEAN, of : Int, candles : Nat, validated : BOOLEAN]
      BY <2>1, CountedRuns
    <3> QED
      BY <2>2, <3>1, <3>2
  <2> QED
    BY <2>1, <2>2, <2>3, <2>4, HeldBar DEF feedVars, tradeVars, barVars, fillVars, Reachable, Early
<1>10. CASE PositionFails \/ ExposureFails
  BY <1>1, <1>10 DEF PositionFails, ExposureFails, Up, May, Reachable, GuardInv, AtBar, feedVars,
     tradeVars, fillVars, exitVars, countVars
<1>11. CASE Exposed \/ NotExposed \/ NoEntry
  BY <1>1, <1>11 DEF Exposed, NotExposed, NoEntry, Advance, feedVars, tradeVars, barVars, fillVars,
     exitVars, countVars, Early
<1>12. CASE SendEntry
  BY <1>1, <1>12 DEF SendEntry, Advance, feedVars, exitVars, Early
<1>13. CASE UNCHANGED vars
  BY <1>1, <1>13 DEF vars, feedVars, tradeVars, barVars, fillVars, exitVars, countVars, Reachable
<1> QED
  BY <1>2, <1>3, <1>4, <1>5, <1>6, <1>7, <1>8, <1>9, <1>10, <1>11, <1>12, <1>13
     DEF Next, Tick, Manage, Decide

LEMMA ClockedStep ==
    ASSUME "query" \notin Faults, GuardInv, Held, Clocked, [Next]_vars
    PROVE  Clocked'
<1> SUFFICES ASSUME Reachable' PROVE Clocked'
  BY DEF Clocked
<1>1. Reachable
  BY ReachableBefore
<1>2. IF te.tracking THEN Running \/ Closing \/ Standing ELSE NoneGood \/ Closing
  BY <1>1 DEF Clocked
<1> USE DEF Clocked
<1>3. CASE Market
  <2>1. UNCHANGED <<pc, pending, order, open, te, heldBars, entries>>
    BY <1>3 DEF Market, CloseBar, Consolidate, FillEntry, RejectEntry, FillExit, GoAway, barVars,
       fillVars, exitVars, countVars, tradeVars
  <2>2. news # << >> => news' # << >>
    BY <1>3 DEF Market, CloseBar, Consolidate, FillEntry, RejectEntry, FillExit, GoAway, Held
  <2>3. \A t \in heldBars : good'[t] = good[t]
    <3>1. CASE CloseBar
      <4>1. clock \in Int /\ cursor \in Int /\ cursor <= clock
        BY BarLoopAssumption DEF GuardInv, LoopTypeOK, NoCursor
      <4>2. \A t \in heldBars : t \in Bars /\ t \in Int /\ t <= cursor
        BY <1>1, <3>1 DEF CloseBar, Held, Bars, Early
      <4>3. \A t \in heldBars : t # clock + 1
        BY ONLY <4>1, <4>2
      <4> QED
        BY <3>1, <4>2, <4>3 DEF CloseBar, Held
    <3>2. CASE ~ CloseBar
      BY <1>3, <3>2 DEF Market, Consolidate, FillEntry, RejectEntry, FillExit, GoAway, feedVars
    <3> QED
      BY <3>1, <3>2
  <2> QED
    BY <1>2, <2>1, <2>2, <2>3 DEF Running, Closing, Standing, NoneGood
<1>4. CASE Drain
  <2>1. pc = "idle" /\ pc' = pc /\ heldBars' = {} /\ te' = te
    BY <1>4 DEF Drain
  <2>2. CASE order /\ open
    <3>1. ~ order' /\ ~ open'
      BY <1>4, <2>2, Zenon DEF Drain
    <3> QED
      BY <2>1, <3>1 DEF Standing, NoneGood
  <2>3. CASE ~ (order /\ open)
    <3>1. ~ open
      BY <2>3 DEF Held
    <3>2. te.tracking => ~ order
      BY <1>2, <3>1 DEF Running, Closing, Standing
    <3>3. order' = order /\ open' = (order /\ ~ open)
      BY <1>4, <2>3, Zenon DEF Drain
    <3>4. te.tracking => ~ order' /\ ~ open'
      BY <3>2, <3>3, Zenon
    <3> QED
      BY <2>1, <3>4 DEF Standing, NoneGood
  <2> QED
    BY <2>2, <2>3, Zenon
<1>5. CASE FetchFails
  BY <1>2, <1>5 DEF FetchFails, CountFailure, Running, Closing, Standing, NoneGood, fillVars, exitVars,
     barVars, countVars, tradeVars, feedVars, Reachable
<1>6. CASE Fetch
  BY <1>2, <1>6 DEF Fetch, Running, Closing, Standing, NoneGood, fillVars, exitVars, countVars,
     tradeVars, feedVars
<1>7. CASE Guard
  <2>1. UNCHANGED <<news, order, open, te, heldBars, good, entries>>
    BY <1>7 DEF Guard, WaitForBar, AbandonBar, TakeBar, fillVars, exitVars, countVars, tradeVars, feedVars
  <2>2. pc = "bar" /\ pc' \in {"idle", "bar", "expire"}
    BY <1>7 DEF Guard, WaitForBar, AbandonBar, TakeBar, Advance
  <2>3. CASE WaitForBar \/ AbandonBar
    BY <1>2, <2>1, <2>2, <2>3 DEF WaitForBar, AbandonBar, Advance, Running, Closing, Standing, NoneGood
  <2>4. CASE TakeBar
    <3>1. pending # NoPending
      BY <2>2, <2>4, BarLoopAssumption DEF TakeBar, Settled, SameAsPending, PollsOf, NoPending,
         GuardInv, LoopTypeOK, AtBar
    <3>2. ~ Closing
      BY <2>2, <3>1 DEF Closing
    <3> QED
      BY <1>2, <2>1, <2>2, <2>4, <3>2 DEF TakeBar, Running, Standing, NoneGood
  <2> QED
    BY <1>7, <2>3, <2>4 DEF Guard
<1>8. CASE KeepEntry
  BY <1>2, <1>8 DEF KeepEntry, Running, Closing, Standing, NoneGood, exitVars, tradeVars, feedVars
<1>9. CASE ExpireEntry
  <2>1. ~ te.tracking /\ NoneGood
    BY <1>2, <1>9 DEF ExpireEntry, Running, Closing, Standing
  <2> QED
    BY <1>9, <2>1 DEF ExpireEntry, NoneGood, exitVars, feedVars
<1>10. CASE Disarm
  <2>1. heldBars = {} \/ (open /\ news # << >>)
    BY <1>10 DEF Disarm, Held
  <2>2. ~ te'.tracking /\ pc' = "exposure" /\ UNCHANGED <<open, news, heldBars>>
    BY <1>10 DEF Disarm, Idle, fillVars, countVars
  <2> QED
    BY <2>1, <2>2 DEF NoneGood, Closing
<1>11. CASE CountCandle \/ CloseByTime
  <2>1. pc = "position" /\ trade = "position" /\ open
    BY <1>11 DEF CountCandle, CloseByTime
  <2>2. heldBars' = heldBars \cup {i} /\ UNCHANGED <<good, open, entries>>
    BY <1>11 DEF CountCandle, CloseByTime, feedVars, tradeVars, fillVars
  <2>3. CASE te' = Counted
    BY <1>1, <2>1, <2>2, <2>3, CountedRuns DEF Running, NoneGood
  <2>4. CASE te' = Idle /\ Fires(Counted)
    BY <1>1, <2>1, <2>2, <2>4, CountedRuns DEF Idle, Fires, NoneGood
  <2> QED
    BY <1>11, <2>3, <2>4 DEF CountCandle, CloseByTime
<1>12. ~ PositionFails /\ ~ ExposureFails
  BY <1>1 DEF PositionFails, ExposureFails, Up, May, Reachable
<1>13. CASE Exposed \/ NotExposed
  BY <1>2, <1>13 DEF Exposed, NotExposed, Running, Closing, Standing, NoneGood, fillVars, exitVars,
     countVars, tradeVars, feedVars, barVars
<1>14. CASE NoEntry \/ SendEntry
  <2>1. pc = "analyze" /\ pc' \in {"bar", "idle"}
        /\ UNCHANGED <<news, open, te, heldBars, good, pending>>
    BY <1>14 DEF NoEntry, SendEntry, Advance, fillVars, exitVars, countVars, feedVars
  <2>2. pending = NoPending
    BY <1>1, <2>1 DEF GuardInv, Watched, Reachable, Early
  <2>3. ~ te.tracking => NoneGood' \/ Closing'
    BY <1>2, <2>1, <2>2 DEF NoneGood, Closing
  <2>4. ASSUME te.tracking PROVE Running' \/ Closing'
    <3>1. Running \/ Closing
      BY <1>2, <2>1, <2>4 DEF Standing
    <3>2. CASE Closing
      BY <2>1, <2>2, <3>2 DEF Closing
    <3>3. CASE Running /\ NoEntry
      BY <2>1, <3>3 DEF NoEntry, Running, NoneGood, tradeVars
    <3>4. CASE Running /\ SendEntry
      <4>1. heldBars # {}
        BY <3>4, FS_EmptySet DEF Running
      <4>2. news # << >> /\ open
        BY <3>4, <4>1 DEF Held, SendEntry
      <4> QED
        BY <2>1, <2>2, <4>2 DEF Closing
    <3> QED
      BY <1>14, <3>1, <3>2, <3>3, <3>4
  <2> QED
    BY <2>1, <2>3, <2>4
<1>15. CASE UNCHANGED vars
  BY <1>2, <1>15 DEF vars, Running, Closing, Standing, NoneGood, fillVars, exitVars, countVars,
     tradeVars, feedVars, barVars
<1> QED
  BY <1>3, <1>4, <1>5, <1>6, <1>7, <1>8, <1>9, <1>10, <1>11, <1>12, <1>13, <1>14, <1>15
     DEF Next, Tick, Manage, Decide

\* The exit by time closes the position it was armed for, as many bars after it
\* as its window has and with none of them in favour, by a loop whose queries do
\* not fail now and then.
THEOREM OwnClockSafe ==
    ASSUME "query" \notin Faults
    PROVE  Spec => ExitsByItsOwnClock
<1> DEFINE Own == byTime' /\ ~ byTime =>
              /\ Armed.of = entries
              /\ Cardinality(heldBars') >= Candles
              /\ \A t \in heldBars' : ~ good[t]
<1>1. ASSUME Init PROVE ClockInv
  <2>1. /\ good \in [Bars -> BOOLEAN] /\ news \in Seq({"in", "out"}) /\ entries \in Nat
        /\ order \in BOOLEAN /\ open \in BOOLEAN /\ byTime \in BOOLEAN /\ ~ open
    <3>1. news = << >> /\ entries = 0 /\ order = FALSE /\ open = FALSE /\ byTime = FALSE
      BY <1>1 DEF Init
    <3>2. good = [t \in Bars |-> FALSE]
      BY <1>1 DEF Init
    <3>3. good \in [Bars -> BOOLEAN]
      BY <3>2
    <3>4. << >> \in Seq({"in", "out"})
      OBVIOUS
    <3> QED
      BY <3>1, <3>3, <3>4
  <2>2. /\ te \in [tracking : BOOLEAN, of : Int, candles : Nat, validated : BOOLEAN]
        /\ ~ te.tracking /\ heldBars = {}
    BY <1>1 DEF Init, Idle
  <2> QED
    BY <2>1, <2>2, FS_EmptySet DEF ClockInv, Held, Clocked, NoneGood
<1>2. GuardInv /\ ClockInv /\ [Next]_vars => ClockInv'
  BY HeldStep, ClockedStep DEF ClockInv
<1>3. ASSUME GuardInv, ClockInv, [Next]_vars PROVE [Own]_vars
  <2>1. SUFFICES ASSUME byTime', ~ byTime PROVE Own
    OBVIOUS
  <2>2. CloseByTime /\ ~ UNCHANGED byTime
    BY <1>3, <2>1 DEF Next, Market, Tick, Drain, FetchFails, Fetch, Guard, WaitForBar, AbandonBar,
       TakeBar, Manage, KeepEntry, ExpireEntry, PositionFails, Disarm, CountCandle, Decide,
       ExposureFails, Exposed, NotExposed, NoEntry, SendEntry, vars, exitVars
  <2>3. pc = "position" /\ trade = "position" /\ open /\ Reachable
    BY <1>3, <2>2 DEF CloseByTime, Up, Reachable, GuardInv, AtBar
  <2>4. heldBars' = heldBars \cup {i} /\ Fires(Counted)
    BY <2>2 DEF CloseByTime
  <2> QED
    BY <1>3, <2>3, <2>4, CountedRuns, HeldBar, BarLoopAssumption DEF Fires, ClockInv
<1> QED
  BY <1>1, <1>2, <1>3, GuardInvariant, PTL DEF Spec, ExitsByItsOwnClock
=============================================================================
