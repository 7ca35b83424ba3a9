-------------------------- MODULE LiveOrdersFills --------------------------
(***************************************************************************)
(* From executions to trades in LiveOrders: no saved fill is lost, and     *)
(* none is part of two trades.                                             *)
(***************************************************************************)
EXTENDS LiveOrdersProofs

-----------------------------------------------------------------------------
\* The steps between the fill that closes a trade and the end of its finalize,
\* and the state before the boot.
Filing == {"saveTrade", "closeOrder"}
Memory == {"down"} \cup Filing

\* The steps of the loop that are no part of the memory of a fill.
LEMMA LoopSteps ==
    ASSUME NEW step \in {"drain", "flatten", "flatPos", "close", "recheck", "cancelLegs", "probe",
                         "bar", "expire", "markExpired", "position", "watch", "restop", "exposure",
                         "orders", "analyze", "signal", "place", "saveSignal", "saveOrder"}
    PROVE  step \in Steps \ Memory
BY DEF Steps, Memory, Filing

\* A step of process b moves its program counter and no other.
LEMMA Moves ==
    ASSUME TypeOK, NEW b \in Bots, NEW step, Go(b, step)
    PROVE  pc'[b] = step /\ \A c \in Bots : c # b => pc'[c] = pc[c]
BY DEF Go, TypeOK, LoopTypeOK

\* A step from outside the memory of a fill to outside of it.
LEMMA OutsideMoves ==
    ASSUME TypeOK, NEW b \in Bots, NEW step, Go(b, step), step \notin Memory, pc[b] \notin Memory
    PROVE  \A c \in Bots : pc'[c] = pc[c] \/ (pc[c] \notin Memory /\ pc'[c] \notin Memory)
<1>1. pc'[b] = step /\ \A c \in Bots : c # b => pc'[c] = pc[c]
  BY Moves
<1> QED
  <2> TAKE c \in Bots
  <2>1. CASE c = b
    BY <1>1, <2>1
  <2>2. CASE c # b
    BY <1>1, <2>2
  <2> QED BY <2>1, <2>2

\* The other steps of a process touch neither fills nor trades nor the tracker.
LEMMA OtherSteps ==
    ASSUME TypeOK, NEW b \in Bots, Process(b),
           ~ (Boot(b) \/ Crash(b) \/ RecordFill(b) \/ SaveTrade(b) \/ CloseOrder(b))
    PROVE  /\ UNCHANGED <<dbFill, dbTrades, late, lots, pend, direction, execs>>
           /\ \A c \in Bots : pc'[c] = pc[c] \/ (pc[c] \notin Memory /\ pc'[c] \notin Memory)
<1>1. UNCHANGED <<dbFill, dbTrades, late, lots, pend, direction, execs>>
  BY DEF Process, Tick, Poll, PollBreaks, Drain, DropFill, LoseFill, SkipFill, DrainDone, Flatten,
     SkipFlatten, FlattenEntry, FlattenPosition, Close, SendClose, RecheckClose, CancelLegs, Bar,
     Probe, NextBar, Expire, MarkExpired, CheckPosition, Watch, Restop, WatchEnds, Enter,
     FindPosition, FindOrders, Analyze, ProcessSignal, PlaceOrder, SaveSignal, SaveOrder, Stay,
     brokerVars, dbVars, trackVars
<1>2. CASE Poll(b) \/ PollBreaks(b) \/ DropFill(b) \/ LoseFill(b) \/ SkipFill(b)
  <2>1. UNCHANGED pc
    BY <1>2 DEF Poll, PollBreaks, DropFill, LoseFill, SkipFill
  <2> QED BY <1>1, <2>1
<1>3. ASSUME ~ (Poll(b) \/ PollBreaks(b) \/ DropFill(b) \/ LoseFill(b) \/ SkipFill(b))
      PROVE  /\ pc[b] \notin Memory
             /\ \E step \in Steps \ Memory : Go(b, step)
  <2>1. CASE DrainDone(b) \/ Flatten(b)
    <3>1. \E step \in {"flatten", "probe", "flatPos", "close"} : Go(b, step)
      BY <2>1 DEF DrainDone, Flatten, SkipFlatten, FlattenEntry, FlattenPosition, StartClose
    <3>2. pc[b] \in {"drain", "flatten", "flatPos"}
      BY <2>1 DEF DrainDone, Flatten, SkipFlatten, FlattenEntry, FlattenPosition, At
    <3> QED BY <3>1, <3>2, LoopSteps
  <2>2. CASE Close(b)
    <3>1. \E step \in {"probe", "exposure", "watch", "recheck", "cancelLegs", "close"} : Go(b, step)
      BY <2>2 DEF Close, SendClose, RecheckClose, CancelLegs, CloseReturns
    <3>2. pc[b] \in {"close", "recheck", "cancelLegs"}
      BY <2>2 DEF Close, SendClose, RecheckClose, CancelLegs, At
    <3> QED BY <3>1, <3>2, LoopSteps
  <2>3. CASE Bar(b)
    <3>1. \E step \in {"bar", "expire", "drain", "position", "markExpired", "close", "watch",
                       "exposure", "restop"} : Go(b, step)
      BY <2>3 DEF Bar, Probe, NextBar, Expire, MarkExpired, CheckPosition, Watch, Restop, WatchEnds,
         StartClose
    <3>2. pc[b] \in {"probe", "bar", "expire", "markExpired", "position", "watch", "restop"}
      BY <2>3 DEF Bar, Probe, NextBar, Expire, MarkExpired, CheckPosition, Watch, Restop, At
    <3> QED BY <3>1, <3>2, LoopSteps
  <2>4. CASE Enter(b)
    <3>1. \E step \in {"orders", "drain", "analyze", "bar", "signal", "place", "saveSignal",
                       "saveOrder"} : Go(b, step)
      BY <2>4 DEF Enter, FindPosition, FindOrders, Analyze, ProcessSignal, PlaceOrder, SaveSignal,
         SaveOrder
    <3>2. pc[b] \in {"exposure", "orders", "analyze", "signal", "place", "saveSignal", "saveOrder"}
      BY <2>4 DEF Enter, FindPosition, FindOrders, Analyze, ProcessSignal, PlaceOrder, SaveSignal,
         SaveOrder, At
    <3> QED BY <3>1, <3>2, LoopSteps
  <2> QED
    BY <1>3, <2>1, <2>2, <2>3, <2>4 DEF Process, Tick, Drain
<1> QED
  BY <1>1, <1>2, <1>3, OutsideMoves

-----------------------------------------------------------------------------
(* No saved fill is lost *)

\* Where a saved fill is, and that a process forgets the fills of a trade only
\* after the trade was saved.
ConservedInv ==
    /\ \A e \in 1 .. MaxExecs : dbFill[e] # None =>
          \/ \E t \in dbTrades : e \in t
          \/ \E b \in Bots : e \in lots[b] \cup pend[b]
    /\ \A b \in Bots : pc[b] \notin Filing => pend[b] = {}
    /\ \A b \in Bots : pc[b] = "closeOrder" => pend[b] \in dbTrades
    /\ \A b \in Bots : pc[b] = "down" => lots[b] = {}

\* With the database answering and no crash, a step of a process keeps it.
LEMMA ConservedProcess ==
    ASSUME TypeOK, ConservedInv, "db" \notin Faults, MaxCrashes = 0, NEW b \in Bots, Process(b)
    PROVE  ConservedInv'
<1>0. /\ pc \in [Bots -> Steps]
      /\ lots \in [Bots -> SUBSET (1 .. MaxExecs)] /\ pend \in [Bots -> SUBSET (1 .. MaxExecs)]
      /\ dbFill \in [1 .. MaxExecs -> 0 .. MaxOrders]
  BY DEF TypeOK, LoopTypeOK, TrackTypeOK, DbTypeOK
<1> USE DEF Go, At, Filing
<1>1. ~ Crash(b)
  <2>1. crashes[b] \in Nat
    BY DEF TypeOK, LoopTypeOK
  <2> QED BY <2>1 DEF Crash
<1>2. CASE Boot(b)
  <2>1. /\ UNCHANGED <<dbFill, dbTrades, pend>> /\ pc[b] = "down" /\ pc' = [pc EXCEPT ![b] = "drain"]
        /\ \E L : lots' = [lots EXCEPT ![b] = L]
    BY <1>2 DEF Boot, dbVars
  <2>2. lots[b] = {} /\ pend[b] = {}
    BY <2>1 DEF ConservedInv
  <2>3. \A c \in Bots : lots[c] \subseteq lots'[c]
    BY <1>0, <2>1, <2>2
  <2> QED BY <1>0, <2>1, <2>2, <2>3 DEF ConservedInv
<1>3. CASE RecordFill(b)
  <2>1. PICK e \in 1 .. MaxExecs :
          /\ pc[b] = "drain" /\ UNCHANGED dbTrades
          /\ dbFill' = [dbFill EXCEPT ![e] = open_order[b]]
          /\ \/ /\ lots' = [lots EXCEPT ![b] = {}] /\ pend' = [pend EXCEPT ![b] = lots[b] \cup {e}]
                /\ pc' = [pc EXCEPT ![b] = "saveTrade"]
             \/ /\ lots' = [lots EXCEPT ![b] = lots[b] \cup {e}] /\ UNCHANGED <<pend, pc>>
    BY <1>3 DEF RecordFill, NextFill
  <2>2. pend[b] = {}
    BY <2>1 DEF ConservedInv
  <2>6. \A c \in Bots : c # b => pc'[c] = pc[c] /\ lots'[c] = lots[c] /\ pend'[c] = pend[c]
    BY <1>0, <2>1
  <2>8. lots'[b] \cup pend'[b] = lots[b] \cup {e}
    <3>1. CASE /\ lots' = [lots EXCEPT ![b] = {}]
               /\ pend' = [pend EXCEPT ![b] = lots[b] \cup {e}]
      <4>1. lots'[b] = {} /\ pend'[b] = lots[b] \cup {e}
        BY <1>0, <3>1
      <4> QED BY <4>1
    <3>2. CASE lots' = [lots EXCEPT ![b] = lots[b] \cup {e}] /\ UNCHANGED pend
      <4>1. lots'[b] = lots[b] \cup {e} /\ pend'[b] = {}
        BY <1>0, <2>2, <3>2
      <4> QED BY <4>1
    <3> QED BY <2>1, <3>1, <3>2
  <2>3. /\ e \in lots'[b] \cup pend'[b]
        /\ \A c \in Bots : lots[c] \cup pend[c] \subseteq lots'[c] \cup pend'[c]
    BY <2>2, <2>6, <2>8
  <2>4. \A f \in 1 .. MaxExecs : f # e => dbFill'[f] = dbFill[f]
    BY <1>0, <2>1
  <2>5. ASSUME NEW f \in 1 .. MaxExecs, dbFill'[f] # None
        PROVE  \/ \E t \in dbTrades' : f \in t
               \/ \E c \in Bots : f \in lots'[c] \cup pend'[c]
    <3>1. CASE f = e
      BY <2>3, <3>1
    <3>2. CASE f # e
      <4>1. dbFill[f] # None
        BY <2>4, <2>5, <3>2
      <4>2. (\E t \in dbTrades : f \in t) \/ \E c \in Bots : f \in lots[c] \cup pend[c]
        BY <4>1 DEF ConservedInv
      <4> QED BY <2>1, <2>3, <4>2
    <3> QED BY <3>1, <3>2
  <2>7. pc'[b] = "saveTrade" \/ (pc'[b] = "drain" /\ pend'[b] = {})
    BY <1>0, <2>1, <2>2
  <2> QED BY <2>1, <2>5, <2>6, <2>7 DEF ConservedInv
<1>4. CASE SaveTrade(b)
  <2>1. /\ dbTrades' = dbTrades \cup {pend[b]} /\ UNCHANGED <<dbFill, lots, pend>>
        /\ pc[b] = "saveTrade" /\ pc' = [pc EXCEPT ![b] = "closeOrder"]
    BY <1>4 DEF SaveTrade, Fault, trackVars
  <2> QED BY <1>0, <2>1 DEF ConservedInv
<1>5. CASE CloseOrder(b)
  <2>1. /\ pend' = [pend EXCEPT ![b] = {}] /\ UNCHANGED <<dbFill, dbTrades, lots>>
        /\ pc[b] = "closeOrder" /\ pc' = [pc EXCEPT ![b] = "drain"]
    BY <1>5 DEF CloseOrder
  <2>2. pend[b] \in dbTrades
    BY <2>1 DEF ConservedInv
  <2>3. \A c \in Bots : c # b => pend'[c] = pend[c] /\ pc'[c] = pc[c]
    BY <1>0, <2>1
  <2>4. pend'[b] = {} /\ pc'[b] = "drain"
    BY <1>0, <2>1
  <2> QED BY <2>1, <2>2, <2>3, <2>4 DEF ConservedInv
<1>6. CASE ~ (Boot(b) \/ Crash(b) \/ RecordFill(b) \/ SaveTrade(b) \/ CloseOrder(b))
  BY <1>6, OtherSteps DEF ConservedInv, Memory
<1> QED
  BY <1>1, <1>2, <1>3, <1>4, <1>5, <1>6

\* "Persiste o fill atrelado à ordem pai do bracket" and then the trade: with a
\* database that answers and no restart between the two, every fill that was saved
\* ends in a saved trade or is still in the tracker of a process, however many
\* processes share the orders and whichever sends, cancels, queries and polls fail.
THEOREM FillsConservedSafe ==
    ASSUME "db" \notin Faults, MaxCrashes = 0
    PROVE  Spec => []FillsConserved
<1>1. Init => ConservedInv
  BY DEF Init, ConservedInv, Filing
<1>2. ASSUME TypeOK, ConservedInv, [Next]_vars PROVE ConservedInv'
  <2>1. CASE UNCHANGED <<dbFill, dbTrades, lots, pend, pc>>
    BY <1>2, <2>1 DEF ConservedInv
  <2> QED
    BY <1>2, <2>1, ConservedProcess DEF Next, Broker, vars, dbVars, trackVars
<1>3. ConservedInv => FillsConserved
  BY DEF ConservedInv, FillsConserved
<1> QED
  BY <1>1, <1>2, <1>3, TypeCorrect, PTL DEF Spec

-----------------------------------------------------------------------------
(* No fill in two trades *)

\* What a replay of an order leaves is as far from balance as all its fills are,
\* and runs ahead on the side of its first fill.
Even(o) == LotsOn(SavedFills(o), "buy") + LotsOn(Replay(o), "sell")
              = LotsOn(SavedFills(o), "sell") + LotsOn(Replay(o), "buy")
Ahead(o) == Replay(o) # {} =>
    LotsOn(Replay(o), OtherSide(ReplayDirection(o))) < LotsOn(Replay(o), ReplayDirection(o))

\* One more execution is one more lot on its side.
LEMMA OneMoreLot ==
    ASSUME NEW L, IsFiniteSet(L), NEW e, e \notin L, NEW s
    PROVE  /\ LotsOn(L, s) \in Nat
           /\ LotsOn(L \cup {e}, s) = LotsOn(L, s) + IF execs[e].side = s THEN 1 ELSE 0
<1> DEFINE M == {f \in L : execs[f].side = s}
<1>1. IsFiniteSet(M) /\ Cardinality(M) \in Nat /\ e \notin M
  BY FS_Subset, FS_CardinalityType
<1>4. /\ LotsOn(L, s) = Cardinality(M)
      /\ LotsOn(L \cup {e}, s) = Cardinality({f \in L \cup {e} : execs[f].side = s})
  BY DEF LotsOn
<1>2. CASE execs[e].side = s
  <2>1. {f \in L \cup {e} : execs[f].side = s} = M \cup {e}
    BY <1>2
  <2>2. Cardinality(M \cup {e}) = Cardinality(M) + 1
    <3> HIDE DEF M
    <3> QED BY <1>1, FS_AddElement
  <2> HIDE DEF M
  <2> QED BY <1>1, <1>2, <1>4, <2>1, <2>2
<1>3. CASE execs[e].side # s
  <2>1. {f \in L \cup {e} : execs[f].side = s} = M
    BY <1>3
  <2>2. \A n \in Nat : n + 0 = n
    OBVIOUS
  <2> HIDE DEF M
  <2> QED BY <1>1, <1>3, <1>4, <2>1, <2>2
<1> QED
  BY <1>2, <1>3

\* What is replayed was saved, and executed.
LEMMA ReplayFinite ==
    ASSUME TypeOK, NEW o \in Orders
    PROVE  /\ SavedFills(o) \in SUBSET Nat /\ SavedFills(o) \subseteq 1 .. Len(execs)
           /\ Replay(o) \subseteq SavedFills(o)
           /\ IsFiniteSet(SavedFills(o)) /\ IsFiniteSet(Replay(o))
<1>1. Len(execs) \in Nat
  BY DEF TypeOK, BrokerTypeOK
<1>2. SavedFills(o) \subseteq 1 .. Len(execs) /\ IsFiniteSet(1 .. Len(execs))
  BY <1>1, FS_Interval DEF SavedFills
<1>3. Replay(o) \subseteq SavedFills(o)
  BY DEF Replay
<1> QED
  BY <1>1, <1>2, <1>3, FS_Subset

\* A fill saved after all those of its order ends the replay when it balances
\* them, and else is added to it.
LEMMA ReplayAppend ==
    ASSUME NEW o \in Orders, NEW e \in Nat, UNCHANGED execs, SavedFills(o) \in SUBSET Nat,
           SavedFills(o)' = SavedFills(o) \cup {e}, \A f \in SavedFills(o) : f < e
    PROVE  Replay(o)' = IF Balanced(SavedFills(o) \cup {e}) THEN {} ELSE Replay(o) \cup {e}
<1> DEFINE S == SavedFills(o)
           T == S \cup {e}
           flat == {f \in S : Balanced({g \in S : g <= f})}
           flatT == {f \in T : Balanced({g \in T : g <= f})}
<1>1. Replay(o) = {f \in S : \A g \in flat : f > g}
  BY DEF Replay
<1>2. Replay(o)' = {f \in T : \A g \in flatT : f > g}
  BY DEF Replay, Balanced, LotsOn
<1>3. \A f \in S : {g \in T : g <= f} = {g \in S : g <= f}
  OBVIOUS
<1>4. {g \in T : g <= e} = T
  OBVIOUS
<1>5. e \notin S
  OBVIOUS
<1>6. flatT = IF Balanced(T) THEN flat \cup {e} ELSE flat
  BY <1>3, <1>4, <1>5
<1>7. flat \subseteq S /\ S \in SUBSET Nat /\ \A f \in S : f < e
  OBVIOUS
<1> HIDE DEF flat, flatT
<1>8. CASE Balanced(T)
  <2>1. \A f \in T : ~ (f > e)
    BY <1>7
  <2> QED BY <1>2, <1>6, <1>8, <2>1
<1>9. CASE ~ Balanced(T)
  <2>1. \A g \in flat : e > g
    BY <1>7
  <2> QED BY <1>1, <1>2, <1>6, <1>9, <2>1
<1> QED
  BY <1>8, <1>9

\* Then the tracker that was at the replay closes its trade exactly when the fills
\* of the order balance, and is at the replay again.
LEMMA TrackerFollows ==
    ASSUME TypeOK, NEW o \in Orders, NEW e \in 1 .. Len(execs), UNCHANGED execs,
           SavedFills(o)' = SavedFills(o) \cup {e}, \A f \in SavedFills(o) : f < e,
           Even(o), Ahead(o), NEW d,
           d = IF Replay(o) = {} THEN execs[e].side ELSE ReplayDirection(o)
    PROVE  /\ Even(o)' /\ Ahead(o)'
           /\ Closes(Replay(o) \cup {e}, d) => Replay(o)' = {}
           /\ ~ Closes(Replay(o) \cup {e}, d) =>
                 Replay(o)' = Replay(o) \cup {e} /\ ReplayDirection(o)' = d
<1> DEFINE S == SavedFills(o)
           R == Replay(o)
           x == IF execs[e].side = "buy" THEN 1 ELSE 0
           y == IF execs[e].side = "sell" THEN 1 ELSE 0
           bS == LotsOn(S, "buy")
           sS == LotsOn(S, "sell")
           bR == LotsOn(R, "buy")
           sR == LotsOn(R, "sell")
<1>1. /\ S \in SUBSET Nat /\ R \subseteq S /\ IsFiniteSet(S) /\ IsFiniteSet(R) /\ S \subseteq 1 .. Len(execs)
      /\ e \in Nat /\ e \notin S /\ e \notin R
  <2>1. e \in Nat /\ BrokerTypeOK
    BY DEF TypeOK, BrokerTypeOK
  <2> QED BY <2>1, ReplayFinite
<1>2. execs[e].side \in Sides /\ (\A f \in S : execs[f].side \in Sides)
  BY <1>1, ExecutionSide DEF TypeOK
<1>3. \/ execs[e].side = "buy" /\ x = 1 /\ y = 0
      \/ execs[e].side = "sell" /\ x = 0 /\ y = 1
  BY <1>2 DEF Sides
<1>4. /\ bS \in Nat /\ sS \in Nat /\ bR \in Nat /\ sR \in Nat
      /\ LotsOn(S \cup {e}, "buy") = bS + x /\ LotsOn(S \cup {e}, "sell") = sS + y
      /\ LotsOn(R \cup {e}, "buy") = bR + x /\ LotsOn(R \cup {e}, "sell") = sR + y
  <2> HIDE DEF S, R
  <2> QED BY <1>1, OneMoreLot
<1>5. bS + sR = sS + bR
  BY DEF Even
<1>6. R = {} => bR = 0 /\ sR = 0
  <2>1. R = {} => \A s : {f \in R : execs[f].side = s} = {}
    OBVIOUS
  <2> QED BY <2>1, FS_EmptySet DEF LotsOn
<1>7. R # {} => d = ReplayDirection(o) /\ d \in Sides
  <2>1. R # {} => Min(R) \in R
    <3> HIDE DEF R, S
    <3> QED BY <1>1, MinIn
  <2> QED BY <1>1, <1>2, <2>1 DEF ReplayDirection
<1>8. R # {} => \/ d = "buy" /\ sR < bR
                \/ d = "sell" /\ bR < sR
  BY <1>7 DEF Ahead, OtherSide, Sides
<1>9. R = {} => d = execs[e].side
  OBVIOUS
<1>10. Replay(o)' = IF Balanced(S \cup {e}) THEN {} ELSE R \cup {e}
  BY <1>1, ReplayAppend
<1>11. Balanced(S \cup {e}) <=> bS + x = sS + y
  <2> HIDE DEF S, x, y, bS, sS
  <2> QED BY <1>4 DEF Balanced
<1>12. Closes(R \cup {e}, d) <=> IF d = "buy" THEN sR + y >= bR + x ELSE bR + x >= sR + y
  <2>1. d \in {"buy", "sell"}
    BY <1>2, <1>7, <1>9 DEF Sides
  <2> HIDE DEF R, x, y, bR, sR
  <2> QED BY <1>4, <2>1 DEF Closes, OtherSide
<1> HIDE DEF x, y, bS, sS, bR, sR, S, R
<1>13. Closes(R \cup {e}, d) <=> Balanced(S \cup {e})
  BY <1>3, <1>4, <1>5, <1>6, <1>8, <1>9, <1>11, <1>12
<1>15. /\ LotsOn(SavedFills(o), "buy")' = bS + x /\ LotsOn(SavedFills(o), "sell")' = sS + y
       /\ SavedFills(o)' = S \cup {e}
  <2>1. SavedFills(o)' = S \cup {e}
    BY DEF S
  <2> QED BY <1>4, <2>1 DEF LotsOn
<1>16. CASE Balanced(S \cup {e})
  <2>1. Replay(o)' = {}
    BY <1>10, <1>16
  <2>2. LotsOn(Replay(o), "buy")' = 0 /\ LotsOn(Replay(o), "sell")' = 0
    <3>1. \A s : {f \in Replay(o)' : execs'[f].side = s} = {}
      BY <2>1
    <3> QED BY <3>1, FS_EmptySet DEF LotsOn
  <2>3. Even(o)'
    <3>1. LotsOn(SavedFills(o), "buy")' + LotsOn(Replay(o), "sell")' = LotsOn(SavedFills(o), "sell")' + LotsOn(Replay(o), "buy")'
      BY <1>3, <1>4, <1>11, <1>15, <1>16, <2>2
    <3> QED BY <3>1 DEF Even, S, R
  <2>4. Ahead(o)'
    BY <2>1 DEF Ahead, R
  <2> QED BY <1>13, <1>16, <2>1, <2>3, <2>4 DEF R
<1>17. CASE ~ Balanced(S \cup {e})
  <2>1. Replay(o)' = R \cup {e}
    BY <1>10, <1>17
  <2>2. LotsOn(Replay(o), "buy")' = bR + x /\ LotsOn(Replay(o), "sell")' = sR + y
    BY <1>4, <2>1 DEF LotsOn
  <2>3. Even(o)'
    <3>1. LotsOn(SavedFills(o), "buy")' + LotsOn(Replay(o), "sell")' = LotsOn(SavedFills(o), "sell")' + LotsOn(Replay(o), "buy")'
      BY <1>3, <1>4, <1>5, <1>15, <2>2
    <3> QED BY <3>1 DEF Even, S, R
  <2>4. ReplayDirection(o)' = d
    <3>1. Replay(o)' # {} /\ ReplayDirection(o)' = execs[Min(Replay(o)')].side
      BY <2>1 DEF ReplayDirection, R
    <3>2. Replay(o)' \in SUBSET Nat
      BY <1>1, <2>1
    <3>3. Min(Replay(o)') \in Replay(o)' /\ \A f \in Replay(o)' : Min(Replay(o)') <= f
      BY <3>1, <3>2, MinIn
    <3>4. CASE R = {}
      BY <1>9, <2>1, <3>1, <3>3, <3>4
    <3>5. CASE R # {}
      <4>1. Min(R) \in R /\ \A f \in R : Min(R) <= f
        BY <1>1, <3>5, MinIn
      <4>2. \A f \in R : f < e
        BY <1>1 DEF S
      <4>3. Min(Replay(o)') = Min(R)
        <5> DEFINE m == Min(R)
                   n == Min(Replay(o)')
        <5>1. /\ m \in Nat /\ n \in Nat /\ m \in R /\ n \in R \cup {e} /\ n <= m /\ m < e
              /\ n \in R => m <= n
          BY <1>1, <2>1, <3>2, <3>3, <4>1, <4>2
        <5> HIDE DEF m, n
        <5>2. n = m
          BY <1>1, <5>1
        <5> QED BY <5>2 DEF m, n
      <4>4. ReplayDirection(o) = execs[Min(R)].side
        BY <3>5 DEF ReplayDirection, R
      <4> QED BY <1>7, <3>1, <3>5, <4>3, <4>4
    <3> QED BY <3>4, <3>5
  <2>5. Ahead(o)'
    <3>1. \/ d = "buy" /\ sR + y < bR + x
          \/ d = "sell" /\ bR + x < sR + y
      BY <1>2, <1>4, <1>3, <1>7, <1>9, <1>12, <1>13, <1>17 DEF Sides
    <3>2. LotsOn(Replay(o), OtherSide(d))' < LotsOn(Replay(o), d)'
      BY <2>2, <3>1 DEF OtherSide
    <3> QED BY <2>4, <3>2 DEF Ahead, R
  <2> QED BY <1>13, <1>17, <2>1, <2>3, <2>4, <2>5 DEF R
<1> QED
  BY <1>16, <1>17

-----------------------------------------------------------------------------
\* The rows: a saved fill is of an execution of the day and of a bracket with a
\* row, a row is of a bracket that was sent, and the bracket whose row is being
\* saved has none yet.
RowsInv ==
    /\ \A e \in 1 .. MaxExecs : dbFill[e] # None => e <= Len(execs) /\ dbFill[e] \in Recorded
    /\ \A o \in Recorded : bracket[o] # "unsent"
    /\ \A b \in Bots : pc[b] \in Saving =>
          placing[b] \in Orders \ Recorded /\ bracket[placing[b]] # "unsent"
    /\ \A t \in dbTrades : \A e \in t : dbFill[e] # None

\* A bracket that was sent was sent for good.
LEMMA SentStays ==
    ASSUME TypeOK, [Next]_vars, NEW o \in Orders, bracket[o] # "unsent"
    PROVE  bracket'[o] # "unsent"
<1>0. bracket \in [Orders -> BracketStates]
  BY DEF TypeOK, BrokerTypeOK
<1> USE DEF EntryCancelled
<1>1. CASE Broker
  BY <1>0, <1>1 DEF Broker, FillEntry, FillLeg, FillMarket, FillStop, RejectEntry, RejectLegs,
     OpenFlattenWindow, Bell
<1>2. ASSUME NEW b \in Bots, PlaceOrder(b) PROVE bracket'[o] # "unsent"
  BY <1>0, <1>2 DEF PlaceOrder, Send
<1>3. ASSUME NEW b \in Bots, FlattenEntry(b) \/ Expire(b) PROVE bracket'[o] # "unsent"
  BY <1>0, <1>3 DEF FlattenEntry, Expire, CancelOk, CancelErr
<1>4. ASSUME NEW b \in Bots, CancelLegs(b) PROVE bracket'[o] # "unsent"
  BY <1>0, <1>4 DEF CancelLegs, ExitCancelled
<1>5. ASSUME NEW b \in Bots, Process(b),
             ~ (PlaceOrder(b) \/ FlattenEntry(b) \/ Expire(b) \/ CancelLegs(b))
      PROVE  UNCHANGED bracket
  BY <1>5 DEF Process, Tick, Boot, Crash, Poll, PollBreaks, Drain, DropFill, LoseFill,
     SkipFill, RecordFill, SaveTrade, CloseOrder, DrainDone, Flatten, SkipFlatten,
     FlattenPosition, Close, SendClose, RecheckClose, Bar, Probe, NextBar, MarkExpired,
     CheckPosition, Watch, Restop, WatchEnds, Enter, FindPosition, FindOrders, Analyze, ProcessSignal,
     SaveSignal, SaveOrder, Stay, brokerVars
<1>6. CASE UNCHANGED vars
  BY <1>6 DEF vars, brokerVars
<1> QED
  BY <1>1, <1>2, <1>3, <1>4, <1>5, <1>6 DEF Next

\* Only the save of a new order adds a row.
LEMMA RowsWritten ==
    ASSUME TypeOK, NEW b \in Bots, Process(b)
    PROVE  /\ SaveOrder(b) => Recorded' \subseteq Recorded \cup {placing[b]} /\ Recorded \subseteq Recorded'
           /\ ~ SaveOrder(b) => Recorded' = Recorded
<1>1. CASE SaveOrder(b)
  <2>1. UNCHANGED dbOrder \/ dbOrder' = [dbOrder EXCEPT ![placing[b]] = "open"]
                          \/ dbOrder' = [dbOrder EXCEPT ![placing[b]] = "orphan"]
    BY <1>1 DEF SaveOrder
  <2> QED BY <1>1, <2>1 DEF Recorded, TypeOK, DbTypeOK
<1>2. CASE CloseOrder(b) \/ MarkExpired(b)
  <2>1. ~ SaveOrder(b)
    BY <1>2 DEF CloseOrder, MarkExpired, SaveOrder, At
  <2>2. open_order[b] \in 0 .. MaxOrders
    BY DEF TypeOK, TrackTypeOK
  <2> QED BY <1>2, <2>1, <2>2, StatusKeepsRows DEF CloseOrder, MarkExpired
<1>3. ASSUME ~ (SaveOrder(b) \/ CloseOrder(b) \/ MarkExpired(b)) PROVE UNCHANGED dbOrder
  BY <1>3 DEF Process, Tick, Boot, Crash, Poll, PollBreaks, Drain, DropFill, LoseFill,
     SkipFill, RecordFill, SaveTrade, DrainDone, Flatten, SkipFlatten, FlattenEntry,
     FlattenPosition, Close, SendClose, RecheckClose, CancelLegs, Bar, Probe, NextBar, Expire,
     CheckPosition, Watch, Restop, WatchEnds, Enter, FindPosition, FindOrders, Analyze, ProcessSignal,
     PlaceOrder, SaveSignal, Stay, dbVars
<1> QED
  BY <1>1, <1>2, <1>3 DEF Recorded

\* A process comes to the saves of an order from the send, and to the second from
\* the first.
LEMMA ComesToSave ==
    ASSUME TypeOK, NEW b \in Bots, Process(b), ~ PlaceOrder(b), NEW c \in Bots, pc'[c] \in Saving
    PROVE  pc[c] \in Saving
<1>1. ASSUME NEW step, Go(b, step), step \notin Saving PROVE pc[c] \in Saving
  BY <1>1, Moves
<1> USE DEF Saving
<1>2. CASE Boot(b) \/ Crash(b) \/ Poll(b) \/ PollBreaks(b) \/ Drain(b)
  <2>1. UNCHANGED pc \/ \E step \in {"drain", "down", "saveTrade", "closeOrder", "flatten"} : Go(b, step)
    BY <1>2 DEF Boot, Crash, Poll, PollBreaks, Drain, DropFill, LoseFill, SkipFill, RecordFill,
       SaveTrade, CloseOrder, DrainDone
  <2> QED BY <1>1, <2>1
<1>3. CASE Flatten(b)
  <2>1. \E step \in {"probe", "flatPos", "close"} : Go(b, step)
    BY <1>3 DEF Flatten, SkipFlatten, FlattenEntry, FlattenPosition, StartClose
  <2> QED BY <1>1, <2>1
<1>4. CASE Close(b)
  <2>1. \E step \in {"probe", "exposure", "watch", "recheck", "cancelLegs", "close"} : Go(b, step)
    BY <1>4 DEF Close, SendClose, RecheckClose, CancelLegs, CloseReturns
  <2> QED BY <1>1, <2>1
<1>5. CASE Bar(b)
  <2>1. \E step \in {"bar", "expire", "drain", "position", "markExpired", "close", "watch",
                     "exposure", "restop"} : Go(b, step)
    BY <1>5 DEF Bar, Probe, NextBar, Expire, MarkExpired, CheckPosition, Watch, Restop, WatchEnds,
       StartClose
  <2> QED BY <1>1, <2>1
<1>6. CASE FindPosition(b) \/ FindOrders(b) \/ Analyze(b) \/ ProcessSignal(b)
  <2>1. \E step \in {"orders", "drain", "analyze", "bar", "signal", "place"} : Go(b, step)
    BY <1>6 DEF FindPosition, FindOrders, Analyze, ProcessSignal
  <2> QED BY <1>1, <2>1
<1>7. CASE SaveSignal(b)
  BY <1>7, Moves DEF SaveSignal, At
<1>8. CASE SaveOrder(b)
  <2>1. Go(b, "bar")
    BY <1>8 DEF SaveOrder
  <2> QED BY <1>1, <2>1
<1> QED
  BY <1>2, <1>3, <1>4, <1>5, <1>6, <1>7, <1>8 DEF Process, Tick, Enter

\* A step of the only process of the symbol keeps RowsInv.
LEMMA RowsProcess ==
    ASSUME TypeOK, TypeOK', TrackedFillsPersisted, RowsInv, \A c, d \in Bots : c = d,
           NEW b \in Bots, Process(b)
    PROVE  RowsInv'
<1>1. /\ UNCHANGED execs /\ Len(execs) \in Nat
      /\ \A o \in Orders : bracket[o] # "unsent" => bracket'[o] # "unsent"
  <2>1. UNCHANGED execs
    BY DEF Process, Tick, Boot, Crash, Poll, PollBreaks, Drain, DropFill, LoseFill,
     SkipFill, RecordFill, SaveTrade, CloseOrder, DrainDone, Flatten, SkipFlatten,
     FlattenEntry, FlattenPosition, Close, SendClose, RecheckClose, CancelLegs, Bar,
     Probe, NextBar, Expire, MarkExpired, CheckPosition, Watch, Restop, WatchEnds, Enter, FindPosition,
     FindOrders, Analyze, ProcessSignal, PlaceOrder, SaveSignal, SaveOrder, Stay, brokerVars
  <2>2. Len(execs) \in Nat
    BY DEF TypeOK, BrokerTypeOK
  <2> QED BY <2>1, <2>2, SentStays DEF Next
<1>2. Recorded \subseteq Recorded' /\ Recorded' \subseteq Orders /\ Recorded \subseteq Orders
  BY RowsWritten DEF Recorded
<1>3. \A e \in 1 .. MaxExecs : dbFill'[e] # None => e <= Len(execs') /\ dbFill'[e] \in Recorded'
  <2>1. CASE RecordFill(b)
    <3>1. PICK e \in 1 .. MaxExecs :
            /\ NextFill(b, e) /\ Tracked(b) /\ dbFill' = [dbFill EXCEPT ![e] = open_order[b]]
      BY <2>1 DEF RecordFill
    <3>2. e <= Len(execs) /\ open_order[b] \in Recorded
      <4>1. 1 \in DOMAIN chan[b] /\ e = chan[b][1] /\ chan[b][1] \in 1 .. Len(execs)
        BY <3>1 DEF NextFill, TypeOK, FeedTypeOK
      <4>2. open_order[b] \in Orders
        BY <3>1, LiveOrdersAssumption DEF Tracked, TypeOK, TrackTypeOK, Orders, None
      <4> QED BY <1>1, <3>1, <4>1, <4>2 DEF Tracked, Recorded
    <3>3. /\ dbFill'[e] = open_order[b]
          /\ \A f \in 1 .. MaxExecs : f # e => dbFill'[f] = dbFill[f]
      BY <3>1 DEF TypeOK, DbTypeOK
    <3> QED BY <1>1, <1>2, <3>2, <3>3 DEF RowsInv
  <2>2. ASSUME ~ RecordFill(b) PROVE UNCHANGED dbFill
    BY <2>2 DEF Process, Tick, Boot, Crash, Poll, PollBreaks, Drain, DropFill, LoseFill,
     SkipFill, SaveTrade, CloseOrder, DrainDone, Flatten, SkipFlatten, FlattenEntry,
     FlattenPosition, Close, SendClose, RecheckClose, CancelLegs, Bar, Probe, NextBar,
     Expire, MarkExpired, CheckPosition, Watch, Restop, WatchEnds, Enter, FindPosition, FindOrders, Analyze,
     ProcessSignal, PlaceOrder, SaveSignal, SaveOrder, Stay, dbVars
  <2> QED BY <1>1, <1>2, <2>1, <2>2 DEF RowsInv
<1>4. \A t \in dbTrades' : \A e \in t : dbFill'[e] # None
  <2>1. dbTrades' \in {dbTrades, dbTrades \cup {pend[b]}}
    BY DEF Process, Tick, Boot, Crash, Poll, PollBreaks, Drain, DropFill, LoseFill,
     SkipFill, RecordFill, SaveTrade, CloseOrder, DrainDone, Flatten, SkipFlatten,
     FlattenEntry, FlattenPosition, Close, SendClose, RecheckClose, CancelLegs, Bar,
     Probe, NextBar, Expire, MarkExpired, CheckPosition, Watch, Restop, WatchEnds, Enter, FindPosition,
     FindOrders, Analyze, ProcessSignal, PlaceOrder, SaveSignal, SaveOrder, Stay, dbVars
  <2>2. \A t \in dbTrades \cup {pend[b]} : \A e \in t : e \in 1 .. MaxExecs /\ dbFill[e] # None
    <3>1. pend[b] \subseteq 1 .. MaxExecs /\ \A e \in pend[b] : dbFill[e] # None
      BY DEF TrackedFillsPersisted, TypeOK, TrackTypeOK
    <3>2. \A t \in dbTrades : t \subseteq 1 .. MaxExecs /\ \A e \in t : dbFill[e] # None
      BY DEF RowsInv, TypeOK, DbTypeOK
    <3> QED BY <3>1, <3>2
  <2>3. \A e \in 1 .. MaxExecs : dbFill[e] # None => dbFill'[e] # None
    BY FillsStaySaved DEF Next
  <2> QED BY <2>1, <2>2, <2>3
<1>5. \A o \in Recorded' : bracket'[o] # "unsent"
  <2>1. CASE SaveOrder(b)
    <3>1. Recorded' \subseteq Recorded \cup {placing[b]} /\ pc[b] \in Saving
      BY <2>1, RowsWritten DEF SaveOrder, At, Saving
    <3> QED BY <1>1, <1>2, <3>1 DEF RowsInv
  <2>2. CASE ~ SaveOrder(b)
    BY <1>1, <1>2, <2>2, RowsWritten DEF RowsInv
  <2> QED BY <2>1, <2>2
<1>6. ASSUME NEW c \in Bots, pc'[c] \in Saving
      PROVE  placing'[c] \in Orders \ Recorded' /\ bracket'[placing'[c]] # "unsent"
  <2>0. c = b
    OBVIOUS
  <2>1. CASE PlaceOrder(b)
    <3>1. /\ placing' = [placing EXCEPT ![b] = Min(Unsent)] /\ Send(b)
          /\ Recorded' = Recorded
      <4>1. ~ Go(b, "bar")
        BY <1>6, <2>0, Moves DEF Saving
      <4>2. ~ SaveOrder(b)
        BY <2>1 DEF PlaceOrder, SaveOrder, At
      <4> QED BY <2>1, <4>1, <4>2, RowsWritten DEF PlaceOrder
    <3>2. Min(Unsent) \in Unsent
      <4>1. Unsent \in SUBSET Nat /\ Unsent # {}
        BY <3>1, LiveOrdersAssumption DEF Send, Unsent, Orders
      <4> QED BY <4>1, MinIn
    <3>3. placing'[b] = Min(Unsent) /\ Min(Unsent) \in Orders /\ bracket[Min(Unsent)] = "unsent"
      BY <3>1, <3>2 DEF Unsent, TypeOK, LoopTypeOK
    <3>4. bracket'[Min(Unsent)] = "entry"
      BY <3>1, <3>3 DEF Send, TypeOK, BrokerTypeOK
    <3> QED BY <2>0, <3>1, <3>3, <3>4 DEF RowsInv
  <2>2. CASE ~ PlaceOrder(b)
    <3>1. pc[c] \in Saving
      BY <1>6, <2>2, ComesToSave
    <3>2. ~ SaveOrder(b)
      <4>1. SaveOrder(b) => Go(b, "bar")
        BY DEF SaveOrder
      <4> QED BY <1>6, <2>0, <4>1, Moves DEF Saving
    <3>3. Recorded' = Recorded
      BY <3>2, RowsWritten
    <3>4. ~ Crash(b)
      <4>1. Crash(b) => Go(b, "down")
        BY DEF Crash
      <4> QED BY <1>6, <2>0, <4>1, Moves DEF Saving
    <3>5. UNCHANGED placing
      BY <2>2, <3>2, <3>4 DEF Process, Tick, Boot, Poll, PollBreaks, Drain, DropFill, LoseFill,
     SkipFill, RecordFill, SaveTrade, CloseOrder, DrainDone, Flatten, SkipFlatten,
     FlattenEntry, FlattenPosition, Close, SendClose, RecheckClose, CancelLegs, Bar,
     Probe, NextBar, Expire, MarkExpired, CheckPosition, Watch, Restop, WatchEnds, Enter, FindPosition,
     FindOrders, Analyze, ProcessSignal, SaveSignal, Stay, sendVars
    <3> QED BY <1>1, <3>1, <3>3, <3>5 DEF RowsInv
  <2> QED BY <2>1, <2>2
<1> QED
  BY <1>3, <1>4, <1>5, <1>6 DEF RowsInv

-----------------------------------------------------------------------------
\* Where no fill is late, the fills of an order run evenly with its replay; a
\* process that tracks fills of the order alone tracks its replay; what is in a
\* trade is not replayed, not even while the trade is being saved.
Single(t) == OneOrder(t) /\ Punctual(t)
Dropped(t) == Single(t) => \A o \in Orders : t \cap Replay(o) = {}
TapeInv == \A o \in Orders \ late : Even(o) /\ Ahead(o)
AtReplay(b, o) == lots[b] = Replay(o) /\ direction[b] = ReplayDirection(o)
TrackInv ==
    \A b \in Bots :
       /\ direction[b] = "none" <=> lots[b] = {}
       /\ pc[b] \notin Filing => \A o \in Orders \ late :
             open_order[b] = o /\ lots[b] \subseteq SavedFills(o) => AtReplay(b, o)
TradesInv ==
    /\ CountedOnce
    /\ \A t \in dbTrades : Dropped(t)
    /\ \A b \in Bots : pc[b] = "saveTrade" =>
          /\ Dropped(pend[b])
          /\ \A t \in dbTrades : Single(t) /\ Single(pend[b]) => t \cap pend[b] = {}
CountedInv == TapeInv /\ TrackInv /\ TradesInv

\* A step that saves no fill of the order leaves its replay as it is.
LEMMA ReplayKept ==
    ASSUME NEW o \in Orders, SavedFills(o)' = SavedFills(o),
           \A e \in SavedFills(o) : execs'[e] = execs[e]
    PROVE  /\ Replay(o)' = Replay(o)
           /\ Replay(o) # {} /\ Min(Replay(o)) \in Replay(o) => ReplayDirection(o)' = ReplayDirection(o)
           /\ Replay(o) = {} => ReplayDirection(o)' = ReplayDirection(o)
           /\ \A s : /\ LotsOn(SavedFills(o), s)' = LotsOn(SavedFills(o), s)
                     /\ LotsOn(Replay(o), s)' = LotsOn(Replay(o), s)
<1> DEFINE S == SavedFills(o)
<1>1. \A L \in SUBSET S : \A s : {f \in L : execs'[f].side = s} = {f \in L : execs[f].side = s}
  OBVIOUS
<1>2. Replay(o)' = Replay(o)
  <2> DEFINE flat == {e \in S : Balanced({f \in S : f <= e})}
  <2>1. \A e, s : {g \in {f \in S : f <= e} : execs'[g].side = s}
                     = {g \in {f \in S : f <= e} : execs[g].side = s}
    BY <1>1
  <2>2. flat' = flat
    BY <2>1 DEF Balanced, LotsOn
  <2> QED BY <2>2 DEF Replay
<1>3. Replay(o) \subseteq S
  BY DEF Replay
<1>4. \A s : /\ LotsOn(SavedFills(o), s)' = LotsOn(SavedFills(o), s)
             /\ LotsOn(Replay(o), s)' = LotsOn(Replay(o), s)
  BY <1>1, <1>2, <1>3 DEF LotsOn
<1> QED
  BY <1>2, <1>3, <1>4 DEF ReplayDirection

\* The first fill of a replay gives it a side.
LEMMA ReplaySide ==
    ASSUME TypeOK, NEW o \in Orders
    PROVE  /\ Replay(o) # {} => Min(Replay(o)) \in Replay(o)
           /\ ReplayDirection(o) = "none" <=> Replay(o) = {}
<1>1. Replay(o) # {} => Min(Replay(o)) \in Replay(o)
  <2>1. Replay(o) \in SUBSET Nat
    BY ReplayFinite
  <2> QED BY <2>1, MinIn
<1>2. \A e \in Replay(o) : execs[e].side # "none"
  BY ReplayFinite, ExecutionSide DEF TypeOK, Sides
<1> QED
  BY <1>1, <1>2 DEF ReplayDirection

\* The replay of an order that gets no fill, in its parts.
LEMMA OrderKept ==
    ASSUME TypeOK, NEW o \in Orders, SavedFills(o)' = SavedFills(o),
           \A e \in SavedFills(o) : execs'[e] = execs[e]
    PROVE  /\ Replay(o)' = Replay(o) /\ ReplayDirection(o)' = ReplayDirection(o)
           /\ Even(o) => Even(o)'
           /\ Ahead(o) => Ahead(o)'
<1>1. /\ Replay(o)' = Replay(o) /\ ReplayDirection(o)' = ReplayDirection(o)
      /\ \A s : /\ LotsOn(SavedFills(o), s)' = LotsOn(SavedFills(o), s)
                /\ LotsOn(Replay(o), s)' = LotsOn(Replay(o), s)
  BY ReplayKept, ReplaySide
<1>2. Even(o) => Even(o)'
  BY <1>1 DEF Even
<1>3. Ahead(o) => Ahead(o)'
  <2>1. \A s : {f \in Replay(o)' : execs'[f].side = s} = {f \in Replay(o) : execs[f].side = s}
    <3>1. Replay(o) \subseteq SavedFills(o)
      BY DEF Replay
    <3> QED BY <1>1, <3>1
  <2>2. Replay(o)' = Replay(o) /\ ReplayDirection(o)' = ReplayDirection(o)
    BY <1>1
  <2>3. \A s : Cardinality({f \in Replay(o)' : execs'[f].side = s})
                  = Cardinality({f \in Replay(o) : execs[f].side = s})
    BY <2>1
  <2>4. LotsOn(Replay(o), ReplayDirection(o))' = LotsOn(Replay(o), ReplayDirection(o))
    <3>1. LotsOn(Replay(o), ReplayDirection(o))'
             = Cardinality({f \in Replay(o)' : execs'[f].side = ReplayDirection(o)'})
      BY DEF LotsOn
    <3>2. LotsOn(Replay(o), ReplayDirection(o))
             = Cardinality({f \in Replay(o) : execs[f].side = ReplayDirection(o)})
      BY DEF LotsOn
    <3> QED BY <2>2, <2>3, <3>1, <3>2
  <2>5. LotsOn(Replay(o), OtherSide(ReplayDirection(o)))' = LotsOn(Replay(o), OtherSide(ReplayDirection(o)))
    <3>1. LotsOn(Replay(o), OtherSide(ReplayDirection(o)))'
             = Cardinality({f \in Replay(o)' : execs'[f].side = OtherSide(ReplayDirection(o)')})
      BY DEF LotsOn, OtherSide
    <3>2. LotsOn(Replay(o), OtherSide(ReplayDirection(o)))
             = Cardinality({f \in Replay(o) : execs[f].side = OtherSide(ReplayDirection(o))})
      BY DEF LotsOn
    <3> QED BY <2>2, <2>3, <3>1, <3>2
  <2> QED BY <2>2, <2>4, <2>5 DEF Ahead
<1> QED
  BY <1>1, <1>2, <1>3

\* Every step but RecordFill keeps every replay.
LEMMA NothingSaved ==
    ASSUME TypeOK, TypeOK', RowsInv, [Next]_vars, UNCHANGED dbFill, NEW o \in Orders
    PROVE  /\ SavedFills(o)' = SavedFills(o)
           /\ Replay(o)' = Replay(o) /\ ReplayDirection(o)' = ReplayDirection(o)
           /\ Even(o) => Even(o)'
           /\ Ahead(o) => Ahead(o)'
<1>1. /\ Len(execs) \in Nat /\ Len(execs') \in Nat /\ Len(execs) <= Len(execs')
      /\ Len(execs') <= MaxExecs
      /\ \A e \in 1 .. Len(execs) : execs'[e] = execs[e]
  BY ExecutionsGrow DEF TypeOK, BrokerTypeOK
<1>2. \A e \in 1 .. Len(execs') : dbFill[e] = o => e \in 1 .. Len(execs)
  <2> SUFFICES ASSUME NEW e \in 1 .. Len(execs'), dbFill[e] = o PROVE e \in 1 .. Len(execs)
    OBVIOUS
  <2>1. e \in 1 .. MaxExecs /\ dbFill[e] # None
    BY <1>1, LiveOrdersAssumption DEF Orders, None
  <2> QED BY <1>1, <2>1 DEF RowsInv
<1>3. SavedFills(o)' = SavedFills(o)
  BY <1>1, <1>2 DEF SavedFills
<1>4. \A e \in SavedFills(o) : execs'[e] = execs[e]
  BY <1>1 DEF SavedFills
<1> QED
  BY <1>3, <1>4, OrderKept

\* A trade means the same after a step that saves no fill.
LEMMA SingleKept ==
    ASSUME UNCHANGED <<dbFill, late>>, NEW t
    PROVE  Single(t)' <=> Single(t)
BY DEF Single, OneOrder, Punctual

-----------------------------------------------------------------------------
\* RecordFill with its execution, and the trade it closes or not.
Filed(b, e) == lots[b] \cup {e}
FiledSide(b, e) == IF IsOpen(b) THEN direction[b] ELSE execs[e].side
RecordOf(b, e) ==
    /\ pc[b] = "drain" /\ e \in 1 .. Len(execs) /\ dbFill[e] = None
    /\ open_order[b] \in Orders
    /\ dbFill' = [dbFill EXCEPT ![e] = open_order[b]]
    /\ late' = late \cup {o \in {open_order[b]} : \E f \in SavedFills(o) : f > e}
    /\ \/ /\ Closes(Filed(b, e), FiledSide(b, e))
          /\ direction'[b] = "none" /\ lots'[b] = {} /\ pend'[b] = Filed(b, e) /\ pc'[b] = "saveTrade"
       \/ /\ ~ Closes(Filed(b, e), FiledSide(b, e))
          /\ direction'[b] = FiledSide(b, e) /\ lots'[b] = Filed(b, e) /\ UNCHANGED <<pend, pc>>
    /\ UNCHANGED <<dbTrades, execs, open_order>>

LEMMA RecordIsOf ==
    ASSUME TypeOK, NEW b \in Bots, RecordFill(b)
    PROVE  \E e \in 1 .. MaxExecs : RecordOf(b, e)
<1>1. /\ direction \in [Bots -> Sides \cup {"none"}] /\ pc \in [Bots -> Steps]
      /\ lots \in [Bots -> SUBSET (1 .. MaxExecs)] /\ pend \in [Bots -> SUBSET (1 .. MaxExecs)]
  BY DEF TypeOK, TrackTypeOK, LoopTypeOK
<1>2. PICK e \in 1 .. MaxExecs :
        /\ NextFill(b, e) /\ dbFill[e] = None /\ Tracked(b)
        /\ dbFill' = [dbFill EXCEPT ![e] = open_order[b]]
        /\ late' = late \cup {o \in {open_order[b]} : \E f \in SavedFills(o) : f > e}
        /\ IF Closes(Filed(b, e), FiledSide(b, e))
           THEN /\ direction' = [direction EXCEPT ![b] = "none"]
                /\ lots' = [lots EXCEPT ![b] = {}]
                /\ pend' = [pend EXCEPT ![b] = Filed(b, e)]
                /\ Go(b, "saveTrade")
           ELSE /\ direction' = [direction EXCEPT ![b] = FiledSide(b, e)]
                /\ lots' = [lots EXCEPT ![b] = Filed(b, e)]
                /\ UNCHANGED <<pend, pc>>
        /\ UNCHANGED <<dbTrades, execs, open_order>>
  BY DEF RecordFill, Filed, FiledSide, brokerVars
<1>3. e \in 1 .. Len(execs) /\ pc[b] = "drain"
  <2>1. 1 \in DOMAIN chan[b] /\ e = chan[b][1] /\ pc[b] = "drain"
    BY <1>2 DEF NextFill, At, TypeOK, FeedTypeOK
  <2> QED BY <2>1 DEF TypeOK, FeedTypeOK
<1>4. open_order[b] \in Orders
  BY <1>2, LiveOrdersAssumption DEF Tracked, TypeOK, TrackTypeOK, Orders, None
<1>5. CASE Closes(Filed(b, e), FiledSide(b, e))
  <2>1. direction'[b] = "none" /\ lots'[b] = {} /\ pend'[b] = Filed(b, e) /\ pc'[b] = "saveTrade"
    BY <1>1, <1>2, <1>5 DEF Go
  <2> QED BY <1>2, <1>3, <1>4, <1>5, <2>1 DEF RecordOf
<1>6. CASE ~ Closes(Filed(b, e), FiledSide(b, e))
  <2>1. direction'[b] = FiledSide(b, e) /\ lots'[b] = Filed(b, e) /\ UNCHANGED <<pend, pc>>
    BY <1>1, <1>2, <1>6
  <2> QED BY <1>2, <1>3, <1>4, <1>6, <2>1 DEF RecordOf
<1> QED
  BY <1>5, <1>6

\* What the save of a fill does to the fills of each order, and which orders it
\* leaves punctual.
LEMMA RecordFills ==
    ASSUME TypeOK, TypeOK', NEW b \in Bots, NEW e \in 1 .. MaxExecs, RecordOf(b, e)
    PROVE  /\ \A o \in Orders : SavedFills(o)' = IF o = open_order[b] THEN SavedFills(o) \cup {e}
                                                                     ELSE SavedFills(o)
           /\ dbFill'[e] = open_order[b]
           /\ \A f \in 1 .. MaxExecs : f # e => dbFill'[f] = dbFill[f]
           /\ late \subseteq late'
           /\ open_order[b] \notin late' => \A f \in SavedFills(open_order[b]) : f < e
<1>1. /\ dbFill'[e] = open_order[b]
      /\ \A f \in 1 .. MaxExecs : f # e => dbFill'[f] = dbFill[f]
  BY DEF RecordOf, TypeOK, DbTypeOK
<1>2. Len(execs) \in Nat /\ Len(execs) <= MaxExecs /\ UNCHANGED execs /\ MaxExecs \in Nat
  BY LiveOrdersAssumption DEF RecordOf, TypeOK, BrokerTypeOK
<1>3. \A f \in 1 .. Len(execs) : f \in 1 .. MaxExecs
  BY <1>2
<1>4. e \in 1 .. Len(execs) /\ dbFill[e] = None /\ \A o \in Orders : o # None
  BY DEF RecordOf, Orders, None
<1>5. \A o \in Orders : SavedFills(o)' = IF o = open_order[b] THEN SavedFills(o) \cup {e}
                                                             ELSE SavedFills(o)
  BY <1>1, <1>2, <1>3, <1>4 DEF SavedFills
<1>6. ASSUME open_order[b] \notin late', NEW f \in SavedFills(open_order[b]) PROVE f < e
  <2>1. ~ (f > e)
    BY <1>6 DEF RecordOf
  <2>2. f # e
    BY <1>4, <1>6 DEF SavedFills, RecordOf
  <2>3. f \in Int /\ e \in Int
    BY <1>2 DEF SavedFills
  <2> QED BY <2>1, <2>2, <2>3
<1>7. late \subseteq late'
  BY DEF RecordOf
<1> QED
  BY <1>1, <1>5, <1>6, <1>7

\* A process that tracks fills of its order alone closes its trade with the replay,
\* or stays at it.
LEMMA RecordTracks ==
    ASSUME TypeOK, TypeOK', TrackedFillsPersisted, RowsInv, TapeInv, TrackInv,
           NEW b \in Bots, NEW e \in 1 .. MaxExecs, RecordOf(b, e),
           NEW o \in Orders \ late', o = open_order[b]
    PROVE  /\ Even(o)' /\ Ahead(o)' /\ Replay(o)' \subseteq Replay(o) \cup {e}
           /\ lots[b] \subseteq SavedFills(o) =>
                /\ lots[b] = Replay(o)
                /\ Closes(Filed(b, e), FiledSide(b, e)) => Replay(o)' = {}
                /\ ~ Closes(Filed(b, e), FiledSide(b, e)) =>
                      Replay(o)' = Filed(b, e) /\ ReplayDirection(o)' = FiledSide(b, e)
<1>1. /\ SavedFills(o)' = SavedFills(o) \cup {e} /\ (\A f \in SavedFills(o) : f < e)
      /\ o \notin late
  BY RecordFills
<1>2. Even(o) /\ Ahead(o)
  BY <1>1 DEF TapeInv
<1>3. e \in 1 .. Len(execs) /\ UNCHANGED execs /\ pc[b] = "drain"
  BY DEF RecordOf
<1> DEFINE d == IF Replay(o) = {} THEN execs[e].side ELSE ReplayDirection(o)
<1>4. /\ Even(o)' /\ Ahead(o)'
      /\ Closes(Replay(o) \cup {e}, d) => Replay(o)' = {}
      /\ ~ Closes(Replay(o) \cup {e}, d) =>
            Replay(o)' = Replay(o) \cup {e} /\ ReplayDirection(o)' = d
  BY <1>1, <1>2, <1>3, TrackerFollows
<1>5. ASSUME lots[b] \subseteq SavedFills(o)
      PROVE  lots[b] = Replay(o) /\ Filed(b, e) = Replay(o) \cup {e} /\ FiledSide(b, e) = d
  <2>1. AtReplay(b, o)
    BY <1>1, <1>3, <1>5 DEF TrackInv, Filing
  <2>2. IsOpen(b) <=> Replay(o) # {}
    BY <2>1 DEF TrackInv, IsOpen, AtReplay
  <2> QED BY <2>1, <2>2 DEF AtReplay, Filed, FiledSide
<1> HIDE DEF d
<1> QED
  BY <1>4, <1>5

\* The save of a fill keeps CountedInv.
LEMMA CountedRecord ==
    ASSUME TypeOK, TypeOK', TrackedFillsPersisted, RowsInv, CountedInv, \A c, d \in Bots : c = d,
           NEW b \in Bots, RecordFill(b)
    PROVE  CountedInv'
<1>1. PICK e \in 1 .. MaxExecs : RecordOf(b, e)
  BY RecordIsOf
<1>a. open_order[b] \in Orders
  BY <1>1 DEF RecordOf
<1>q. PICK q \in Orders : q = open_order[b]
  BY <1>a
<1>2. /\ \A o \in Orders : SavedFills(o)' = IF o = q THEN SavedFills(o) \cup {e} ELSE SavedFills(o)
      /\ dbFill'[e] = q
      /\ \A f \in 1 .. MaxExecs : f # e => dbFill'[f] = dbFill[f]
      /\ late \subseteq late'
  BY <1>1, <1>q, RecordFills
<1>3. TapeInv /\ TrackInv /\ TradesInv
  BY DEF CountedInv
<1>4. q \in Orders /\ dbFill[e] = None /\ UNCHANGED <<dbTrades, execs, open_order>> /\ pc[b] = "drain"
  BY <1>1, <1>q DEF RecordOf
<1>5. ASSUME NEW o \in Orders, o # q
      PROVE  /\ Replay(o)' = Replay(o) /\ ReplayDirection(o)' = ReplayDirection(o)
             /\ Even(o) => Even(o)'
             /\ Ahead(o) => Ahead(o)'
  BY <1>2, <1>4, <1>5, OrderKept
<1>6. ASSUME q \notin late'
      PROVE  /\ Even(q)' /\ Ahead(q)' /\ Replay(q)' \subseteq Replay(q) \cup {e}
             /\ lots[b] \subseteq SavedFills(q) =>
                  /\ lots[b] = Replay(q)
                  /\ Closes(Filed(b, e), FiledSide(b, e)) => Replay(q)' = {}
                  /\ ~ Closes(Filed(b, e), FiledSide(b, e)) =>
                        Replay(q)' = Filed(b, e) /\ ReplayDirection(q)' = FiledSide(b, e)
  BY <1>1, <1>3, <1>6, <1>q, RecordTracks
<1>7. TapeInv'
  <2> SUFFICES ASSUME NEW o \in Orders \ late' PROVE Even(o)' /\ Ahead(o)'
    BY DEF TapeInv
  <2> QED BY <1>2, <1>3, <1>5, <1>6 DEF TapeInv
<1>8. /\ e \notin lots[b] /\ lots[b] \subseteq 1 .. MaxExecs
      /\ \A f \in lots[b] : f \in 1 .. Len(execs) /\ dbFill[f] # None
  <2>1. lots[b] \subseteq 1 .. MaxExecs /\ \A f \in lots[b] : dbFill[f] # None
    BY DEF TrackedFillsPersisted, TypeOK, TrackTypeOK
  <2>2. Len(execs) \in Nat
    BY DEF TypeOK, BrokerTypeOK
  <2> QED BY <1>4, <2>1, <2>2 DEF RowsInv
<1>9. TrackInv'
  <2>1. ASSUME Closes(Filed(b, e), FiledSide(b, e)) PROVE TrackInv'
    <3>1. direction'[b] = "none" /\ lots'[b] = {} /\ pc'[b] = "saveTrade"
      BY <1>1, <2>1 DEF RecordOf
    <3> QED BY <3>1 DEF TrackInv, Filing
  <2>2. ASSUME ~ Closes(Filed(b, e), FiledSide(b, e)) PROVE TrackInv'
    <3>1. direction'[b] = FiledSide(b, e) /\ lots'[b] = Filed(b, e) /\ UNCHANGED pc
      BY <1>1, <2>2 DEF RecordOf
    <3>2. direction'[b] # "none" /\ lots'[b] # {}
      <4>1. execs[e].side \in Sides
        BY <1>1, ExecutionSide DEF RecordOf, TypeOK
      <4> QED BY <3>1, <4>1 DEF FiledSide, Filed, IsOpen, Sides
    <3>3. ASSUME NEW o \in Orders \ late', open_order'[b] = o, lots'[b] \subseteq SavedFills(o)'
          PROVE  lots'[b] = Replay(o)' /\ direction'[b] = ReplayDirection(o)'
      <4>1. o = q
        BY <1>4, <1>q, <3>3
      <4>2. lots[b] \subseteq SavedFills(q)
        BY <1>2, <1>4, <1>8, <3>1, <3>3, <4>1 DEF Filed
      <4> QED BY <1>6, <2>2, <3>1, <3>3, <4>1, <4>2
    <3>4. TrackInv' <=> \A c \in Bots :
              /\ direction'[c] = "none" <=> lots'[c] = {}
              /\ pc'[c] \notin Filing => \A o \in Orders \ late' :
                    open_order'[c] = o /\ lots'[c] \subseteq SavedFills(o)'
                       => lots'[c] = Replay(o)' /\ direction'[c] = ReplayDirection(o)'
      BY DEF TrackInv, AtReplay
    <3>5. \A c \in Bots : c = b
      OBVIOUS
    <3> QED BY <3>2, <3>3, <3>4, <3>5
  <2> QED BY <2>1, <2>2
<1>10. ASSUME NEW t \in dbTrades, Single(t)'
       PROVE  Single(t) /\ e \notin t /\ \A f \in t : f \in 1 .. MaxExecs /\ dbFill'[f] = dbFill[f]
  <2>1. \A f \in t : f \in 1 .. MaxExecs /\ dbFill[f] # None
    BY DEF RowsInv, TypeOK, DbTypeOK
  <2>2. e \notin t /\ \A f \in t : dbFill'[f] = dbFill[f]
    BY <1>2, <1>4, <2>1
  <2>3. Single(t)
    BY <1>2, <1>10, <2>2 DEF Single, OneOrder, Punctual
  <2> QED BY <2>1, <2>2, <2>3
<1>11. ASSUME NEW t \in dbTrades, Single(t)', NEW o \in Orders
       PROVE  t \cap Replay(o)' = {}
  <2> SUFFICES ASSUME NEW f \in t, f \in Replay(o)' PROVE FALSE
    OBVIOUS
  <2>1. f # e /\ f \in 1 .. MaxExecs /\ t \cap Replay(o) = {}
    BY <1>3, <1>10, <1>11 DEF TradesInv, Dropped
  <2>2. dbFill'[f] = o /\ o \notin late'
    BY <1>11 DEF Replay, SavedFills, Single, Punctual
  <2> QED BY <1>5, <1>6, <2>1, <2>2
<1>12. ASSUME NEW P, P = Filed(b, e), Closes(Filed(b, e), FiledSide(b, e)), Single(P)'
       PROVE  /\ \A o \in Orders : P \cap Replay(o)' = {}
              /\ \A t \in dbTrades : Single(t)' => t \cap P = {}
  <2>1. (\A f \in P : dbFill'[f] = q) /\ q \notin late'
    <3>1. e \in P
      BY <1>12 DEF Filed
    <3> QED BY <1>2, <1>12, <3>1 DEF Single, OneOrder, Punctual
  <2>2. P = lots[b] \cup {e}
    BY <1>12 DEF Filed
  <2>3. lots[b] \subseteq SavedFills(q)
    <3>1. \A f \in lots[b] : f # e /\ f \in 1 .. MaxExecs /\ f \in P
      BY <1>8, <2>2
    <3>2. \A f \in lots[b] : dbFill[f] = q
      BY <1>2, <2>1, <3>1
    <3> QED BY <1>8, <3>2 DEF SavedFills
  <2>4. lots[b] = Replay(q) /\ Replay(q)' = {}
    BY <1>6, <1>12, <2>1, <2>3
  <2>5. ASSUME NEW o \in Orders, NEW f \in P, f \in Replay(o)' PROVE FALSE
    <3>1. dbFill'[f] = o
      BY <2>5 DEF Replay, SavedFills
    <3> QED BY <2>1, <2>4, <2>5, <3>1
  <2>6. ASSUME NEW t \in dbTrades, Single(t)', NEW f \in t, f \in P PROVE FALSE
    <3>1. Single(t) /\ f # e
      BY <1>10, <2>6
    <3>2. f \in Replay(q)
      BY <2>2, <2>4, <2>6, <3>1
    <3> QED BY <1>3, <1>4, <2>6, <3>1, <3>2 DEF TradesInv, Dropped
  <2> QED BY <2>5, <2>6
<1>13. TradesInv'
  <2>1. CountedOnce'
    BY <1>3, <1>4, <1>10 DEF TradesInv, CountedOnce, Single
  <2>2. \A t \in dbTrades' : Dropped(t)'
    BY <1>4, <1>11 DEF Dropped
  <2>3. ASSUME pc'[b] = "saveTrade"
        PROVE  /\ Dropped(pend[b])'
               /\ \A t \in dbTrades' : Single(t)' /\ Single(pend[b])' => t \cap pend'[b] = {}
    <3>1. Closes(Filed(b, e), FiledSide(b, e)) /\ pend'[b] = Filed(b, e)
      BY <1>1, <1>4, <2>3 DEF RecordOf
    <3>2. PICK P : P = Filed(b, e)
      OBVIOUS
    <3>3. Single(pend[b])' <=> Single(P)'
      BY <3>1, <3>2 DEF Single, OneOrder, Punctual
    <3> QED BY <1>4, <1>12, <3>1, <3>2, <3>3 DEF Dropped
  <2>4. \A c \in Bots : c = b
    OBVIOUS
  <2> QED BY <2>1, <2>2, <2>3, <2>4 DEF TradesInv
<1> QED
  BY <1>7, <1>9, <1>13 DEF CountedInv

-----------------------------------------------------------------------------
\* What the other steps of the only process do to its tracker and its order.
LEMMA TrackerMoves ==
    ASSUME TypeOK, NEW b \in Bots, Process(b), ~ RecordFill(b), ~ Boot(b), ~ Crash(b)
    PROVE  /\ UNCHANGED <<dbFill, late, lots, direction>>
           /\ ~ SaveTrade(b) => UNCHANGED dbTrades
           /\ ~ SaveOrder(b) => open_order'[b] \in {open_order[b], None}
           /\ CloseOrder(b) => open_order'[b] = None /\ pc'[b] = "drain"
           /\ ~ CloseOrder(b) => UNCHANGED pend
           /\ pc'[b] # "saveTrade" \/ pc[b] = "saveTrade"
           /\ ~ SaveTrade(b) /\ ~ CloseOrder(b) =>
                 pc'[b] = pc[b] \/ (pc[b] \notin Memory /\ pc'[b] \notin Memory)
<1>1. CASE SaveTrade(b)
  BY <1>1, Moves DEF SaveTrade, CloseOrder, SaveOrder, At, trackVars
<1>2. CASE CloseOrder(b)
  <2>1. /\ UNCHANGED <<dbFill, dbTrades, late, lots, direction>>
        /\ ~ SaveTrade(b) /\ ~ SaveOrder(b) /\ pc'[b] = "drain"
    BY <1>2, Moves DEF SaveTrade, CloseOrder, SaveOrder, At
  <2>2. open_order'[b] = None
    BY <1>2 DEF CloseOrder, Forget, TypeOK, TrackTypeOK
  <2> QED BY <1>2, <2>1, <2>2
<1>3. CASE ~ SaveTrade(b) /\ ~ CloseOrder(b)
  <2>1. /\ UNCHANGED <<dbFill, dbTrades, late, lots, pend, direction>>
        /\ pc'[b] = pc[b] \/ (pc[b] \notin Memory /\ pc'[b] \notin Memory)
    BY <1>3, OtherSteps
  <2>2. ASSUME FlattenEntry(b) \/ MarkExpired(b) PROVE open_order'[b] \in {open_order[b], None}
    BY <2>2 DEF FlattenEntry, MarkExpired, Forget, TypeOK, TrackTypeOK
  <2>3. ASSUME ~ (FlattenEntry(b) \/ MarkExpired(b) \/ SaveOrder(b)) PROVE UNCHANGED open_order
    BY <1>3, <2>3 DEF Process, Tick, Poll, PollBreaks, Drain, DropFill, LoseFill, SkipFill, DrainDone,
       Flatten, SkipFlatten, FlattenPosition, Close, SendClose, RecheckClose, CancelLegs, Bar,
       Probe, NextBar, Expire, CheckPosition, Watch, Restop, WatchEnds, Enter,
       FindPosition, FindOrders, Analyze, ProcessSignal, PlaceOrder, SaveSignal, Stay, trackVars
  <2> QED BY <1>3, <2>1, <2>2, <2>3 DEF Memory, Filing
<1> QED
  BY <1>1, <1>2, <1>3

\* The other steps of the only process keep CountedInv.
LEMMA CountedProcess ==
    ASSUME TypeOK, TypeOK', TrackedFillsPersisted, RowsInv, CountedInv, \A c, d \in Bots : c = d,
           NEW b \in Bots, Process(b), ~ RecordFill(b)
    PROVE  CountedInv'
<1>0. TapeInv /\ TrackInv /\ TradesInv
  BY DEF CountedInv
<1>b. \A c \in Bots : c = b
  OBVIOUS
<1>1. UNCHANGED <<dbFill, late>>
  BY TrackerMoves DEF Boot, Crash, dbVars
<1>2. ASSUME NEW o \in Orders
      PROVE  /\ SavedFills(o)' = SavedFills(o)
             /\ Replay(o)' = Replay(o) /\ ReplayDirection(o)' = ReplayDirection(o)
             /\ Even(o) => Even(o)'
             /\ Ahead(o) => Ahead(o)'
  BY <1>1, NothingSaved DEF Next
<1>3. TapeInv'
  BY <1>0, <1>1, <1>2 DEF TapeInv
<1>4. /\ TrackInv' <=> /\ direction'[b] = "none" <=> lots'[b] = {}
                       /\ pc'[b] \notin Filing => \A o \in Orders \ late :
                             open_order'[b] = o /\ lots'[b] \subseteq SavedFills(o)
                                => lots'[b] = Replay(o) /\ direction'[b] = ReplayDirection(o)
  BY <1>1, <1>2, <1>b DEF TrackInv, AtReplay
<1>5. \A t : Single(t)' <=> Single(t)
  BY <1>1, SingleKept
<1>6. /\ TradesInv' <=>
           /\ \A t, u \in dbTrades' : Single(t) /\ Single(u) /\ t # u => t \cap u = {}
           /\ \A t \in dbTrades' : Single(t) => \A o \in Orders : t \cap Replay(o) = {}
           /\ pc'[b] = "saveTrade" =>
                /\ Single(pend[b])' => \A o \in Orders : pend'[b] \cap Replay(o) = {}
                /\ \A t \in dbTrades' : Single(t) /\ Single(pend[b])' => t \cap pend'[b] = {}
  <2>1. CountedOnce' <=> \A t, u \in dbTrades' : Single(t) /\ Single(u) /\ t # u => t \cap u = {}
    BY <1>5 DEF CountedOnce, Single
  <2>2. \A t \in dbTrades' : Dropped(t)' <=> (Single(t) => \A o \in Orders : t \cap Replay(o) = {})
    BY <1>2, <1>5 DEF Dropped
  <2>3. Dropped(pend[b])' <=> (Single(pend[b])' => \A o \in Orders : pend'[b] \cap Replay(o) = {})
    BY <1>2 DEF Dropped
  <2> QED BY <1>5, <1>b, <2>1, <2>2, <2>3 DEF TradesInv
<1>7. /\ \A t, u \in dbTrades : Single(t) /\ Single(u) /\ t # u => t \cap u = {}
      /\ \A t \in dbTrades : Single(t) => \A o \in Orders : t \cap Replay(o) = {}
      /\ pc[b] = "saveTrade" =>
           /\ Single(pend[b]) => \A o \in Orders : pend[b] \cap Replay(o) = {}
           /\ \A t \in dbTrades : Single(t) /\ Single(pend[b]) => t \cap pend[b] = {}
  BY <1>0 DEF TradesInv, CountedOnce, Dropped, Single
<1>8. CASE Boot(b) \/ Crash(b)
  <2>1. UNCHANGED dbTrades /\ pc'[b] \in {"drain", "down"}
    BY <1>8, Moves DEF Boot, Crash, dbVars
  <2>2. TradesInv'
    BY <1>6, <1>7, <2>1
  <2>3. CASE Boot(b)
    <3>1. PICK o \in {Recoverable} \cup (IF Fault("db") THEN {None} ELSE {}) :
            /\ open_order' = [open_order EXCEPT ![b] = o]
            /\ lots' = [lots EXCEPT ![b] = IF o = None THEN {} ELSE Replay(o)]
            /\ direction' = [direction EXCEPT ![b] = IF o = None THEN "none" ELSE ReplayDirection(o)]
      BY <2>3 DEF Boot
    <3>2. /\ open_order'[b] = o
          /\ lots'[b] = IF o = None THEN {} ELSE Replay(o)
          /\ direction'[b] = IF o = None THEN "none" ELSE ReplayDirection(o)
      BY <3>1 DEF TypeOK, TrackTypeOK
    <3>3. o = None \/ o \in Orders
      BY <3>1, RecoverableType, LiveOrdersAssumption DEF None, Orders
    <3>4. \A p \in Orders : p # None
      BY DEF Orders, None
    <3>5. direction'[b] = "none" <=> lots'[b] = {}
      BY <3>2, <3>3, ReplaySide
    <3> QED BY <1>3, <1>4, <2>2, <3>2, <3>3, <3>4, <3>5 DEF CountedInv
  <2>4. CASE Crash(b)
    <3>1. open_order'[b] = None /\ lots'[b] = {} /\ direction'[b] = "none"
      BY <2>4 DEF Crash, TypeOK, TrackTypeOK
    <3>2. \A p \in Orders : p # None
      BY DEF Orders, None
    <3> QED BY <1>3, <1>4, <2>2, <3>1, <3>2 DEF CountedInv
  <2> QED BY <1>8, <2>3, <2>4
<1>9. CASE ~ Boot(b) /\ ~ Crash(b)
  <2>1. /\ UNCHANGED <<lots, direction>>
        /\ ~ SaveTrade(b) => UNCHANGED dbTrades
        /\ ~ SaveOrder(b) => open_order'[b] \in {open_order[b], None}
        /\ CloseOrder(b) => open_order'[b] = None /\ pc'[b] = "drain"
        /\ ~ CloseOrder(b) => UNCHANGED pend
        /\ pc'[b] # "saveTrade" \/ pc[b] = "saveTrade"
        /\ ~ SaveTrade(b) /\ ~ CloseOrder(b) =>
              pc'[b] = pc[b] \/ (pc[b] \notin Memory /\ pc'[b] \notin Memory)
    BY <1>9, TrackerMoves
  <2>2. /\ direction[b] = "none" <=> lots[b] = {}
        /\ pc[b] \notin Filing => \A o \in Orders \ late :
              open_order[b] = o /\ lots[b] \subseteq SavedFills(o)
                 => lots[b] = Replay(o) /\ direction[b] = ReplayDirection(o)
    BY <1>0 DEF TrackInv, AtReplay
  <2>3. \A p \in Orders : p # None
    BY DEF Orders, None
  <2>4. CASE SaveTrade(b)
    <3>1. /\ dbTrades' \in {dbTrades, dbTrades \cup {pend[b]}} /\ pc[b] = "saveTrade"
          /\ pc'[b] = "closeOrder" /\ UNCHANGED pend
      BY <2>4, Moves DEF SaveTrade, At, trackVars
    <3>2. TradesInv'
      BY <1>6, <1>7, <3>1
    <3>3. TrackInv'
      BY <1>4, <2>1, <2>2, <3>1 DEF Filing
    <3> QED BY <1>3, <3>2, <3>3 DEF CountedInv
  <2>5. CASE SaveOrder(b)
    <3>1. /\ open_order'[b] = placing[b] /\ pc[b] \in Saving /\ pc'[b] = "bar"
          /\ UNCHANGED dbTrades
      BY <2>5, Moves DEF SaveOrder, At, Saving, TypeOK, TrackTypeOK
    <3>2. placing[b] \in Orders \ Recorded
      BY <3>1 DEF RowsInv
    <3>3. SavedFills(placing[b]) = {}
      <4> SUFFICES ASSUME NEW f \in SavedFills(placing[b]) PROVE FALSE
        OBVIOUS
      <4>1. f \in 1 .. MaxExecs /\ dbFill[f] = placing[b]
        BY LiveOrdersAssumption DEF SavedFills, TypeOK, BrokerTypeOK
      <4> QED BY <2>3, <3>2, <4>1 DEF RowsInv
    <3>4. Replay(placing[b]) = {} /\ ReplayDirection(placing[b]) = "none"
      BY <3>3 DEF Replay, ReplayDirection
    <3>5. TrackInv'
      BY <1>4, <2>1, <2>2, <3>1, <3>3, <3>4
    <3>6. TradesInv'
      BY <1>6, <1>7, <3>1
    <3> QED BY <1>3, <3>5, <3>6 DEF CountedInv
  <2>6. CASE CloseOrder(b)
    <3>1. ~ SaveTrade(b) /\ open_order'[b] = None /\ pc'[b] = "drain"
      BY <2>1, <2>6 DEF SaveTrade, CloseOrder, At
    <3>2. TrackInv'
      BY <1>4, <2>1, <2>2, <2>3, <3>1
    <3>3. TradesInv'
      BY <1>6, <1>7, <2>1, <3>1
    <3> QED BY <1>3, <3>2, <3>3 DEF CountedInv
  <2>7. CASE ~ SaveTrade(b) /\ ~ SaveOrder(b) /\ ~ CloseOrder(b)
    <3>1. UNCHANGED <<dbTrades, pend>> /\ open_order'[b] \in {open_order[b], None}
      BY <2>1, <2>7
    <3>2. pc'[b] \notin Filing => pc[b] \notin Filing
      BY <2>1, <2>7 DEF Memory
    <3>3. TrackInv'
      BY <1>4, <2>1, <2>2, <2>3, <3>1, <3>2
    <3>4. Single(pend[b])' <=> Single(pend[b])
      BY <1>1, <3>1 DEF Single, OneOrder, Punctual
    <3>5. TradesInv'
      BY <1>6, <1>7, <2>1, <3>1, <3>4
    <3> QED BY <1>3, <3>3, <3>5 DEF CountedInv
  <2> QED BY <2>4, <2>5, <2>6, <2>7
<1> QED
  BY <1>8, <1>9

\* A step of the account keeps both.
LEMMA CountedBroker ==
    ASSUME TypeOK, TypeOK', RowsInv, CountedInv, [Next]_vars, Broker \/ UNCHANGED vars
    PROVE  RowsInv' /\ CountedInv'
<1>1. /\ UNCHANGED <<dbOrder, dbFill, dbTrades, late>>
      /\ UNCHANGED <<open_order, direction, lots, pend, pc, placing>>
  BY DEF Broker, vars, dbVars, trackVars, sendVars
<1>2. ASSUME NEW o \in Orders
      PROVE  /\ SavedFills(o)' = SavedFills(o)
             /\ Replay(o)' = Replay(o) /\ ReplayDirection(o)' = ReplayDirection(o)
             /\ Even(o) => Even(o)'
             /\ Ahead(o) => Ahead(o)'
  BY <1>1, NothingSaved
<1>3. \A t : Single(t)' <=> Single(t)
  BY <1>1, SingleKept
<1>4. \A c \in Bots : Single(pend[c])' <=> Single(pend[c])
  BY <1>1 DEF Single, OneOrder, Punctual
<1>5. RowsInv'
  <2>1. Len(execs) \in Nat /\ Len(execs') \in Nat /\ Len(execs) <= Len(execs')
    BY ExecutionsGrow
  <2>2. \A e \in 1 .. MaxExecs : e <= Len(execs) => e <= Len(execs')
    BY <2>1, LiveOrdersAssumption
  <2>3. \A o \in Orders : bracket[o] # "unsent" => bracket'[o] # "unsent"
    BY SentStays
  <2>4. Recorded' = Recorded /\ Recorded \subseteq Orders
    BY <1>1 DEF Recorded
  <2> QED BY <1>1, <2>2, <2>3, <2>4 DEF RowsInv
<1>6. TapeInv'
  BY <1>1, <1>2 DEF CountedInv, TapeInv
<1>7. TrackInv'
  BY <1>1, <1>2 DEF CountedInv, TrackInv, AtReplay
<1>8. TradesInv'
  <2>1. CountedOnce'
    BY <1>1 DEF CountedInv, TradesInv, CountedOnce, OneOrder, Punctual
  <2>2. \A t : Dropped(t)' <=> Dropped(t)
    BY <1>2, <1>3 DEF Dropped
  <2>3. \A c \in Bots : Dropped(pend[c])' <=> Dropped(pend[c])
    BY <1>1, <1>2, <1>4 DEF Dropped
  <2> QED BY <1>1, <1>3, <1>4, <2>1, <2>2, <2>3 DEF CountedInv, TradesInv
<1> QED
  BY <1>5, <1>6, <1>7, <1>8 DEF CountedInv

\* "nunca contam P&L em dobro" (drain_order_events): for the one process of a
\* symbol, whatever fails and however often it restarts, an execution is part of
\* one trade at the most, among the trades whose fills were saved under one order
\* and in the order they were executed.  The replay of the recovery stops short of
\* what has closed because what it leaves is what the tracker holds.
THEOREM CountedOnceSafe ==
    ASSUME \A c, d \in Bots : c = d
    PROVE  Spec => []CountedOnce
<1>1. ASSUME Init PROVE RowsInv /\ CountedInv
  <2>1. Len(execs) = 0 /\ dbTrades = {} /\ Recorded = {}
    BY <1>1 DEF Init, Recorded
  <2>2. RowsInv
    BY <1>1, <2>1 DEF Init, RowsInv, Saving
  <2>3. \A o \in Orders : SavedFills(o) = {} /\ Replay(o) = {}
    BY <2>1 DEF SavedFills, Replay
  <2>4. \A o \in Orders : Even(o) /\ Ahead(o)
    <3>1. \A s : LotsOn({}, s) = Cardinality({})
      BY DEF LotsOn
    <3> QED BY <2>3, <3>1, FS_EmptySet DEF Even, Ahead
  <2>5. TapeInv
    BY <2>4 DEF TapeInv
  <2>6. TrackInv
    BY <1>1 DEF Init, TrackInv, None, Orders
  <2>7. TradesInv
    BY <1>1, <2>1 DEF Init, TradesInv, CountedOnce
  <2> QED BY <2>2, <2>5, <2>6, <2>7 DEF CountedInv
<1>2. ASSUME TypeOK, TypeOK', TrackedFillsPersisted, RowsInv, CountedInv, [Next]_vars
      PROVE  RowsInv' /\ CountedInv'
  <2>1. CASE Broker \/ UNCHANGED vars
    BY <1>2, <2>1, CountedBroker
  <2>2. ASSUME NEW b \in Bots, Process(b) PROVE RowsInv' /\ CountedInv'
    <3>1. RowsInv'
      BY <1>2, <2>2, RowsProcess
    <3>2. CASE RecordFill(b)
      BY <1>2, <3>1, <3>2, CountedRecord
    <3>3. CASE ~ RecordFill(b)
      BY <1>2, <2>2, <3>1, <3>3, CountedProcess
    <3> QED BY <3>1, <3>2, <3>3
  <2> QED BY <1>2, <2>1, <2>2 DEF Next
<1>3. CountedInv => CountedOnce
  BY DEF CountedInv, TradesInv
<1> QED
  BY <1>1, <1>2, <1>3, TypeCorrect, TrackedFillsSafe, PTL DEF Spec
=============================================================================
